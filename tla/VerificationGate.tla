-------------------------- MODULE VerificationGate --------------------------
(***************************************************************************)
(* verification.py: the gate that binds passing checks to one content of   *)
(* the workspace, and execute_tool_batch, which runs the tool calls of one *)
(* assistant message and decides its submissions last.  run_tests is the   *)
(* verification matrix of checks.py.  Other modules give the session in    *)
(* which batches run; something else may write to the workspace at any     *)
(* step.                                                                   *)
(***************************************************************************)
EXTENDS Naturals

CONSTANTS Content,     \* contents of the workspace: a fingerprint is the content
          None,        \* no fingerprint
          Checks,      \* number of configured verification checks
          MaxBatch,    \* tool calls of one message
          MaxWrites    \* bound on writes from outside

ASSUME GateAssumption ==
    /\ None \notin Content
    /\ Checks \in Nat \ {0} /\ MaxBatch \in Nat \ {0} /\ MaxWrites \in Nat

VARIABLES
    workspace,    \* the workspace's content
    gate,         \* the session's VerificationGate
    batch,        \* the batch in progress: point and locals of execute_tool_batch
    tested,       \* history: contents on which every check of one run_tests passed
    last,         \* history: how the latest run_tests ended
    writes        \* counter against MaxWrites

gateVars == <<workspace, gate, batch, tested, last, writes>>

----------------------------------------------------------------------------
(* The gate *)

Gate == [baseline : Content, current : Content, verified : Content \cup {None},
         status : {"not_required", "required", "passed", "failed"},
         has_changes : BOOLEAN, require_verification : BOOLEAN]

Create(c, required) ==
    [baseline |-> c, current |-> c, verified |-> None,
     status |-> IF required THEN "required" ELSE "not_required",
     has_changes |-> FALSE, require_verification |-> required]

(* failed is sticky: only another run_tests ends it. *)
Sync(g, c) ==
    LET changed == c # g.baseline
    IN  [g EXCEPT !.current = c, !.has_changes = changed,
                  !.status = IF g.status = "failed" THEN "failed"
                             ELSE IF c = g.verified THEN "passed"
                             ELSE IF changed \/ g.require_verification THEN "required"
                             ELSE "not_required"]

RecordPassOnly(g, passed, c) ==                                  \* mutant
    IF passed THEN [g EXCEPT !.current = c, !.has_changes = c # g.baseline,
                             !.verified = c, !.status = "passed"]
              ELSE Sync(g, c)

RecordTest(g, passed, c) ==
    [g EXCEPT !.current = c, !.has_changes = c # g.baseline,
              !.verified = IF passed THEN c ELSE None,
              !.status = IF passed THEN "passed" ELSE "failed"]

(* A fingerprint that cannot be taken costs the evidence. *)
Lost(g) == [g EXCEPT !.verified = None, !.status = "failed"]

(* submission_error returns None: g has just been synchronised with content c. *)
MaySubmit(g, c) ==
    /\ g.status # "failed"
    /\ g.has_changes \/ g.require_verification => g.verified = c

AcceptSubmission(g) ==
    LET verified == g.status = "passed" /\ g.verified = g.current
    IN  [g EXCEPT !.baseline = g.current,
                  !.verified = IF verified THEN g.current ELSE None,
                  !.has_changes = FALSE, !.require_verification = FALSE,
                  !.status = IF verified THEN "passed" ELSE "not_required"]

----------------------------------------------------------------------------
(* The batch: left counts the calls other than submit that are still to run *)

BatchPoints == {"idle", "sync", "next", "before", "run", "after", "tested", "done"}

Batch == [at : BatchPoints, left : 0 .. MaxBatch, submit : BOOLEAN,
          seen : Content \cup {None},    \* current_fingerprint
          base : Content \cup {None},    \* the matrix's baseline
          check : 0 .. Checks,           \* checks that are through
          ok : BOOLEAN,                  \* no check failed so far
          on : SUBSET Content,           \* history: where the checks ran
          accepted : BOOLEAN]

NoBatch == [at |-> "idle", left |-> 0, submit |-> FALSE, seen |-> None, base |-> None,
            check |-> 0, ok |-> FALSE, on |-> {}, accepted |-> FALSE]

At(point) == batch.at = point

GateTypeOK ==
    /\ workspace \in Content
    /\ gate \in Gate
    /\ batch \in Batch
    /\ tested \subseteq Content
    /\ last \in {"none", "pass", "fail", "refused", "lost"}
    /\ writes \in 0 .. MaxWrites

(* A message with n calls other than submit, and perhaps a submit. *)
NewBatch(n, submit) == [NoBatch EXCEPT !.at = "sync", !.left = n, !.submit = submit]

Requests == {r \in (0 .. MaxBatch) \X BOOLEAN : r[1] > 0 \/ r[2]}

(* The gate meets the workspace as it is now.  Without a fingerprint the calls *)
(* of the batch are not executed.                                              *)
BatchSync ==
    /\ At("sync")
    /\ \/ /\ gate' = Sync(gate, workspace)
          /\ batch' = [batch EXCEPT !.at = "next", !.seen = workspace]
          /\ UNCHANGED last
       \/ /\ gate' = Lost(gate)
          /\ batch' = [batch EXCEPT !.at = "next", !.seen = gate.current, !.left = 0]
          /\ last' = "lost"
    /\ UNCHANGED <<workspace, tested, writes>>

(* One call fewer to run, with the fingerprint that was seen last. *)
Called(seen) == [batch EXCEPT !.at = "next", !.left = @ - 1, !.seen = seen]

(* A tool that only reads, or an unknown one: no new fingerprint. *)
CallReads ==
    /\ At("next") /\ batch.left > 0
    /\ gate' = Sync(gate, batch.seen)
    /\ batch' = Called(batch.seen)
    /\ UNCHANGED <<workspace, tested, last, writes>>

(* write_file, apply_patch, replace_lines, bash: whatever the tool reports, its *)
(* effect is looked up.  A success alone requires verification; a refused tool  *)
(* has no effect.                                                               *)
CallMutates(allowed) ==
    /\ At("next") /\ batch.left > 0
    /\ \E c \in Content, success \in BOOLEAN :
          /\ ~allowed => c = workspace /\ ~success
          /\ workspace' = c
          /\ LET g == [gate EXCEPT !.require_verification = @ \/ success]
             IN  \/ gate' = Sync(g, c) /\ batch' = Called(c) /\ UNCHANGED last
                 \/ gate' = Lost(g) /\ batch' = Called(batch.seen) /\ last' = "lost"
    /\ UNCHANGED <<tested, writes>>

(* run_tests is not configured, blocked or rejected, or cannot take its baseline. *)
TestRefused ==
    /\ At("next") /\ batch.left > 0
    /\ batch' = [batch EXCEPT !.at = "tested", !.base = None, !.ok = FALSE, !.on = {}]
    /\ UNCHANGED <<workspace, gate, tested, last, writes>>

(* Its baseline is the workspace as it is now. *)
TestStart(allowed, point) ==
    /\ At("next") /\ batch.left > 0 /\ allowed
    /\ batch' = [batch EXCEPT !.at = point, !.base = workspace, !.check = 0, !.ok = TRUE, !.on = {}]
    /\ UNCHANGED <<workspace, gate, tested, last, writes>>

(* A matrix compares before its first check as well, --test-command alone does not. *)
StartMatrix(allowed) == TestStart(allowed, "before")
StartLegacy(allowed) == Checks = 1 /\ TestStart(allowed, "run")

(* The matrix does not stop after its last check. *)
CheckOnceMore == At("after") /\ batch' = [batch EXCEPT !.at = "run"]   \* mutant
                 /\ UNCHANGED <<workspace, gate, tested, last, writes>>

(* Before and after a check the workspace must be the baseline. *)
Compared(point) ==
    /\ \/ workspace = batch.base /\ batch' = [batch EXCEPT !.at = point]
       \/ batch' = [batch EXCEPT !.at = "tested", !.ok = FALSE]
    /\ UNCHANGED <<workspace, gate, tested, last, writes>>

CheckBefore == At("before") /\ Compared("run")

(* A check reads the workspace and may change it; what it does not do is put *)
(* back what another writer changed meanwhile.  Its command passes or fails, *)
(* also for want of tests; a timeout or an error stops the matrix.           *)
CheckRun ==
    /\ At("run")
    /\ workspace' \in {workspace} \cup (Content \ {batch.base})
    /\ \E passed \in BOOLEAN, point \in {"after", "tested"} :
          batch' = [batch EXCEPT !.at = point, !.check = @ + 1,
                                 !.ok = @ /\ passed /\ point = "after",
                                 !.on = @ \cup {workspace}]
    /\ UNCHANGED <<gate, tested, last, writes>>

CheckAfter ==
    /\ At("after")
    /\ Compared(IF batch.check < Checks THEN "before" ELSE "tested")

RecordWithoutHandoff == batch.ok                                 \* mutant

(* The content the matrix verified is the one the batch finds now. *)
HandedOver == batch.ok /\ workspace = batch.base

TestRecord ==
    /\ At("tested")
    /\ LET g == [gate EXCEPT !.require_verification = @ \/ batch.ok] IN
       \/ /\ gate' = RecordTest(g, HandedOver, workspace)
          /\ batch' = Called(workspace)
          /\ tested' = tested \cup {c \in Content : batch.ok /\ batch.on = {c}}
          /\ last' = IF HandedOver THEN "pass"
                     ELSE IF batch.on = {} THEN "refused" ELSE "fail"
       \/ /\ gate' = Lost(g)
          /\ batch' = Called(batch.seen)
          /\ last' = "lost"
          /\ UNCHANGED tested
    /\ UNCHANGED <<workspace, writes>>

(* submit is decided at its place among the calls of the message. *)
DecideInOrder(allowed) ==                                        \* mutant
    /\ At("next")
    /\ \/ /\ batch.submit
          /\ gate' = Sync(gate, workspace)
          /\ batch' = [batch EXCEPT !.submit = FALSE,
                                    !.accepted = allowed /\ MaySubmit(gate', workspace)]
       \/ /\ batch.left = 0 /\ ~batch.submit
          /\ batch' = [batch EXCEPT !.at = "done"] /\ UNCHANGED gate
    /\ UNCHANGED <<workspace, tested, last, writes>>

(* submit is decided when every other call of the message is through, on a *)
(* fresh fingerprint; without one, or with one that is not the verified    *)
(* one, it is blocked.                                                     *)
Decide(allowed) ==
    /\ At("next") /\ batch.left = 0
    /\ \/ /\ batch.submit
          /\ gate' = Sync(gate, workspace)
          /\ batch' = [batch EXCEPT !.at = "done",
                                    !.accepted = allowed /\ MaySubmit(gate', workspace)]
       \/ batch' = [batch EXCEPT !.at = "done"] /\ UNCHANGED gate
    /\ UNCHANGED <<workspace, tested, last, writes>>

(* execute_tool_batch, with the tools that allowed lets through. *)
BatchStep(allowed) ==
    \/ BatchSync \/ CallReads \/ CallMutates(allowed)
    \/ TestRefused \/ StartMatrix(allowed) \/ StartLegacy(allowed)
    \/ CheckBefore \/ CheckRun \/ CheckAfter \/ TestRecord
    \/ Decide(allowed)

(* The user, or a process that a tool left behind. *)
Write ==
    /\ writes < MaxWrites
    /\ workspace' \in Content \ {workspace}
    /\ writes' = writes + 1
    /\ UNCHANGED <<gate, batch, tested, last>>
=============================================================================
