---------------------------- MODULE Transaction ----------------------------
(***************************************************************************)
(* The transactional runtime behind `mca tx`: a source checkout, and for   *)
(* each transaction a private directory with a manifest, a detached        *)
(* worktree, a trajectory, a patch, a receipt and a lock file.  Every      *)
(* `mca` invocation is a process: `tx run` and `tx resume` drive an agent  *)
(* whose tools edit the worktree and end in TransactionStore.prepare;      *)
(* `tx commit` and `tx abort` call the method of that name.  A step is     *)
(* what lies between two durable writes or reads; other processes, the     *)
(* user and crashes come in between.                                       *)
(***************************************************************************)
EXTENDS GitContent, Naturals, FiniteSets

CONSTANTS Tx,         \* transaction ids
          Proc,       \* mca invocations: each runs one command
          Menu,       \* Menu[p]: the commands invocation p may be
          None,       \* no value
          Edits,      \* the contents that the user and the tools may leave behind
          Overlap,    \* TRUE: commands on one transaction may run at the same time
          Intruder,   \* TRUE: something else may write to a worktree
          MaxCalls,   \* tool calls of one run: the agent's step ceiling
          MaxUser,    \* bound on the user's edits and commits
          MaxCrash    \* bound on crashes

ASSUME TransactionAssumption ==
    /\ Menu \in [Proc -> SUBSET {"run", "resume", "commit", "abort"}]
    /\ Edits \subseteq Content
    /\ Overlap \in BOOLEAN /\ Intruder \in BOOLEAN
    /\ MaxCalls \in Nat /\ MaxUser \in Nat /\ MaxCrash \in Nat

VARIABLES
    source,       \* content of the source checkout
    head,         \* its HEAD commit
    disk,         \* disk[t]: manifest.json, None before it is published
    worktree,     \* worktree[t]: content of the detached worktree
    traj,         \* traj[t]: trajectory.json
    patchFile,    \* patchFile[t]: prepared.patch
    receiptFile,  \* receiptFile[t]: receipt.json
    lock,         \* lock[t]: the process that holds the flock of the directory
    proc,         \* proc[p]: an invocation's program counter and locals
    passed,       \* history: the contents on which a run's checks passed
    applied,      \* history: what the runtime wrote to the source
    edited,       \* history: the tool calls that changed a worktree
    userSteps,    \* counter against MaxUser
    crashes       \* counter against MaxCrash

git == <<source, head>>
store == <<disk, worktree, traj, patchFile, receiptFile>>
history == <<passed, applied, edited>>
vars == <<source, head, disk, worktree, traj, patchFile, receiptFile, lock, proc,
          passed, applied, edited, userSteps, crashes>>

----------------------------------------------------------------------------
(* Types *)

Commit == [id : Nat, tree : Tree]

Call == Proc \X (1 .. MaxCalls)

Trajectory == [exit : {"Running", "Submitted", "Stopped"},
               verified : Content \cup {None},
               by : Proc,
               final : BOOLEAN]

Receipt == [prepared : Content, expected : Snapshot, patch : Patch, trajectory : Trajectory,
            started : SUBSET Call, completed : SUBSET Call]

(* baseline.json is written once with the first manifest: wsBase stands for it. *)
Manifest == [status : {"open", "prepared", "committed", "aborted"},
             commit : Commit, base : Content, wsBase : Content,
             prepared : Content \cup {None}, expected : Snapshot \cup {None},
             patch : Patch \cup {None}, receipt : Receipt \cup {None},
             started : SUBSET Call, completed : SUBSET Call,
             failure : {"none", "no submission", "not bound", "unrepresentable"}]

RunPoints == {"restore", "start", "model", "tool", "answered", "observed",
              "submitted", "closing", "finish", "prepare"}
BeginPoints == {"begin", "publish"}
PreparePoints == {"snapshot", "content", "diff", "patch", "evidence", "receipt", "seal"}
CommitPoints == {"check", "apply", "verify", "mark"}
LockedPoints == PreparePoints \cup CommitPoints

Points == {"ready", "done", "remove"} \cup BeginPoints \cup RunPoints \cup LockedPoints

Process == [pc : Points,
            tx : Tx \cup {None},
            mem : Manifest \cup {None},        \* the manifest in memory
            evidence : Content \cup {None},    \* the gate's verified fingerprint
            calls : 0 .. MaxCalls,             \* tool calls so far
            own : Trajectory \cup {None},      \* the trajectory this run wrote or read last
            snap : Content \cup {None},        \* prepare's first snapshot
            body : Content \cup {None}]        \* prepare's content snapshot, or commit's

ASSUME NoneAssumption ==
    None \notin Tx \cup Proc \cup Snapshot \cup Patch \cup Trajectory \cup Receipt \cup Manifest

Fresh(pc) == [pc |-> pc, tx |-> None, mem |-> None, evidence |-> None, calls |-> 0,
              own |-> None, snap |-> None, body |-> None]

Application == [tx : Tx, before : Content, after : Content, prepared : Content,
                patch : Patch]

TypeOK ==
    /\ source \in Content
    /\ head \in Commit
    /\ disk \in [Tx -> Manifest \cup {None}]
    /\ worktree \in [Tx -> Content \cup {None}]
    /\ traj \in [Tx -> Trajectory \cup {None}]
    /\ patchFile \in [Tx -> Patch \cup {None}]
    /\ receiptFile \in [Tx -> Receipt \cup {None}]
    /\ lock \in [Tx -> Proc \cup {None}]
    /\ proc \in [Proc -> Process]
    /\ passed \in [Tx -> SUBSET [by : Proc, body : Content]]
    /\ applied \subseteq Application
    /\ edited \in [Tx -> SUBSET Call]
    /\ userSteps \in 0 .. MaxUser
    /\ crashes \in 0 .. MaxCrash

----------------------------------------------------------------------------
(* Steps of one invocation *)

At(p, point) == proc[p].pc = point

Active(p) == proc[p].pc \notin {"ready", "done"}

Busy(t) == \E p \in Proc : Active(p) /\ proc[p].tx = t

(* A command on t may start: alone on t, unless commands overlap. *)
MayStart(p, command, t) ==
    At(p, "ready") /\ command \in Menu[p] /\ (Overlap \/ ~Busy(t))

Become(p, r) == proc' = [proc EXCEPT ![p] = r]

Goto(p, point) == Become(p, [proc[p] EXCEPT !.pc = point])

Exit(p) == Become(p, Fresh("done"))

AcquireAnyway(p, t) == lock' = [lock EXCEPT ![t] = p]             \* mutant
Acquire(p, t) == lock[t] = None /\ lock' = [lock EXCEPT ![t] = p]

Release(t) == lock' = [lock EXCEPT ![t] = None]

(* TransactionStore.save: an atomic replace of manifest.json.  It takes no lock. *)
Save(t, manifest) == disk' = [disk EXCEPT ![t] = manifest]

(* The locked block ends, normally or by an exception: the lock goes with it. *)
RefuseLocked(p) == Exit(p) /\ UNCHANGED lock                     \* mutant
Refuse(p) == Exit(p) /\ Release(proc[p].tx)

Clean == Tracked(source) = head.tree

----------------------------------------------------------------------------
(* TransactionStore.create, called by `tx run` *)

NewManifest ==
    [status |-> "open", commit |-> head, base |-> source, wsBase |-> Checkout(head.tree),
     prepared |-> None, expected |-> None, patch |-> None, receipt |-> None,
     started |-> {}, completed |-> {}, failure |-> "none"]

(* A clean source: HEAD and the baselines are read; the id is a fresh random one. *)
Begin(p, t) ==
    /\ MayStart(p, "run", t)
    /\ disk[t] = None /\ worktree[t] = None /\ ~Busy(t)
    /\ Clean
    /\ Become(p, [Fresh("begin") EXCEPT !.tx = t, !.mem = NewManifest])
    /\ UNCHANGED <<git, store, lock, history, userSteps, crashes>>

AddWorktree(p) ==
    /\ At(p, "begin")
    /\ worktree' = [worktree EXCEPT ![proc[p].tx] = proc[p].mem.wsBase]
    /\ Goto(p, "publish")
    /\ UNCHANGED <<git, disk, traj, patchFile, receiptFile, lock, history, userSteps, crashes>>

(* The source is read again: unchanged, the manifest is published; changed, *)
(* the worktree is taken down.                                              *)
Publish(p) ==
    LET t == proc[p].tx
        m == proc[p].mem
    IN  /\ At(p, "publish")
        /\ \/ /\ Clean /\ source = m.base /\ head = m.commit
              /\ Save(t, m)
              /\ Goto(p, "start")
              /\ UNCHANGED worktree
           \/ /\ ~(Clean /\ source = m.base /\ head = m.commit)
              /\ worktree' = [worktree EXCEPT ![t] = None]
              /\ Exit(p)
              /\ UNCHANGED disk
        /\ UNCHANGED <<git, traj, patchFile, receiptFile, lock, history, userSteps, crashes>>

----------------------------------------------------------------------------
(* agent_command: the run itself *)

(* `tx resume` reads manifest and trajectory without the lock. *)
Resume(p, t) ==
    /\ MayStart(p, "resume", t)
    /\ disk[t] # None /\ disk[t].status = "open" /\ traj[t] # None
    /\ Become(p, [Fresh("restore") EXCEPT
                   !.tx = t, !.mem = disk[t], !.own = traj[t]])
    /\ UNCHANGED <<git, store, lock, history, userSteps, crashes>>

(* _restore_state: no trajectory is a trust anchor, the gate starts unverified. *)
TrustedEvidence(trajectory) == trajectory.verified               \* mutant
RestoredEvidence(trajectory) == None

(* It saves the manifest that it read; a submitted trajectory is not resumable, *)
(* and a transaction without a worktree has no executor.                        *)
Restore(p) ==
    LET t == proc[p].tx
    IN  /\ At(p, "restore")
        /\ Save(t, proc[p].mem)
        /\ IF proc[p].own.exit = "Submitted" \/ worktree[t] = None
           THEN Exit(p)
           ELSE Become(p, [proc[p] EXCEPT !.pc = "start", !.own = None,
                                     !.evidence = RestoredEvidence(proc[p].own)])
        /\ UNCHANGED <<git, worktree, traj, patchFile, receiptFile, lock, history,
                       userSteps, crashes>>

Checkpoint(p, exit, final) ==
    [exit |-> exit, verified |-> proc[p].evidence, by |-> p, final |-> final]

(* agent.run: a gate with no evidence, whatever the trajectory said, and a first *)
(* checkpoint.  Later checkpoints follow each batch of tool calls.               *)
SaveCheckpoint(p) ==
    /\ proc[p].pc \in {"start", "observed"}
    /\ traj' = [traj EXCEPT ![proc[p].tx] = Checkpoint(p, "Running", FALSE)]
    /\ Become(p, [proc[p] EXCEPT !.pc = "model", !.own = Checkpoint(p, "Running", FALSE)])
    /\ UNCHANGED <<git, disk, worktree, patchFile, receiptFile, lock, history,
                   userSteps, crashes>>

(* The agent's loop without its step ceiling. *)
LogUnbounded(p, next) ==                                         \* mutant
    LET m == [proc[p].mem EXCEPT !.started = @ \cup {<<p, proc[p].calls + 1>>}]
    IN  /\ Save(proc[p].tx, m)
        /\ Become(p, [proc[p] EXCEPT !.pc = next, !.mem = m, !.calls = @ + 1])

(* The call is executed before the manifest that names it is saved. *)
LogLate(p, next) ==                                              \* mutant
    /\ proc[p].calls < MaxCalls
    /\ Become(p, [proc[p] EXCEPT !.pc = next, !.calls = @ + 1,
                            !.mem.started = @ \cup {<<p, proc[p].calls + 1>>}])
    /\ UNCHANGED disk

(* TransactionExecutor.execute_tool appends to the access log and saves its own *)
(* manifest, in whatever state it holds it.                                     *)
LogStart(p, next) ==
    LET call == <<p, proc[p].calls + 1>>
        m == [proc[p].mem EXCEPT !.started = @ \cup {call}]
    IN  /\ proc[p].calls < MaxCalls
        /\ Save(proc[p].tx, m)
        /\ Become(p, [proc[p] EXCEPT !.pc = next, !.mem = m, !.calls = @ + 1])

ToolStart(p) ==
    /\ At(p, "model")
    /\ LogStart(p, "tool")
    /\ UNCHANGED <<git, worktree, traj, patchFile, receiptFile, lock, history,
                   userSteps, crashes>>

(* A tool leaves the worktree in any of the contents Edits offers. *)
ToolEdits(p) ==
    LET t == proc[p].tx
    IN  /\ At(p, "tool")
        /\ worktree[t] # None
        /\ \E c \in Edits \ {worktree[t]} : worktree' = [worktree EXCEPT ![t] = c]
        /\ edited' = [edited EXCEPT ![t] = @ \cup {<<p, proc[p].calls>>}]
        /\ Goto(p, "answered")
        /\ UNCHANGED <<git, disk, traj, patchFile, receiptFile, lock, passed, applied,
                       userSteps, crashes>>

(* run_tests passes: the gate binds the evidence to this content. *)
ToolPasses(p) ==
    LET t == proc[p].tx
    IN  /\ At(p, "tool")
        /\ worktree[t] # None
        /\ passed' = [passed EXCEPT ![t] = @ \cup {[by |-> p, body |-> worktree[t]]}]
        /\ Become(p, [proc[p] EXCEPT !.pc = "answered", !.evidence = worktree[t]])
        /\ UNCHANGED <<git, store, lock, applied, edited, userSteps, crashes>>

(* run_tests fails, or the worktree can no longer be read. *)
ToolFails(p) ==
    /\ At(p, "tool")
    /\ Become(p, [proc[p] EXCEPT !.pc = "answered", !.evidence = None])
    /\ UNCHANGED <<git, store, lock, history, userSteps, crashes>>

LogDone(p, next) ==
    LET m == [proc[p].mem EXCEPT !.completed = @ \cup {<<p, proc[p].calls>>}]
    IN  /\ Save(proc[p].tx, m)
        /\ Become(p, [proc[p] EXCEPT !.pc = next, !.mem = m])

ToolDone(p) ==
    /\ At(p, "answered")
    /\ LogDone(p, "observed")
    /\ UNCHANGED <<git, worktree, traj, patchFile, receiptFile, lock, history,
                   userSteps, crashes>>

(* submit: the gate takes a fresh fingerprint; the call itself is logged too. *)
Submit(p) ==
    /\ At(p, "model")
    /\ worktree[proc[p].tx] # None
    /\ proc[p].evidence = worktree[proc[p].tx]
    /\ LogStart(p, "submitted")
    /\ UNCHANGED <<git, worktree, traj, patchFile, receiptFile, lock, history,
                   userSteps, crashes>>

SubmitDone(p) ==
    /\ At(p, "submitted")
    /\ LogDone(p, "closing")
    /\ UNCHANGED <<git, worktree, traj, patchFile, receiptFile, lock, history,
                   userSteps, crashes>>

(* The batch's checkpoint: from here on the trajectory is not resumable. *)
SubmitCheckpoint(p) ==
    /\ At(p, "closing")
    /\ traj' = [traj EXCEPT ![proc[p].tx] = Checkpoint(p, "Submitted", FALSE)]
    /\ Become(p, [proc[p] EXCEPT !.pc = "finish", !.own = Checkpoint(p, "Submitted", TRUE)])
    /\ UNCHANGED <<git, disk, worktree, patchFile, receiptFile, lock, history,
                   userSteps, crashes>>

(* The step ceiling, a model error or any other end without a submission. *)
Stop(p) ==
    /\ At(p, "model")
    /\ Become(p, [proc[p] EXCEPT !.pc = "finish", !.own = Checkpoint(p, "Stopped", TRUE)])
    /\ UNCHANGED <<git, store, lock, history, userSteps, crashes>>

(* Ctrl-C: agent.run writes its last complete checkpoint again, now as *)
(* interrupted, and raises on.                                         *)
Interrupt(p) ==
    /\ proc[p].pc \in {"model", "tool", "answered", "observed", "submitted", "closing", "finish"}
    /\ crashes < MaxCrash
    /\ traj' = [traj EXCEPT ![proc[p].tx] =
                  [proc[p].own EXCEPT !.exit = "Stopped", !.final = FALSE]]
    /\ Exit(p)
    /\ crashes' = crashes + 1
    /\ UNCHANGED <<git, disk, worktree, patchFile, receiptFile, lock, history, userSteps>>

(* The final trajectory, with the transaction's metadata, is on disk before prepare. *)
SaveTrajectory(p) ==
    /\ At(p, "finish")
    /\ traj' = [traj EXCEPT ![proc[p].tx] = proc[p].own]
    /\ Goto(p, "prepare")
    /\ UNCHANGED <<git, disk, worktree, patchFile, receiptFile, lock, history,
                   userSteps, crashes>>

----------------------------------------------------------------------------
(* TransactionStore.prepare, all of it under the transaction's lock *)

(* The manifest is loaded afresh; only an open transaction can be prepared. *)
PrepareLock(p) ==
    LET t == proc[p].tx
    IN  /\ At(p, "prepare")
        /\ \/ /\ disk[t].status = "open" /\ worktree[t] # None
              /\ Acquire(p, t)
              /\ Become(p, [proc[p] EXCEPT !.pc = "snapshot", !.mem = disk[t]])
           \/ /\ ~(disk[t].status = "open" /\ worktree[t] # None)
              /\ lock[t] = None
              /\ Exit(p) /\ UNCHANGED lock
        /\ UNCHANGED <<git, store, history, userSteps, crashes>>

(* A recorded failure leaves the transaction open. *)
PrepareFails(p, failure) ==
    /\ Save(proc[p].tx, [proc[p].mem EXCEPT !.failure = failure])
    /\ Refuse(p)

(* The trajectory's verified fingerprint is the worktree's. *)
Bound(trajectory, now) == trajectory.verified = now

(* The first snapshot decides whether the submission is bound to the worktree. *)
PrepareSnapshot(p) ==
    LET now == worktree[proc[p].tx]
        own == proc[p].own
    IN  /\ At(p, "snapshot")
        /\ \/ /\ now = None
              /\ Refuse(p) /\ UNCHANGED disk
           \/ /\ now # None /\ own.exit # "Submitted"
              /\ PrepareFails(p, "no submission")
           \/ /\ now # None /\ own.exit = "Submitted" /\ ~Bound(own, now)
              /\ PrepareFails(p, "not bound")
           \/ /\ now # None /\ own.exit = "Submitted" /\ Bound(own, now)
              /\ Become(p, [proc[p] EXCEPT !.pc = "content", !.snap = now])
              /\ UNCHANGED <<disk, lock>>
        /\ UNCHANGED <<git, worktree, traj, patchFile, receiptFile, history,
                       userSteps, crashes>>

(* `git add -N` of the untracked files, then the content snapshot. *)
PrepareContent(p) ==
    LET now == worktree[proc[p].tx]
    IN  /\ At(p, "content")
        /\ IF now = None
           THEN Refuse(p)
           ELSE /\ Become(p, [proc[p] EXCEPT !.pc = "diff", !.body = now])
                /\ UNCHANGED lock
        /\ UNCHANGED <<git, store, history, userSteps, crashes>>

(* The manifest that names the first snapshot, its patch and the projected source. *)
PreparedManifest(p, patch) ==
    LET m == proc[p].mem
    IN  [m EXCEPT !.prepared = proc[p].snap,
                  !.expected = Projected(m.base, m.wsBase, proc[p].body),
                  !.patch = patch,
                  !.status = "prepared",
                  !.failure = "none"]

(* The prepared manifest stays in memory until the receipt is issued. *)
SealEarly(p, patch) == Save(proc[p].tx, PreparedManifest(p, patch))   \* mutant
AfterPatch(p, patch) == UNCHANGED disk

(* `git diff --name-only`: Git must name exactly the changed paths. *)
PrepareNames(p) ==
    LET m == proc[p].mem
        now == worktree[proc[p].tx]
        represented == PatchNames(m.commit.tree, now) = ChangedPaths(m.wsBase, proc[p].body)
    IN  /\ At(p, "diff")
        /\ \/ /\ now = None
              /\ Refuse(p) /\ UNCHANGED disk
           \/ /\ now # None /\ ~represented
              /\ PrepareFails(p, "unrepresentable")
           \/ /\ now # None /\ represented
              /\ Goto(p, "patch") /\ UNCHANGED <<disk, lock>>
        /\ UNCHANGED <<git, worktree, traj, patchFile, receiptFile, history,
                       userSteps, crashes>>

(* `git diff --binary` is written, and the manifest in memory is filled in. *)
PreparePatch(p) ==
    LET t == proc[p].tx
        now == worktree[t]
        patch == PatchOf(proc[p].mem.commit.tree, now)
    IN  /\ At(p, "patch")
        /\ IF now = None
           THEN Refuse(p) /\ UNCHANGED <<disk, patchFile>>
           ELSE /\ patchFile' = [patchFile EXCEPT ![t] = patch]
                /\ Become(p, [proc[p] EXCEPT !.pc = "evidence",
                                        !.mem = PreparedManifest(p, patch)])
                /\ AfterPatch(p, patch)
                /\ UNCHANGED lock
        /\ UNCHANGED <<git, worktree, traj, receiptFile, history, userSteps, crashes>>

PrepareTrajectory(p) ==
    /\ At(p, "evidence")
    /\ traj' = [traj EXCEPT ![proc[p].tx] = proc[p].own]
    /\ Goto(p, "receipt")
    /\ UNCHANGED <<git, disk, worktree, patchFile, receiptFile, lock, history,
                   userSteps, crashes>>

(* issue_receipt: what the receipt of a manifest and a trajectory binds. *)
ReceiptOf(m, trajectory) ==
    [prepared |-> m.prepared, expected |-> m.expected, patch |-> m.patch,
     trajectory |-> trajectory, started |-> m.started, completed |-> m.completed]

PrepareReceipt(p) ==
    LET r == ReceiptOf(proc[p].mem, proc[p].own)
    IN  /\ At(p, "receipt")
        /\ receiptFile' = [receiptFile EXCEPT ![proc[p].tx] = r]
        /\ Become(p, [proc[p] EXCEPT !.pc = "seal", !.mem.receipt = r])
        /\ UNCHANGED <<git, disk, worktree, traj, patchFile, lock, history,
                       userSteps, crashes>>

(* Only now is the transaction prepared on disk. *)
PrepareSeal(p) ==
    /\ At(p, "seal")
    /\ Save(proc[p].tx, proc[p].mem)
    /\ Refuse(p)
    /\ UNCHANGED <<git, worktree, traj, patchFile, receiptFile, history, userSteps, crashes>>

----------------------------------------------------------------------------
(* TransactionStore.commit *)

(* Under the lock: prepared, and HEAD and the source as they were at begin. *)
CommitLock(p, t) ==
    /\ MayStart(p, "commit", t)
    /\ disk[t] # None /\ disk[t].status = "prepared" /\ worktree[t] # None
    /\ head = disk[t].commit
    /\ source = disk[t].base
    /\ Acquire(p, t)
    /\ Become(p, [Fresh("check") EXCEPT !.tx = t, !.mem = disk[t]])
    /\ UNCHANGED <<git, store, history, userSteps, crashes>>

(* load_receipt, and the receipt id of the manifest: what is signed is one value. *)
LoadsReceipt(t, m) == receiptFile[t] = m.receipt

(* validate_receipt, field by field, with the digest of the trajectory. *)
ValidatesReceipt(m, trajectory) == m.receipt = ReceiptOf(m, trajectory)

(* The worktree is what was prepared; the receipt on disk is the manifest's and *)
(* matches manifest and trajectory; the patch on disk is the manifest's.        *)
CommitCheck(p) ==
    LET t == proc[p].tx
        m == proc[p].mem
    IN  /\ At(p, "check")
        /\ IF /\ worktree[t] = m.prepared
              /\ LoadsReceipt(t, m) /\ ValidatesReceipt(m, traj[t])
              /\ patchFile[t] = m.patch
           THEN Goto(p, "apply") /\ UNCHANGED lock
           ELSE Refuse(p)
        /\ UNCHANGED <<git, store, history, userSteps, crashes>>

(* `git apply --check` and `git apply`; where they succeed they write the source. *)
CommitApply(p) ==
    LET t == proc[p].tx
        m == proc[p].mem
    IN  /\ At(p, "apply")
        /\ \/ \E c \in ApplyOutcomes(m.patch, source) :
                 /\ source' = c
                 /\ applied' = applied \cup
                      {[tx |-> t, before |-> source, after |-> c,
                        prepared |-> m.prepared, patch |-> m.patch]}
                 /\ Goto(p, "verify")
                 /\ UNCHANGED lock
           \/ /\ Mismatched(m.patch, source) # {}
              /\ Refuse(p)
              /\ UNCHANGED <<source, applied>>
        /\ UNCHANGED <<head, store, passed, edited, userSteps, crashes>>

(* The machine stops while git writes the files one after the other. *)
CommitTorn(p) ==
    LET t == proc[p].tx
        m == proc[p].mem
    IN  /\ At(p, "apply")
        /\ crashes < MaxCrash
        /\ Mismatched(m.patch, source) = {}
        /\ \E S \in SUBSET DOMAIN m.patch :
              /\ source' = ApplyPart(m.patch, S, source)
              /\ applied' = applied \cup
                   {[tx |-> t, before |-> source, after |-> source',
                     prepared |-> m.prepared, patch |-> m.patch]}
        /\ Refuse(p)
        /\ crashes' = crashes + 1
        /\ UNCHANGED <<head, store, passed, edited, userSteps>>

CommitUnverified(p) ==                                           \* mutant
    /\ At(p, "verify")
    /\ Become(p, [proc[p] EXCEPT !.pc = "mark", !.body = source])
    /\ UNCHANGED <<git, store, lock, history, userSteps, crashes>>

(* The source must now be what prepare projected. *)
CommitVerify(p) ==
    /\ At(p, "verify")
    /\ IF source = proc[p].mem.expected
       THEN Become(p, [proc[p] EXCEPT !.pc = "mark", !.body = source]) /\ UNCHANGED lock
       ELSE Refuse(p)
    /\ UNCHANGED <<git, store, history, userSteps, crashes>>

CommitMark(p) ==
    LET t == proc[p].tx
    IN  /\ At(p, "mark")
        /\ Save(t, [proc[p].mem EXCEPT !.status = "committed"])
        /\ Release(t)
        /\ Goto(p, "remove")
        /\ UNCHANGED <<git, worktree, traj, patchFile, receiptFile, history,
                       userSteps, crashes>>

----------------------------------------------------------------------------
(* TransactionStore.abort, and the removal of the worktree after the lock *)

AbortAnything(p, t) ==                                           \* mutant
    /\ MayStart(p, "abort", t) /\ lock[t] = None /\ disk[t] # None
    /\ Save(t, [disk[t] EXCEPT !.status = "aborted"])
    /\ Become(p, [Fresh("remove") EXCEPT !.tx = t])
    /\ UNCHANGED <<git, worktree, traj, patchFile, receiptFile, lock, history,
                   userSteps, crashes>>

Abort(p, t) ==
    /\ MayStart(p, "abort", t)
    /\ lock[t] = None
    /\ disk[t] # None /\ disk[t].status # "committed"
    /\ Save(t, [disk[t] EXCEPT !.status = "aborted"])
    /\ Become(p, [Fresh("remove") EXCEPT !.tx = t])
    /\ UNCHANGED <<git, worktree, traj, patchFile, receiptFile, lock, history,
                   userSteps, crashes>>

RemoveWorktree(p) ==
    /\ At(p, "remove")
    /\ worktree' = [worktree EXCEPT ![proc[p].tx] = None]
    /\ Exit(p)
    /\ UNCHANGED <<git, disk, traj, patchFile, receiptFile, lock, history,
                   userSteps, crashes>>

----------------------------------------------------------------------------
(* The user, other writers and crashes *)

UserEdit ==
    /\ userSteps < MaxUser
    /\ source' \in Edits \ {source}
    /\ userSteps' = userSteps + 1
    /\ UNCHANGED <<head, store, lock, proc, history, crashes>>

UserCommit ==
    /\ userSteps < MaxUser
    /\ head' = [id |-> head.id + 1, tree |-> Tracked(source)]
    /\ userSteps' = userSteps + 1
    /\ UNCHANGED <<source, store, lock, proc, history, crashes>>

(* A process that a tool left behind, or the user, writes to a worktree. *)
WorktreeEdit(t) ==
    /\ Intruder
    /\ userSteps < MaxUser
    /\ worktree[t] # None
    /\ \E c \in Edits \ {worktree[t]} : worktree' = [worktree EXCEPT ![t] = c]
    /\ userSteps' = userSteps + 1
    /\ UNCHANGED <<git, disk, traj, patchFile, receiptFile, lock, proc, history, crashes>>

(* A process dies: memory is lost, the kernel releases its lock. *)
Crash(p) ==
    /\ Active(p)
    /\ crashes < MaxCrash
    /\ Exit(p)
    /\ lock' = [t \in Tx |-> IF lock[t] = p THEN None ELSE lock[t]]
    /\ crashes' = crashes + 1
    /\ UNCHANGED <<git, store, history, userSteps>>

----------------------------------------------------------------------------

Init ==
    /\ source \in Edits
    /\ head = [id |-> 0, tree |-> Tracked(source)]
    /\ disk = [t \in Tx |-> None]
    /\ worktree = [t \in Tx |-> None]
    /\ traj = [t \in Tx |-> None]
    /\ patchFile = [t \in Tx |-> None]
    /\ receiptFile = [t \in Tx |-> None]
    /\ lock = [t \in Tx |-> None]
    /\ proc = [p \in Proc |-> Fresh("ready")]
    /\ passed = [t \in Tx |-> {}]
    /\ applied = {}
    /\ edited = [t \in Tx |-> {}]
    /\ userSteps = 0
    /\ crashes = 0

Command(p) == \E t \in Tx : Begin(p, t) \/ Resume(p, t) \/ CommitLock(p, t) \/ Abort(p, t)

Creating(p) == AddWorktree(p) \/ Publish(p)

Running(p) ==
    \/ Restore(p) \/ SaveCheckpoint(p)
    \/ ToolStart(p) \/ ToolEdits(p) \/ ToolPasses(p) \/ ToolFails(p) \/ ToolDone(p)
    \/ Submit(p) \/ SubmitDone(p) \/ SubmitCheckpoint(p) \/ Stop(p) \/ SaveTrajectory(p)

Preparing(p) ==
    \/ PrepareLock(p) \/ PrepareSnapshot(p) \/ PrepareContent(p) \/ PrepareNames(p)
    \/ PreparePatch(p) \/ PrepareTrajectory(p) \/ PrepareReceipt(p) \/ PrepareSeal(p)

Committing(p) == CommitCheck(p) \/ CommitApply(p) \/ CommitVerify(p) \/ CommitMark(p)
                 \/ RemoveWorktree(p)

(* What an invocation does once it is started. *)
Proceed(p) == Creating(p) \/ Running(p) \/ Preparing(p) \/ Committing(p)

Failure(p) == Interrupt(p) \/ CommitTorn(p) \/ Crash(p)

Next ==
    \/ \E p \in Proc : Command(p) \/ Proceed(p) \/ Failure(p)
    \/ UserEdit \/ UserCommit
    \/ \E t \in Tx : WorktreeEdit(t)

Spec == Init /\ [][Next]_vars

(* Commands alone: no crash, no interrupt, no other writer.  A started        *)
(* process goes on: commands have time limits and the agent a step ceiling.   *)
(* Nobody is obliged to start one.                                            *)
QuietNext == \E p \in Proc : Command(p) \/ Proceed(p)

QuietSpec == Init /\ [][QuietNext]_vars /\ \A p \in Proc : WF_vars(Proceed(p))

----------------------------------------------------------------------------
(* Properties *)

Published(t) == disk[t] # None

Status(t) == IF disk[t] = None THEN "absent" ELSE disk[t].status

(* prepare, commit and abort of one transaction never interleave: a process   *)
(* between its locked reads and writes (store.locked) is the holder of the    *)
(* directory's lock, however many commands were started on the transaction.   *)
LockExclusive ==
    \A p \in Proc : proc[p].pc \in LockedPoints => lock[proc[p].tx] = p

(* A manifest never names a prepared content that the submitting run itself   *)
(* did not see pass: evidence of an earlier attempt does not survive a resume *)
(* (agent._restore_state) and a submission for another content is refused     *)
(* (prepare), also when commands overlap, worktrees change and runs crash.    *)
PreparedWasTested ==
    \A t \in Tx : Published(t) /\ disk[t].prepared # None =>
        \E x \in passed[t] :
            /\ x.body = disk[t].prepared
            /\ disk[t].receipt # None => x.by = disk[t].receipt.trajectory.by

(* What commit finds in the source when it has written it, and then marks as  *)
(* committed, is the baseline with exactly the tested changes: tracked files  *)
(* are those of a worktree on which the checks passed, ignored files are      *)
(* those the source had at begin.                                             *)
CommitIsTested(t) ==
    Status(t) # "committed" /\ Status(t)' = "committed" =>
        \E p \in Proc : \E x \in passed[t] :
            /\ At(p, "mark") /\ proc[p].tx = t
            /\ proc[p].body.files = [f \in File |-> IF f \in Ignored THEN disk[t].base.files[f]
                                                                  ELSE x.body.files[f]]

(* commit and abort are final: no later save puts a transaction back. *)
TerminalStates ==
    [][\A t \in Tx : Status(t) \in {"committed", "aborted"} => Status(t)' = Status(t)]_vars

(* What abort says of itself: a committed transaction cannot be aborted, and *)
(* no other command takes the commit back either.                            *)
CommittedStays ==
    [][\A t \in Tx : Status(t) = "committed" => Status(t)' = "committed"]_vars

(* The access log is written ahead: a tool call that changed a worktree is in *)
(* the manifest on disk, whatever crashed afterwards.                         *)
LoggedBeforeEffect ==
    \A t \in Tx : Published(t) => edited[t] \subseteq disk[t].started

(* A transaction that is prepared on disk, and that no command is working on, *)
(* has everything commit will ask for: worktree, patch, trajectory and        *)
(* receipt agree with the manifest, although they are separate files.         *)
PreparedIsCommittable ==
    \A t \in Tx : Status(t) = "prepared" /\ ~Busy(t) =>
        /\ worktree[t] = disk[t].prepared
        /\ patchFile[t] = disk[t].patch
        /\ receiptFile[t] = disk[t].receipt
        /\ traj[t] # None /\ disk[t].receipt = ReceiptOf(disk[t], traj[t])

(* Of two transactions that began on the same source content and change it,   *)
(* at most one is committed: the other meets a source that changed.           *)
FirstCommitterWins ==
    \A t, u \in Tx :
        /\ t # u
        /\ Status(t) = "committed" /\ Status(u) = "committed"
        /\ disk[t].base = disk[u].base
        => disk[t].expected = disk[t].base \/ disk[u].expected = disk[u].base

WroteSource(t) == \E a \in applied : a.tx = t /\ a.before # a.after

(* commit fails closed: when no command is working on a transaction any more, *)
(* either the source was never written for it or it is committed; and commit  *)
(* and abort took the worktree down with them.                                *)
CommitFailsClosed ==
    \A t \in Tx : ~Busy(t) =>
        /\ WroteSource(t) => Status(t) = "committed"
        /\ Status(t) \in {"committed", "aborted"} => worktree[t] = None

(* An aborted transaction never reached the source. *)
AbortLeavesSource ==
    \A t \in Tx : Status(t) = "aborted" => ~WroteSource(t)

(* No invocation hangs: the lock it waits for is released by every path out   *)
(* of prepare, commit and abort.                                              *)
InvocationEnds == \A p \in Proc : Active(p) ~> ~Active(p)
=============================================================================
