---------------------------- MODULE ChatSession ----------------------------
(***************************************************************************)
(* chat.py and the loop of chat_command in cli.py: a session in which the  *)
(* user asks (/ask, read-only) or lets the agent code (/code).  The gate   *)
(* lives as long as the session and is saved with it; an accepted          *)
(* submission makes its content the new baseline.  No action is bounded:   *)
(* a session may have any number of turns, interrupts and restarts.        *)
(***************************************************************************)
EXTENDS VerificationGate

CONSTANTS MaxSteps,    \* model calls of one turn
          Coding       \* TRUE: checks are configured, /code is available

ASSUME ChatAssumption == MaxSteps \in Nat \ {0} /\ Coding \in BOOLEAN

VARIABLES
    pc,      \* closed; prompt: at input(); model, batch, accept: in respond_turn
    mode,    \* the mode of ChatAccessController
    step,    \* model calls of this turn
    tail,    \* how the messages end: with every tool call answered, or not
    exit,    \* exit_status
    file,    \* the session's trajectory file, None before the first save
    turn     \* last_turn, with the content it speaks of (history)

chatVars == <<pc, mode, step, tail, exit, file, turn>>
vars == <<gateVars, chatVars>>

ExitStatus == {"chatting", "verification_required", "submitted", "interrupted",
               "error", "turn_step_limit", "closed"}

FileTail == {"paired", "calls"}

TypeOK ==
    /\ GateTypeOK
    /\ pc \in {"closed", "prompt", "model", "batch", "accept"}
    /\ mode \in {"ask", "code"}
    /\ step \in 0 .. MaxSteps
    /\ tail \in FileTail
    /\ exit \in ExitStatus
    /\ file \in [exit : ExitStatus, gate : Gate, tail : FileTail] \cup {None}
    /\ turn \in [verified : BOOLEAN, on : Content] \cup {None}

----------------------------------------------------------------------------

(* _save: the gate and the messages as they are, by an atomic replace. *)
Save(status, g, end) ==
    /\ exit' = status
    /\ file' = [exit |-> status, gate |-> g, tail |-> end]

Result(verified) == turn' = [verified |-> verified, on |-> workspace]

Pending(g) == g.has_changes \/ g.status \in {"required", "failed"}

(* The process: in /ask mode, with no turn in progress. *)
Begin ==
    /\ pc = "closed"
    /\ pc' = "prompt" /\ mode' = "ask" /\ step' = 0 /\ tail' = "paired"
    /\ exit' = "chatting" /\ turn' = None
    /\ tested' = {}
    /\ UNCHANGED <<workspace, batch, writes, file>>

Open == file = None /\ gate' = Create(workspace, FALSE) /\ last' = "none" /\ Begin

(* _restore: the evidence is dropped, what was pending must be verified again. *)
RestoredGate ==
    LET pending == Pending(file.gate) \/ file.gate.require_verification
    IN  Sync([file.gate EXCEPT !.verified = None, !.require_verification = pending,
                               !.status = IF pending THEN "required" ELSE "not_required"],
             workspace)

(* A checkpoint that ends with unpaired tool calls is refused. *)
Reopen ==
    /\ file # None /\ file.tail = "paired"
    /\ gate' = RestoredGate
    /\ UNCHANGED last
    /\ Begin

Select(m) ==
    /\ pc = "prompt" /\ (m = "code" => Coding)
    /\ mode' = m
    /\ UNCHANGED <<gateVars, pc, step, tail, exit, file, turn>>

(* /clear drops the messages and keeps the gate. *)
ClearContext ==
    /\ pc = "prompt"
    /\ tail' = "paired"
    /\ Save("chatting", gate, "paired")
    /\ UNCHANGED <<gateVars, pc, mode, step, turn>>

(* respond_turn. *)
Turn ==
    /\ pc = "prompt"
    /\ gate' = Sync(gate, workspace)
    /\ pc' = "model" /\ step' = 0 /\ tail' = "paired"
    /\ UNCHANGED <<workspace, batch, tested, last, writes, mode, exit, file, turn>>

(* An answer in prose ends the turn, except in /code with something pending: *)
(* then the model is corrected and called again.                             *)
ModelAnswers ==
    /\ pc = "model" /\ step < MaxSteps
    /\ gate' = Sync(gate, workspace)
    /\ IF Pending(gate') /\ mode = "code"
       THEN step' = step + 1
            /\ Save("verification_required", gate', tail) /\ UNCHANGED <<pc, turn>>
       ELSE /\ pc' = "prompt" /\ step' = 0
            /\ Result(gate'.status = "passed") /\ Save("chatting", gate', tail)
    /\ UNCHANGED <<workspace, batch, tested, last, writes, mode, tail>>

(* Mutant: only the answers in prose count against the limit of the turn. *)
CallsUncounted ==
    /\ pc = "model" /\ step < MaxSteps
    /\ pc' = "batch" /\ tail' = "calls"
    /\ \E r \in Requests : batch' = NewBatch(r[1], r[2])
    /\ UNCHANGED <<workspace, gate, tested, last, writes, mode, step, exit, file, turn>>

ModelCalls ==
    /\ pc = "model" /\ step < MaxSteps
    /\ pc' = "batch" /\ step' = step + 1 /\ tail' = "calls"
    /\ \E r \in Requests : batch' = NewBatch(r[1], r[2])
    /\ UNCHANGED <<workspace, gate, tested, last, writes, mode, exit, file, turn>>

(* The request fails, or the turn's model calls are used up. *)
TurnStops(status) ==
    /\ pc = "model"
    /\ pc' = "prompt" /\ step' = 0
    /\ Result(FALSE) /\ Save(status, gate, tail)
    /\ UNCHANGED <<gateVars, mode, tail>>

ModelFails == step < MaxSteps /\ TurnStops("error")

StepLimit == step = MaxSteps /\ TurnStops("turn_step_limit")

(* ChatAccessController lets nothing but reading through in /ask mode. *)
RunTools == pc = "batch" /\ BatchStep(mode = "code") /\ UNCHANGED chatVars

RunToolsDone ==
    /\ pc = "batch" /\ At("done")
    /\ pc' = IF batch.accepted THEN "accept" ELSE "model"
    /\ batch' = NoBatch /\ tail' = "paired"
    /\ Save("chatting", gate, "paired")
    /\ UNCHANGED <<workspace, gate, tested, last, writes, mode, step, turn>>

Accept ==
    /\ pc = "accept"
    /\ gate' = AcceptSubmission(gate)
    /\ pc' = "prompt" /\ mode' = "ask" /\ step' = 0
    /\ turn' = [verified |-> gate.status = "passed", on |-> gate.current]
    /\ Save("submitted", gate', tail)
    /\ UNCHANGED <<workspace, batch, tested, last, writes, tail>>

(* Ctrl-C in a turn: saved as it is, and the session closes. *)
Interrupt ==
    /\ pc \in {"model", "batch", "accept"}
    /\ pc' = "closed" /\ batch' = NoBatch
    /\ Save("interrupted", gate, tail)
    /\ UNCHANGED <<workspace, gate, tested, last, writes, mode, step, tail, turn>>

(* /exit or the end of the input: close keeps the status of a turn that stopped. *)
Leave ==
    /\ pc = "prompt"
    /\ pc' = "closed"
    /\ Save(IF exit \in {"error", "interrupted", "turn_step_limit"} THEN exit ELSE "closed",
            gate, tail)
    /\ UNCHANGED <<gateVars, mode, step, tail, turn>>

(* A killed session forgets what it did not save. *)
Crash ==
    /\ pc # "closed"
    /\ pc' = "closed" /\ batch' = NoBatch /\ last' = "none"
    /\ UNCHANGED <<workspace, gate, tested, writes, mode, step, tail, exit, file, turn>>

Init ==
    /\ workspace \in Content
    /\ gate = Create(workspace, FALSE)
    /\ batch = NoBatch
    /\ tested = {} /\ last = "none" /\ writes = 0
    /\ pc = "closed" /\ mode = "ask" /\ step = 0 /\ tail = "paired"
    /\ exit = "chatting" /\ file = None /\ turn = None

(* A turn in progress. *)
Step ==
    \/ ModelAnswers \/ ModelCalls \/ ModelFails \/ StepLimit
    \/ RunTools \/ RunToolsDone \/ Accept

Next ==
    \/ Open \/ Reopen \/ Turn \/ ClearContext \/ Leave
    \/ \E m \in {"ask", "code"} : Select(m)
    \/ Step \/ Interrupt \/ Crash
    \/ Write /\ UNCHANGED chatVars

Spec == Init /\ [][Next]_vars

(* A turn in progress goes on: requests and commands have time limits. *)
FairSpec == Spec /\ WF_vars(Step)

----------------------------------------------------------------------------
(* Properties *)

Accepting == pc = "accept" /\ pc' = "prompt"

(* A submission makes no untested change the baseline: the content it accepts is *)
(* the last accepted one, or the checks passed on it in this session; edits of   *)
(* earlier turns, of other sessions and of the user count as changes.  And none  *)
(* is accepted after a run_tests that failed and before one that passes, also    *)
(* when the workspace goes back to what it was and the session is reopened in    *)
(* between (AcceptSubmission, respond_turn, _restore).                           *)
AcceptsOnlyCovered ==
    [][Accepting => /\ gate.current = gate.baseline \/ gate.current \in tested
                    /\ last # "fail"]_vars

(* A turn says verified only of a content on which the checks passed in this *)
(* session: evidence is not carried into a resumed session.                  *)
VerifiedTurnWasTested == turn # None /\ turn.verified => turn.on \in tested

(* Every turn comes to an end, with a /code turn the model never submits too. *)
TurnEnds == pc \in {"model", "batch", "accept"} ~> pc \in {"prompt", "closed"}

(* A session that was closed can be resumed: its file says resumable. *)
ClosedIsResumable == pc = "closed" /\ file # None => file.tail = "paired"
=============================================================================
