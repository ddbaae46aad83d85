------------------------------ MODULE AgentRun ------------------------------
(***************************************************************************)
(* agent.py: `mca run`, its checkpoints and its resumption.  An attempt is *)
(* one process that calls the model and executes the batches it asks for   *)
(* until a submission is accepted, the step ceiling is met or it dies; the *)
(* next attempt continues from the trajectory on disk.                     *)
(***************************************************************************)
EXTENDS VerificationGate

CONSTANTS MaxSteps,       \* --max-steps, the same at every attempt
          MaxAttempts,    \* bound on attempts
          MaxInterrupts,  \* bound on Ctrl-C
          MaxCrashes      \* bound on kills

ASSUME RunAssumption ==
    /\ MaxSteps \in Nat \ {0} /\ MaxAttempts \in Nat \ {0}
    /\ MaxInterrupts \in Nat /\ MaxCrashes \in Nat

VARIABLES
    pc,           \* off: no attempt; model: at _call_model; batch: at _run_tools
    steps,        \* state["steps"]
    logged,       \* the model events of _event_log
    safe,         \* _resume_state: what an interrupt may save
    traj,         \* trajectory.json, None before the first checkpoint
    modelCalls,   \* history: answers of the model, in all attempts
    attempts, interrupts, crashes    \* counters against the bounds

runVars == <<pc, steps, logged, safe, traj, modelCalls, attempts, interrupts, crashes>>
vars == <<gateVars, runVars>>

State == [logged : Nat, gate : Gate]

Trajectory == [exit : {"Running", "Submitted", "StepLimitExceeded", "Error", "Interrupted"},
               steps : Nat, logged : Nat, gate : Gate]

ASSUME TrajectoryAssumption == None \notin Trajectory

TypeOK ==
    /\ GateTypeOK
    /\ pc \in {"off", "model", "batch"}
    /\ steps \in Nat /\ logged \in Nat /\ modelCalls \in Nat
    /\ safe \in State
    /\ traj \in Trajectory \cup {None}
    /\ attempts \in 0 .. MaxAttempts
    /\ interrupts \in 0 .. MaxInterrupts
    /\ crashes \in 0 .. MaxCrashes

----------------------------------------------------------------------------

(* _checkpoint and the final trajectory: an atomic replace. *)
Write_(exit, n, state) ==
    traj' = [exit |-> exit, steps |-> n, logged |-> state.logged, gate |-> state.gate]

Here == [logged |-> logged, gate |-> gate]

(* The attempt is over; its memory is gone. *)
End == pc' = "off" /\ batch' = NoBatch

(* A new attempt: no test has run in it. *)
Attempt ==
    /\ pc = "off" /\ attempts < MaxAttempts
    /\ pc' = "model"
    /\ attempts' = attempts + 1
    /\ tested' = {} /\ last' = "none"
    /\ safe' = [logged |-> logged', gate |-> gate']
    /\ Write_("Running", steps', safe')
    /\ UNCHANGED <<workspace, batch, writes, modelCalls, interrupts, crashes>>

Start ==
    /\ traj = None
    /\ gate' = Create(workspace, TRUE)
    /\ steps' = 0 /\ logged' = 0
    /\ Attempt

(* A trajectory is no trust anchor: its evidence is dropped. *)
RestoredGate ==
    Sync([traj.gate EXCEPT !.verified = None, !.status = "required",
                           !.require_verification = TRUE], workspace)

RestoredAfresh == 0                                              \* mutant
RestoredSteps == traj.steps

(* _restore_state; a submitted trajectory is not resumable. *)
Resume ==
    /\ traj # None /\ traj.exit # "Submitted"
    /\ gate' = RestoredGate
    /\ steps' = RestoredSteps /\ logged' = traj.logged
    /\ Attempt

ModelUnlimited ==                                                \* mutant
    /\ pc = "model"
    /\ pc' = "batch" /\ steps' = steps /\ logged' = logged
    /\ \E r \in Requests : batch' = NewBatch(r[1], r[2])
    /\ UNCHANGED <<workspace, gate, tested, last, writes, safe, traj, modelCalls,
                   attempts, interrupts, crashes>>

(* The model asks for tools. *)
ModelCalls ==
    /\ pc = "model" /\ steps < MaxSteps
    /\ pc' = "batch"
    /\ \E r \in Requests : batch' = NewBatch(r[1], r[2])
    /\ steps' = steps + 1 /\ logged' = logged + 1 /\ modelCalls' = modelCalls + 1
    /\ UNCHANGED <<workspace, gate, tested, last, writes, safe, traj,
                   attempts, interrupts, crashes>>

(* It asks for none: _format_error corrects it and writes a checkpoint. *)
ModelTalks ==
    /\ pc = "model" /\ steps < MaxSteps
    /\ steps' = steps + 1 /\ logged' = logged + 1 /\ modelCalls' = modelCalls + 1
    /\ safe' = [logged |-> logged', gate |-> gate]
    /\ Write_("Running", steps', safe')
    /\ UNCHANGED <<gateVars, pc, attempts, interrupts, crashes>>

(* The request fails: the steps are counted again, from the event log. *)
ModelFails ==
    /\ pc = "model" /\ steps < MaxSteps
    /\ Write_("Error", logged, Here)
    /\ End
    /\ UNCHANGED <<workspace, gate, tested, last, writes, steps, logged, safe,
                   modelCalls, attempts, interrupts, crashes>>

StepLimit ==
    /\ pc = "model" /\ steps >= MaxSteps
    /\ Write_("StepLimitExceeded", steps, Here)
    /\ End
    /\ UNCHANGED <<workspace, gate, tested, last, writes, steps, logged, safe,
                   modelCalls, attempts, interrupts, crashes>>

RunTools == pc = "batch" /\ BatchStep(TRUE) /\ UNCHANGED runVars

(* The batch is through: a checkpoint, and the end if a submission is accepted. *)
RunToolsDone ==
    /\ pc = "batch" /\ At("done")
    /\ safe' = Here
    /\ IF batch.accepted
       THEN Write_("Submitted", steps, Here) /\ End
       ELSE Write_("Running", steps, Here) /\ pc' = "model" /\ batch' = NoBatch
    /\ UNCHANGED <<workspace, gate, tested, last, writes, steps, logged,
                   modelCalls, attempts, interrupts, crashes>>

(* Ctrl-C: the state of the last complete batch, under a new count of the steps. *)
Interrupt ==
    /\ pc # "off" /\ interrupts < MaxInterrupts
    /\ Write_("Interrupted", logged, safe)
    /\ End
    /\ interrupts' = interrupts + 1
    /\ UNCHANGED <<workspace, gate, tested, last, writes, steps, logged, safe,
                   modelCalls, attempts, crashes>>

Crash ==
    /\ pc # "off" /\ crashes < MaxCrashes
    /\ End
    /\ crashes' = crashes + 1
    /\ UNCHANGED <<workspace, gate, tested, last, writes, steps, logged, safe, traj,
                   modelCalls, attempts, interrupts>>

Init ==
    /\ workspace \in Content
    /\ gate = Create(workspace, TRUE)
    /\ batch = NoBatch
    /\ tested = {} /\ last = "none" /\ writes = 0
    /\ pc = "off" /\ steps = 0 /\ logged = 0
    /\ safe = Here
    /\ traj = None
    /\ modelCalls = 0 /\ attempts = 0 /\ interrupts = 0 /\ crashes = 0

Step ==
    \/ ModelCalls \/ ModelTalks \/ ModelFails \/ StepLimit \/ RunTools \/ RunToolsDone

Next ==
    \/ Start \/ Resume \/ Step \/ Interrupt \/ Crash
    \/ Write /\ UNCHANGED runVars

Spec == Init /\ [][Next]_vars

(* A running attempt goes on: requests and commands have time limits. *)
FairSpec == Spec /\ WF_vars(Step)

----------------------------------------------------------------------------
(* Properties *)

Submitted == traj # None /\ traj.exit = "Submitted"

(* A submission is accepted only for a content on which every configured check  *)
(* passed in the same attempt, by a run_tests that no later one contradicted:   *)
(* no evidence of an earlier attempt, of another content or from before a       *)
(* failure counts (execute_tool_batch, _restore_state).  And nothing but an     *)
(* outside writer changes the workspace after the decision: the submission was  *)
(* decided when all other calls of its message were through.                    *)
SubmittedIsTested ==
    Submitted =>
        /\ traj.gate.verified \in tested /\ last = "pass"
        /\ writes = 0 => workspace = traj.gate.verified

(* --max-steps bounds the model's answers over the run and all its resumptions, *)
(* but for one answer for each Ctrl-C or kill, the one whose batch it stopped.  *)
(* Errors, submissions and resumptions add none.                                *)
NearlyCumulativeCeiling == modelCalls <= MaxSteps + interrupts + crashes

(* Every attempt ends: by a submission, the step ceiling or a failure. *)
AttemptEnds == pc # "off" ~> pc = "off"
=============================================================================
