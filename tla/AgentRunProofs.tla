--------------------------- MODULE AgentRunProofs ---------------------------
(* Proofs about a run and its resumptions, for every number of checks, of  *)
(* steps and of attempts, and every bound on what interferes with them;     *)
(* and about the undo of its edits, for any number of files and records;   *)
(* and about the history it compacts, of any length and for any budget.    *)
EXTENDS AgentRun, Undo, ContextCompaction, GateProofs, SequenceTheorems, FiniteSetTheorems,
        NaturalsInduction, WellFoundedInduction

USE GateAssumption, RunAssumption, TrajectoryAssumption DEF Testing

----------------------------------------------------------------------------
(* What holds of a submission *)

(* The gate that was saved with an accepted submission, and the run's own gate. *)
SubmissionOK ==
    Submitted =>
        /\ pc = "off" /\ traj.gate = gate
        /\ gate.verified # None /\ gate.verified = gate.current
        /\ gate.current = workspace \/ writes > 0

(* The inductive invariant: a run requires verification from its first gate on. *)
RunInv ==
    /\ TypeOK /\ GateInv /\ PassIsLast
    /\ gate.require_verification
    /\ pc # "batch" => batch = NoBatch
    /\ SubmissionOK

LEMMA RunInit == Init => RunInv
  <1> SUFFICES ASSUME Init PROVE RunInv
    OBVIOUS
  <1>1. /\ gate \in Gate /\ gate.require_verification /\ gate.verified = None
        /\ gate.status = "required" /\ gate.has_changes = FALSE /\ gate.current = gate.baseline
    BY DEF Init, Create, Gate
  <1>2. GateInv
    <2>1. /\ workspace \in Content /\ batch = NoBatch /\ tested \subseteq Content
          /\ last = "none" /\ writes \in 0 .. MaxWrites
      BY DEF Init
    <2>2. GateOK
      BY <1>1 DEF GateOK
    <2>. QED
      BY <1>1, <2>1, <2>2, NoBatchOK, IdleKeeps
  <1>3. safe \in State
    BY <1>1 DEF Init, Here, State
  <1>4. TypeOK
    BY <1>1, <1>2, <1>3 DEF Init, TypeOK, GateInv
  <1>. QED
    BY <1>1, <1>2, <1>4 DEF Init, RunInv, PassIsLast, SubmissionOK, Submitted

(* Every state that is written is one, of a run that goes on or has ended. *)
LEMMA WriteTrajectory ==
    ASSUME NEW exit \in {"Running", "Submitted", "StepLimitExceeded", "Error", "Interrupted"},
           NEW n \in Nat, NEW state \in State, Write_(exit, n, state)
    PROVE  /\ traj' \in Trajectory /\ traj' # None
           /\ traj'.exit = exit /\ traj'.steps = n
           /\ traj'.logged = state.logged /\ traj'.gate = state.gate
  BY DEF Write_, Trajectory, State

LEMMA HereState == TypeOK => /\ Here \in State /\ Here.logged = logged /\ Here.gate = gate
  BY DEF TypeOK, GateTypeOK, Here, State

(* A new attempt: the gate it is given has no evidence. *)
LEMMA AttemptKeeps ==
    ASSUME RunInv, Attempt, gate' \in Gate, gate'.verified = None, gate'.require_verification,
           gate'.has_changes = (gate'.current # gate'.baseline), gate'.status # "passed",
           steps' \in Nat, logged' \in Nat
    PROVE  RunInv' /\ safe'.logged = logged'
           /\ traj' \in Trajectory /\ traj' # None
           /\ traj'.steps = steps' /\ traj'.logged = logged'
  <1>1. safe' \in State /\ safe'.logged = logged'
    BY DEF Attempt, State
  <1>2. /\ traj' \in Trajectory /\ traj' # None /\ traj'.exit = "Running"
        /\ traj'.steps = steps' /\ traj'.logged = logged'
    BY <1>1 DEF Attempt, Write_, Trajectory, State
  <1>3. attempts' \in 0 .. MaxAttempts
    BY DEF Attempt, RunInv, TypeOK
  <1>4. batch = NoBatch /\ batch' = NoBatch
    BY DEF Attempt, RunInv
  <1>5. GateInv'
    BY <1>4, NoBatchOK
       DEF Attempt, RunInv, GateInv, GateTypeOK, BatchOK, MatrixOK, GateOK, AcceptedOK
  <1>6. TypeOK'
    BY <1>1, <1>2, <1>3, <1>5 DEF Attempt, RunInv, TypeOK, GateInv
  <1>. QED
    BY <1>1, <1>2, <1>4, <1>5, <1>6
       DEF Attempt, RunInv, PassIsLast, SubmissionOK, Submitted

LEMMA StartKeeps ==
    ASSUME RunInv, Start
    PROVE  RunInv' /\ safe'.logged = logged' /\ traj' \in Trajectory /\ traj' # None
           /\ traj'.steps = steps' /\ traj'.logged = logged'
  <1>1. /\ gate' \in Gate /\ gate'.verified = None /\ gate'.require_verification
        /\ gate'.has_changes = (gate'.current # gate'.baseline) /\ gate'.status # "passed"
    BY DEF Start, Create, Gate, RunInv, TypeOK, GateTypeOK
  <1>. QED
    BY <1>1, AttemptKeeps DEF Start

(* _restore_state drops the evidence of the attempt before. *)
LEMMA RestoredGateOK ==
    ASSUME NEW g \in Gate, NEW c \in Content
    PROVE  LET h == Sync([g EXCEPT !.verified = None, !.status = "required",
                                   !.require_verification = TRUE], c)
           IN  /\ h \in Gate /\ h.verified = None /\ h.require_verification
               /\ h.has_changes = (h.current # h.baseline) /\ h.status # "passed"
  <1> DEFINE r == [g EXCEPT !.verified = None, !.status = "required", !.require_verification = TRUE]
  <1>1. None \in Content \cup {None} /\ TRUE \in BOOLEAN
        /\ "required" \in {"not_required", "required", "passed", "failed"}
    OBVIOUS
  <1>2. r \in Gate
    BY <1>1 DEF Gate
  <1>3. r.verified = None /\ r.require_verification = TRUE /\ r.baseline = g.baseline
    BY DEF Gate
  <1>. HIDE DEF r
  <1>4. /\ Sync(r, c) \in Gate /\ Sync(r, c).verified = None /\ Sync(r, c).require_verification
        /\ Sync(r, c).has_changes = (Sync(r, c).current # Sync(r, c).baseline)
        /\ Sync(r, c).status # "passed"
    BY <1>2, <1>3, SyncGate
  <1>. QED
    BY <1>4 DEF r

LEMMA ResumeKeeps ==
    ASSUME RunInv, Resume
    PROVE  RunInv' /\ safe'.logged = logged' /\ traj' \in Trajectory /\ traj' # None
           /\ traj'.steps = steps' /\ traj'.logged = logged'
  <1>1. traj \in Trajectory /\ workspace \in Content
    BY DEF Resume, RunInv, TypeOK, GateTypeOK
  <1>2. traj.gate \in Gate /\ traj.steps \in Nat /\ traj.logged \in Nat
    BY <1>1 DEF Trajectory
  <1>3. /\ gate' \in Gate /\ gate'.verified = None /\ gate'.require_verification
        /\ gate'.has_changes = (gate'.current # gate'.baseline) /\ gate'.status # "passed"
    BY <1>1, <1>2, RestoredGateOK DEF Resume, RestoredGate
  <1>. QED
    BY <1>2, <1>3, AttemptKeeps DEF Resume, RestoredSteps

(* Steps that leave gate and workspace alone: what is new is the trajectory. *)
LEMMA SavedKeeps ==
    ASSUME RunInv, UNCHANGED <<workspace, gate, tested, last, writes>>,
           batch' \in Batch, batch'.at \in {"idle", "sync"}, ~batch'.accepted,
           TypeOK', pc' # "batch" => batch' = NoBatch, SubmissionOK'
    PROVE  RunInv'
  <1>1. GateInv'
    BY DEF RunInv, GateInv, GateTypeOK, BatchOK, MatrixOK, GateOK, AcceptedOK
  <1>. QED
    BY <1>1 DEF RunInv, PassIsLast

LEMMA ModelCallsKeeps == ASSUME RunInv, ModelCalls PROVE RunInv'
  <1>1. batch' \in Batch /\ batch'.at = "sync" /\ ~batch'.accepted
    BY NoBatchOK DEF ModelCalls
  <1>2. steps' \in Nat /\ logged' \in Nat /\ modelCalls' \in Nat
    BY DEF ModelCalls, RunInv, TypeOK
  <1>3. TypeOK'
    BY <1>1, <1>2 DEF ModelCalls, RunInv, TypeOK, GateTypeOK
  <1>4. SubmissionOK'
    BY DEF ModelCalls, RunInv, SubmissionOK, Submitted
  <1>. QED
    BY <1>1, <1>3, <1>4, SavedKeeps DEF ModelCalls

LEMMA ModelTalksKeeps ==
    ASSUME RunInv, ModelTalks
    PROVE  RunInv' /\ safe'.logged = logged' /\ traj' # None
           /\ traj'.steps = steps' /\ traj'.logged = logged'
  <1>1. steps' \in Nat /\ logged' \in Nat /\ modelCalls' \in Nat /\ gate \in Gate
    BY DEF ModelTalks, RunInv, TypeOK, GateTypeOK
  <1>2. safe' \in State /\ safe'.logged = logged'
    BY <1>1 DEF ModelTalks, State
  <1>3. /\ traj' \in Trajectory /\ traj' # None /\ traj'.exit = "Running"
        /\ traj'.steps = steps' /\ traj'.logged = logged'
    BY <1>1, <1>2 DEF ModelTalks, Write_, Trajectory, State
  <1>4. batch' = NoBatch /\ UNCHANGED gateVars
    BY DEF ModelTalks, RunInv, gateVars
  <1>5. TypeOK'
    BY <1>1, <1>2, <1>3, <1>4 DEF ModelTalks, RunInv, TypeOK, GateTypeOK, gateVars
  <1>6. SubmissionOK'
    BY <1>3 DEF SubmissionOK, Submitted
  <1>. QED
    BY <1>2, <1>3, <1>4, <1>5, <1>6, NoBatchOK, SavedKeeps DEF gateVars, ModelTalks

(* An attempt that ends without a submission. *)
LEMMA EndKeeps ==
    ASSUME RunInv, End, UNCHANGED <<workspace, gate, tested, last, writes>>,
           UNCHANGED <<steps, logged, safe, modelCalls, attempts>>,
           interrupts' \in 0 .. MaxInterrupts, crashes' \in 0 .. MaxCrashes,
           traj' \in Trajectory \cup {None}, traj' # None => traj'.exit # "Submitted"
    PROVE  RunInv'
  <1>1. TypeOK'
    BY NoBatchOK DEF End, RunInv, TypeOK, GateTypeOK
  <1>. QED
    BY <1>1, NoBatchOK, SavedKeeps DEF End, SubmissionOK, Submitted

LEMMA ModelFailsKeeps ==
    ASSUME RunInv, ModelFails
    PROVE  RunInv' /\ traj'.steps = logged /\ traj'.logged = logged
  <1>1. Here \in State /\ Here.logged = logged /\ logged \in Nat
    BY HereState DEF RunInv, TypeOK
  <1>2. traj' \in Trajectory /\ traj'.exit = "Error" /\ traj'.steps = logged /\ traj'.logged = logged
    BY <1>1, WriteTrajectory DEF ModelFails
  <1>. QED
    BY <1>2, EndKeeps DEF ModelFails, RunInv, TypeOK

LEMMA StepLimitKeeps ==
    ASSUME RunInv, StepLimit
    PROVE  RunInv' /\ traj'.steps = steps /\ traj'.logged = logged
  <1>1. Here \in State /\ Here.logged = logged /\ steps \in Nat
    BY HereState DEF RunInv, TypeOK
  <1>2. /\ traj' \in Trajectory /\ traj'.exit = "StepLimitExceeded"
        /\ traj'.steps = steps /\ traj'.logged = logged
    BY <1>1, WriteTrajectory DEF StepLimit
  <1>. QED
    BY <1>2, EndKeeps DEF StepLimit, RunInv, TypeOK

LEMMA InterruptKeeps ==
    ASSUME RunInv, Interrupt
    PROVE  RunInv' /\ traj'.steps = logged /\ traj'.logged = safe.logged
  <1>1. safe \in State /\ logged \in Nat
    BY DEF RunInv, TypeOK
  <1>2. /\ traj' \in Trajectory /\ traj'.exit = "Interrupted"
        /\ traj'.steps = logged /\ traj'.logged = safe.logged
    BY <1>1, WriteTrajectory DEF Interrupt
  <1>3. interrupts' \in 0 .. MaxInterrupts
    BY DEF Interrupt, RunInv, TypeOK
  <1>. QED
    BY <1>2, <1>3, EndKeeps DEF Interrupt, RunInv, TypeOK

LEMMA CrashKeeps == ASSUME RunInv, Crash PROVE RunInv'
  <1>1. crashes' \in 0 .. MaxCrashes
    BY DEF Crash, RunInv, TypeOK
  <1>2. traj' # None => traj'.exit # "Submitted"
    BY DEF Crash, RunInv, SubmissionOK, Submitted
  <1>. QED
    BY <1>1, <1>2, EndKeeps DEF Crash, RunInv, TypeOK

LEMMA RunToolsKeeps == ASSUME RunInv, RunTools PROVE RunInv'
  <1>1. Kept
    BY BatchKeeps DEF RunInv, RunTools
  <1>2. TypeOK'
    BY <1>1 DEF RunTools, runVars, RunInv, TypeOK, Kept, GateInv
  <1>. QED
    BY <1>1, <1>2 DEF RunTools, runVars, RunInv, Kept, SubmissionOK, Submitted

(* The gate of an accepted submission is evidence for what the workspace is. *)
LEMMA RunToolsDoneKeeps ==
    ASSUME RunInv, RunToolsDone
    PROVE  RunInv' /\ safe'.logged = logged' /\ traj' # None
           /\ traj'.steps = steps' /\ traj'.logged = logged'
  <1>1. Here \in State /\ Here.logged = logged /\ Here.gate = gate /\ steps \in Nat
    BY HereState DEF RunInv, TypeOK
  <1>2. safe' \in State /\ safe'.logged = logged' /\ UNCHANGED <<steps, logged>>
    BY <1>1 DEF RunToolsDone
  <1>3. CASE batch.accepted /\ Write_("Submitted", steps, Here) /\ End
    <2>1. /\ traj' \in Trajectory /\ traj' # None /\ traj'.gate = gate
          /\ traj'.steps = steps /\ traj'.logged = logged
      BY <1>1, <1>3, WriteTrajectory
    <2>2. gate.verified # None /\ gate.verified = gate.current
          /\ (gate.current = workspace \/ writes > 0)
      BY <1>3 DEF RunInv, GateInv, GateTypeOK, AcceptedOK, MaySubmit, Gate
    <2>3. TypeOK'
      BY <1>2, <1>3, <2>1, NoBatchOK DEF RunToolsDone, End, RunInv, TypeOK, GateTypeOK
    <2>4. SubmissionOK'
      BY <1>3, <2>1, <2>2 DEF RunToolsDone, End, SubmissionOK
    <2>. QED
      BY <1>2, <1>3, <2>1, <2>3, <2>4, NoBatchOK, SavedKeeps DEF RunToolsDone, End
  <1>4. CASE Write_("Running", steps, Here) /\ pc' = "model" /\ batch' = NoBatch
    <2>1. /\ traj' \in Trajectory /\ traj' # None /\ traj'.exit = "Running"
          /\ traj'.steps = steps /\ traj'.logged = logged
      BY <1>1, <1>4, WriteTrajectory
    <2>2. TypeOK'
      BY <1>2, <1>4, <2>1, NoBatchOK DEF RunToolsDone, RunInv, TypeOK, GateTypeOK
    <2>3. SubmissionOK'
      BY <2>1 DEF SubmissionOK, Submitted
    <2>. QED
      BY <1>2, <1>4, <2>1, <2>2, <2>3, NoBatchOK, SavedKeeps DEF RunToolsDone
  <1>. QED
    BY <1>3, <1>4 DEF RunToolsDone

LEMMA OutsideKeeps == ASSUME RunInv, Write, UNCHANGED runVars PROVE RunInv'
  <1>1. GateInv' /\ UNCHANGED <<gate, batch, tested, last>> /\ writes' = writes + 1 /\ writes \in Nat
    BY WriteKeeps DEF RunInv, TypeOK, GateTypeOK
  <1>2. TypeOK'
    BY <1>1 DEF runVars, RunInv, TypeOK, GateInv
  <1>. QED
    BY <1>1, <1>2 DEF runVars, RunInv, PassIsLast, SubmissionOK, Submitted

LEMMA RunStep == RunInv /\ [Next]_vars => RunInv'
  <1> SUFFICES ASSUME RunInv, [Next]_vars PROVE RunInv'
    OBVIOUS
  <1>1. CASE UNCHANGED vars
    BY <1>1 DEF vars, gateVars, runVars, RunInv, TypeOK, GateTypeOK, GateInv, BatchOK, MatrixOK,
                GateOK, AcceptedOK, MaySubmit, PassIsLast, SubmissionOK, Submitted
  <1>2. CASE Step
    BY <1>2, ModelCallsKeeps, ModelTalksKeeps, ModelFailsKeeps, StepLimitKeeps, RunToolsKeeps,
       RunToolsDoneKeeps DEF Step
  <1>. QED
    BY <1>1, <1>2, StartKeeps, ResumeKeeps, InterruptKeeps, CrashKeeps, OutsideKeeps DEF Next

LEMMA RunInvariant == Spec => []RunInv
  BY RunInit, RunStep, PTL DEF Spec

(* Every variable has its type, whatever interferes (agent.py). *)
THEOREM RunTypeCorrect == Spec => []TypeOK
  <1>1. RunInv => TypeOK
    BY DEF RunInv
  <1>. QED
    BY <1>1, RunInvariant, PTL

----------------------------------------------------------------------------
(* The ceiling of steps, over all attempts *)

(* An answer that no trajectory counts was paid for with a Ctrl-C or a kill. *)
CeilingInv ==
    /\ logged <= steps /\ steps <= MaxSteps
    /\ traj # None => traj.logged <= traj.steps /\ traj.steps <= MaxSteps
    /\ traj = None => pc = "off" /\ modelCalls = 0
    /\ pc = "model" => safe.logged = logged /\ traj.logged = logged
    /\ pc = "batch" => safe.logged + 1 = logged /\ traj.logged + 1 = logged
    /\ pc # "off" => modelCalls <= logged + interrupts + crashes
    /\ pc = "off" /\ traj # None => modelCalls <= traj.logged + interrupts + crashes

(* The numbers are numbers. *)
LEMMA RunNumbers ==
    ASSUME TypeOK
    PROVE  /\ steps \in Nat /\ logged \in Nat /\ modelCalls \in Nat
           /\ interrupts \in Nat /\ crashes \in Nat /\ safe.logged \in Nat
           /\ traj # None => traj.logged \in Nat /\ traj.steps \in Nat
  BY DEF TypeOK, State, Trajectory

LEMMA CeilingStep == RunInv /\ CeilingInv /\ [Next]_vars => CeilingInv'
  <1> SUFFICES ASSUME RunInv, CeilingInv, [Next]_vars PROVE CeilingInv'
    OBVIOUS
  <1>1. /\ steps \in Nat /\ logged \in Nat /\ modelCalls \in Nat
        /\ interrupts \in Nat /\ crashes \in Nat /\ safe.logged \in Nat
        /\ traj # None => traj.logged \in Nat /\ traj.steps \in Nat
    BY RunNumbers DEF RunInv
  <1>2. CASE UNCHANGED <<pc, steps, logged, safe, traj, modelCalls, interrupts, crashes>>
    BY <1>2 DEF CeilingInv
  <1>3. CASE Start
    <2>1. UNCHANGED <<modelCalls, interrupts, crashes>> /\ pc' = "model"
      BY <1>3 DEF Start, Attempt
    <2>2. /\ safe'.logged = logged' /\ traj' # None /\ traj'.steps = steps'
          /\ traj'.logged = logged' /\ steps' = 0 /\ logged' = 0 /\ modelCalls = 0
      BY <1>3, StartKeeps DEF Start, CeilingInv
    <2>. QED
      BY <1>1, <2>1, <2>2 DEF CeilingInv
  <1>4. CASE Resume
    <2>1. UNCHANGED <<modelCalls, interrupts, crashes>> /\ pc' = "model" /\ pc = "off"
      BY <1>4 DEF Resume, Attempt
    <2>2. /\ safe'.logged = logged' /\ traj' # None /\ traj'.steps = steps'
          /\ traj'.logged = logged' /\ steps' = traj.steps /\ logged' = traj.logged /\ traj # None
      BY <1>4, ResumeKeeps DEF Resume, RestoredSteps
    <2>. QED
      BY <1>1, <2>1, <2>2 DEF CeilingInv
  <1>5. CASE ModelCalls
    BY <1>1, <1>5 DEF ModelCalls, CeilingInv
  <1>6. CASE ModelTalks
    <2>1. /\ steps < MaxSteps /\ steps' = steps + 1 /\ logged' = logged + 1
          /\ modelCalls' = modelCalls + 1 /\ UNCHANGED <<pc, interrupts, crashes>> /\ pc = "model"
      BY <1>6 DEF ModelTalks
    <2>2. /\ safe'.logged = logged' /\ traj' # None /\ traj'.steps = steps'
          /\ traj'.logged = logged'
      BY <1>6, ModelTalksKeeps
    <2>. QED
      BY <1>1, <2>1, <2>2 DEF CeilingInv
  <1>7. CASE ModelFails
    <2>1. traj' # None /\ traj'.steps = logged /\ traj'.logged = logged
      BY <1>7, HereState, WriteTrajectory, ModelFailsKeeps, <1>1 DEF ModelFails, RunInv
    <2>. QED
      BY <1>1, <1>7, <2>1 DEF ModelFails, End, CeilingInv
  <1>8. CASE StepLimit
    <2>1. traj' # None /\ traj'.steps = steps /\ traj'.logged = logged
      BY <1>8, HereState, WriteTrajectory, <1>1 DEF StepLimit, RunInv
    <2>. QED
      BY <1>1, <1>8, <2>1 DEF StepLimit, End, CeilingInv
  <1>9. CASE RunToolsDone
    <2>1. /\ safe'.logged = logged' /\ traj' # None /\ traj'.steps = steps'
          /\ traj'.logged = logged'
      BY <1>9, RunToolsDoneKeeps
    <2>2. /\ pc = "batch" /\ pc' \in {"off", "model"}
          /\ UNCHANGED <<steps, logged, modelCalls, interrupts, crashes>>
      BY <1>9 DEF RunToolsDone, End
    <2>. QED
      BY <1>1, <2>1, <2>2 DEF CeilingInv
  <1>10. CASE Interrupt
    <2>1. traj' # None /\ traj'.steps = logged /\ traj'.logged = safe.logged
      BY <1>10, WriteTrajectory, <1>1 DEF Interrupt, RunInv, TypeOK
    <2>2. /\ pc \in {"model", "batch"} /\ pc' = "off" /\ interrupts' = interrupts + 1
          /\ UNCHANGED <<steps, logged, modelCalls, crashes, safe>>
      BY <1>10 DEF Interrupt, End, RunInv, TypeOK
    <2>. QED
      BY <1>1, <2>1, <2>2 DEF CeilingInv
  <1>11. CASE Crash
    <2>1. /\ pc \in {"model", "batch"} /\ pc' = "off" /\ crashes' = crashes + 1
          /\ UNCHANGED <<steps, logged, modelCalls, interrupts, safe, traj>>
      BY <1>11 DEF Crash, End, RunInv, TypeOK
    <2>. QED
      BY <1>1, <2>1 DEF CeilingInv
  <1>12. CASE RunTools \/ (Write /\ UNCHANGED runVars) \/ UNCHANGED vars
    BY <1>2, <1>12 DEF RunTools, runVars, vars
  <1>. QED
    BY <1>3, <1>4, <1>5, <1>6, <1>7, <1>8, <1>9, <1>10, <1>11, <1>12 DEF Next, Step

(* --max-steps bounds the model's answers over a run and all its resumptions, *)
(* but for one answer for each Ctrl-C or kill (Agent.run, _restore_state),    *)
(* whatever MaxSteps is and however often the run is stopped.                 *)
THEOREM CeilingNearlyCumulative == Spec => []NearlyCumulativeCeiling
  <1>1. Init => CeilingInv
    BY DEF Init, CeilingInv, Here
  <1>2. RunInv /\ CeilingInv => NearlyCumulativeCeiling
    <2> SUFFICES ASSUME RunInv, CeilingInv PROVE NearlyCumulativeCeiling
      OBVIOUS
    <2>. QED
      BY RunNumbers DEF RunInv, CeilingInv, NearlyCumulativeCeiling
  <1>. QED
    BY <1>1, <1>2, RunInvariant, CeilingStep, PTL DEF Spec

----------------------------------------------------------------------------
(* A submission is accepted only for a content on which every configured check *)
(* passed in the same attempt, by a run of the tests that no later one         *)
(* contradicted (execute_tool_batch, _restore_state), in every behaviour with  *)
(* at most one write from outside.                                             *)
THEOREM SubmissionsAreTested == Spec => [](writes <= 1 => SubmittedIsTested)
  <1>1. RunInv => (writes <= 1 => SubmittedIsTested)
    BY DEF RunInv, TypeOK, GateTypeOK, GateInv, GateOK, PassIsLast, SubmissionOK, SubmittedIsTested
  <1>. QED
    BY <1>1, RunInvariant, PTL

----------------------------------------------------------------------------
(* The undo of the edits of a run (Undo).  A record leads back to a content *)
(* that the file had before any record, or that an earlier record left.     *)

UndoSpec == InitUndo /\ [][NextUndo]_undoVars

FileRecord == [path : Path, before : FileContent, after : FileText]

UndoTypes ==
    /\ files \in [Path -> FileContent] /\ baseline \in [Path -> FileContent]
    /\ runner \in [pc : {"off", "batch", "journal", "trajectory"}, records : Seq(FileRecord),
                   edit : Seq(FileRecord), reported : Nat, ends : BOOLEAN]
    /\ runner.edit # <<>> => Len(runner.edit) = 1
    /\ journal \in Seq(FileRecord) /\ fileEdits \in Nat
    /\ trajectory \in [journaled : BOOLEAN, reported : Nat]
    /\ undo \in [pc : {"off", "undo", "done"}, left : Nat, force : BOOLEAN,
                 known : [Path -> FileContent \cup {Unread}]]
    /\ undo.left <= Len(journal)

(* A content of f that the first k records lead back from to the first one. *)
Grounded(first, records, k, content, f) ==
    \/ content = first[f]
    \/ \E j \in 1 .. k : records[j].path = f /\ records[j].after = content

RecordsGrounded(first, records, foreign) ==
    \A i \in 1 .. Len(records) : records[i].path \notin foreign =>
        Grounded(first, records, i - 1, records[i].before, records[i].path)

FilesGrounded(first, records, k, contents, foreign) ==
    \A f \in Path \ foreign : Grounded(first, records, k, contents[f], f)

Sound(first, records, contents, foreign) ==
    /\ RecordsGrounded(first, records, foreign)
    /\ FilesGrounded(first, records, Len(records), contents, foreign)

(* The records that a resumption loads. *)
Journaled == IF trajectory.journaled THEN journal ELSE <<>>

(* What a run under way will save, and what an undo may rely on.  Reports may *)
(* lag behind the edits, and only a trajectory that reports them all promises *)
(* anything.                                                                  *)
RunnerOK ==
    /\ runner.pc = "off" => runner = Off
    /\ runner.pc # "off" =>
          /\ trajectory.reported <= runner.reported
          /\ runner.reported + Len(runner.edit) <= fileEdits
          /\ runner.reported + Len(runner.edit) = fileEdits =>
                 Sound(baseline, runner.records \o runner.edit, files, others)
    /\ runner.pc \in {"journal", "trajectory"} => runner.edit = <<>>
    /\ runner.pc = "trajectory" /\ runner.records # <<>> => journal = runner.records

SavedOK ==
    /\ trajectory.reported <= fileEdits
    /\ trajectory.reported = fileEdits => Sound(baseline, Journaled, files, others)

UndoOK ==
    /\ undo.pc = "off" => undo.left = 0
    /\ undo.pc # "off" => runner.pc = "off" /\ trajectory.journaled
    /\ trajectory.reported = fileEdits =>
          /\ undo.pc = "undo" => FilesGrounded(baseline, journal, undo.left, files, others)
          /\ undo.pc = "done" => FilesGrounded(baseline, journal, 0, files, others)
    /\ undo.pc = "undo" => \A f \in Path \ others : undo.known[f] \in {Unread, files[f]}

UndoInv == UndoTypes /\ RunnerOK /\ SavedOK /\ UndoOK

(* A record of an edit, after those of the edits before. *)
LEMMA SoundAppend ==
    ASSUME NEW first, NEW foreign, NEW contents \in [Path -> FileContent],
           NEW records \in Seq(FileRecord), Sound(first, records, contents, foreign),
           NEW edit \in FileRecord, edit.before = contents[edit.path]
    PROVE  Sound(first, records \o <<edit>>, [contents EXCEPT ![edit.path] = edit.after], foreign)
  <1> DEFINE all == records \o <<edit>>
             now == [contents EXCEPT ![edit.path] = edit.after]
             f == edit.path
  <1>1. /\ f \in Path /\ now[f] = edit.after
        /\ \A g \in Path : g # f => now[g] = contents[g]
    BY DEF FileRecord
  <1>2. /\ Len(all) = Len(records) + 1 /\ Len(records) \in Nat /\ all[Len(records) + 1] = edit
        /\ \A i \in 1 .. Len(records) : all[i] = records[i]
    OBVIOUS
  <1> HIDE DEF all, now
  <1>3. ASSUME NEW g, NEW content, NEW k \in 0 .. Len(records),
               Grounded(first, records, k, content, g)
        PROVE  Grounded(first, all, k, content, g)
    BY <1>2, <1>3 DEF Grounded
  <1>4. RecordsGrounded(first, all, foreign)
    <2> SUFFICES ASSUME NEW i \in 1 .. Len(all), all[i].path \notin foreign
                 PROVE  Grounded(first, all, i - 1, all[i].before, all[i].path)
      BY DEF RecordsGrounded
    <2>1. CASE i \in 1 .. Len(records)
      <3>1. Grounded(first, records, i - 1, records[i].before, records[i].path)
        BY <1>2, <2>1 DEF Sound, RecordsGrounded
      <3>2. i - 1 \in 0 .. Len(records)
        BY <1>2, <2>1
      <3>. QED
        BY <1>2, <1>3, <2>1, <3>1, <3>2
    <2>2. CASE i = Len(records) + 1
      <3>1. Grounded(first, records, Len(records), contents[f], f)
        BY <1>1, <1>2, <2>2 DEF Sound, FilesGrounded
      <3>2. i - 1 = Len(records) /\ Len(records) \in 0 .. Len(records)
        BY <1>2, <2>2
      <3>. QED
        BY <1>1, <1>2, <1>3, <2>2, <3>1, <3>2
    <2>. QED
      BY <1>2, <2>1, <2>2
  <1>5. FilesGrounded(first, all, Len(all), now, foreign)
    <2> SUFFICES ASSUME NEW g \in Path \ foreign
                 PROVE  Grounded(first, all, Len(all), now[g], g)
      BY DEF FilesGrounded
    <2>1. CASE g = f
      BY <1>1, <1>2, <2>1 DEF Grounded
    <2>2. CASE g # f
      <3>1. Grounded(first, records, Len(records), contents[g], g) /\ now[g] = contents[g]
        BY <1>1, <2>2 DEF Sound, FilesGrounded
      <3>. QED
        BY <1>2, <3>1 DEF Grounded
    <2>. QED
      BY <2>1, <2>2
  <1>. QED
    BY <1>4, <1>5 DEF Sound, all, now

(* Others write their files only, and those are given up. *)
LEMMA SoundForeign ==
    ASSUME NEW first, NEW foreign, NEW more, foreign \subseteq more,
           NEW contents, NEW now, \A f \in Path \ more : now[f] = contents[f],
           NEW records, NEW k
    PROVE  /\ Sound(first, records, contents, foreign) => Sound(first, records, now, more)
           /\ FilesGrounded(first, records, k, contents, foreign) =>
                  FilesGrounded(first, records, k, now, more)
  BY DEF Sound, RecordsGrounded, FilesGrounded

----------------------------------------------------------------------------
LEMMA UndoInvInit == InitUndo => UndoInv
  <1> SUFFICES ASSUME InitUndo PROVE UndoInv
    OBVIOUS
  <1>1. runner = Off /\ undo = NoUndo /\ journal = <<>> /\ Len(journal) = 0 /\ Journaled = <<>>
    BY DEF InitUndo, Journaled
  <1>2. UndoTypes
    BY <1>1 DEF InitUndo, UndoTypes, Off, NoUndo
  <1>3. Sound(baseline, <<>>, files, others)
    BY DEF InitUndo, Sound, RecordsGrounded, FilesGrounded, Grounded
  <1>. QED
    BY <1>1, <1>2, <1>3 DEF InitUndo, UndoInv, RunnerOK, SavedOK, UndoOK, Off, NoUndo

LEMMA StartRunUndo == ASSUME UndoInv, StartRun PROVE UndoInv'
  <1>1. /\ runner.pc = "off" /\ undo.pc = "off"
        /\ runner' = [pc |-> "batch", records |-> Journaled, edit |-> <<>>,
                      reported |-> trajectory.reported, ends |-> FALSE]
        /\ UNCHANGED <<files, journal, trajectory, undo, baseline, fileEdits, others>>
    BY DEF StartRun, Running, Off, Journaled
  <1>2. UndoTypes /\ Journaled \in Seq(FileRecord) /\ trajectory.reported \in Nat /\ fileEdits \in Nat
    BY DEF UndoInv, UndoTypes, Journaled
  <1>3. UndoTypes'
    BY <1>1, <1>2 DEF UndoTypes
  <1>4. Journaled \o <<>> = Journaled /\ Len(<<>>) = 0
    BY <1>2
  <1>5. RunnerOK'
    BY <1>1, <1>2, <1>4 DEF UndoInv, SavedOK, RunnerOK
  <1>6. SavedOK'
    BY <1>1 DEF UndoInv, SavedOK, Journaled
  <1>7. UndoOK'
    BY <1>1 DEF UndoInv, UndoOK
  <1>. QED
    BY <1>3, <1>5, <1>6, <1>7 DEF UndoInv

LEMMA EditUndo ==
    ASSUME UndoInv, NEW f \in Path, NEW text \in FileText, EditFile(f, text) PROVE UndoInv'
  <1> DEFINE e == [path |-> f, before |-> files[f], after |-> text]
  <1>1. /\ runner.pc = "batch" /\ undo.pc = "off" /\ runner.edit = <<>>
        /\ files' = [files EXCEPT ![f] = text] /\ runner' = [runner EXCEPT !.edit = <<e>>]
        /\ fileEdits' = fileEdits + 1
        /\ UNCHANGED <<journal, trajectory, undo, baseline, others>>
    BY DEF EditFile, Running
  <1>2. UndoTypes /\ fileEdits \in Nat /\ runner.reported \in Nat /\ trajectory.reported \in Nat
        /\ runner.records \in Seq(FileRecord) /\ files \in [Path -> FileContent]
    BY DEF UndoInv, UndoTypes
  <1>3. e \in FileRecord /\ e.path = f /\ e.before = files[f] /\ e.after = text
    BY <1>2 DEF FileRecord
  <1> HIDE DEF e
  <1>4. <<e>> \in Seq(FileRecord) /\ Len(<<e>>) = 1 /\ Len(<<>>) = 0
        /\ runner.records \o <<>> = runner.records
    BY <1>2, <1>3
  <1>5. UndoTypes'
    <2>1. files' \in [Path -> FileContent]
      BY <1>1, <1>2 DEF FileContent
    <2>2. runner' \in [pc : {"off", "batch", "journal", "trajectory"}, records : Seq(FileRecord),
                       edit : Seq(FileRecord), reported : Nat, ends : BOOLEAN]
      BY <1>1, <1>2, <1>4 DEF UndoTypes
    <2>3. runner'.edit = <<e>>
      BY <1>1, <1>2 DEF UndoTypes
    <2>4. fileEdits + 1 \in Nat
      BY <1>2
    <2>. QED
      BY <1>1, <1>2, <1>4, <2>1, <2>2, <2>3, <2>4 DEF UndoTypes
  <1>6. /\ runner'.pc = "batch" /\ runner'.edit = <<e>> /\ runner'.records = runner.records
        /\ runner'.reported = runner.reported
    BY <1>1, <1>2 DEF UndoTypes
  <1>7. trajectory.reported <= runner.reported /\ runner.reported <= fileEdits
    BY <1>1, <1>2, <1>4 DEF UndoInv, RunnerOK
  <1>8. ASSUME runner.reported = fileEdits
        PROVE  Sound(baseline, runner.records \o <<e>>, files', others)
    <2>1. Sound(baseline, runner.records, files, others)
      BY <1>1, <1>2, <1>4, <1>8 DEF UndoInv, RunnerOK
    <2>. QED
      BY <1>1, <1>2, <1>3, <2>1, SoundAppend
  <1>9. RunnerOK'
    BY <1>1, <1>2, <1>4, <1>6, <1>7, <1>8 DEF RunnerOK
  <1>10. SavedOK'
    BY <1>1, <1>2, <1>7 DEF SavedOK
  <1>11. UndoOK'
    <2>1. undo'.pc = "off" /\ undo'.left = 0
      BY <1>1 DEF UndoInv, UndoOK
    <2>. QED
      BY <2>1 DEF UndoOK
  <1>. QED
    BY <1>5, <1>9, <1>10, <1>11 DEF UndoInv

LEMMA RecordUndo == ASSUME UndoInv, Record PROVE UndoInv'
  <1>1. /\ runner.pc = "batch" /\ undo.pc = "off" /\ runner.edit # <<>>
        /\ runner' = [runner EXCEPT !.records = runner.records \o runner.edit, !.edit = <<>>,
                                    !.reported = runner.reported + 1]
        /\ UNCHANGED <<files, journal, trajectory, undo, baseline, fileEdits, others>>
    BY DEF Record, Running
  <1>2. UndoTypes /\ fileEdits \in Nat /\ runner.reported \in Nat /\ trajectory.reported \in Nat
        /\ runner.records \o runner.edit \in Seq(FileRecord) /\ Len(runner.edit) = 1
    BY <1>1 DEF UndoInv, UndoTypes
  <1>3. /\ runner'.pc = "batch" /\ runner'.edit = <<>>
        /\ runner'.records = runner.records \o runner.edit
        /\ runner'.reported = runner.reported + 1
    BY <1>1, <1>2 DEF UndoTypes
  <1>4. (runner.records \o runner.edit) \o <<>> = runner.records \o runner.edit /\ Len(<<>>) = 0
    BY <1>2
  <1>5. UndoTypes'
    <2>1. runner.reported + 1 \in Nat /\ <<>> \in Seq(FileRecord)
      BY <1>2
    <2>. QED
      BY <1>1, <1>2, <2>1 DEF UndoTypes
  <1>6. RunnerOK'
    <2>1. /\ trajectory.reported <= runner.reported /\ runner.reported + 1 <= fileEdits
          /\ runner.reported + 1 = fileEdits =>
                 Sound(baseline, runner.records \o runner.edit, files, others)
      BY <1>1, <1>2 DEF UndoInv, RunnerOK
    <2>2. /\ Len(runner'.edit) = 0
          /\ runner'.records \o runner'.edit = runner.records \o runner.edit
      BY <1>3, <1>4
    <2>3. /\ runner'.reported + Len(runner'.edit) = runner.reported + 1
          /\ trajectory.reported <= runner'.reported
      BY <1>2, <1>3, <2>1, <2>2
    <2>4. UNCHANGED <<files, trajectory, baseline, fileEdits, others>>
      BY <1>1
    <2>. QED
      BY <1>3, <2>1, <2>2, <2>3, <2>4 DEF RunnerOK
  <1>7. SavedOK'
    BY <1>1 DEF UndoInv, SavedOK, Journaled
  <1>8. UndoOK'
    BY <1>1 DEF UndoInv, UndoOK
  <1>. QED
    BY <1>5, <1>6, <1>7, <1>8 DEF UndoInv

LEMMA EndBatchUndo ==
    ASSUME UndoInv, NEW interrupted \in BOOLEAN, EndBatch(interrupted) PROVE UndoInv'
  <1>1. /\ runner.pc = "batch" /\ undo.pc = "off" /\ (runner.edit = <<>> \/ interrupted)
        /\ UNCHANGED <<files, journal, trajectory, undo, baseline, fileEdits, others>>
    BY DEF EndBatch, Running
  <1>2. UndoTypes /\ fileEdits \in Nat /\ runner.reported \in Nat /\ trajectory.reported \in Nat
        /\ runner.records \in Seq(FileRecord) /\ Len(<<>>) = 0
        /\ runner.edit \in Seq(FileRecord) /\ runner.records \o <<>> = runner.records
    BY <1>1 DEF UndoInv, UndoTypes
  <1>3. PICK n \in {trajectory.reported, runner.reported} :
            /\ n # trajectory.reported => n = runner.reported /\ runner.edit = <<>>
            /\ runner' = [runner EXCEPT !.pc = "journal", !.edit = <<>>, !.ends = interrupted,
                                        !.reported = n]
    BY <1>1 DEF EndBatch, SaveOrder
  <1>4. /\ runner'.pc = "journal" /\ runner'.edit = <<>> /\ runner'.records = runner.records
        /\ runner'.reported = n /\ n \in Nat
    BY <1>2, <1>3 DEF UndoTypes
  <1>5. UndoTypes'
    <2>1. <<>> \in Seq(FileRecord)
      OBVIOUS
    <2>. QED
      BY <1>1, <1>2, <1>3, <1>4, <2>1 DEF UndoTypes
  <1>6. /\ runner.edit = <<>> \/ Len(runner.edit) = 1
        /\ trajectory.reported <= runner.reported
        /\ runner.reported + Len(runner.edit) <= fileEdits
        /\ runner.reported + Len(runner.edit) = fileEdits =>
               Sound(baseline, runner.records \o runner.edit, files, others)
    <2>1. runner.edit = <<>> \/ Len(runner.edit) = 1
      BY <1>2 DEF UndoTypes
    <2>. QED
      BY <1>1, <2>1 DEF UndoInv, RunnerOK
  <1>7. trajectory.reported <= n /\ n <= fileEdits
    BY <1>2, <1>3, <1>6
  <1>8. ASSUME n = fileEdits PROVE Sound(baseline, runner.records, files, others)
    <2>1. runner.edit = <<>> /\ runner.reported = fileEdits
      BY <1>2, <1>3, <1>6, <1>8
    <2>. QED
      BY <1>2, <1>6, <2>1
  <1>9. RunnerOK'
    BY <1>1, <1>2, <1>4, <1>7, <1>8 DEF RunnerOK
  <1>10. SavedOK'
    BY <1>1 DEF UndoInv, SavedOK, Journaled
  <1>11. UndoOK'
    <2>1. undo'.pc = "off" /\ undo'.left = 0
      BY <1>1 DEF UndoInv, UndoOK
    <2>. QED
      BY <2>1 DEF UndoOK
  <1>. QED
    BY <1>5, <1>9, <1>10, <1>11 DEF UndoInv

LEMMA SaveUndo == ASSUME UndoInv, SaveJournal \/ SaveTrajectory PROVE UndoInv'
  <1>1. /\ runner.pc \in {"journal", "trajectory"} /\ undo.pc = "off" /\ runner.edit = <<>>
        /\ UNCHANGED <<files, undo, baseline, fileEdits, others>>
    BY DEF SaveJournal, SaveTrajectory, Running, UndoInv, RunnerOK
  <1>2. /\ UndoTypes /\ Journaled \in Seq(FileRecord) /\ trajectory.reported \in Nat
        /\ fileEdits \in Nat /\ runner.reported \in Nat /\ runner.records \in Seq(FileRecord)
        /\ runner.records \o <<>> = runner.records /\ Len(<<>>) = 0 /\ Len(runner.edit) = 0
    BY <1>1 DEF UndoInv, UndoTypes, Journaled
  <1>3. /\ trajectory.reported <= runner.reported /\ runner.reported <= fileEdits
        /\ runner.reported = fileEdits => Sound(baseline, runner.records, files, others)
    BY <1>1, <1>2 DEF UndoInv, RunnerOK
  <1>4. undo'.pc = "off" /\ undo'.left = 0 /\ UndoOK'
    BY <1>1 DEF UndoInv, UndoOK
  <1>5. CASE SaveJournal
    <2>1. /\ journal' = IF runner.records = <<>> THEN journal ELSE runner.records
          /\ runner' = [runner EXCEPT !.pc = "trajectory"] /\ UNCHANGED trajectory
      BY <1>5 DEF SaveJournal, Running, AfterSave, SaveOrder
    <2>2. /\ runner'.pc = "trajectory" /\ runner'.edit = <<>> /\ runner'.records = runner.records
          /\ runner'.reported = runner.reported
      BY <1>1, <1>2, <2>1 DEF UndoTypes
    <2>3. UndoTypes'
      <3>1. /\ journal' \in Seq(FileRecord) /\ undo.pc = "off"
            /\ runner' \in [pc : {"off", "batch", "journal", "trajectory"}, records : Seq(FileRecord),
                            edit : Seq(FileRecord), reported : Nat, ends : BOOLEAN]
        BY <1>1, <1>2, <2>1 DEF UndoTypes
      <3>2. undo.left <= Len(journal')
        BY <1>1, <1>2, <2>1 DEF UndoInv, UndoOK, UndoTypes
      <3>. QED
        BY <1>1, <1>2, <2>1, <2>2, <3>1, <3>2 DEF UndoTypes
    <2>4. RunnerOK'
      <3>1. /\ Len(runner'.edit) = 0
            /\ runner'.records \o runner'.edit = runner.records
        BY <1>2, <2>2
      <3>2. runner'.reported + Len(runner'.edit) = runner.reported
        BY <1>2, <2>2, <3>1
      <3>3. journal' = runner.records \/ runner.records = <<>>
        BY <2>1
      <3>4. UNCHANGED <<files, trajectory, baseline, fileEdits, others>>
        BY <1>1, <2>1
      <3>. QED
        BY <1>3, <2>2, <3>1, <3>2, <3>3, <3>4 DEF RunnerOK
    <2>5. SavedOK'
      <3>1. ASSUME trajectory.reported = fileEdits PROVE Sound(baseline, Journaled', files, others)
        <4>1. Sound(baseline, runner.records, files, others) /\ Sound(baseline, Journaled, files, others)
          BY <1>2, <1>3, <3>1 DEF UndoInv, SavedOK
        <4>2. Journaled' \in {Journaled, runner.records}
          BY <2>1 DEF Journaled
        <4>. QED
          BY <4>1, <4>2
      <3>. QED
        BY <1>1, <2>1, <3>1 DEF SavedOK, UndoInv
    <2>. QED
      BY <1>4, <2>3, <2>4, <2>5 DEF UndoInv
  <1>6. CASE SaveTrajectory
    <2>1. /\ trajectory' = [journaled |-> runner.records # <<>>, reported |-> runner.reported]
          /\ runner' = [runner EXCEPT !.pc = "batch"] /\ UNCHANGED journal
          /\ runner.records # <<>> => journal = runner.records
      BY <1>6 DEF SaveTrajectory, Running, AfterSave, SaveOrder, UndoInv, RunnerOK
    <2>2. /\ runner'.pc = "batch" /\ runner'.edit = <<>> /\ runner'.records = runner.records
          /\ runner'.reported = runner.reported
      BY <1>1, <1>2, <2>1 DEF UndoTypes
    <2>3. UndoTypes'
      BY <1>1, <1>2, <2>1, <2>2 DEF UndoTypes
    <2>4. RunnerOK'
      <3>1. /\ Len(runner'.edit) = 0
            /\ runner'.records \o runner'.edit = runner.records
        BY <1>2, <2>2
      <3>2. runner'.reported + Len(runner'.edit) = runner.reported
        BY <1>2, <2>2, <3>1
      <3>3. trajectory'.reported = runner.reported
        BY <2>1
      <3>4. UNCHANGED <<files, baseline, fileEdits, others>>
        BY <1>1
      <3>. QED
        BY <1>2, <1>3, <2>2, <3>1, <3>2, <3>3, <3>4 DEF RunnerOK
    <2>5. Journaled' = runner.records
      BY <2>1 DEF Journaled
    <2>6. SavedOK'
      BY <1>1, <1>3, <2>1, <2>5 DEF SavedOK
    <2>. QED
      BY <1>4, <2>3, <2>4, <2>6 DEF UndoInv
  <1>. QED
    BY <1>5, <1>6

LEMMA StopRunUndo == ASSUME UndoInv, StopRun PROVE UndoInv'
  <1>1. /\ runner.pc # "off" /\ runner' = Off
        /\ UNCHANGED <<files, journal, trajectory, undo, baseline, fileEdits, others>>
    BY DEF StopRun
  <1>2. undo.pc = "off" /\ runner'.pc = "off" /\ runner'.edit = <<>>
    BY <1>1 DEF UndoInv, UndoOK, Off, UndoTypes
  <1>3. UndoTypes'
    BY <1>1, <1>2 DEF UndoInv, UndoTypes, Off
  <1>4. RunnerOK'
    BY <1>1, <1>2 DEF RunnerOK
  <1>5. SavedOK'
    BY <1>1 DEF UndoInv, SavedOK, Journaled
  <1>6. UndoOK'
    BY <1>1, <1>2 DEF UndoInv, UndoOK
  <1>. QED
    BY <1>3, <1>4, <1>5, <1>6 DEF UndoInv

LEMMA StartUndoUndo ==
    ASSUME UndoInv, NEW force \in BOOLEAN, StartUndo(force) PROVE UndoInv'
  <1>1. /\ runner.pc = "off" /\ trajectory.journaled
        /\ undo' = [pc |-> "undo", left |-> Len(journal), force |-> force,
                    known |-> [f \in Path |-> Unread]]
        /\ UNCHANGED <<files, runner, journal, trajectory, baseline, fileEdits, others>>
    BY DEF StartUndo, Running, NoUndo
  <1>2. UndoTypes /\ Len(journal) \in Nat
    BY DEF UndoInv, UndoTypes
  <1>3. UndoTypes'
    BY <1>1, <1>2 DEF UndoTypes
  <1>4. RunnerOK' /\ SavedOK'
    BY <1>1 DEF UndoInv, RunnerOK, SavedOK, Journaled
  <1>5. trajectory.reported = fileEdits => FilesGrounded(baseline, journal, Len(journal), files, others)
    BY <1>1 DEF UndoInv, SavedOK, Journaled, Sound
  <1>6. UndoOK'
    BY <1>1, <1>5 DEF UndoOK
  <1>. QED
    BY <1>3, <1>4, <1>6 DEF UndoInv

(* Behind a record that is undone, or that is not of the content it left, the *)
(* records before it lead back from the file.                                 *)
LEMMA RecordBehind ==
    ASSUME NEW first, NEW foreign, NEW records \in Seq(FileRecord), NEW k \in 1 .. Len(records),
           NEW contents \in [Path -> FileContent], NEW now,
           RecordsGrounded(first, records, foreign),
           FilesGrounded(first, records, k, contents, foreign),
           \A g \in Path \ foreign : g # records[k].path => now[g] = contents[g],
           \/ now[records[k].path] = records[k].before
           \/ now = contents /\
              (records[k].path \notin foreign => contents[records[k].path] # records[k].after)
    PROVE  FilesGrounded(first, records, k - 1, now, foreign)
  <1> SUFFICES ASSUME NEW g \in Path \ foreign PROVE Grounded(first, records, k - 1, now[g], g)
    BY DEF FilesGrounded
  <1>1. Grounded(first, records, k, contents[g], g)
    BY DEF FilesGrounded
  <1>2. k - 1 \in Nat /\ \A j \in 1 .. k : j # k => j \in 1 .. k - 1
    OBVIOUS
  <1>3. CASE records[k].path # g
    BY <1>1, <1>2, <1>3 DEF Grounded
  <1>4. CASE records[k].path = g /\ now[g] = records[k].before
    BY <1>4 DEF RecordsGrounded
  <1>5. CASE records[k].path = g /\ now[g] # records[k].before
    BY <1>1, <1>2, <1>5 DEF Grounded
  <1>. QED
    BY <1>3, <1>4, <1>5

LEMMA UndoneStaysSound ==
    ASSUME NEW first, NEW foreign, NEW records \in Seq(FileRecord), NEW k \in 0 .. Len(records),
           NEW contents,
           RecordsGrounded(first, records, foreign),
           FilesGrounded(first, records, k, contents, foreign)
    PROVE  Sound(first, records, contents, foreign)
  <1>1. Len(records) \in Nat /\ \A j \in 1 .. k : j \in 1 .. Len(records)
    OBVIOUS
  <1>. QED
    BY <1>1 DEF Sound, FilesGrounded, Grounded

LEMMA RecordUndone == ASSUME UndoInv, SkipRecord \/ UndoRecord PROVE UndoInv'
  <1> DEFINE r == journal[undo.left]
  <1>1. /\ undo.pc = "undo" /\ undo.left > 0 /\ runner.pc = "off" /\ trajectory.journaled
        /\ UNCHANGED <<runner, journal, trajectory, baseline, fileEdits, others>>
    BY DEF SkipRecord, UndoRecord, UndoInv, UndoOK
  <1>2. /\ UndoTypes /\ journal \in Seq(FileRecord) /\ undo.left \in 1 .. Len(journal)
        /\ files \in [Path -> FileContent] /\ undo.left \in Nat /\ undo.left - 1 \in Nat
        /\ undo.left - 1 \in 0 .. Len(journal) /\ Len(journal) \in Nat
    BY <1>1 DEF UndoInv, UndoTypes
  <1>3. r \in FileRecord
    BY <1>2
  <1>4. r.path \in Path /\ r.before \in FileContent
    BY <1>3 DEF FileRecord
  <1>5. Journaled = journal /\ Journaled' = journal
    BY <1>1 DEF Journaled
  <1> HIDE DEF r
  <1>6. /\ undo'.pc = "undo" /\ undo'.left = undo.left - 1
        /\ undo' \in [pc : {"off", "undo", "done"}, left : Nat, force : BOOLEAN,
                      known : [Path -> FileContent \cup {Unread}]]
        /\ files' \in [Path -> FileContent]
        /\ \A g \in Path : g # r.path => files'[g] = files[g] /\ undo'.known[g] = undo.known[g]
        /\ \/ files'[r.path] = r.before /\ undo'.known[r.path] = r.before
           \/ /\ files' = files /\ undo'.known = undo.known
              /\ r.path \notin others => files[r.path] # r.after
    <2>1. undo \in [pc : {"off", "undo", "done"}, left : Nat, force : BOOLEAN,
                    known : [Path -> FileContent \cup {Unread}]]
      BY <1>2 DEF UndoTypes
    <2>2. CASE SkipRecord
      <3>1. undo' = [undo EXCEPT !.left = undo.left - 1] /\ files' = files
            /\ Current(r.path) # r.after
        BY <2>2 DEF SkipRecord, NextRecord, r
      <3>2. r.path \notin others => Current(r.path) = files[r.path]
        BY <1>1, <1>4 DEF UndoInv, UndoOK, Current
      <3>. QED
        BY <1>1, <1>2, <2>1, <3>1, <3>2
    <2>3. CASE UndoRecord
      <3>1. /\ undo' = [undo EXCEPT !.left = undo.left - 1,
                                    !.known = [undo.known EXCEPT ![r.path] = r.before]]
            /\ files' = [files EXCEPT ![r.path] = r.before]
        BY <2>1, <2>3 DEF UndoRecord, NextRecord, r
      <3>2. [undo.known EXCEPT ![r.path] = r.before] \in [Path -> FileContent \cup {Unread}]
        BY <1>4, <2>1
      <3>3. undo'.known = [undo.known EXCEPT ![r.path] = r.before]
        BY <2>1, <3>1
      <3>. QED
        BY <1>1, <1>2, <1>4, <2>1, <3>1, <3>2, <3>3
    <2>. QED
      BY <2>2, <2>3
  <1>7. UndoTypes'
    BY <1>1, <1>2, <1>6 DEF UndoTypes
  <1>8. RunnerOK'
    BY <1>1 DEF UndoInv, RunnerOK
  <1>9. ASSUME trajectory.reported = fileEdits
        PROVE  FilesGrounded(baseline, journal, undo.left - 1, files', others)
               /\ Sound(baseline, journal, files', others)
    <2>1. RecordsGrounded(baseline, journal, others)
          /\ FilesGrounded(baseline, journal, undo.left, files, others)
      BY <1>1, <1>5, <1>9 DEF UndoInv, SavedOK, UndoOK, Sound
    <2>2. FilesGrounded(baseline, journal, undo.left - 1, files', others)
      BY <1>2, <1>6, <2>1, RecordBehind DEF r
    <2>. QED
      BY <1>2, <2>1, <2>2, UndoneStaysSound
  <1>10. SavedOK'
    BY <1>1, <1>5, <1>9 DEF UndoInv, SavedOK
  <1>11. \A f \in Path \ others : undo'.known[f] \in {Unread, files'[f]}
    BY <1>1, <1>6 DEF UndoInv, UndoOK
  <1>12. UndoOK'
    BY <1>1, <1>6, <1>9, <1>11 DEF UndoOK
  <1>. QED
    BY <1>7, <1>8, <1>10, <1>12 DEF UndoInv

LEMMA EndUndoUndo == ASSUME UndoInv, EndUndo \/ StopUndo PROVE UndoInv'
  <1> DEFINE none == [f \in Path |-> Unread]
  <1>1. none \in [Path -> FileContent \cup {Unread}]
    OBVIOUS
  <1> HIDE DEF none
  <1>2. /\ undo'.pc \in {"off", "done"} /\ undo'.left = 0
        /\ undo'.pc = "done" => undo.pc = "undo" /\ undo.left = 0
        /\ undo' \in [pc : {"off", "undo", "done"}, left : Nat, force : BOOLEAN,
                      known : [Path -> FileContent \cup {Unread}]]
        /\ undo.pc # "off"
        /\ UNCHANGED <<files, runner, journal, trajectory, baseline, fileEdits, others>>
    <2>1. NoUndo = [pc |-> "off", left |-> 0, force |-> FALSE, known |-> none]
      BY DEF NoUndo, none
    <2>2. CASE EndUndo
      <3>1. undo' = [pc |-> "done", left |-> 0, force |-> FALSE, known |-> none]
        BY <2>1, <2>2 DEF EndUndo
      <3>2. /\ undo.pc = "undo" /\ undo.left = 0
            /\ UNCHANGED <<files, runner, journal, trajectory, baseline, fileEdits, others>>
        BY <2>2 DEF EndUndo
      <3>. QED
        BY <1>1, <3>1, <3>2
    <2>3. CASE StopUndo
      BY <1>1, <2>1, <2>3 DEF StopUndo
    <2>. QED
      BY <2>2, <2>3
  <1>3. UndoTypes'
    BY <1>2 DEF UndoInv, UndoTypes
  <1>4. RunnerOK' /\ SavedOK'
    BY <1>2 DEF UndoInv, RunnerOK, SavedOK, Journaled
  <1>5. UndoOK'
    BY <1>2 DEF UndoInv, UndoOK
  <1>. QED
    BY <1>3, <1>4, <1>5 DEF UndoInv

LEMMA OthersUndo ==
    ASSUME UndoInv, NEW f \in Path, NEW content \in FileContent, OtherWrites(f, content)
    PROVE  UndoInv'
  <1>1. /\ others' = others \cup {f} /\ files' = [files EXCEPT ![f] = content]
        /\ UNCHANGED <<runner, journal, trajectory, undo, baseline, fileEdits>>
    BY DEF OtherWrites
  <1>2. UndoTypes'
    BY <1>1 DEF UndoInv, UndoTypes
  <1>3. /\ others \subseteq others' /\ \A g \in Path \ others' : files'[g] = files[g]
        /\ Path \ others' \subseteq Path \ others
    BY <1>1 DEF UndoInv, UndoTypes
  <1>4. \A records : Sound(baseline, records, files, others) =>
                         Sound(baseline, records, files', others')
    BY <1>3, SoundForeign
  <1>5. \A k : FilesGrounded(baseline, journal, k, files, others) =>
                   FilesGrounded(baseline, journal, k, files', others')
    BY <1>3, SoundForeign
  <1>6. RunnerOK'
    BY <1>1, <1>4 DEF UndoInv, RunnerOK
  <1>7. SavedOK'
    BY <1>1, <1>4 DEF UndoInv, SavedOK, Journaled
  <1>8. UndoOK'
    BY <1>1, <1>3, <1>5 DEF UndoInv, UndoOK
  <1>. QED
    BY <1>2, <1>6, <1>7, <1>8 DEF UndoInv

LEMMA UndoStep == UndoInv /\ [NextUndo]_undoVars => UndoInv'
  <1> SUFFICES ASSUME UndoInv, [NextUndo]_undoVars PROVE UndoInv'
    OBVIOUS
  <1>1. CASE UNCHANGED undoVars
    <2>1. UndoTypes' /\ UndoOK'
      BY <1>1 DEF undoVars, UndoInv, UndoTypes, UndoOK
    <2>2. RunnerOK' /\ SavedOK'
      BY <1>1 DEF undoVars, UndoInv, RunnerOK, SavedOK, Journaled
    <2>. QED
      BY <2>1, <2>2 DEF UndoInv
  <1>. QED
    BY <1>1, StartRunUndo, EditUndo, RecordUndo, EndBatchUndo, SaveUndo, StopRunUndo,
       StartUndoUndo, RecordUndone, EndUndoUndo, OthersUndo DEF NextUndo

(* Whatever number of files, edits, interrupts, kills and resumptions, an undo *)
(* that goes through leaves the files as they were before the first run, when  *)
(* the trajectory reports every edit (undo_trajectory, _checkpoint).           *)
THEOREM UndoBringsBack == UndoSpec => []UndoneIsBaseline
  <1>1. UndoInv => UndoneIsBaseline
    <2> SUFFICES ASSUME UndoInv, undo.pc = "done", trajectory.reported = fileEdits,
                        NEW f \in Path \ others
                 PROVE  files[f] = baseline[f]
      BY DEF UndoneIsBaseline
    <2>1. Grounded(baseline, journal, 0, files[f], f)
      BY DEF UndoInv, UndoOK, FilesGrounded
    <2>. QED
      BY <2>1 DEF Grounded
  <1>. QED
    BY <1>1, UndoInvInit, UndoStep, PTL DEF UndoSpec

(* Every variable of the run and of the undo has its type, and the records an *)
(* undo has left are records of the journal (_restore_state, undo_command).   *)
THEOREM UndoTypeCorrect == UndoSpec => []UndoTypeOK
  <1>1. UndoInv => UndoTypeOK
    <2> SUFFICES ASSUME UndoInv PROVE UndoTypeOK
      OBVIOUS
    <2>1. /\ UndoTypes /\ runner.reported \in Nat /\ fileEdits \in Nat
      BY DEF UndoInv, UndoTypes
    <2>2. runner.reported <= fileEdits
      <3>1. CASE runner.pc = "off"
        BY <2>1, <3>1 DEF UndoInv, RunnerOK, Off
      <3>2. CASE runner.pc # "off"
        <4>1. Len(runner.edit) \in Nat /\ runner.reported + Len(runner.edit) <= fileEdits
          BY <2>1, <3>2 DEF UndoInv, RunnerOK, UndoTypes
        <4>. QED
          BY <2>1, <4>1
      <3>. QED
        BY <3>1, <3>2
    <2>3. \A i \in 1 .. Len(journal) : journal[i] \in FileRecord
      BY <2>1 DEF UndoTypes
    <2>. QED
      BY <2>1, <2>2, <2>3 DEF UndoTypes, UndoTypeOK, FileRecord
  <1>. QED
    BY <1>1, UndoInvInit, UndoStep, PTL DEF UndoSpec

----------------------------------------------------------------------------
(* The compacted history *)

USE ContextAssumption

(* A message with at most MaxToolCalls of the calls made so far. *)
EntryOK(m) ==
    /\ m.kind \in {"system", "human", "ai", "tool"}
    /\ m.calls \in Seq(1 .. calls) /\ Len(m.calls) <= MaxToolCalls
    /\ m.kind # "ai" => m.calls = <<>>

IsSequence(s) == \E S : s \in Seq(S)

(* A history that a session may go on from. *)
Replayable(s) ==
    /\ IsSequence(s) /\ Len(s) >= 1
    /\ s[1].kind = "system"
    /\ preserve => Len(s) >= 2 /\ s[2].kind = "human"
    /\ \A i \in 1 .. Len(s) : EntryOK(s[i])
    /\ \A i, j \in 1 .. Len(s) : i # j => Made(s, i) \cap Made(s, j) = {}
    /\ Paired(s)

Alike(m, o) == m.kind = o.kind /\ m.calls = o.calls /\ m.answers = o.answers

(* An induction is an argument about the smallest number of a set. *)
LEMMA SmallestIsThere ==
    ASSUME NEW S \in SUBSET Nat, S # {} PROVE Min(S) \in S /\ \A y \in S : Min(S) <= y
  <1>1. PICK x \in S : \A y \in S : ~(<<y, x>> \in OpToRel(<, Nat))
    BY NatLessThanWellFounded, WFMin
  <1>2. ASSUME NEW y \in S PROVE x <= y
    <2>1. x \in Nat /\ y \in Nat
      OBVIOUS
    <2>2. y < x => <<y, x>> \in OpToRel(<, Nat)
      BY <2>1 DEF OpToRel
    <2>3. ~(<<y, x>> \in OpToRel(<, Nat))
      BY <1>1
    <2>4. ~(y < x)
      BY <2>2, <2>3
    <2>. QED
      BY ONLY <2>1, <2>4
  <1>. QED
    BY <1>2 DEF Min

(* Where a block ends the next begins, and what lies between is results. *)
LEMMA BlocksEnd ==
    ASSUME NEW s, Len(s) \in Nat, NEW from \in 1 .. Len(s) + 1,
           NEW i \in Cuts(s, from), i # Len(s) + 1
    PROVE  /\ i \in 1 .. Len(s)
           /\ NextCut(s, from, i) \in Cuts(s, from) /\ NextCut(s, from, i) \in i + 1 .. Len(s) + 1
           /\ \A k \in i + 1 .. NextCut(s, from, i) - 1 : s[k].kind = "tool"
  <1> DEFINE T == {j \in Cuts(s, from) : j > i}
  <1>1. Cuts(s, from) \subseteq from .. Len(s) + 1 /\ Len(s) + 1 \in Cuts(s, from)
    BY DEF Cuts
  <1>2. T \in SUBSET Nat /\ T # {} /\ i \in 1 .. Len(s)
    BY <1>1
  <1>3. Min(T) \in T /\ \A j \in T : Min(T) <= j
    BY <1>2, SmallestIsThere
  <1>4. ASSUME NEW k \in i + 1 .. Min(T) - 1 PROVE s[k].kind = "tool"
    <2>1. Min(T) \in i + 1 .. Len(s) + 1 /\ k \notin T
      BY <1>1, <1>2, <1>3
    <2>2. k \in from .. Len(s) /\ k > i
      BY <1>1, <1>2, <2>1
    <2>. QED
      BY <2>1, <2>2 DEF Cuts
  <1>. QED
    BY <1>1, <1>2, <1>3, <1>4 DEF NextCut

(* What is kept from a block on, given what is kept behind it. *)
KeptFrom(s, from, budget, i, later) ==
    LET block == CompactBlock(MessageBlock(s, from, i), budget - Total(later.view))
    IN  [all |-> later.all /\ block # <<>>, view |-> block \o later.view]

KeptAt(s, from, budget, i, kept) ==
    IF i = Len(s) + 1 THEN [all |-> TRUE, view |-> <<>>]
    ELSE KeptFrom(s, from, budget, i, kept[NextCut(s, from, i)])

(* The recursion of compact_messages' loop over the blocks is one. *)
LEMMA KeepingIs ==
    ASSUME NEW s, Len(s) \in Nat, NEW from \in 1 .. Len(s) + 1, NEW budget
    PROVE  Keeping(s, from, budget)
             = [i \in Cuts(s, from) |-> KeptAt(s, from, budget, i, Keeping(s, from, budget))]
  <1> DEFINE N == Len(s) + 1
             C == Cuts(s, from)
             D(m) == {j \in C : j > N - m}
             F(i, f) == KeptAt(s, from, budget, i, f)
             Is(m, f) == f = [i \in D(m) |-> F(i, f)]
             Bad == {m \in 0 .. N : ~\E f : Is(m, f)}
  <1>1. C \subseteq 1 .. N
    BY DEF Cuts
  <1>2. ASSUME NEW m \in 1 .. N, NEW f, Is(m - 1, f) PROVE \E g : Is(m, g)
    <2> DEFINE c == N - m + 1
               g == [i \in D(m) |-> IF i = c THEN F(c, f) ELSE f[i]]
    <2>1. CASE c \notin C
      <3>1. D(m) = D(m - 1)
        BY <1>1, <2>1
      <3>. QED
        BY <1>2, <3>1
    <2>2. CASE c \in C
      <3>1. D(m) = D(m - 1) \cup {c} /\ c \notin D(m - 1)
        BY <1>1, <2>2
      <3>2. ASSUME NEW i \in D(m) PROVE F(i, f) = F(i, g)
        <4>1. CASE i = N
          BY <4>1 DEF KeptAt
        <4>2. CASE i # N
          <5>1. NextCut(s, from, i) \in C /\ NextCut(s, from, i) \in i + 1 .. N
            BY <4>2, BlocksEnd
          <5>2. i >= c /\ i \in Nat
            BY <1>1
          <5>3. NextCut(s, from, i) \in D(m) /\ NextCut(s, from, i) # c
            BY <5>1, <5>2
          <5>4. g[NextCut(s, from, i)] = f[NextCut(s, from, i)]
            BY <5>3
          <5>. QED
            BY <5>4 DEF KeptAt
        <4>. QED
          BY <4>1, <4>2
      <3>3. ASSUME NEW i \in D(m) PROVE g[i] = F(i, f)
        <4>1. CASE i = c
          BY <4>1
        <4>2. CASE i # c
          <5>1. i \in D(m - 1)
            BY <3>1, <4>2
          <5>2. g[i] = f[i]
            BY <4>2
          <5>3. f[i] = F(i, f)
            BY <1>2, <5>1
          <5>. QED
            BY <5>2, <5>3
        <4>. QED
          BY <4>1, <4>2
      <3>4. \A i \in D(m) : g[i] = F(i, g)
        BY <3>2, <3>3
      <3> HIDE DEF F
      <3>5. Is(m, g)
        BY <3>4
      <3>. QED
        BY <3>5
    <2>. QED
      BY <2>1, <2>2
  <1>3. Bad = {}
    <2> SUFFICES ASSUME Bad # {} PROVE FALSE
      OBVIOUS
    <2>1. Bad \in SUBSET Nat
      OBVIOUS
    <2> DEFINE b == Min(Bad)
    <2>2. b \in Bad /\ \A m \in Bad : b <= m
      BY <2>1, SmallestIsThere
    <2> HIDE DEF b
    <2>3. b # 0
      <3>1. D(0) = {}
        BY <1>1
      <3> HIDE DEF D, F
      <3>2. Is(0, [i \in {} |-> 0])
        BY <3>1
      <3>. QED
        BY <2>2, <3>2
    <2>4. b \in 1 .. N /\ b - 1 \in 0 .. N /\ b - 1 \notin Bad
      <3>1. Bad \in SUBSET (0 .. N) /\ N \in Nat
        OBVIOUS
      <3> HIDE DEF Bad, N
      <3>2. b \in 1 .. N /\ b - 1 \in 0 .. N
        BY <2>2, <2>3, <3>1
      <3>. QED
        BY <2>2, <3>1, <3>2
    <2> HIDE DEF Is
    <2>5. \E f : Is(b - 1, f)
      BY <2>4
    <2>. QED
      BY <1>2, <2>2, <2>4, <2>5
  <1>4. D(N) = C
    BY <1>1
  <1>5. PICK f : Is(N, f)
    <2> HIDE DEF Is
    <2>1. N \in 0 .. N /\ N \notin Bad
      BY <1>3
    <2>. QED
      BY <2>1
  <1>6. f = [i \in C |-> F(i, f)]
    BY <1>4, <1>5
  <1> HIDE DEF D, Is, Bad
  <1>. QED
    BY <1>6 DEF Keeping, KeptAt, KeptFrom

(* _compact_message keeps a message what it is, with its calls and what it answers. *)
LEMMA CompactAlike ==
    ASSUME NEW m, EntryOK(m), NEW limit, NEW argumentLimit
    PROVE  /\ EntryOK(CompactMessage(m, limit, argumentLimit))
           /\ Alike(CompactMessage(m, limit, argumentLimit), m)
  <1> DEFINE c == CompactMessage(m, limit, argumentLimit)
  <1>1. FirstCalls(m) = m.calls
    <2>1. m.calls \in Seq(1 .. calls) /\ Least(Len(m.calls), MaxToolCalls) = Len(m.calls)
      BY DEF EntryOK, Least
    <2>. QED
      BY <2>1, SubSeqFull DEF FirstCalls
  <1>2. c.kind = m.kind /\ c.calls = FirstCalls(m) /\ c.answers = m.answers
    BY DEF CompactMessage, Entry
  <1>. QED
    BY <1>1, <1>2 DEF EntryOK, Alike

(* The results of a block are those of its first message. *)
LEMMA BlockAnswers ==
    ASSUME NEW s, Replayable(s), NEW i \in 1 .. Len(s), s[i].kind # "tool",
           NEW j \in i + 1 .. Len(s), \A k \in i + 1 .. j : s[k].kind = "tool"
    PROVE  s[j].answers \in Made(s, i)
  <1>1. Len(s) \in Nat /\ j \in 1 .. Len(s) /\ s[j].kind = "tool"
    BY DEF Replayable, IsSequence
  <1>2. PICK x \in 1 .. Len(s) : Follows(s, x, j) /\ s[j].answers \in Made(s, x)
    BY <1>1 DEF Replayable, Paired
  <1>3. x < j /\ \A k \in x + 1 .. j : s[k].kind = "tool"
    BY <1>2 DEF Follows
  <1>4. ~(x < i)
    BY <1>1, <1>3
  <1>5. ~(i < x)
    <2> SUFFICES ASSUME i < x PROVE FALSE
      OBVIOUS
    <2>1. s[x].kind = "tool"
      BY <1>1, <1>3
    <2>2. s[x].calls = <<>>
      BY <2>1 DEF Replayable, EntryOK
    <2>. QED
      BY <1>2, <2>2 DEF Made
  <1>. QED
    BY <1>2, <1>4, <1>5

(* What is a view of the messages from position i on. *)
Mirrors(view, s, i) ==
    /\ IsSequence(view) /\ Len(view) = (Len(s) + 1) - i
    /\ \A t \in 1 .. Len(view) : EntryOK(view[t]) /\ Alike(view[t], s[i + t - 1])

(* A compacted block has a message for each of the block. *)
LEMMA BlockMirrors ==
    ASSUME NEW s, Replayable(s), NEW from \in 1 .. Len(s) + 1,
           from <= Len(s) => s[from].kind # "tool",
           NEW i \in Cuts(s, from), i # Len(s) + 1,
           NEW budget, CompactBlock(MessageBlock(s, from, i), budget) # <<>>,
           NEW block, block = CompactBlock(MessageBlock(s, from, i), budget)
    PROVE  /\ IsSequence(block) /\ Len(block) = NextCut(s, from, i) - i
           /\ \A t \in 1 .. Len(block) : EntryOK(block[t]) /\ Alike(block[t], s[i + t - 1])
  <1> DEFINE n == NextCut(s, from, i)
             raw == MessageBlock(s, from, i)
  <1>1. PICK S : s \in Seq(S)
    BY DEF Replayable, IsSequence
  <1>2. /\ Len(s) \in Nat /\ i \in 1 .. Len(s) /\ n \in i + 1 .. Len(s) + 1
        /\ \A k \in i + 1 .. n - 1 : s[k].kind = "tool"
    BY <1>1, BlocksEnd
  <1>3. s[i].kind # "tool"
    BY <1>2 DEF Cuts
  <1>4. /\ raw \in Seq(S) /\ Len(raw) = n - i
        /\ \A t \in 1 .. n - i : raw[t] = s[i + t - 1]
    <2>1. n - 1 \in i .. Len(s) /\ (n - 1) - i + 1 = n - i
      BY <1>2
    <2>2. raw = SubSeq(s, i, n - 1)
      BY DEF MessageBlock
    <2>3. i \in Int /\ n - 1 \in Int /\ i <= n - 1 /\ \A k \in i .. n - 1 : s[k] \in S
      BY ONLY <1>1, <1>2, <2>1
    <2> HIDE DEF n, raw
    <2>4. /\ SubSeq(s, i, n - 1) \in Seq(S) /\ Len(SubSeq(s, i, n - 1)) = (n - 1) - i + 1
          /\ \A t \in 1 .. (n - 1) - i + 1 : SubSeq(s, i, n - 1)[t] = s[i + t - 1]
      BY ONLY <2>3, SubSeqProperties
    <2>. QED
      BY ONLY <2>1, <2>2, <2>4
  <1>5. Filtered(raw) = raw
    <2>1. raw[1] = s[i] /\ raw[1].calls \in Seq(1 .. calls) /\ FirstCalls(raw[1]) = raw[1].calls
      <3>1. raw[1] = s[i]
        BY <1>2, <1>4
      <3>2. EntryOK(s[i])
        BY <1>2 DEF Replayable
      <3>3. s[i].calls \in Seq(1 .. calls) /\ Least(Len(s[i].calls), MaxToolCalls) = Len(s[i].calls)
        BY <3>2 DEF EntryOK, Least
      <3>. QED
        BY <3>1, <3>3, SubSeqFull DEF FirstCalls
    <2>2. ASSUME NEW t \in 1 .. Len(raw), raw[t].kind = "tool"
          PROVE  Contains(FirstCalls(raw[1]), raw[t].answers)
      <3>1. t # 1 /\ i + t - 1 \in i + 1 .. n - 1 /\ raw[t] = s[i + t - 1]
        BY <1>2, <1>3, <1>4, <2>1, <2>2
      <3>2. i + t - 1 \in i + 1 .. Len(s) /\ \A k \in i + 1 .. i + t - 1 : s[k].kind = "tool"
        BY <1>2, <3>1
      <3>3. raw[t].answers \in Made(s, i)
        BY <1>2, <1>3, <3>1, <3>2, BlockAnswers
      <3>. QED
        BY <2>1, <3>3 DEF Made, Contains
    <2>. QED
      BY <2>2 DEF Filtered
  <1>6. \E limit, argumentLimit : block = CompactEach(raw, limit, argumentLimit)
    BY <1>5 DEF CompactBlock, Shrunk, FirstFitting
  <1>7. PICK limit, argumentLimit : block = CompactEach(raw, limit, argumentLimit)
    BY <1>6
  <1>8. block = [t \in 1 .. n - i |-> CompactMessage(raw[t], limit, argumentLimit)]
    BY <1>4, <1>7 DEF CompactEach
  <1>9. n - i \in Nat
    BY <1>2
  <1>10. ASSUME NEW t \in 1 .. n - i
         PROVE  EntryOK(block[t]) /\ Alike(block[t], s[i + t - 1])
    <2>1. raw[t] = s[i + t - 1] /\ i + t - 1 \in 1 .. Len(s)
      BY <1>2, <1>4
    <2>2. EntryOK(raw[t])
      BY <2>1 DEF Replayable
    <2>3. block[t] = CompactMessage(raw[t], limit, argumentLimit)
      BY <1>8
    <2>. QED
      BY <2>1, <2>2, <2>3, CompactAlike
  <1> HIDE DEF n, raw
  <1>11. block \in Seq({block[t] : t \in 1 .. n - i}) /\ Len(block) = n - i
    BY <1>8, <1>9
  <1>. QED
    BY <1>10, <1>11 DEF IsSequence, n

(* Where nothing is left out from a block on, what is kept is a view from there on. *)
LEMMA KeptMirrors ==
    ASSUME NEW s, Replayable(s), NEW from \in 1 .. Len(s) + 1,
           from <= Len(s) => s[from].kind # "tool",
           NEW budget, NEW kept, kept = Keeping(s, from, budget),
           NEW i \in Cuts(s, from), kept[i].all
    PROVE  Mirrors(kept[i].view, s, i)
  <1> DEFINE N == Len(s) + 1
             C == Cuts(s, from)
             Bad == {m \in 0 .. N : N - m \in C /\ kept[N - m].all
                                    /\ ~Mirrors(kept[N - m].view, s, N - m)}
  <1>1. Len(s) \in Nat /\ C \subseteq 1 .. N
    BY DEF Replayable, IsSequence, Cuts
  <1>2. \A j \in C : kept[j] = KeptAt(s, from, budget, j, kept)
    BY <1>1, KeepingIs
  <1>3. Bad = {}
    <2> SUFFICES ASSUME Bad # {} PROVE FALSE
      OBVIOUS
    <2> DEFINE b == Min(Bad)
               j == N - b
    <2>1. Bad \in SUBSET Nat
      OBVIOUS
    <2>2. b \in Bad /\ \A m \in Bad : b <= m
      BY <2>1, SmallestIsThere
    <2> HIDE DEF b
    <2>3. b \in 0 .. N /\ j \in C /\ kept[j].all /\ ~Mirrors(kept[j].view, s, j)
      BY <2>2
    <2>6. j = N - b /\ N \in Nat
      BY <1>1
    <2>7. \A m \in 0 .. N : m < b => m \notin Bad
      BY <1>1, <2>2, <2>3
    <2>4. CASE j = N
      <3>1. kept[j].view = <<>>
        BY <1>2, <2>3, <2>4 DEF KeptAt
      <3>2. <<>> \in Seq({}) /\ Len(<<>>) = 0
        OBVIOUS
      <3>. QED
        BY <1>1, <2>3, <2>4, <3>1, <3>2 DEF Mirrors, IsSequence
    <2>5. CASE j # N
      <3> DEFINE n == NextCut(s, from, j)
                 later == kept[n]
                 block == CompactBlock(MessageBlock(s, from, j), budget - Total(later.view))
      <3>1. j \in 1 .. Len(s) /\ n \in C /\ n \in j + 1 .. N
        BY <1>1, <2>3, <2>5, BlocksEnd
      <3>2. kept[j] = [all |-> later.all /\ block # <<>>, view |-> block \o later.view]
        BY <1>2, <2>3, <2>5 DEF KeptAt, KeptFrom
      <3>3. later.all /\ block # <<>> /\ kept[j].view = block \o later.view
        <4>1. ASSUME NEW a, NEW v, NEW x, x = [all |-> a, view |-> v] PROVE x.all = a /\ x.view = v
          BY <4>1
        <4> HIDE DEF block, later
        <4>2. kept[j].all = (later.all /\ block # <<>>) /\ kept[j].view = block \o later.view
          <5>1. kept[j] = [all |-> later.all /\ block # <<>>, view |-> block \o later.view]
            BY ONLY <3>2
          <5>. QED
            BY ONLY <4>1, <5>1
        <4>. QED
          BY <2>3, <4>2, Zenon
      <3>4. Mirrors(later.view, s, n)
        <4>1. N - n \in 0 .. N /\ N - n < b /\ N - (N - n) = n
          <5> HIDE DEF n, j, N, C
          <5>1. j \in Nat /\ n \in Nat /\ n > j /\ n <= N
            BY <1>1, <2>3, <2>6, <3>1
          <5>. QED
            BY <2>3, <2>6, <5>1
        <4>2. N - n \notin Bad
          BY <2>7, <4>1
        <4>. QED
          BY <3>1, <3>3, <4>1, <4>2
      <3>5. /\ IsSequence(block) /\ Len(block) = n - j
            /\ \A t \in 1 .. Len(block) : EntryOK(block[t]) /\ Alike(block[t], s[j + t - 1])
        BY <2>3, <2>5, <3>3, BlockMirrors
      <3> DEFINE rest == later.view
      <3>6. PICK S, T : block \in Seq(S) /\ rest \in Seq(T)
        BY <3>4, <3>5 DEF Mirrors, IsSequence
      <3>7. block \in Seq(S \cup T) /\ rest \in Seq(S \cup T)
        BY <3>6
      <3> HIDE DEF block, later
      <3>11. /\ Len(rest) = N - n
             /\ \A t \in 1 .. Len(rest) : EntryOK(rest[t]) /\ Alike(rest[t], s[n + t - 1])
        <4> HIDE DEF rest, n
        <4>1. Mirrors(rest, s, n)
          BY <3>4 DEF rest
        <4>2. Len(rest) = N - n
          BY <4>1, Zenon DEF Mirrors
        <4>3. \A t \in 1 .. Len(rest) : EntryOK(rest[t]) /\ Alike(rest[t], s[n + t - 1])
          BY <4>1, Zenon DEF Mirrors
        <4>. QED
          BY <4>2, <4>3
      <3>12. n \in Nat /\ j \in Nat /\ j < n /\ n <= N /\ N \in Nat
        BY <1>1, <2>6, <3>1
      <3> HIDE DEF rest, n, j, N
      <3>8. /\ block \o rest \in Seq(S \cup T) /\ Len(block \o rest) = N - j
            /\ \A t \in 1 .. N - j : (block \o rest)[t] = IF t <= n - j THEN block[t] ELSE rest[t - (n - j)]
        <4>1. Len(rest) = N - n /\ Len(block) = n - j
          BY <3>5, <3>11
        <4>2. n - j \in Nat /\ N - n \in Nat /\ (n - j) + (N - n) = N - j
          BY <3>12
        <4>. QED
          BY ONLY <3>7, <4>1, <4>2, ConcatProperties
      <3>9. ASSUME NEW t \in 1 .. N - j
            PROVE  EntryOK((block \o rest)[t]) /\ Alike((block \o rest)[t], s[j + t - 1])
        <4>1. CASE t <= n - j
          <5>1. t \in 1 .. Len(block)
            BY <3>5, <3>12, <4>1
          <5>. QED
            BY <3>5, <3>8, <4>1, <5>1
        <4>2. CASE ~(t <= n - j)
          <5>1. t - (n - j) \in 1 .. N - n /\ n + (t - (n - j)) - 1 = j + t - 1
            BY <3>12, <4>2
          <5>2. EntryOK(rest[t - (n - j)]) /\ Alike(rest[t - (n - j)], s[n + (t - (n - j)) - 1])
            BY <3>11, <5>1
          <5>. QED
            BY <3>8, <4>2, <5>1, <5>2
        <4>. QED
          BY <4>1, <4>2
      <3>10. Mirrors(block \o rest, s, j)
        <4>1. Len(block \o rest) = (Len(s) + 1) - j
          <5>1. N = Len(s) + 1
            BY DEF N
          <5>. QED
            BY <3>8, <5>1, Zenon
        <4>2. \A t \in 1 .. Len(block \o rest) :
                  EntryOK((block \o rest)[t]) /\ Alike((block \o rest)[t], s[j + t - 1])
          BY <3>8, <3>9
        <4>. QED
          BY <3>8, <4>1, <4>2 DEF Mirrors, IsSequence
      <3>. QED
        BY <2>3, <3>3, <3>10 DEF rest
    <2>. QED
      BY <2>4, <2>5
  <1>4. N - i \in 0 .. N /\ N - (N - i) = i
    BY <1>1
  <1>. QED
    BY <1>3, <1>4

(* Instructions and notices: nothing is called there and nothing answered. *)
Opening(head) ==
    /\ IsSequence(head) /\ Len(head) >= 1
    /\ head[1].kind = "system"
    /\ preserve => Len(head) >= 2 /\ head[2].kind = "human"
    /\ \A t \in 1 .. Len(head) : EntryOK(head[t]) /\ head[t].kind \in {"system", "human"}

(* A view from the beginning of a block on, behind an opening, is sound. *)
LEMMA ViewSound ==
    ASSUME NEW s, Replayable(s), NEW i \in 1 .. Len(s) + 1, i <= Len(s) => s[i].kind # "tool",
           NEW head, Opening(head), NEW view, Mirrors(view, s, i)
    PROVE  Replayable(head \o view)
  <1> DEFINE h == Len(head)
             V == head \o view
             N == Len(s) + 1
             o(p) == p - h + i - 1
  <1>1. PICK S, T : head \in Seq(S) /\ view \in Seq(T)
    BY DEF Opening, Mirrors, IsSequence
  <1>2. head \in Seq(S \cup T) /\ view \in Seq(S \cup T)
    BY <1>1
  <1>3. /\ Len(s) \in Nat /\ h \in Nat /\ h >= 1 /\ Len(view) = N - i /\ N - i \in Nat
    BY <1>1 DEF Replayable, IsSequence, Opening, Mirrors
  <1>4. /\ V \in Seq(S \cup T) /\ Len(V) = h + (N - i)
        /\ \A p \in 1 .. Len(V) : V[p] = IF p <= h THEN head[p] ELSE view[p - h]
    BY ONLY <1>2, <1>3, ConcatProperties
  <1> HIDE DEF V, h
  <1>5. ASSUME NEW p \in 1 .. h
        PROVE  /\ p \in 1 .. Len(V) /\ V[p] = head[p] /\ EntryOK(V[p])
               /\ V[p].kind \in {"system", "human"} /\ Made(V, p) = {}
    <2>1. p \in 1 .. Len(V) /\ V[p] = head[p]
      BY <1>3, <1>4
    <2>2. EntryOK(V[p]) /\ V[p].kind \in {"system", "human"}
      BY <2>1 DEF Opening, h
    <2>3. V[p].calls = <<>>
      BY <2>2 DEF EntryOK
    <2>. QED
      BY <2>1, <2>2, <2>3 DEF Made
  <1>6. ASSUME NEW p \in h + 1 .. Len(V)
        PROVE  /\ o(p) \in i .. Len(s) /\ o(p) \in 1 .. Len(s) /\ EntryOK(V[p])
               /\ V[p].kind = s[o(p)].kind /\ V[p].answers = s[o(p)].answers
               /\ Made(V, p) = Made(s, o(p))
    <2>1. p \in 1 .. Len(V) /\ p - h \in 1 .. Len(view) /\ ~(p <= h) /\ i + (p - h) - 1 = o(p)
      <3>1. /\ p \in Int /\ h \in Int /\ i \in Int /\ h >= 1 /\ p >= h + 1
            /\ p <= h + (N - i) /\ N - i \in Nat
        BY <1>3, <1>4
      <3>2. p \in 1 .. h + (N - i) /\ p - h \in 1 .. N - i
        BY ONLY <3>1
      <3>3. ~(p <= h)
        BY ONLY <3>1
      <3>4. i + (p - h) - 1 = (p - h) + i - 1
        BY ONLY <3>1
      <3>. QED
        BY ONLY <1>3, <1>4, <3>2, <3>3, <3>4
    <2>2. V[p] = view[p - h]
      BY <1>4, <2>1
    <2>3. EntryOK(view[p - h]) /\ Alike(view[p - h], s[i + (p - h) - 1])
      BY <2>1 DEF Mirrors
    <2>4. o(p) \in i .. Len(s) /\ o(p) \in 1 .. Len(s)
      BY <1>3, <1>4
    <2>. QED
      BY <2>1, <2>2, <2>3, <2>4 DEF Alike, Made
  <1>7. ASSUME NEW x \in i .. Len(s)
        PROVE  x - i + 1 + h \in h + 1 .. Len(V) /\ o(x - i + 1 + h) = x
    BY <1>3, <1>4
  <1>8. \A p \in 1 .. Len(V) : p \in 1 .. h \/ p \in h + 1 .. Len(V)
    BY <1>3
  <1>9. ASSUME NEW p \in h + 1 .. Len(V), NEW q \in h + 1 .. Len(V), Follows(s, o(p), o(q))
        PROVE  Follows(V, p, q)
    <2>1. p < q
      BY <1>3, <1>9 DEF Follows
    <2>2. ASSUME NEW k \in p + 1 .. q PROVE V[k].kind = "tool"
      <3>1. /\ p \in Int /\ q \in Int /\ k \in Int /\ i \in Int /\ h \in Int /\ Len(V) \in Int
            /\ p >= h + 1 /\ q <= Len(V) /\ k >= p + 1 /\ k <= q
        BY <1>3, <1>4
      <3>2. k \in h + 1 .. Len(V) /\ o(k) \in o(p) + 1 .. o(q)
        BY ONLY <3>1
      <3>3. s[o(k)].kind = "tool"
        BY <1>9, <3>2 DEF Follows
      <3>. QED
        BY <1>6, <3>2, <3>3
    <2>. QED
      BY <2>1, <2>2 DEF Follows
  <1>10. ASSUME NEW q \in 1 .. Len(V), V[q].kind = "tool"
         PROVE  \E p \in 1 .. Len(V) : Follows(V, p, q) /\ V[q].answers \in Made(V, p)
    <2>1. q \in h + 1 .. Len(V)
      BY <1>5, <1>8, <1>10
    <2>2. o(q) \in i .. Len(s) /\ s[o(q)].kind = "tool"
      BY <1>6, <1>10, <2>1
    <2>3. PICK x \in 1 .. Len(s) : Follows(s, x, o(q)) /\ s[o(q)].answers \in Made(s, x)
      BY <1>6, <2>1, <2>2 DEF Replayable, Paired
    <2>4. ~(x < i)
      <3> SUFFICES ASSUME x < i PROVE FALSE
        OBVIOUS
      <3>1. i \in x + 1 .. o(q) /\ i <= Len(s)
        BY <1>3, <2>2
      <3>. QED
        BY <2>3, <3>1 DEF Follows
    <2>5. x \in i .. Len(s)
      BY <1>3, <2>4
    <2> DEFINE p == x - i + 1 + h
    <2>6. p \in h + 1 .. Len(V) /\ o(p) = x
      BY <1>7, <2>5
    <2> HIDE DEF p
    <2>7. Follows(V, p, q) /\ Made(V, p) = Made(s, x) /\ V[q].answers = s[o(q)].answers
      BY <1>6, <1>9, <2>1, <2>3, <2>6
    <2>8. p \in 1 .. Len(V)
      BY <1>3, <2>6
    <2>. QED
      BY <2>3, <2>7, <2>8
  <1>11. ASSUME NEW p \in 1 .. Len(V), NEW call \in Made(V, p) \cap answered
         PROVE  \E q \in 1 .. Len(V) : Follows(V, p, q) /\ V[q].answers = call
    <2>1. p \in h + 1 .. Len(V)
      BY <1>5, <1>8
    <2>2. o(p) \in i .. Len(s) /\ o(p) \in 1 .. Len(s) /\ call \in Made(s, o(p)) \cap answered
      BY <1>6, <2>1
    <2>3. PICK y \in 1 .. Len(s) : Follows(s, o(p), y) /\ s[y].answers = call
      BY <2>2 DEF Replayable, Paired
    <2>4. y \in i .. Len(s)
      BY <1>3, <2>2, <2>3 DEF Follows
    <2> DEFINE q == y - i + 1 + h
    <2>5. q \in h + 1 .. Len(V) /\ o(q) = y
      BY <1>7, <2>4
    <2> HIDE DEF q
    <2>6. Follows(V, p, q) /\ V[q].answers = call
      BY <1>6, <1>9, <2>1, <2>3, <2>5
    <2>7. q \in 1 .. Len(V)
      BY <1>3, <2>5
    <2>. QED
      BY <2>6, <2>7
  <1>12. ASSUME NEW p \in 1 .. Len(V), NEW q \in 1 .. Len(V), p # q
         PROVE  Made(V, p) \cap Made(V, q) = {}
    <2>1. CASE p \in 1 .. h \/ q \in 1 .. h
      BY <1>5, <2>1
    <2>2. CASE p \in h + 1 .. Len(V) /\ q \in h + 1 .. Len(V)
      <3>1. o(p) \in 1 .. Len(s) /\ o(q) \in 1 .. Len(s) /\ o(p) # o(q)
        BY <1>3, <1>6, <1>12, <2>2
      <3>2. Made(V, p) = Made(s, o(p)) /\ Made(V, q) = Made(s, o(q))
        BY <1>6, <2>2
      <3> HIDE DEF o
      <3>. QED
        BY <3>1, <3>2 DEF Replayable
    <2>. QED
      BY <1>8, <2>1, <2>2
  <1>13. Paired(V)
    BY <1>10, <1>11 DEF Paired
  <1>14. \A p \in 1 .. Len(V) : EntryOK(V[p])
    BY <1>5, <1>6, <1>8
  <1>15. /\ Len(V) >= 1 /\ V[1].kind = "system"
         /\ preserve => Len(V) >= 2 /\ V[2].kind = "human"
    <2>1. Len(V) >= h /\ 1 \in 1 .. h /\ (preserve => 2 \in 1 .. h)
      BY <1>3, <1>4 DEF Opening, h
    <2>2. V[1] = head[1] /\ (preserve => V[2] = head[2])
      BY <1>5, <2>1
    <2>. QED
      BY <1>3, <1>4, <2>1, <2>2 DEF Opening
  <1>16. IsSequence(V)
    BY <1>4 DEF IsSequence
  <1>17. \A p, q \in 1 .. Len(V) : p # q => Made(V, p) \cap Made(V, q) = {}
    BY <1>12
  <1> HIDE DEF o, N
  <1>. QED
    BY <1>13, <1>14, <1>15, <1>16, <1>17 DEF Replayable, V

(* The summary may come behind the prefix (compact_messages). *)
LEMMA OpeningAppend ==
    ASSUME NEW head, Opening(head), NEW chars
    PROVE  Opening(head \o <<Human(chars)>>)
  <1> DEFINE m == Human(chars)
             V == head \o <<m>>
  <1>1. PICK S : head \in Seq(S)
    BY DEF Opening, IsSequence
  <1>2. head \in Seq(S \cup {m}) /\ <<m>> \in Seq(S \cup {m}) /\ Len(<<m>>) = 1
    BY <1>1
  <1>3. EntryOK(m) /\ m.kind = "human"
    <2>1. m.kind = "human" /\ m.calls = <<>>
      BY DEF Human, Entry
    <2>2. <<>> \in Seq(1 .. calls) /\ Len(<<>>) = 0
      OBVIOUS
    <2> HIDE DEF m
    <2>. QED
      BY <2>1, <2>2 DEF EntryOK
  <1> HIDE DEF m
  <1>4. /\ V \in Seq(S \cup {m}) /\ Len(V) = Len(head) + 1 /\ Len(head) \in Nat
        /\ \A t \in 1 .. Len(V) : V[t] = IF t <= Len(head) THEN head[t] ELSE m
    <2>1. \A t \in 1 .. Len(head) + 1 : ~(t <= Len(head)) => <<m>>[t - Len(head)] = m
      BY <1>1
    <2>. QED
      BY <1>1, <1>2, <2>1, ConcatProperties
  <1> HIDE DEF V
  <1>5. ASSUME NEW t \in 1 .. Len(V)
        PROVE  EntryOK(V[t]) /\ V[t].kind \in {"system", "human"}
    BY <1>3, <1>4 DEF Opening
  <1>6. /\ Len(V) >= 1 /\ V[1].kind = "system"
        /\ preserve => Len(V) >= 2 /\ V[2].kind = "human"
    BY <1>4 DEF Opening
  <1>7. IsSequence(V)
    BY <1>4 DEF IsSequence
  <1>. QED
    BY <1>5, <1>6, <1>7 DEF Opening, V, m

(* What the prefix takes from a history opens it, and no block begins with a result. *)
LEMMA PrefixOpens ==
    ASSUME NEW s, Replayable(s), NEW from, from = Len(Prefix(s)) + 1
    PROVE  /\ Opening(Prefix(s)) /\ from \in 1 .. Len(s) + 1
           /\ from <= Len(s) => s[from].kind # "tool"
  <1>1. /\ Len(s) \in Nat /\ Len(s) >= 1 /\ 1 \in 1 .. Len(s) /\ EntryOK(s[1])
        /\ s[1].kind = "system"
        /\ preserve => Len(s) >= 2 /\ 2 \in 1 .. Len(s) /\ EntryOK(s[2]) /\ s[2].kind = "human"
    BY DEF Replayable, IsSequence
  <1>2. /\ from = IF preserve THEN 3 ELSE 2
        /\ Opening(Prefix(s))
    <2>1. CASE ~preserve
      <3>1. Prefix(s) = <<s[1]>>
        BY <2>1 DEF Prefix
      <3>2. <<s[1]>> \in Seq({s[1]}) /\ Len(<<s[1]>>) = 1 /\ <<s[1]>>[1] = s[1]
        OBVIOUS
      <3>3. IsSequence(Prefix(s))
        BY <3>1, <3>2 DEF IsSequence
      <3>. QED
        BY <1>1, <2>1, <3>1, <3>2, <3>3 DEF Opening
    <2>2. CASE preserve
      <3> DEFINE m == CompactMessage(s[2], Least(4000, ContextBudget \div 4), 1000)
      <3>1. Prefix(s) = <<s[1], m>>
        BY <2>2 DEF Prefix
      <3>2. EntryOK(m) /\ m.kind = "human"
        BY <1>1, <2>2, CompactAlike DEF Alike
      <3> HIDE DEF m
      <3>3. /\ <<s[1], m>> \in Seq({s[1], m}) /\ Len(<<s[1], m>>) = 2
            /\ <<s[1], m>>[1] = s[1] /\ <<s[1], m>>[2] = m
        OBVIOUS
      <3>4. IsSequence(Prefix(s))
        BY <3>1, <3>3 DEF IsSequence
      <3>5. \A t \in 1 .. 2 : t = 1 \/ t = 2
        OBVIOUS
      <3>. QED
        BY <1>1, <2>2, <3>1, <3>2, <3>3, <3>4, <3>5 DEF Opening
    <2>. QED
      BY <2>1, <2>2
  <1>3. from \in 1 .. Len(s) + 1
    BY <1>1, <1>2
  <1>4. ASSUME from <= Len(s), s[from].kind = "tool" PROVE FALSE
    <2>1. PICK x \in 1 .. Len(s) : Follows(s, x, from) /\ s[from].answers \in Made(s, x)
      BY <1>1, <1>3, <1>4 DEF Replayable, Paired
    <2>2. x = 1 \/ (preserve /\ x = 2)
      BY <1>1, <1>2, <2>1 DEF Follows
    <2>3. s[x].calls = <<>>
      BY <1>1, <2>2 DEF EntryOK
    <2>. QED
      BY <2>1, <2>3 DEF Made
  <1>. QED
    BY <1>2, <1>3, <1>4

(* compact_messages makes of a history that a session may go on from another, or raises. *)
LEMMA CompactedSound ==
    ASSUME NEW s, Replayable(s), Compacted(s) # <<>>
    PROVE  Replayable(Compacted(s))
  <1> DEFINE from == Len(Prefix(s)) + 1
             budget == ContextBudget - Total(Prefix(s)) - SummaryReserve
             kept == Keeping(s, from, budget)
             chosen == {i \in Cuts(s, from) : kept[i].all}
             head == Prefix(s) \o <<Summary(SubSeq(s, from, Min(chosen) - 1))>>
             fitting == {i \in chosen : FitsBudget(head \o kept[i].view)}
  <1>1. CASE FitsBudget(s)
    BY <1>1 DEF Compacted
  <1>2. CASE ~FitsBudget(s)
    <2>1. /\ Opening(Prefix(s)) /\ from \in 1 .. Len(s) + 1
          /\ from <= Len(s) => s[from].kind # "tool"
      BY PrefixOpens
    <2>2. Opening(head)
      BY <2>1, OpeningAppend DEF Summary
    <2>3. Compacted(s) = WithSummary(Prefix(s), s, from, kept)
      BY <1>2 DEF Compacted, Behind
    <2>4. \/ from \in chosen /\ Compacted(s) = Prefix(s) \o kept[from].view
          \/ Compacted(s) = LongestFitting(head, kept, chosen)
      BY <2>3 DEF WithSummary
    <2>5. chosen \in SUBSET Nat /\ Cuts(s, from) \subseteq 1 .. Len(s) + 1
      <3>1. Len(s) \in Nat
        BY DEF Replayable, IsSequence
      <3> HIDE DEF kept
      <3>. QED
        BY <2>1, <3>1 DEF Cuts
    <2>6. ASSUME NEW i \in chosen
          PROVE  /\ i \in 1 .. Len(s) + 1 /\ Mirrors(kept[i].view, s, i)
                 /\ i <= Len(s) => s[i].kind # "tool"
      <3>1. i \in Cuts(s, from) /\ kept[i].all
        OBVIOUS
      <3>2. Mirrors(kept[i].view, s, i)
        <4> HIDE DEF from, budget
        <4>. QED
          BY <2>1, <3>1, KeptMirrors
      <3>3. i <= Len(s) => s[i].kind # "tool"
        <4>1. Len(s) \in Nat
          BY DEF Replayable, IsSequence
        <4> HIDE DEF from
        <4>. QED
          BY <2>1, <3>1, <4>1 DEF Cuts
      <3>. QED
        BY <2>5, <3>1, <3>2, <3>3
    <2> HIDE DEF from, budget, kept, chosen, head
    <2>7. CASE from \in chosen /\ Compacted(s) = Prefix(s) \o kept[from].view
      BY <2>1, <2>6, <2>7, ViewSound
    <2>8. CASE Compacted(s) = LongestFitting(head, kept, chosen)
      <3>1. fitting # {} /\ Compacted(s) = head \o kept[Min(fitting)].view
        BY <2>8 DEF LongestFitting
      <3>2. fitting \in SUBSET Nat
        BY <2>5
      <3>3. Min(fitting) \in fitting
        BY <3>1, <3>2, SmallestIsThere
      <3>4. Min(fitting) \in chosen
        BY <3>3
      <3> HIDE DEF fitting
      <3>. QED
        BY <2>2, <2>6, <3>1, <3>4, ViewSound
    <2>. QED
      BY <2>4, <2>7, <2>8
  <1>. QED
    BY <1>1, <1>2

(* The inductive invariant of a history that is compacted, saved and gone on from. *)
ContextInv == ContextTypeOK /\ Replayable(history)

LEMMA ContextInit == InitContext => ContextInv
  <1> SUFFICES ASSUME InitContext PROVE ContextInv
    OBVIOUS
  <1>1. preserve \in BOOLEAN /\ calls = 0 /\ answered = {}
    BY DEF InitContext
  <1> DEFINE first == Entry("system", 300, <<>>, 0, 0, 0)
  <1>2. \E chars : history = <<first>> \o (IF preserve THEN <<Human(chars)>> ELSE <<>>)
    BY DEF InitContext
  <1>3. PICK chars : history = <<first>> \o (IF preserve THEN <<Human(chars)>> ELSE <<>>)
    BY <1>2
  <1> DEFINE second == Human(chars)
  <1>4. /\ first.kind = "system" /\ first.calls = <<>>
        /\ second.kind = "human" /\ second.calls = <<>>
    BY DEF Human, Entry
  <1> HIDE DEF first, second
  <1>5. history = IF preserve THEN <<first, second>> ELSE <<first>>
    BY <1>3 DEF second
  <1>6. /\ history \in Seq({first, second}) /\ Len(history) = IF preserve THEN 2 ELSE 1
        /\ history[1] = first /\ (preserve => history[2] = second)
    <2>1. CASE preserve
      BY <1>5, <2>1
    <2>2. CASE ~preserve
      BY <1>5, <2>2
    <2>. QED
      BY <2>1, <2>2
  <1>7. \A i \in 1 .. Len(history) : history[i] \in {first, second}
    BY <1>6
  <1>8. <<>> \in Seq(1 .. calls) /\ Len(<<>>) = 0
    OBVIOUS
  <1>9. \A i \in 1 .. Len(history) : EntryOK(history[i]) /\ history[i].kind # "tool"
    <2>1. EntryOK(first) /\ first.kind # "tool"
      BY <1>4, <1>8 DEF EntryOK
    <2>2. EntryOK(second) /\ second.kind # "tool"
      BY <1>4, <1>8 DEF EntryOK
    <2>. QED
      BY <1>7, <2>1, <2>2
  <1>10. \A i \in 1 .. Len(history) : Made(history, i) = {}
    BY <1>4, <1>7 DEF Made
  <1>11. Replayable(history)
    <2>1. IsSequence(history)
      BY <1>6 DEF IsSequence
    <2>2. Len(history) >= 1 /\ (preserve => Len(history) >= 2)
      BY <1>1, <1>6
    <2>. QED
      BY <1>4, <1>6, <1>9, <1>10, <2>1, <2>2 DEF Replayable, Paired
  <1>12. \A i \in 1 .. Len(history) : history[i].kind \in {"system", "human", "ai", "tool"}
    BY <1>9 DEF EntryOK
  <1>. QED
    BY <1>1, <1>11, <1>12 DEF ContextInv, ContextTypeOK

LEMMA MadeWithin ==
    ASSUME NEW view, NEW i, NEW S, view[i].calls \in Seq(S)
    PROVE  Made(view, i) \subseteq S
  BY ElementOfSeq DEF Made

(* What the user or the model says makes new calls alone, and answers none. *)
LEMMA SaidKeeps ==
    ASSUME ContextInv, NEW m, history' = Append(history, m), m.kind \in {"human", "ai"},
           calls' \in calls .. MaxHistory, UNCHANGED <<preserve, answered>>,
           m.calls \in Seq(calls + 1 .. calls'), Len(m.calls) <= MaxToolCalls,
           m.kind = "human" => m.calls = <<>>
    PROVE  ContextInv'
  <1> DEFINE n == Len(history)
  <1>0. PICK h : h = history'
    OBVIOUS
  <1>1. PICK S : history \in Seq(S)
    BY DEF ContextInv, Replayable, IsSequence
  <1>2. /\ Replayable(history) /\ n \in Nat /\ n >= 1
        /\ calls \in Nat /\ calls' \in Nat /\ calls <= calls' /\ answered \subseteq 1 .. calls
    BY <1>1 DEF ContextInv, Replayable, ContextTypeOK
  <1>3. history \in Seq(S \cup {m})
    BY <1>1
  <1>4. /\ h \in Seq(S \cup {m}) /\ Len(h) = n + 1 /\ h[n + 1] = m
        /\ \A i \in 1 .. n : h[i] = history[i]
    BY <1>0, <1>3, AppendProperties
  <1>5. \A i \in 1 .. Len(h) : i \in 1 .. n \/ i = n + 1
    BY <1>2, <1>4
  <1> HIDE DEF n
  <1>6. 1 .. calls \subseteq 1 .. calls' /\ calls + 1 .. calls' \subseteq 1 .. calls'
    BY <1>2
  <1>16. Seq(1 .. calls) \subseteq Seq(1 .. calls') /\ Seq(calls + 1 .. calls') \subseteq Seq(1 .. calls')
    BY <1>6, SeqMonotonic
  <1>7. ASSUME NEW i \in 1 .. n
        PROVE  /\ i \in 1 .. Len(h) /\ h[i] = history[i] /\ EntryOK(h[i])' /\ Made(h, i) = Made(history, i)
               /\ Made(h, i) \subseteq 1 .. calls
    <2>1. EntryOK(history[i]) /\ h[i] = history[i] /\ i \in 1 .. Len(h)
      BY <1>2, <1>4 DEF Replayable, n
    <2>2. h[i].calls \in Seq(1 .. calls) /\ h[i].calls \in Seq(1 .. calls')
      BY <1>16, <2>1 DEF EntryOK
    <2>3. EntryOK(h[i])'
      BY <2>1, <2>2 DEF EntryOK
    <2>4. Made(h, i) = Made(history, i)
      BY <2>1 DEF Made
    <2>5. Made(h, i) \subseteq 1 .. calls
      BY <2>2, MadeWithin
    <2>. QED
      BY <2>1, <2>3, <2>4, <2>5
  <1>8. /\ EntryOK(m)' /\ n + 1 \in 1 .. Len(h) /\ h[n + 1] = m /\ m.kind # "tool"
        /\ Made(h, n + 1) \subseteq calls + 1 .. calls'
    <2>1. m.calls \in Seq(1 .. calls')
      BY <1>16
    <2>2. h[n + 1] = m /\ n + 1 \in 1 .. Len(h)
      BY <1>2, <1>4
    <2>3. EntryOK(m)'
      BY <2>1 DEF EntryOK
    <2>. QED
      BY <2>2, <2>3, MadeWithin
  <1>9. ASSUME NEW i \in 1 .. n, NEW j \in 1 .. n, Follows(history, i, j)
        PROVE  Follows(h, i, j)
    BY <1>2, <1>4, <1>9 DEF Follows
  <1>10. ASSUME NEW j \in 1 .. Len(h), h[j].kind = "tool"
         PROVE  \E i \in 1 .. Len(h) : Follows(h, i, j) /\ h[j].answers \in Made(h, i)
    <2>1. j \in 1 .. n /\ history[j].kind = "tool"
      BY <1>5, <1>7, <1>8, <1>10
    <2>2. PICK i \in 1 .. n : Follows(history, i, j) /\ history[j].answers \in Made(history, i)
      BY <1>2, <2>1 DEF Replayable, Paired, n
    <2>. QED
      BY <1>7, <1>9, <2>1, <2>2
  <1>11. ASSUME NEW i \in 1 .. Len(h), NEW call \in Made(h, i) \cap answered'
         PROVE  \E j \in 1 .. Len(h) : Follows(h, i, j) /\ h[j].answers = call
    <2>1. call \in 1 .. calls
      BY <1>2
    <2>2. call \notin calls + 1 .. calls'
      BY <1>2, <2>1
    <2>3. i \in 1 .. n
      BY <1>5, <1>8, <2>2
    <2>4. PICK j \in 1 .. n : Follows(history, i, j) /\ history[j].answers = call
      BY <1>2, <1>7, <2>3 DEF Replayable, Paired, n
    <2>. QED
      BY <1>7, <1>9, <2>3, <2>4
  <1>12. ASSUME NEW i \in 1 .. Len(h), NEW j \in 1 .. Len(h), i # j
         PROVE  Made(h, i) \cap Made(h, j) = {}
    <2>1. CASE i \in 1 .. n /\ j \in 1 .. n
      BY <1>2, <1>7, <1>12, <2>1 DEF Replayable, n
    <2>2. CASE i = n + 1 \/ j = n + 1
      <3>1. (1 .. calls) \cap (calls + 1 .. calls') = {}
        BY <1>2
      <3>2. \/ Made(h, i) \subseteq 1 .. calls /\ Made(h, j) \subseteq calls + 1 .. calls'
            \/ Made(h, j) \subseteq 1 .. calls /\ Made(h, i) \subseteq calls + 1 .. calls'
        BY <1>5, <1>7, <1>8, <1>12, <2>2
      <3>. QED
        BY <3>1, <3>2
    <2>. QED
      BY <1>5, <2>1, <2>2
  <1>13. Paired(h)'
    BY <1>10, <1>11 DEF Paired
  <1>14. Replayable(history)'
    <2>1. IsSequence(h)' /\ (Len(h) >= 1)' /\ (h[1].kind = "system")'
      <3>1. 1 \in 1 .. n
        BY <1>2
      <3>. QED
        BY <1>2, <1>4, <3>1 DEF IsSequence, Replayable, n
    <2>2. preserve' => Len(h) >= 2 /\ h[2].kind = "human"
      <3>1. preserve => n >= 2 /\ history[2].kind = "human" /\ 2 \in 1 .. n
        BY <1>2 DEF Replayable, n
      <3>. QED
        BY <1>2, <1>4, <3>1
    <2>3. ASSUME NEW i \in 1 .. Len(h) PROVE EntryOK(h[i])'
      <3>1. CASE i \in 1 .. n
        BY <1>7, <3>1
      <3>2. CASE i = n + 1
        <4>1. h[i] = m
          BY <1>8, <3>2
        <4>. QED
          BY <1>8, <4>1
      <3>. QED
        BY <1>5, <3>1, <3>2
    <2>4. \A i, j \in 1 .. Len(h) : i # j => Made(h, i) \cap Made(h, j) = {}
      BY <1>12
    <2>. QED
      BY <1>0, <1>13, <2>1, <2>2, <2>3, <2>4 DEF Replayable
  <1>15. ContextTypeOK'
    <2>1. \A i \in 1 .. Len(history') : history'[i].kind \in {"system", "human", "ai", "tool"}
      BY <1>14 DEF Replayable, EntryOK
    <2>2. calls' \in 0 .. MaxHistory /\ answered' \subseteq 1 .. calls' /\ preserve' \in BOOLEAN
      BY <1>2, <1>6 DEF ContextInv, ContextTypeOK
    <2>. QED
      BY <2>1, <2>2 DEF ContextTypeOK
  <1>. QED
    BY <1>14, <1>15 DEF ContextInv

(* A batch that went through answers the calls of the message before it. *)
LEMMA AnswersKeep ==
    ASSUME ContextInv, NEW chars, ToolsAnswer(chars) PROVE ContextInv'
  <1> DEFINE n == Len(history)
             q == Len(Unanswered)
             result(c) == Entry("tool", chars, <<>>, 0, 0, c)
             R == [i \in 1 .. q |-> result(Unanswered[i])]
  <1>0. PICK h : h = history'
    OBVIOUS
  <1>1. PICK S : history \in Seq(S)
    BY DEF ContextInv, Replayable, IsSequence
  <1>2. /\ Replayable(history) /\ n \in Nat /\ n >= 1 /\ n \in 1 .. n
        /\ calls \in Nat /\ answered \subseteq 1 .. calls
        /\ UNCHANGED <<preserve, calls>>
        /\ answered' = answered \cup {Unanswered[i] : i \in 1 .. q}
        /\ Unanswered # <<>> /\ h = history \o R
    BY <1>0, <1>1 DEF ContextInv, Replayable, ContextTypeOK, ToolsAnswer
  <1>3. /\ Unanswered = history[n].calls /\ EntryOK(history[n])
        /\ Unanswered \in Seq(1 .. calls) /\ q \in Nat /\ history[n].kind = "ai"
        /\ Made(history, n) = {Unanswered[i] : i \in 1 .. q}
    <2>1. Unanswered = history[n].calls /\ EntryOK(history[n])
      BY <1>2 DEF Unanswered, Last, Replayable
    <2>2. Unanswered \in Seq(1 .. calls) /\ history[n].kind = "ai"
      BY <1>2, <2>1 DEF EntryOK
    <2>3. q \in Nat
      BY <2>2
    <2>. QED
      BY <2>1, <2>2, <2>3 DEF Made
  <1> HIDE DEF n, q
  <1>4. \A i \in 1 .. q : /\ R[i].kind = "tool" /\ R[i].calls = <<>>
                          /\ R[i].answers = Unanswered[i] /\ Unanswered[i] \in 1 .. calls
    <2>1. \A i \in 1 .. q : R[i].kind = "tool" /\ R[i].calls = <<>> /\ R[i].answers = Unanswered[i]
      BY DEF Entry
    <2>2. \A i \in 1 .. q : Unanswered[i] \in 1 .. calls
      BY <1>3, ElementOfSeq DEF q
    <2>. QED
      BY <2>1, <2>2
  <1> DEFINE T == {R[i] : i \in 1 .. q}
  <1>5. R \in Seq(T) /\ Len(R) = q
    <2> HIDE DEF result
    <2>1. R = [i \in 1 .. q |-> R[i]] /\ \A i \in 1 .. q : R[i] \in T
      OBVIOUS
    <2>2. q \in Nat
      BY <1>3
    <2> HIDE DEF R, T
    <2>. QED
      BY ONLY <2>1, <2>2
  <1> HIDE DEF R, T
  <1>6. history \in Seq(S \cup T) /\ R \in Seq(S \cup T)
    BY <1>1, <1>5
  <1>7. /\ h \in Seq(S \cup T) /\ Len(h) = n + q
        /\ \A i \in 1 .. n + q : h[i] = IF i <= n THEN history[i] ELSE R[i - n]
    <2>1. Len(history) = n
      BY DEF n
    <2>. QED
      <3>1. /\ history \o R \in Seq(S \cup T) /\ Len(history \o R) = Len(history) + Len(R)
            /\ \A i \in 1 .. Len(history) + Len(R) :
                   (history \o R)[i] = IF i <= Len(history) THEN history[i]
                                                          ELSE R[i - Len(history)]
        BY ONLY <1>6, ConcatProperties
      <3>2. h = history \o R
        BY <1>2
      <3>. QED
        BY ONLY <1>5, <2>1, <3>1, <3>2
  <1>8. \A i \in 1 .. Len(h) : i \in 1 .. n \/ i \in n + 1 .. n + q
    BY <1>2, <1>3, <1>7
  <1>9. ASSUME NEW i \in 1 .. n
        PROVE  /\ i \in 1 .. Len(h) /\ h[i] = history[i] /\ EntryOK(h[i])'
               /\ Made(h, i) = Made(history, i)
    <2>1. i \in 1 .. n + q /\ i <= n
      BY <1>2, <1>3
    <2>4. i \in 1 .. Len(h) /\ h[i] = history[i]
      BY <1>7, <2>1
    <2>2. EntryOK(history[i])
      BY <1>2 DEF Replayable, n
    <2>3. EntryOK(h[i])'
      BY <1>2, <2>2, <2>4 DEF EntryOK
    <2>. QED
      BY <2>3, <2>4 DEF Made
  <1>10. ASSUME NEW i \in n + 1 .. n + q
         PROVE  /\ i \in 1 .. Len(h) /\ i - n \in 1 .. q /\ h[i].kind = "tool" /\ EntryOK(h[i])'
                /\ h[i].answers = Unanswered[i - n] /\ Made(h, i) = {}
    <2>1. i \in 1 .. Len(h) /\ i - n \in 1 .. q /\ ~(i <= n)
      BY <1>2, <1>3, <1>7
    <2>2. h[i] = R[i - n]
      BY <1>7, <2>1
    <2>3. h[i].kind = "tool" /\ h[i].calls = <<>> /\ h[i].answers = Unanswered[i - n]
      BY <1>4, <2>1, <2>2
    <2>4. <<>> \in Seq(1 .. calls') /\ Len(<<>>) = 0
      OBVIOUS
    <2>5. EntryOK(h[i])'
      BY <2>3, <2>4 DEF EntryOK
    <2>. QED
      BY <2>1, <2>3, <2>5 DEF Made
  <1>11. ASSUME NEW i \in 1 .. n, NEW j \in 1 .. n, Follows(history, i, j)
         PROVE  Follows(h, i, j)
    <2>1. \A k \in i + 1 .. j : k \in 1 .. n
      BY <1>2
    <2>. QED
      BY <1>9, <1>11, <2>1 DEF Follows
  <1>12. ASSUME NEW j \in n + 1 .. n + q PROVE Follows(h, n, j)
    <2>1. \A k \in n + 1 .. j : k \in n + 1 .. n + q
      BY <1>2, <1>3
    <2>2. n < j
      BY <1>2, <1>3
    <2>. QED
      BY <1>10, <2>1, <2>2 DEF Follows
  <1>13. ASSUME NEW j \in 1 .. Len(h), h[j].kind = "tool"
         PROVE  \E i \in 1 .. Len(h) : Follows(h, i, j) /\ h[j].answers \in Made(h, i)
    <2>1. CASE j \in 1 .. n
      <3>1. history[j].kind = "tool"
        BY <1>9, <1>13, <2>1
      <3>2. PICK i \in 1 .. n : Follows(history, i, j) /\ history[j].answers \in Made(history, i)
        BY <1>2, <2>1, <3>1 DEF Replayable, Paired, n
      <3>. QED
        BY <1>9, <1>11, <2>1, <3>2
    <2>2. CASE j \in n + 1 .. n + q
      <3>1. h[j].answers \in Made(history, n)
        BY <1>3, <1>10, <2>2
      <3>. QED
        BY <1>2, <1>9, <1>12, <2>2, <3>1
    <2>. QED
      BY <1>8, <2>1, <2>2
  <1>14. ASSUME NEW i \in 1 .. Len(h), NEW call \in Made(h, i) \cap answered'
         PROVE  \E j \in 1 .. Len(h) : Follows(h, i, j) /\ h[j].answers = call
    <2>1. i \in 1 .. n /\ call \in Made(history, i)
      BY <1>8, <1>9, <1>10
    <2>2. CASE i = n
      <3>1. PICK k \in 1 .. q : call = Unanswered[k]
        BY <1>3, <2>1, <2>2
      <3>2. n + k \in n + 1 .. n + q /\ (n + k) - n = k
        BY <1>2, <1>3
      <3>. QED
        BY <1>10, <1>12, <2>2, <3>1, <3>2
    <2>3. CASE i # n
      <3>1. Made(history, i) \cap Made(history, n) = {}
        BY <1>2, <2>1, <2>3 DEF Replayable, n
      <3>2. call \in answered
        BY <1>2, <1>3, <2>1, <3>1
      <3>3. PICK j \in 1 .. n : Follows(history, i, j) /\ history[j].answers = call
        BY <1>2, <2>1, <3>2 DEF Replayable, Paired, n
      <3>. QED
        BY <1>9, <1>11, <2>1, <3>3
    <2>. QED
      BY <2>2, <2>3
  <1>15. ASSUME NEW i \in 1 .. Len(h), NEW j \in 1 .. Len(h), i # j
         PROVE  Made(h, i) \cap Made(h, j) = {}
    <2>1. CASE i \in 1 .. n /\ j \in 1 .. n
      BY <1>2, <1>9, <1>15, <2>1 DEF Replayable, n
    <2>2. CASE i \in n + 1 .. n + q \/ j \in n + 1 .. n + q
      BY <1>10, <2>2
    <2>. QED
      BY <1>8, <2>1, <2>2
  <1>16. Paired(h)'
    BY <1>13, <1>14 DEF Paired
  <1>17. Replayable(history)'
    <2>1. IsSequence(h)' /\ (Len(h) >= 1)' /\ (h[1].kind = "system")'
      <3>1. 1 \in 1 .. n
        BY <1>2
      <3>2. Len(h) >= 1
        BY <1>2, <1>3, <1>7
      <3>. QED
        BY <1>2, <1>7, <1>9, <3>1, <3>2 DEF IsSequence, Replayable, n
    <2>2. preserve' => Len(h) >= 2 /\ h[2].kind = "human"
      <3>1. preserve => n >= 2 /\ history[2].kind = "human" /\ 2 \in 1 .. n
        BY <1>2 DEF Replayable, n
      <3>. QED
        BY <1>2, <1>3, <1>7, <1>9, <3>1
    <2>3. ASSUME NEW i \in 1 .. Len(h) PROVE EntryOK(h[i])'
      BY <1>8, <1>9, <1>10
    <2>4. \A i, j \in 1 .. Len(h) : i # j => Made(h, i) \cap Made(h, j) = {}
      BY <1>15
    <2>. QED
      BY <1>0, <1>16, <2>1, <2>2, <2>3, <2>4 DEF Replayable
  <1>18. ContextTypeOK'
    <2>1. \A i \in 1 .. Len(history') : history'[i].kind \in {"system", "human", "ai", "tool"}
      BY <1>17 DEF Replayable, EntryOK
    <2>2. calls' \in 0 .. MaxHistory /\ preserve' \in BOOLEAN
      BY <1>2 DEF ContextInv, ContextTypeOK
    <2>3. answered' \subseteq 1 .. calls'
      BY <1>2, <1>4
    <2>. QED
      BY <2>1, <2>2, <2>3 DEF ContextTypeOK
  <1>. QED
    BY <1>17, <1>18 DEF ContextInv

LEMMA ContextStep == ContextInv /\ [NextContext]_contextVars => ContextInv'
  <1> SUFFICES ASSUME ContextInv, [NextContext]_contextVars PROVE ContextInv'
    OBVIOUS
  <1>1. Replayable(history) /\ ContextTypeOK /\ calls \in Nat /\ calls <= MaxHistory
    BY DEF ContextInv, ContextTypeOK
  <1>2. ASSUME NEW h, Replayable(h), history' = h, UNCHANGED <<preserve, calls, answered>> PROVE ContextInv'
    <2>1. Replayable(h)'
      BY <1>2 DEF Replayable, EntryOK, Paired
    <2>2. Replayable(history)'
      BY <1>2, <2>1 DEF Replayable
    <2>3. \A i \in 1 .. Len(history') : history'[i].kind \in {"system", "human", "ai", "tool"}
      BY <2>2 DEF Replayable, EntryOK
    <2>4. ContextTypeOK'
      BY <1>1, <1>2, <2>3 DEF ContextTypeOK
    <2>. QED
      BY <2>2, <2>4 DEF ContextInv
  <1>3. CASE SaveHistory
    <2>1. Replayable(Compacted(history)) /\ history' = Compacted(history)
      BY <1>1, <1>3, CompactedSound DEF SaveHistory
    <2>. QED
      BY <1>2, <1>3, <2>1 DEF SaveHistory
  <1>4. ASSUME NEW chars \in Lengths, Ask(chars) PROVE ContextInv'
    <2> DEFINE m == Human(chars)
    <2>1. m.kind = "human" /\ m.calls = <<>>
      BY DEF Human, Entry
    <2>2. /\ history' = Append(history, m) /\ calls' = calls
          /\ UNCHANGED <<preserve, answered>>
      BY <1>4 DEF Ask
    <2> HIDE DEF m
    <2>3. calls' \in calls .. MaxHistory /\ m.calls \in Seq(calls + 1 .. calls') /\ Len(m.calls) <= MaxToolCalls
      BY <1>1, <2>1, <2>2
    <2>. QED
      BY <2>1, <2>2, <2>3, SaidKeeps
  <1>5. ASSUME NEW n \in FanOut, NEW chars \in Lengths, NEW reasoning, ModelResponds(n, chars, reasoning)
        PROVE  ContextInv'
    <2> DEFINE made == [i \in 1 .. Least(n, MaxToolCalls) |-> calls + i]
               m == Entry("ai", chars + (IF n > MaxToolCalls THEN 80 ELSE 0), made, reasoning, chars, 0)
    <2>1. m.kind = "ai" /\ m.calls = made
      BY DEF Entry
    <2>2. /\ history' = Append(history, m) /\ calls' = calls + n /\ calls + n <= MaxHistory
          /\ UNCHANGED <<preserve, answered>>
      BY <1>5 DEF ModelResponds
    <2>3. n \in Nat /\ Least(n, MaxToolCalls) \in Nat /\ Least(n, MaxToolCalls) <= n
          /\ Least(n, MaxToolCalls) <= MaxToolCalls
      BY DEF Least
    <2>4. made \in Seq(calls + 1 .. calls') /\ Len(made) <= MaxToolCalls
      BY <1>1, <2>2, <2>3
    <2>5. calls' \in calls .. MaxHistory
      BY <1>1, <2>2, <2>3
    <2> HIDE DEF m, made
    <2>. QED
      BY <2>1, <2>2, <2>4, <2>5, SaidKeeps
  <1>6. ASSUME NEW chars \in Lengths, ToolsAnswer(chars) PROVE ContextInv'
    BY <1>6, AnswersKeep
  <1>7. CASE UNCHANGED contextVars
    BY <1>1, <1>2, <1>7 DEF contextVars
  <1>. QED
    BY <1>3, <1>4, <1>5, <1>6, <1>7 DEF NextContext

(* What a provider is sent pairs each result with its call, and each call that  *)
(* was answered with its result, however long the history, however small the    *)
(* budget and whenever it is compacted and saved (compact_messages).            *)
THEOREM CallsAreAnswered == ContextSpec => []CallsKeepResults
  <1>1. ContextInv => CallsKeepResults
    <2> SUFFICES ASSUME ContextInv PROVE Paired(Compacted(history))
      BY DEF CallsKeepResults
    <2>1. CASE Compacted(history) = <<>>
      BY <2>1 DEF Paired
    <2>2. CASE Compacted(history) # <<>>
      <3>1. Replayable(Compacted(history))
        BY <2>2, CompactedSound DEF ContextInv
      <3>. QED
        BY <3>1 DEF Replayable
    <2>. QED
      BY <2>1, <2>2
  <1>. QED
    BY <1>1, ContextInit, ContextStep, PTL DEF ContextSpec

(* A history has its types, whatever it is made of. *)
THEOREM ContextTypeCorrect == ContextSpec => []ContextTypeOK
  <1>1. ContextInv => ContextTypeOK
    BY DEF ContextInv
  <1>. QED
    BY <1>1, ContextInit, ContextStep, PTL DEF ContextSpec
============================================================================
