------------------------- MODULE ChatSessionProofs -------------------------
(* Proofs about a chat session, for every number of turns and restarts, of *)
(* checks, of calls in a message and of steps in a turn; and about the      *)
(* signed log that its messages are appended to, for every number of        *)
(* processes, polls, texts and faults.                                      *)
EXTENDS ChatSession, SignedLog, GateProofs

USE GateAssumption, ChatAssumption DEF Testing

----------------------------------------------------------------------------
(* The inductive invariant *)

(* A failed run of the tests is kept by the gate, and by the file of a session *)
(* that is closed: what was pending is pending again when it is restored.      *)
FailureIsPending ==
    last = "fail" =>
        IF pc = "closed"
        THEN file.gate.status = "failed" \/ file.gate.require_verification
        ELSE Unforgiven(gate)

(* Between the decision and accept_submission nothing changes the gate. *)
AcceptOK == pc = "accept" => MaySubmit(gate, gate.current)

ChatInv ==
    /\ TypeOK /\ GateInv
    /\ pc # "batch" => batch = NoBatch
    /\ FailureIsPending /\ AcceptOK
    /\ writes <= 1 => VerifiedTurnWasTested

LEMMA CreateGate ==
    ASSUME NEW c \in Content
    PROVE  /\ Create(c, FALSE) \in Gate
           /\ Create(c, FALSE).verified = None /\ Create(c, FALSE).status = "not_required"
           /\ Create(c, FALSE).has_changes = (Create(c, FALSE).current # Create(c, FALSE).baseline)
  BY DEF Create, Gate

LEMMA ChatInit == Init => ChatInv
  <1> SUFFICES ASSUME Init PROVE ChatInv
    OBVIOUS
  <1>1. /\ workspace \in Content /\ batch = NoBatch /\ tested \subseteq Content
        /\ last = "none" /\ writes \in 0 .. MaxWrites /\ gate = Create(workspace, FALSE)
    BY DEF Init
  <1>2. GateOK
    BY <1>1, CreateGate DEF GateOK
  <1>3. GateInv
    BY <1>1, <1>2, CreateGate, NoBatchOK, IdleKeeps
  <1>4. 0 \in 0 .. MaxSteps
    OBVIOUS
  <1>5. TypeOK
    BY <1>3, <1>4 DEF Init, TypeOK, GateInv, FileTail, ExitStatus
  <1>. QED
    BY <1>3, <1>5 DEF Init, ChatInv, FailureIsPending, AcceptOK, VerifiedTurnWasTested

----------------------------------------------------------------------------
(* What the session's own steps do to gate and file *)

(* Between two batches the gate alone decides. *)
LEMMA GateChanges ==
    ASSUME ChatInv, UNCHANGED <<workspace, writes>>,
           batch' \in Batch, batch'.at \in {"idle", "sync"}, ~batch'.accepted,
           gate' \in Gate, GateOK', tested' \subseteq Content,
           last' \in {"none", "pass", "fail", "refused", "lost"}
    PROVE  GateInv'
  BY DEF ChatInv, GateInv, GateTypeOK, BatchOK, MatrixOK, AcceptedOK

(* The gate is compared with the workspace: no new evidence, no failure less. *)
LEMMA SyncOK ==
    ASSUME ChatInv, gate' = Sync(gate, workspace), tested' = tested, writes' = writes
    PROVE  /\ gate' \in Gate /\ GateOK'
           /\ Unforgiven(gate) => Unforgiven(gate')
           /\ gate'.status = "passed" => gate'.verified = workspace
  <1>1. gate \in Gate /\ workspace \in Content /\ GateOK
    BY DEF ChatInv, GateInv, GateTypeOK
  <1>2. /\ gate' \in Gate /\ gate'.verified = gate.verified /\ gate'.current = workspace
        /\ gate'.has_changes = (gate'.current # gate'.baseline)
        /\ gate'.require_verification = gate.require_verification
        /\ gate'.status = "passed" => gate'.verified = gate'.current
        /\ gate.status = "failed" => gate'.status = "failed"
    BY <1>1, SyncGate
  <1>. QED
    BY <1>1, <1>2 DEF GateOK, Unforgiven

(* _restore: no evidence, and what was pending is pending. *)
LEMMA RestoredGateOK ==
    ASSUME NEW g \in Gate, NEW c \in Content,
           NEW pending \in BOOLEAN
    PROVE  LET h == Sync([g EXCEPT !.verified = None, !.require_verification = pending,
                                   !.status = IF pending THEN "required" ELSE "not_required"], c)
           IN  /\ h \in Gate /\ h.verified = None /\ h.require_verification = pending
               /\ h.has_changes = (h.current # h.baseline) /\ h.status # "passed"
  <1> DEFINE s == IF pending THEN "required" ELSE "not_required"
             r == [g EXCEPT !.verified = None, !.require_verification = pending, !.status = s]
  <1>1. None \in Content \cup {None} /\ s \in {"not_required", "required", "passed", "failed"}
    OBVIOUS
  <1>. HIDE DEF s
  <1>2. r \in Gate
    BY <1>1 DEF Gate
  <1>3. r.verified = None /\ r.require_verification = pending /\ r.baseline = g.baseline
    BY DEF Gate
  <1>. HIDE DEF r
  <1>4. /\ Sync(r, c) \in Gate /\ Sync(r, c).verified = None
        /\ Sync(r, c).require_verification = pending
        /\ Sync(r, c).has_changes = (Sync(r, c).current # Sync(r, c).baseline)
        /\ Sync(r, c).status # "passed"
    BY <1>2, <1>3, SyncGate
  <1>. QED
    BY <1>4 DEF r, s

(* What is written to the file is of its type, and speaks of the gate as it is. *)
LEMMA SavedFile ==
    ASSUME NEW status \in ExitStatus, NEW g \in Gate, NEW end \in FileTail, Save(status, g, end)
    PROVE  /\ exit' \in ExitStatus
           /\ file' \in [exit : ExitStatus, gate : Gate, tail : FileTail] \cup {None}
           /\ file'.gate = g
  BY DEF Save

----------------------------------------------------------------------------
(* Every step keeps the invariant *)

LEMMA BeginKeeps ==
    ASSUME ChatInv, Begin, gate' \in Gate, gate'.verified = None, gate'.status # "passed",
           gate'.has_changes = (gate'.current # gate'.baseline),
           last' \in {"none", "pass", "fail", "refused", "lost"},
           last' = "fail" => gate'.require_verification
    PROVE  ChatInv'
  <1>1. batch' = NoBatch /\ UNCHANGED <<workspace, writes>> /\ tested' = {}
    BY DEF Begin, ChatInv
  <1>2. GateOK'
    BY DEF GateOK
  <1>3. GateInv'
    BY <1>1, <1>2, NoBatchOK, GateChanges
  <1>4. 0 \in 0 .. MaxSteps
    OBVIOUS
  <1>5. TypeOK'
    BY <1>3, <1>4 DEF Begin, ChatInv, TypeOK, GateInv, FileTail, ExitStatus
  <1>. QED
    BY <1>1, <1>3, <1>5
       DEF Begin, ChatInv, FailureIsPending, Unforgiven, AcceptOK, VerifiedTurnWasTested

LEMMA OpenKeeps == ASSUME ChatInv, Open PROVE ChatInv'
  <1>1. gate' = Create(workspace, FALSE) /\ workspace \in Content /\ last' = "none" /\ Begin
    BY DEF Open, ChatInv, TypeOK, GateTypeOK
  <1>. QED
    BY <1>1, CreateGate, BeginKeeps

LEMMA ReopenKeeps == ASSUME ChatInv, Reopen PROVE ChatInv'
  <1>1. file.gate \in Gate /\ workspace \in Content /\ pc = "closed"
    BY DEF Reopen, Begin, ChatInv, TypeOK, GateTypeOK
  <1> DEFINE pending == Pending(file.gate) \/ file.gate.require_verification
  <1>2. pending \in BOOLEAN
    BY <1>1 DEF Pending, Gate
  <1>3. last = "fail" => pending
    BY <1>1 DEF ChatInv, FailureIsPending, Pending
  <1>4. gate' = Sync([file.gate EXCEPT !.verified = None, !.require_verification = pending,
                               !.status = IF pending THEN "required" ELSE "not_required"],
                     workspace)
    BY DEF Reopen, RestoredGate
  <1>. HIDE DEF pending
  <1>5. /\ gate' \in Gate /\ gate'.verified = None /\ gate'.require_verification = pending
        /\ gate'.has_changes = (gate'.current # gate'.baseline) /\ gate'.status # "passed"
    <2>1. file.gate \in Gate /\ workspace \in Content
      BY <1>1
    <2> DEFINE restored == Sync([file.gate EXCEPT !.verified = None,
                                      !.require_verification = pending,
                                      !.status = IF pending THEN "required" ELSE "not_required"],
                                workspace)
    <2>2. /\ restored \in Gate /\ restored.verified = None
          /\ restored.require_verification = pending
          /\ restored.has_changes = (restored.current # restored.baseline)
          /\ restored.status # "passed"
      BY ONLY <2>1, <1>2, RestoredGateOK
    <2>3. gate' = restored
      BY ONLY <1>4
    <2>. HIDE DEF restored
    <2>. QED
      BY ONLY <2>2, <2>3
  <1>6. last' = last /\ last \in {"none", "pass", "fail", "refused", "lost"} /\ Begin
    BY DEF Reopen, ChatInv, TypeOK, GateTypeOK
  <1>. QED
    BY <1>3, <1>5, <1>6, BeginKeeps

(* Steps that leave the gate as it is, outside a batch. *)
LEMMA GateKept ==
    ASSUME ChatInv, UNCHANGED <<workspace, gate, tested, last, writes>>,
           batch' \in Batch, batch'.at \in {"idle", "sync"}, ~batch'.accepted
    PROVE  GateInv'
  BY GateChanges DEF ChatInv, GateInv, GateTypeOK, GateOK

LEMMA SelectKeeps == ASSUME ChatInv, NEW m \in {"ask", "code"}, Select(m) PROVE ChatInv'
  <1>1. UNCHANGED <<workspace, gate, batch, tested, last, writes>>
        /\ UNCHANGED <<pc, step, tail, exit, file, turn>> /\ mode' \in {"ask", "code"}
        /\ pc = "prompt"
    BY DEF Select, gateVars
  <1>2. GateInv'
    BY <1>1, NoBatchOK, GateKept DEF ChatInv
  <1>. QED
    BY <1>1, <1>2
       DEF ChatInv, TypeOK, GateInv, FailureIsPending, AcceptOK, VerifiedTurnWasTested

LEMMA ClearContextKeeps == ASSUME ChatInv, ClearContext PROVE ChatInv'
  <1>1. UNCHANGED <<workspace, gate, batch, tested, last, writes>>
        /\ UNCHANGED <<pc, mode, step, turn>> /\ pc = "prompt" /\ batch' = NoBatch
    BY DEF ClearContext, gateVars, ChatInv
  <1>2. GateInv'
    BY <1>1, NoBatchOK, GateKept
  <1>3. /\ tail' \in FileTail /\ exit' \in ExitStatus
        /\ file' \in [exit : ExitStatus, gate : Gate, tail : FileTail] \cup {None}
    <2>1. gate \in Gate /\ "chatting" \in ExitStatus /\ "paired" \in FileTail
      BY DEF ChatInv, TypeOK, GateTypeOK, ExitStatus, FileTail
    <2>. QED
      BY <2>1, SavedFile DEF ClearContext
  <1>. QED
    BY <1>1, <1>2, <1>3
       DEF ChatInv, TypeOK, GateInv, FailureIsPending, AcceptOK, VerifiedTurnWasTested

LEMMA TurnKeeps == ASSUME ChatInv, Turn PROVE ChatInv'
  <1>1. /\ gate' \in Gate /\ GateOK' /\ (Unforgiven(gate) => Unforgiven(gate'))
    BY SyncOK DEF Turn
  <1>2. batch' = NoBatch /\ pc = "prompt" /\ pc' = "model"
    BY DEF Turn, ChatInv
  <1>3. GateInv'
    BY <1>1, <1>2, NoBatchOK, GateChanges DEF Turn, ChatInv, TypeOK, GateTypeOK
  <1>4. TypeOK'
    BY <1>3 DEF Turn, ChatInv, TypeOK, GateInv, FileTail
  <1>. QED
    BY <1>1, <1>2, <1>3, <1>4
       DEF Turn, ChatInv, FailureIsPending, AcceptOK, VerifiedTurnWasTested

LEMMA ModelAnswersKeeps == ASSUME ChatInv, ModelAnswers PROVE ChatInv'
  <1>1. /\ gate' \in Gate /\ GateOK' /\ (Unforgiven(gate) => Unforgiven(gate'))
        /\ gate'.status = "passed" => gate'.verified = workspace
    BY SyncOK DEF ModelAnswers
  <1>2. /\ batch' = NoBatch /\ pc = "model" /\ pc' \in {"model", "prompt"}
        /\ UNCHANGED <<workspace, batch, tested, last, writes, mode, tail>>
    BY DEF ModelAnswers, ChatInv
  <1>3. GateInv'
    BY <1>1, <1>2, NoBatchOK, GateChanges DEF ChatInv, TypeOK, GateTypeOK
  <1>4. /\ exit' \in ExitStatus
        /\ file' \in [exit : ExitStatus, gate : Gate, tail : FileTail] \cup {None}
    <2>1. /\ "chatting" \in ExitStatus /\ "verification_required" \in ExitStatus
          /\ tail \in FileTail
      BY DEF ChatInv, TypeOK, ExitStatus
    <2>. QED
      BY <1>1, <2>1, SavedFile DEF ModelAnswers
  <1>5. step' \in 0 .. MaxSteps
    BY DEF ModelAnswers, ChatInv, TypeOK
  <1>6. /\ turn' \in [verified : BOOLEAN, on : Content] \cup {None}
        /\ \/ turn' = turn
           \/ turn'.on = workspace /\ turn'.verified = (gate'.status = "passed")
    <2> DEFINE passed == gate'.status = "passed"
    <2>1. turn' = turn \/ turn' = [verified |-> passed, on |-> workspace]
      BY DEF ModelAnswers, Result
    <2>2. /\ passed \in BOOLEAN /\ workspace \in Content
          /\ turn \in [verified : BOOLEAN, on : Content] \cup {None}
      BY DEF ChatInv, TypeOK, GateTypeOK
    <2>. HIDE DEF passed
    <2>3. \/ turn' = turn
          \/ turn'.on = workspace /\ turn'.verified = passed
      BY <2>1
    <2>4. turn' \in [verified : BOOLEAN, on : Content] \cup {None}
      BY <2>1, <2>2
    <2>. QED
      BY <2>3, <2>4 DEF passed
  <1>7. TypeOK'
    BY <1>2, <1>3, <1>4, <1>5, <1>6 DEF ChatInv, TypeOK, GateInv
  <1>8. (writes <= 1 => VerifiedTurnWasTested)'
    <2> SUFFICES ASSUME writes <= 1, turn' # None, turn'.verified PROVE turn'.on \in tested
      BY <1>2 DEF VerifiedTurnWasTested
    <2>1. CASE turn' = turn
      BY <2>1 DEF ChatInv, VerifiedTurnWasTested
    <2>2. CASE turn'.on = workspace /\ gate'.status = "passed"
      <3>1. gate'.verified = workspace /\ workspace \in Content
        BY <1>1, <2>2 DEF ChatInv, TypeOK, GateTypeOK
      <3>. QED
        BY <1>1, <1>2, <2>2, <3>1 DEF GateOK
    <2>. QED
      BY <1>6, <2>1, <2>2
  <1>. QED
    BY <1>1, <1>2, <1>3, <1>7, <1>8 DEF ChatInv, FailureIsPending, AcceptOK

LEMMA ModelCallsKeeps == ASSUME ChatInv, ModelCalls PROVE ChatInv'
  <1>1. batch' \in Batch /\ batch'.at = "sync" /\ ~batch'.accepted
    BY NoBatchOK DEF ModelCalls
  <1>2. GateInv'
    BY <1>1, GateKept DEF ModelCalls
  <1>3. step' \in 0 .. MaxSteps
    BY DEF ModelCalls, ChatInv, TypeOK
  <1>4. TypeOK'
    BY <1>2, <1>3 DEF ModelCalls, ChatInv, TypeOK, GateInv, FileTail
  <1>. QED
    BY <1>2, <1>4 DEF ModelCalls, ChatInv, FailureIsPending, AcceptOK, VerifiedTurnWasTested

LEMMA TurnStopsKeeps ==
    ASSUME ChatInv, NEW status \in {"error", "turn_step_limit"}, TurnStops(status)
    PROVE  ChatInv'
  <1>1. UNCHANGED <<workspace, gate, batch, tested, last, writes>> /\ batch' = NoBatch
        /\ UNCHANGED <<mode, tail>> /\ pc = "model" /\ pc' = "prompt" /\ step' = 0
    BY DEF TurnStops, gateVars, ChatInv
  <1>2. GateInv'
    BY <1>1, NoBatchOK, GateKept
  <1>3. /\ exit' \in ExitStatus
        /\ file' \in [exit : ExitStatus, gate : Gate, tail : FileTail] \cup {None}
    <2>1. gate \in Gate /\ status \in ExitStatus /\ tail \in FileTail
      BY DEF ChatInv, TypeOK, GateTypeOK, ExitStatus
    <2>. QED
      BY <2>1, SavedFile DEF TurnStops
  <1>4. turn' \in [verified : BOOLEAN, on : Content] /\ ~turn'.verified
    BY DEF TurnStops, Result, ChatInv, TypeOK, GateTypeOK
  <1>5. TypeOK'
    BY <1>1, <1>2, <1>3, <1>4 DEF ChatInv, TypeOK, GateInv
  <1>. QED
    BY <1>1, <1>2, <1>4, <1>5
       DEF ChatInv, FailureIsPending, AcceptOK, VerifiedTurnWasTested

LEMMA RunToolsKeeps == ASSUME ChatInv, RunTools PROVE ChatInv'
  <1>1. Kept
    <2>1. (mode = "code") \in BOOLEAN
      OBVIOUS
    <2>. QED
      BY <2>1, BatchKeeps DEF ChatInv, RunTools
  <1>2. UNCHANGED <<pc, mode, step, tail, exit, file, turn>> /\ pc = "batch"
    BY DEF RunTools, chatVars
  <1>3. TypeOK'
    BY <1>1, <1>2 DEF ChatInv, TypeOK, Kept, GateInv
  <1>4. FailureIsPending'
    BY <1>1, <1>2 DEF ChatInv, Kept, FailureKept, FailureIsPending
  <1>. QED
    BY <1>1, <1>2, <1>3, <1>4 DEF ChatInv, Kept, AcceptOK, VerifiedTurnWasTested

LEMMA RunToolsDoneKeeps == ASSUME ChatInv, RunToolsDone PROVE ChatInv'
  <1>1. /\ UNCHANGED <<workspace, gate, tested, last, writes, mode, step, turn>>
        /\ batch' = NoBatch /\ pc = "batch" /\ pc' \in {"accept", "model"}
        /\ pc' = "accept" => MaySubmit(gate, gate.current)
    BY DEF RunToolsDone, ChatInv, GateInv, AcceptedOK
  <1>2. GateInv'
    BY <1>1, NoBatchOK, GateKept
  <1>3. /\ tail' \in FileTail /\ exit' \in ExitStatus
        /\ file' \in [exit : ExitStatus, gate : Gate, tail : FileTail] \cup {None}
    <2>1. gate \in Gate /\ "chatting" \in ExitStatus /\ "paired" \in FileTail
      BY DEF ChatInv, TypeOK, GateTypeOK, ExitStatus, FileTail
    <2>. QED
      BY <2>1, SavedFile DEF RunToolsDone
  <1>4. TypeOK'
    BY <1>1, <1>2, <1>3 DEF ChatInv, TypeOK, GateInv
  <1>. QED
    BY <1>1, <1>2, <1>4
       DEF ChatInv, FailureIsPending, AcceptOK, VerifiedTurnWasTested

(* What the gate says when a submission is accepted. *)
LEMMA AcceptCovered ==
    ASSUME ChatInv, pc = "accept"
    PROVE  /\ last # "fail"
           /\ writes <= 1 => gate.current = gate.baseline \/ gate.current \in tested
  <1>1. /\ gate \in Gate /\ gate.current \in Content /\ MaySubmit(gate, gate.current)
        /\ GateOK /\ (last = "fail" => Unforgiven(gate))
    BY DEF ChatInv, TypeOK, GateTypeOK, Gate, AcceptOK, GateInv, FailureIsPending
  <1>2. last # "fail"
    BY <1>1 DEF MaySubmit, Unforgiven
  <1>. QED
    BY <1>1, <1>2 DEF MaySubmit, GateOK

(* accept_submission: the content is the baseline, its evidence stays evidence. *)
LEMMA AcceptGate ==
    ASSUME NEW g \in Gate
    PROVE  LET h == AcceptSubmission(g)
           IN  /\ h \in Gate /\ h.baseline = g.current /\ h.current = g.current
               /\ h.has_changes = FALSE /\ h.verified \in {g.verified, None}
               /\ h.status = "passed" => g.status = "passed" /\ h.verified = g.current
  <1>1. g.current \in Content
    BY DEF Gate
  <1>2. CASE g.status = "passed" /\ g.verified = g.current
    <2>1. AcceptSubmission(g) = [g EXCEPT !.baseline = g.current, !.verified = g.current,
              !.has_changes = FALSE, !.require_verification = FALSE, !.status = "passed"]
      BY <1>2 DEF AcceptSubmission
    <2>. QED
      BY <1>1, <1>2, <2>1 DEF Gate
  <1>3. CASE ~(g.status = "passed" /\ g.verified = g.current)
    <2>1. AcceptSubmission(g) = [g EXCEPT !.baseline = g.current, !.verified = None,
              !.has_changes = FALSE, !.require_verification = FALSE, !.status = "not_required"]
      BY <1>3 DEF AcceptSubmission
    <2>. QED
      BY <1>1, <2>1 DEF Gate
  <1>. QED
    BY <1>2, <1>3

LEMMA AcceptKeeps == ASSUME ChatInv, Accept PROVE ChatInv'
  <1>1. /\ gate \in Gate /\ gate.current \in Content /\ GateOK
        /\ gate' = AcceptSubmission(gate) /\ batch' = NoBatch
        /\ UNCHANGED <<workspace, batch, tested, last, writes, tail>> /\ last # "fail"
        /\ pc' = "prompt"
    BY AcceptCovered DEF Accept, ChatInv, TypeOK, GateTypeOK, Gate, GateInv
  <1>2. /\ gate' \in Gate /\ gate'.baseline = gate.current /\ gate'.current = gate.current
        /\ gate'.has_changes = FALSE /\ gate'.verified \in {gate.verified, None}
        /\ gate'.status = "passed" => gate.status = "passed" /\ gate'.verified = gate.current
    BY <1>1, AcceptGate
  <1>3. GateOK'
    BY <1>1, <1>2 DEF GateOK
  <1>4. GateInv'
    BY <1>1, <1>2, <1>3, NoBatchOK, GateChanges DEF ChatInv, TypeOK, GateTypeOK
  <1>5. /\ exit' \in ExitStatus
        /\ file' \in [exit : ExitStatus, gate : Gate, tail : FileTail] \cup {None}
    <2>1. "submitted" \in ExitStatus /\ tail \in FileTail /\ gate' \in Gate
      BY <1>2 DEF ChatInv, TypeOK, ExitStatus
    <2>2. Save("submitted", gate', tail)
      BY DEF Accept
    <2>. QED
      BY ONLY <2>1, <2>2 DEF Save
  <1>6. /\ turn' \in [verified : BOOLEAN, on : Content]
        /\ turn'.verified = (gate.status = "passed") /\ turn'.on = gate.current
    BY <1>1 DEF Accept
  <1>7. TypeOK'
    BY <1>1, <1>4, <1>5, <1>6 DEF Accept, ChatInv, TypeOK, GateInv
  <1>8. (writes <= 1 => VerifiedTurnWasTested)'
    BY <1>1, <1>6 DEF GateOK, VerifiedTurnWasTested
  <1>. QED
    BY <1>1, <1>4, <1>7, <1>8 DEF ChatInv, FailureIsPending, AcceptOK

(* The session is closed with the gate as it is. *)
LEMMA ClosedKeeps ==
    ASSUME ChatInv, pc # "closed", pc' = "closed", batch' = NoBatch,
           UNCHANGED <<workspace, gate, tested, last, writes, mode, step, tail, turn>>,
           NEW status \in ExitStatus, Save(status, gate, tail)
    PROVE  ChatInv'
  <1>1. GateInv'
    BY NoBatchOK, GateKept
  <1>2. /\ exit' \in ExitStatus
        /\ file' \in [exit : ExitStatus, gate : Gate, tail : FileTail] \cup {None}
        /\ file'.gate = gate
    BY SavedFile DEF ChatInv, TypeOK, GateTypeOK
  <1>3. TypeOK'
    BY <1>1, <1>2 DEF ChatInv, TypeOK, GateInv
  <1>4. FailureIsPending'
    BY <1>2 DEF ChatInv, FailureIsPending, Unforgiven
  <1>. QED
    BY <1>1, <1>3, <1>4 DEF ChatInv, AcceptOK, VerifiedTurnWasTested

LEMMA InterruptKeeps == ASSUME ChatInv, Interrupt PROVE ChatInv'
  <1>1. "interrupted" \in ExitStatus
    BY DEF ExitStatus
  <1>. QED
    BY <1>1, ClosedKeeps DEF Interrupt

LEMMA LeaveKeeps == ASSUME ChatInv, Leave PROVE ChatInv'
  <1> DEFINE status == IF exit \in {"error", "interrupted", "turn_step_limit"} THEN exit ELSE "closed"
  <1>1. status \in ExitStatus
    BY DEF ExitStatus
  <1>2. pc = "prompt" /\ pc' = "closed" /\ batch' = NoBatch /\ Save(status, gate, tail)
        /\ UNCHANGED <<workspace, gate, tested, last, writes, mode, step, tail, turn>>
    BY DEF Leave, ChatInv, gateVars
  <1>. HIDE DEF status
  <1>. QED
    BY <1>1, <1>2, ClosedKeeps

LEMMA CrashKeeps == ASSUME ChatInv, Crash PROVE ChatInv'
  <1>1. GateInv'
    BY NoBatchOK, GateChanges
       DEF Crash, ChatInv, TypeOK, GateTypeOK, GateInv, GateOK
  <1>. QED
    BY <1>1 DEF Crash, ChatInv, TypeOK, GateInv, FailureIsPending, AcceptOK, VerifiedTurnWasTested

LEMMA OutsideKeeps == ASSUME ChatInv, Write, UNCHANGED chatVars PROVE ChatInv'
  <1>1. GateInv' /\ UNCHANGED <<gate, batch, tested, last>> /\ writes' = writes + 1 /\ writes \in Nat
    BY WriteKeeps DEF ChatInv, TypeOK, GateTypeOK
  <1>2. TypeOK'
    BY <1>1 DEF chatVars, ChatInv, TypeOK, GateInv
  <1>. QED
    BY <1>1, <1>2 DEF chatVars, ChatInv, FailureIsPending, AcceptOK, VerifiedTurnWasTested

LEMMA ChatStep == ChatInv /\ [Next]_vars => ChatInv'
  <1> SUFFICES ASSUME ChatInv, [Next]_vars PROVE ChatInv'
    OBVIOUS
  <1>1. CASE UNCHANGED vars
    <2>1. GateInv'
      BY <1>1 DEF vars, gateVars, ChatInv, GateInv, GateTypeOK, BatchOK, MatrixOK, GateOK,
                  AcceptedOK, MaySubmit
    <2>. QED
      BY <1>1, <2>1 DEF vars, gateVars, chatVars, ChatInv, TypeOK, GateInv, FailureIsPending,
                        AcceptOK, VerifiedTurnWasTested
  <1>2. CASE Step
    BY <1>2, ModelAnswersKeeps, ModelCallsKeeps, TurnStopsKeeps, RunToolsKeeps, RunToolsDoneKeeps,
       AcceptKeeps DEF Step, ModelFails, StepLimit
  <1>. QED
    BY <1>1, <1>2, OpenKeeps, ReopenKeeps, TurnKeeps, ClearContextKeeps, LeaveKeeps, SelectKeeps,
       InterruptKeeps, CrashKeeps, OutsideKeeps DEF Next

LEMMA ChatInvariant == Spec => []ChatInv
  BY ChatInit, ChatStep, PTL DEF Spec

----------------------------------------------------------------------------
(* What it gives *)

(* A turn says verified only of a content on which the checks passed in this *)
(* session (respond_turn, _restore), in every behaviour with at most one     *)
(* write from outside.                                                       *)
THEOREM VerifiedTurnsAreTested == Spec => [](writes <= 1 => VerifiedTurnWasTested)
  <1>1. ChatInv => (writes <= 1 => VerifiedTurnWasTested)
    BY DEF ChatInv
  <1>. QED
    BY <1>1, ChatInvariant, PTL

(* A submission makes no untested change the baseline, and none is accepted  *)
(* between a run of the tests that failed and one that passes, restarts in   *)
(* between included (accept_submission, respond_turn, _restore), in every    *)
(* behaviour with at most one write from outside.                            *)
THEOREM SubmissionsAreCovered == Spec /\ [](writes <= 1) => AcceptsOnlyCovered
  <1>1. ChatInv /\ writes <= 1 =>
            [Accepting => /\ gate.current = gate.baseline \/ gate.current \in tested
                          /\ last # "fail"]_vars
    BY AcceptCovered DEF Accepting
  <1>. QED
    BY <1>1, ChatInvariant, PTL DEF AcceptsOnlyCovered

(* Every variable of a session, its gate and its file has its type. *)
THEOREM ChatTypeCorrect == Spec => []TypeOK
  <1>1. ChatInv => TypeOK
    BY DEF ChatInv
  <1>. QED
    BY <1>1, ChatInvariant, PTL

----------------------------------------------------------------------------
(* The signed log: the inductive invariant *)

USE SignedLogAssumption

Row == [key : {Missing, 1}, sequence : Nat, previous : Nat, text : Nat]

Pc == {"off", "look", "create", "write", "load", "poll", "migrate", "migrating",
       "ready", "append", "begin", "rest", "newline", "sync"}

WriterType == [pc : Pc, key : {Missing, 1}, polls : Nat, row : Row \cup {Missing}]

Typed ==
    /\ keyFile \in {Missing, 0, 1} /\ keys \in {0, 1} /\ (keys = 1 <=> keyFile = 1)
    /\ log \in Seq(Row) /\ texts \in Nat /\ faults \in Nat /\ lastLine \in LastLines
    /\ writer \in [Writer -> WriterType]

(* One process at most writes the key, and who has a key has the one of the file. *)
OneKey ==
    /\ \A p \in Writer : writer[p].pc = "write" => keyFile = 0
    /\ \A p, q \in Writer : writer[p].pc = "write" /\ writer[q].pc = "write" => p = q
    /\ \A p \in Writer : writer[p].key # Missing => keyFile = 1

HasKey(at) == at \in {"migrate", "migrating", "ready", "append", "begin", "rest", "newline", "sync"}
HasLock(at) == at \in {"migrating", "append", "begin", "rest", "newline", "sync"}
HasRead(at) == at \in {"ready", "append", "begin", "rest", "newline", "sync"}

(* Where a process stands tells what it holds, and what the log is. *)
Held ==
    \A p \in Writer :
        /\ HasKey(writer[p].pc) => writer[p].key = 1
        /\ HasLock(writer[p].pc) => holder = p
        /\ HasRead(writer[p].pc) => Verifies(log, 1)

IsLegacy(rows) == \A i \in 1 .. Len(rows) : rows[i] = Legacy(i)

Chained == (keyFile = 1 /\ Verifies(log, 1)) \/ IsLegacy(log)

InLog(rows, text) == \E i \in 1 .. Len(rows) : rows[i].text = text

NextRow(rows, text) == Envelope(1, Len(rows), TextBefore(rows, Len(rows) + 1), text)

(* The row that a process appends is the next one until it is in the log. *)
RowFits ==
    \A p \in Writer :
        /\ writer[p].pc \in {"begin", "rest"} =>
               writer[p].row \in Row /\ writer[p].row = NextRow(log, writer[p].row.text)
        /\ writer[p].pc \in {"newline", "sync"} => InLog(log, writer[p].row.text)

AllLogged == \A text \in appended : InLog(log, text)

(* A process in the middle of a row. *)
InRow(at) == at \in {"rest", "newline"}

TornByFault ==
    /\ lastLine # "ended" => faults > 0 \/ \E p \in Writer : InRow(writer[p].pc)
    /\ lastLine = "glued" => faults > 0

LogInv == Typed /\ OneKey /\ Held /\ Chained /\ RowFits /\ AllLogged /\ TornByFault

----------------------------------------------------------------------------
(* Rows *)

(* The row that follows from the last one keeps the chain (append_unlocked). *)
LEMMA AppendVerifies ==
    ASSUME NEW rows \in Seq(Row), Verifies(rows, 1), NEW row \in Row, row = NextRow(rows, row.text)
    PROVE  /\ Append(rows, row) \in Seq(Row) /\ Verifies(Append(rows, row), 1)
           /\ InLog(Append(rows, row), row.text)
           /\ \A text : InLog(rows, text) => InLog(Append(rows, row), text)
  <1> DEFINE longer == Append(rows, row)
             n == Len(rows)
  <1>1. n \in Nat /\ longer \in Seq(Row) /\ Len(longer) = n + 1 /\ longer[n + 1] = row
    OBVIOUS
  <1>2. \A i \in 1 .. n : longer[i] = rows[i]
    OBVIOUS
  <1>3. \A i \in 1 .. n + 1 : TextBefore(longer, i) = TextBefore(rows, i)
    <2>1. TAKE i \in 1 .. n + 1
    <2>2. i = 1 \/ (i # 1 /\ i - 1 \in 1 .. n)
      BY <1>1
    <2>. QED
      BY <1>1, <1>2, <2>1, <2>2 DEF TextBefore
  <1>4. \A i \in 1 .. n : longer[i] = Envelope(1, i - 1, TextBefore(longer, i), longer[i].text)
    BY <1>1, <1>2, <1>3 DEF Verifies
  <1>5. longer[n + 1] = Envelope(1, (n + 1) - 1, TextBefore(longer, n + 1), longer[n + 1].text)
    BY <1>1, <1>3 DEF NextRow
  <1>6. Verifies(longer, 1)
    BY <1>1, <1>4, <1>5 DEF Verifies
  <1>7. InLog(longer, row.text)
    BY <1>1 DEF InLog
  <1>8. \A text : InLog(rows, text) => InLog(longer, text)
    BY <1>1, <1>2 DEF InLog
  <1>. QED
    BY <1>1, <1>6, <1>7, <1>8

(* Signing the rows of the first version chains them and keeps their texts *)
(* (migrate_legacy).                                                       *)
LEMMA SignedVerifies ==
    ASSUME NEW rows \in Seq(Row)
    PROVE  /\ Signed(rows, 1) \in Seq(Row) /\ Verifies(Signed(rows, 1), 1)
           /\ \A text : InLog(rows, text) => InLog(Signed(rows, 1), text)
  <1> DEFINE signed == Signed(rows, 1)
             n == Len(rows)
  <1>1. n \in Nat /\ \A i \in 1 .. n : rows[i] \in Row
    OBVIOUS
  <1>2. \A i \in 1 .. n : TextBefore(rows, i) \in Nat
    <2>1. TAKE i \in 1 .. n
    <2>2. i = 1 \/ (i # 1 /\ i - 1 \in 1 .. n)
      BY <1>1
    <2>. QED
      BY <1>1, <2>2 DEF TextBefore, Row
  <1>3. \A i \in 1 .. n : /\ signed[i] = Envelope(1, i - 1, TextBefore(rows, i), rows[i].text)
                          /\ signed[i] \in Row /\ signed[i].text = rows[i].text
    BY <1>1, <1>2 DEF Signed, Envelope, Row
  <1>4. signed = [i \in 1 .. n |-> signed[i]]
    BY DEF Signed
  <1>5. signed \in Seq(Row) /\ Len(signed) = n
    BY <1>1, <1>3, <1>4
  <1>6. \A i \in 1 .. n : TextBefore(signed, i) = TextBefore(rows, i)
    <2>1. TAKE i \in 1 .. n
    <2>2. i = 1 \/ (i # 1 /\ i - 1 \in 1 .. n)
      BY <1>1
    <2>. QED
      BY <1>1, <1>3, <2>2 DEF TextBefore
  <1>7. Verifies(signed, 1)
    BY <1>3, <1>5, <1>6 DEF Verifies
  <1>8. \A text : InLog(rows, text) => InLog(signed, text)
    BY <1>3, <1>5 DEF InLog
  <1>. QED
    BY <1>5, <1>7, <1>8

(* After the last row comes the next one (_read_last_raw_row, append_unlocked). *)
LEMMA LastGivesNext ==
    ASSUME NEW rows \in Seq(Row), Verifies(rows, 1), NEW text \in Nat
    PROVE  /\ NextRow(rows, text) \in Row /\ NextRow(rows, text).text = text
           /\ Len(rows) = 0 => NextRow(rows, text) = Envelope(1, 0, 0, text)
           /\ Len(rows) > 0 =>
                  NextRow(rows, text) =
                      Envelope(1, rows[Len(rows)].sequence + 1, rows[Len(rows)].text, text)
  <1> DEFINE n == Len(rows)
  <1>1. n \in Nat
    OBVIOUS
  <1>2. CASE n = 0
    BY <1>1, <1>2 DEF NextRow, TextBefore, Envelope, Row
  <1>3. CASE n > 0
    <2>1. n \in 1 .. n /\ rows[n] \in Row
      BY <1>1, <1>3
    <2>2. rows[n] = Envelope(1, n - 1, TextBefore(rows, n), rows[n].text)
      BY <2>1 DEF Verifies
    <2>3. rows[n].sequence = n - 1
      BY <2>2 DEF Envelope
    <2>4. TextBefore(rows, n + 1) = rows[n].text
      BY <1>1, <1>3 DEF TextBefore
    <2>5. NextRow(rows, text) = Envelope(1, rows[n].sequence + 1, rows[n].text, text)
      BY <1>1, <2>3, <2>4 DEF NextRow
    <2>. QED
      BY <1>1, <1>3, <2>1, <2>5 DEF Envelope, Row
  <1>. QED
    BY <1>1, <1>2, <1>3

----------------------------------------------------------------------------
(* Steps of a process *)

(* A state of one process that the others need not know about. *)
Fits(p, w) ==
    /\ w \in WriterType /\ w.pc \notin {"write", "rest", "newline", "sync"}
    /\ w.key # Missing => keyFile = 1
    /\ HasKey(w.pc) => w.key = 1
    /\ HasLock(w.pc) => holder' = p
    /\ HasRead(w.pc) => Verifies(log, 1)
    /\ w.pc = "begin" => w.row \in Row /\ w.row = NextRow(log, w.row.text)

(* A process that moves on, and leaves the others the lock and both files. *)
LEMMA Moves ==
    ASSUME LogInv, NEW p \in Writer, NEW w, Fits(p, w),
           writer' = [writer EXCEPT ![p] = w],
           \A q \in Writer : q # p /\ holder = q => holder' = q,
           UNCHANGED <<keyFile, keys, log, lastLine>>,
           texts' \in Nat, faults' \in Nat,
           \A text \in appended' : InLog(log, text),
           lastLine # "ended" /\ InRow(writer[p].pc) => faults' > 0,
           faults > 0 => faults' > 0
    PROVE  LogInv'
  <1> USE DEF Fits
  <1>1. Typed /\ OneKey /\ Held /\ Chained /\ RowFits /\ AllLogged /\ TornByFault
    BY DEF LogInv
  <1>2. \A q \in Writer : writer'[q] = IF q = p THEN w ELSE writer[q]
    BY <1>1 DEF Typed
  <1>3. Typed'
    BY <1>1 DEF Typed
  <1>4. OneKey'
    BY <1>1, <1>2 DEF OneKey
  <1>5. Held'
    <2> SUFFICES ASSUME NEW q \in Writer
                 PROVE  /\ HasKey(writer'[q].pc) => writer'[q].key = 1
                        /\ HasLock(writer'[q].pc) => holder' = q
                        /\ HasRead(writer'[q].pc) => Verifies(log, 1)
      BY DEF Held, Verifies, TextBefore
    <2>1. CASE q = p
      BY <1>2, <2>1
    <2>2. CASE q # p
      BY <1>1, <1>2, <2>2 DEF Held
    <2>. QED
      BY <2>1, <2>2
  <1>6. Chained'
    BY <1>1 DEF Chained, Verifies, TextBefore, IsLegacy
  <1>7. RowFits'
    <2> SUFFICES ASSUME NEW q \in Writer
                 PROVE  /\ writer'[q].pc \in {"begin", "rest"} =>
                               /\ writer'[q].row \in Row
                               /\ writer'[q].row = NextRow(log, writer'[q].row.text)
                        /\ writer'[q].pc \in {"newline", "sync"} => InLog(log, writer'[q].row.text)
      BY DEF RowFits, NextRow, TextBefore, InLog
    <2>1. CASE q = p
      BY <1>2, <2>1
    <2>2. CASE q # p
      BY <1>1, <1>2, <2>2 DEF RowFits
    <2>. QED
      BY <2>1, <2>2
  <1>8. AllLogged'
    BY DEF AllLogged, InLog
  <1>9. TornByFault'
    BY <1>1, <1>2 DEF TornByFault, Typed
  <1>. QED
    BY <1>3, <1>4, <1>5, <1>6, <1>7, <1>8, <1>9 DEF LogInv

(* What an action leaves alone when it is only the process that moves on. *)
Still == UNCHANGED <<keyFile, keys, log, lastLine, texts, appended, faults>>

(* An exception or a kill at any point. *)
LEMMA RaiseMoves ==
    ASSUME LogInv, NEW p \in Writer, Raise(p),
           UNCHANGED <<keyFile, keys, log, lastLine, texts, appended>>,
           faults' \in Nat, faults > 0 => faults' > 0,
           lastLine # "ended" /\ InRow(writer[p].pc) => faults' > 0
    PROVE  LogInv'
  <1>1. Fits(p, Off)
    BY DEF Fits, Off, WriterType, Pc, HasKey, HasLock, HasRead
  <1>2. \A q \in Writer : q # p /\ holder = q => holder' = q
    BY DEF Raise
  <1>3. texts' \in Nat /\ \A text \in appended' : InLog(log, text)
    BY DEF LogInv, Typed, AllLogged
  <1>. QED
    BY <1>1, <1>2, <1>3, Moves DEF Raise

(* A step to another point, where only the lock may change hands. *)
LEMMA StillMoves ==
    ASSUME LogInv, NEW p \in Writer, NEW w, Fits(p, w), Still,
           writer' = [writer EXCEPT ![p] = w], ~InRow(writer[p].pc),
           \A q \in Writer : q # p /\ holder = q => holder' = q
    PROVE  LogInv'
  <1>1. texts' \in Nat /\ faults' \in Nat /\ \A text \in appended' : InLog(log, text)
    BY DEF LogInv, Typed, AllLogged, Still
  <1>. QED
    BY <1>1, Moves DEF Still

(* The key of the file is the one key, and without it the process ends. *)
LEMMA TakeKeyKeeps ==
    ASSUME LogInv, NEW p \in Writer, TakeKey(p), Still, ~InRow(writer[p].pc)
    PROVE  LogInv'
  <1>1. CASE keyFile \in 1 .. keys
    <2> DEFINE w == [Off EXCEPT !.pc = "migrate", !.key = keyFile]
    <2>1. keyFile = 1
      BY <1>1 DEF LogInv, Typed
    <2>2. Fits(p, w)
      BY <2>1 DEF Fits, Off, WriterType, Pc, HasKey, HasLock, HasRead
    <2>3. writer' = [writer EXCEPT ![p] = w] /\ holder' = holder
      BY <1>1 DEF TakeKey, HoldsKey
    <2>. QED
      BY <2>2, <2>3, StillMoves
  <1>2. CASE keyFile \notin 1 .. keys
    <2>1. faults' \in Nat /\ faults' = faults
      BY DEF Still, LogInv, Typed
    <2>. QED
      BY <1>2, <2>1, RaiseMoves DEF TakeKey, Still
  <1>. QED
    BY <1>1, <1>2

(* A process that changes nothing but where it stands. *)
LEMMA GoesKeeps ==
    ASSUME LogInv, NEW p \in Writer, NEW at \in Pc, at \notin {"write", "rest", "newline", "sync", "begin"},
           HasKey(at) => writer[p].key = 1,
           HasLock(at) => holder' = p,
           HasRead(at) => Verifies(log, 1),
           WriterGoes(p, at), Still, ~InRow(writer[p].pc),
           \A q \in Writer : q # p /\ holder = q => holder' = q
    PROVE  LogInv'
  <1> DEFINE w == [writer[p] EXCEPT !.pc = at]
  <1>1. writer[p] \in WriterType /\ writer' = [writer EXCEPT ![p] = w]
    BY DEF LogInv, Typed, WriterGoes
  <1>2. w \in WriterType /\ w.pc = at /\ w.key = writer[p].key
    BY <1>1 DEF WriterType
  <1>3. Fits(p, w)
    BY <1>2 DEF Fits, LogInv, OneKey
  <1>. QED
    BY <1>1, <1>3, StillMoves

----------------------------------------------------------------------------
(* The key *)

LEMMA KeyActionsKeep ==
    ASSUME LogInv, NEW p \in Writer,
           StartWriter(p) \/ LookForKey(p) \/ LoadKey(p) \/ PollKey(p)
    PROVE  LogInv'
  <1>1. ASSUME StartWriter(p) PROVE LogInv'
    <2> DEFINE at == IF protocol = "ledger" THEN "look" ELSE "create"
    <2>1. WriterGoes(p, at) /\ Still /\ holder' = holder /\ ~InRow(writer[p].pc)
      BY <1>1 DEF StartWriter, Still, WriterAt, InRow
    <2>. QED
      BY <2>1, GoesKeeps DEF Pc, HasKey, HasLock, HasRead
  <1>2. ASSUME LookForKey(p) PROVE LogInv'
    <2>1. Still /\ ~InRow(writer[p].pc)
      BY <1>2 DEF LookForKey, Still, WriterAt, InRow
    <2>2. CASE keyFile = Missing
      <3>1. WriterGoes(p, "create") /\ holder' = holder
        BY <1>2, <2>2 DEF LookForKey
      <3>. QED
        BY <2>1, <3>1, GoesKeeps DEF Pc, HasKey, HasLock, HasRead
    <2>3. CASE keyFile # Missing
      BY <1>2, <2>1, <2>3, TakeKeyKeeps DEF LookForKey
    <2>. QED
      BY <2>2, <2>3
  <1>3. ASSUME LoadKey(p) PROVE LogInv'
    BY <1>3, TakeKeyKeeps DEF LoadKey, Still, WriterAt, InRow
  <1>4. ASSUME PollKey(p) PROVE LogInv'
    <2>1. Still /\ writer[p].pc = "poll"
      BY <1>4 DEF PollKey, Still, WriterAt
    <2>2. CASE keyFile = 0 /\ writer[p].polls < MaxPolls
      <3> DEFINE w == [writer[p] EXCEPT !.polls = @ + 1]
      <3>1. writer[p] \in WriterType /\ writer' = [writer EXCEPT ![p] = w] /\ holder' = holder
        BY <1>4, <2>2 DEF LogInv, Typed, PollKey
      <3>2. w \in WriterType /\ w.pc = "poll" /\ w.key = writer[p].key
        BY <2>1, <3>1 DEF WriterType
      <3>3. Fits(p, w)
        BY <3>2 DEF Fits, LogInv, OneKey, HasKey, HasLock, HasRead
      <3>. QED
        BY <2>1, <3>1, <3>3, StillMoves DEF InRow
    <2>3. CASE ~(keyFile = 0 /\ writer[p].polls < MaxPolls)
      BY <1>4, <2>1, <2>3, TakeKeyKeeps DEF PollKey, InRow
    <2>. QED
      BY <2>2, <2>3
  <1>. QED
    BY <1>1, <1>2, <1>3, <1>4

(* The rows of the other processes fit as before when the log stays. *)
LEMMA RowsStay ==
    ASSUME LogInv, UNCHANGED log,
           \A q \in Writer : writer'[q].pc \in {"begin", "rest", "newline", "sync"} => writer'[q] = writer[q]
    PROVE  RowFits'
  <1>1. RowFits
    BY DEF LogInv
  <1>2. ASSUME NEW q \in Writer
        PROVE  /\ writer'[q].pc \in {"begin", "rest"} =>
                      /\ writer'[q].row \in Row
                      /\ writer'[q].row = NextRow(log', writer'[q].row.text)
               /\ writer'[q].pc \in {"newline", "sync"} => InLog(log', writer'[q].row.text)
    <2>1. log' = log
      OBVIOUS
    <2>2. CASE writer'[q].pc \in {"begin", "rest", "newline", "sync"}
      <3>1. writer'[q] = writer[q]
        BY <2>2
      <3>. QED
        BY ONLY <1>1, <2>1, <3>1 DEF RowFits
    <2>3. CASE writer'[q].pc \notin {"begin", "rest", "newline", "sync"}
      BY ONLY <2>3
    <2>. QED
      BY ONLY <2>2, <2>3
  <1>. QED
    BY ONLY <1>2 DEF RowFits

(* O_EXCL lets one process create the file, and only that one writes it. *)
LEMMA CreateKeyFileKeeps == ASSUME LogInv, NEW p \in Writer, CreateKeyFile(p) PROVE LogInv'
  <1>1. writer[p].pc = "create" /\ writer[p] \in WriterType
    BY DEF CreateKeyFile, WriterAt, LogInv, Typed
  <1>2. CASE keyFile = Missing
    <2> DEFINE w == [writer[p] EXCEPT !.pc = "write"]
    <2>1. keyFile' = 0 /\ writer' = [writer EXCEPT ![p] = w]
      BY <1>2 DEF CreateKeyFile, WriterGoes
    <2>2. UNCHANGED <<keys, log, lastLine, holder, texts, appended, faults>>
      BY DEF CreateKeyFile
    <2>3. w \in WriterType /\ w.pc = "write" /\ w.key = writer[p].key
      BY <1>1 DEF WriterType, Pc
    <2>4. \A q \in Writer : writer'[q] = IF q = p THEN w ELSE writer[q]
      BY <2>1 DEF LogInv, Typed
    <2>5. \A q \in Writer : writer[q].key = Missing /\ writer[q].pc # "write"
      BY <1>2 DEF LogInv, Typed, OneKey, WriterType
    <2>6. Typed'
      BY <1>2, <2>1, <2>2, <2>3 DEF LogInv, Typed
    <2>7. OneKey'
      BY <2>1, <2>3, <2>4, <2>5 DEF OneKey
    <2>8. Held'
      BY <2>2, <2>3, <2>4 DEF LogInv, Held, HasKey, HasLock, HasRead, Verifies, TextBefore
    <2>9. Chained'
      BY <1>2, <2>2 DEF LogInv, Chained, IsLegacy
    <2>10. RowFits'
      <3>1. \A q \in Writer : writer'[q].pc \in {"begin", "rest", "newline", "sync"} => writer'[q] = writer[q]
        BY ONLY <2>3, <2>4
      <3>. QED
        BY ONLY LogInv, <2>2, <3>1, RowsStay
    <2>11. AllLogged'
      BY <2>2 DEF LogInv, AllLogged, InLog
    <2>12. TornByFault'
      <3>1. \A q \in Writer : InRow(writer[q].pc) => writer'[q] = writer[q]
        BY <1>1, <2>4 DEF InRow
      <3>2. UNCHANGED <<lastLine, faults>> /\ TornByFault
        BY <2>2 DEF LogInv
      <3>. QED
        BY ONLY <3>1, <3>2 DEF TornByFault
    <2>. QED
      BY <2>6, <2>7, <2>8, <2>9, <2>10, <2>11, <2>12 DEF LogInv
  <1>3. CASE keyFile # Missing
    <2> DEFINE at == IF protocol = "poll" THEN "poll" ELSE "load"
    <2>1. WriterGoes(p, at) /\ Still /\ holder' = holder
      BY <1>3 DEF CreateKeyFile, Still
    <2>. QED
      BY <1>1, <2>1, GoesKeeps DEF Pc, HasKey, HasLock, HasRead, InRow
  <1>. QED
    BY <1>2, <1>3

LEMMA WriteKeyKeeps == ASSUME LogInv, NEW p \in Writer, WriteKey(p) PROVE LogInv'
  <1> DEFINE w == [Off EXCEPT !.pc = "migrate", !.key = 1]
  <1>1. writer[p].pc = "write" /\ keyFile = 0 /\ keys = 0
    BY DEF WriteKey, WriterAt, LogInv, Typed, OneKey
  <1>2. keyFile' = 1 /\ keys' = 1 /\ writer' = [writer EXCEPT ![p] = w]
    <2>1. keys + 1 = 1
      BY <1>1
    <2>. QED
      BY <1>1, <2>1 DEF WriteKey, HoldsKey
  <1>3. UNCHANGED <<log, lastLine, holder, texts, appended, faults>>
    BY DEF WriteKey
  <1>4. w \in WriterType /\ w.pc = "migrate" /\ w.key = 1
    BY DEF Off, WriterType, Pc
  <1>5. \A q \in Writer : writer'[q] = IF q = p THEN w ELSE writer[q]
    BY <1>2 DEF LogInv, Typed
  <1> HIDE DEF w
  <1>6. Typed'
    BY <1>2, <1>3, <1>4 DEF LogInv, Typed
  <1>7. OneKey'
    BY <1>1, <1>2, <1>4, <1>5 DEF LogInv, OneKey
  <1>8. Held'
    BY <1>3, <1>4, <1>5 DEF LogInv, Held, HasKey, HasLock, HasRead, Verifies, TextBefore
  <1>9. Chained'
    BY <1>1, <1>3 DEF LogInv, Chained, IsLegacy
  <1>10. RowFits'
    <2>1. \A q \in Writer : writer'[q].pc \in {"begin", "rest", "newline", "sync"} => writer'[q] = writer[q]
      BY ONLY <1>4, <1>5
    <2>. QED
      BY ONLY LogInv, <1>3, <2>1, RowsStay
  <1>11. AllLogged'
    BY <1>3 DEF LogInv, AllLogged, InLog
  <1>12. TornByFault'
    <2>1. \A q \in Writer : InRow(writer[q].pc) => writer'[q] = writer[q]
      BY <1>1, <1>5 DEF InRow
    <2>2. UNCHANGED <<lastLine, faults>> /\ TornByFault
      BY <1>3 DEF LogInv
    <2>. QED
      BY ONLY <2>1, <2>2 DEF TornByFault
  <1>. QED
    BY <1>6, <1>7, <1>8, <1>9, <1>10, <1>11, <1>12 DEF LogInv

----------------------------------------------------------------------------
(* The log *)

LEMMA LocksKeep ==
    ASSUME LogInv, NEW p \in Writer, LockToMigrate(p) \/ LockToAppend(p) PROVE LogInv'
  <1>1. \A q \in Writer : q # p /\ holder = q => holder' = q
    BY DEF LockToMigrate, LockToAppend, Lock
  <1>2. ASSUME LockToMigrate(p) PROVE LogInv'
    <2>1. WriterGoes(p, "migrating") /\ Still /\ holder' = p /\ writer[p].pc = "migrate"
      BY <1>2 DEF LockToMigrate, Lock, Still, WriterAt
    <2>2. writer[p].key = 1
      BY <2>1 DEF LogInv, Held, HasKey
    <2>. QED
      BY <1>1, <2>1, <2>2, GoesKeeps DEF Pc, HasRead, InRow
  <1>3. ASSUME LockToAppend(p) PROVE LogInv'
    <2>1. WriterGoes(p, "append") /\ Still /\ holder' = p /\ writer[p].pc = "ready"
      BY <1>3 DEF LockToAppend, Lock, Still, WriterAt
    <2>2. writer[p].key = 1 /\ Verifies(log, 1)
      BY <2>1 DEF LogInv, Held, HasKey, HasRead
    <2>. QED
      BY <1>1, <2>1, <2>2, GoesKeeps DEF Pc, InRow
  <1>. QED
    BY <1>2, <1>3

LEMMA MigrateLegacyKeeps == ASSUME LogInv, NEW p \in Writer, MigrateLegacy(p) PROVE LogInv'
  <1> DEFINE old == log # <<>> /\ log[1].key = Missing
             key == writer[p].key
  <1>1. writer[p].pc = "migrating" /\ key = 1 /\ holder = p /\ keyFile = 1
    BY DEF MigrateLegacy, WriterAt, LogInv, Typed, OneKey, Held, HasKey, HasLock, WriterType
  <1>2. UNCHANGED <<keyFile, keys, texts, appended, faults>>
    BY DEF MigrateLegacy
  <1>3. faults' \in Nat /\ faults' = faults
    BY <1>2 DEF LogInv, Typed
  <1>4. CASE ~Readable \/ (~old /\ ~Verifies(log, 1))
    <2>1. Raise(p) /\ UNCHANGED <<log, lastLine>>
      BY <1>1, <1>4 DEF MigrateLegacy
    <2>. QED
      BY <1>1, <1>2, <1>3, <2>1, RaiseMoves DEF InRow
  <1>5. CASE ~(~Readable \/ (~old /\ ~Verifies(log, 1)))
    <2>1. /\ WriterGoes(p, "ready") /\ holder' = Missing
          /\ log' = IF old THEN Signed(log, 1) ELSE log
          /\ lastLine' = IF old THEN "ended" ELSE lastLine
      BY <1>1, <1>5 DEF MigrateLegacy, Unlock
    <2>2. \A q \in Writer : q # p => ~HasLock(writer[q].pc)
      BY <1>1 DEF LogInv, Held
    <2>3. CASE ~old
      <3>1. log' = log /\ Verifies(log, 1) /\ Still
        BY <1>2, <1>5, <2>1, <2>3 DEF Still
      <3>. QED
        BY <1>1, <2>1, <3>1, GoesKeeps DEF Pc, HasLock, InRow
    <2>4. CASE old
      <3> DEFINE w == [writer[p] EXCEPT !.pc = "ready"]
      <3>1. log' = Signed(log, 1) /\ log \in Seq(Row) /\ writer' = [writer EXCEPT ![p] = w]
        BY <2>1, <2>4 DEF LogInv, Typed, WriterGoes
      <3>2. /\ log' \in Seq(Row) /\ Verifies(log', 1)
            /\ \A text : InLog(log, text) => InLog(log', text)
        BY <3>1, SignedVerifies
      <3>3. w \in WriterType /\ w.pc = "ready" /\ w.key = 1
        BY <1>1 DEF LogInv, Typed, WriterType, Pc
      <3> HIDE DEF w
      <3>4. \A q \in Writer : writer'[q] = IF q = p THEN w ELSE writer[q]
        BY <3>1 DEF LogInv, Typed
      <3>5. Typed'
        <4>1. writer' \in [Writer -> WriterType]
          BY <3>1, <3>3 DEF LogInv, Typed
        <4>2. log' \in Seq(Row)
          BY <3>2
        <4>3. lastLine' \in LastLines
          BY <2>1, <2>4 DEF LastLines
        <4>. QED
          BY <1>2, <4>1, <4>2, <4>3 DEF LogInv, Typed
      <3>6. OneKey'
        BY <1>1, <1>2, <3>3, <3>4 DEF LogInv, OneKey
      <3>7. Held'
        <4> SUFFICES ASSUME NEW q \in Writer
                     PROVE  /\ HasKey(writer'[q].pc) => writer'[q].key = 1
                            /\ HasLock(writer'[q].pc) => holder' = q
                            /\ HasRead(writer'[q].pc) => Verifies(log', 1)
          BY DEF Held, Verifies, TextBefore
        <4>. QED
          BY <2>2, <3>2, <3>3, <3>4 DEF LogInv, Held, HasKey, HasLock
      <3>8. Chained'
        BY <1>1, <1>2, <3>2 DEF Chained, Verifies, TextBefore
      <3>9. RowFits'
        BY <2>2, <3>3, <3>4 DEF RowFits, HasLock
      <3>10. AllLogged'
        BY <1>2, <3>2 DEF LogInv, AllLogged, InLog
      <3>11. TornByFault'
        BY <2>1, <2>4 DEF TornByFault
      <3>. QED
        BY <3>5, <3>6, <3>7, <3>8, <3>9, <3>10, <3>11 DEF LogInv
    <2>. QED
      BY <2>3, <2>4
  <1>. QED
    BY <1>4, <1>5

LEMMA ReadLastKeeps == ASSUME LogInv, NEW p \in Writer, ReadLast(p) PROVE LogInv'
  <1> DEFINE key == writer[p].key
             n == Len(log)
             bad == ~Readable \/ (n > 0 /\ ~Authentic(log[n], key))
             w == [writer[p] EXCEPT !.pc = "begin", !.row = NextRow(log, texts + 1)]
  <1>1. /\ writer[p].pc = "append" /\ key = 1 /\ holder = p /\ Verifies(log, 1)
        /\ keyFile = 1 /\ writer[p] \in WriterType
    BY DEF ReadLast, WriterAt, LogInv, Typed, OneKey, Held, HasKey, HasLock, HasRead, WriterType
  <1>2. UNCHANGED <<keyFile, keys, log, lastLine, appended, faults>>
    BY DEF ReadLast
  <1>3. faults' \in Nat /\ faults' = faults /\ texts \in Nat /\ log \in Seq(Row) /\ n \in Nat
    BY <1>2 DEF LogInv, Typed
  <1>4. CASE bad
    <2>1. Raise(p) /\ UNCHANGED texts
      BY <1>4 DEF ReadLast
    <2>. QED
      BY <1>1, <1>2, <1>3, <2>1, RaiseMoves DEF InRow
  <1>5. CASE ~bad
    <2> DEFINE row == IF n = 0 THEN Envelope(1, 0, 0, texts + 1)
                      ELSE Envelope(1, log[n].sequence + 1, log[n].text, texts + 1)
    <2>1. /\ texts' = texts + 1 /\ UNCHANGED holder
          /\ writer' = [writer EXCEPT ![p].pc = "begin", ![p].row = row]
      BY <1>1, <1>5 DEF ReadLast
    <2>2. row = NextRow(log, texts + 1) /\ row \in Row /\ row.text = texts + 1
      BY <1>1, <1>3, LastGivesNext
    <2>3. writer' = [writer EXCEPT ![p] = w]
      BY <2>1, <2>2 DEF LogInv, Typed
    <2>4. w \in WriterType /\ w.pc = "begin" /\ w.key = 1 /\ w.row = NextRow(log, texts + 1)
      BY <1>1, <2>2 DEF WriterType, Pc
    <2>5. Fits(p, w)
      BY <1>1, <2>1, <2>2, <2>4 DEF Fits
    <2>6. texts' \in Nat /\ \A text \in appended' : InLog(log, text)
      BY <1>2, <1>3, <2>1 DEF LogInv, AllLogged
    <2>. QED
      BY <1>1, <1>2, <1>3, <2>1, <2>3, <2>5, <2>6, Moves DEF InRow
  <1>. QED
    BY <1>4, <1>5

LEMMA BeginRowKeeps == ASSUME LogInv, NEW p \in Writer, BeginRow(p) PROVE LogInv'
  <1> DEFINE w == [writer[p] EXCEPT !.pc = "rest"]
  <1>1. /\ writer[p].pc = "begin" /\ writer[p].key = 1 /\ holder = p /\ Verifies(log, 1)
        /\ writer[p] \in WriterType /\ writer[p].row \in Row
        /\ writer[p].row = NextRow(log, writer[p].row.text)
    BY DEF BeginRow, WriterAt, LogInv, Typed, Held, HasKey, HasLock, HasRead, RowFits
  <1>2. /\ lastLine' = IF lastLine = "ended" THEN "torn" ELSE "glued"
        /\ UNCHANGED <<keyFile, keys, log, holder, texts, appended, faults>>
    BY DEF BeginRow
  <1>3. writer' = [writer EXCEPT ![p] = w]
    BY DEF BeginRow, WriterGoes, LogInv, Typed
  <1>4. /\ w \in WriterType /\ w.pc = "rest" /\ w.key = writer[p].key
        /\ w.row = writer[p].row
    BY <1>1 DEF WriterType, Pc
  <1> HIDE DEF w
  <1>5. \A q \in Writer : writer'[q] = IF q = p THEN w ELSE writer[q]
    BY <1>3 DEF LogInv, Typed
  <1>6. Typed'
    BY <1>2, <1>3, <1>4 DEF LogInv, Typed, LastLines
  <1>7. OneKey'
    BY <1>2, <1>4, <1>5 DEF LogInv, OneKey
  <1>8. Held'
    BY <1>1, <1>2, <1>4, <1>5 DEF LogInv, Held, HasKey, HasLock, HasRead, Verifies, TextBefore
  <1>9. Chained'
    BY <1>2 DEF LogInv, Chained, IsLegacy, Verifies, TextBefore
  <1>10. RowFits'
    BY <1>1, <1>2, <1>4, <1>5 DEF LogInv, RowFits, NextRow, TextBefore, InLog
  <1>11. AllLogged'
    BY <1>2 DEF LogInv, AllLogged, InLog
  <1>12. TornByFault'
    <2>1. \A q \in Writer : ~InRow(writer[q].pc)
      BY <1>1 DEF LogInv, Held, HasLock, InRow
    <2>2. lastLine # "ended" => faults > 0
      BY <2>1 DEF LogInv, TornByFault
    <2>3. InRow(writer'[p].pc)
      BY <1>4, <1>5 DEF InRow
    <2>. QED
      BY <1>2, <2>2, <2>3 DEF TornByFault
  <1>. QED
    BY <1>6, <1>7, <1>8, <1>9, <1>10, <1>11, <1>12 DEF LogInv

LEMMA FinishRowKeeps == ASSUME LogInv, NEW p \in Writer, FinishRow(p) PROVE LogInv'
  <1> DEFINE w == [writer[p] EXCEPT !.pc = "newline"]
             row == writer[p].row
  <1>1. /\ writer[p].pc = "rest" /\ writer[p].key = 1 /\ holder = p /\ Verifies(log, 1)
        /\ keyFile = 1 /\ writer[p] \in WriterType /\ row \in Row
        /\ row = NextRow(log, row.text) /\ log \in Seq(Row)
    BY DEF FinishRow, WriterAt, LogInv, Typed, OneKey, Held, HasKey, HasLock, HasRead, RowFits
  <1>2. /\ lastLine' = IF lastLine = "glued" THEN "glued" ELSE "unended"
        /\ UNCHANGED <<keyFile, keys, holder, texts, appended, faults>>
    BY DEF FinishRow
  <1>3. writer' = [writer EXCEPT ![p] = w] /\ log' = Append(log, row)
    BY DEF FinishRow, WriterGoes, LogInv, Typed
  <1>4. /\ log' \in Seq(Row) /\ Verifies(log', 1) /\ InLog(log', row.text)
        /\ \A text : InLog(log, text) => InLog(log', text)
    BY <1>1, <1>3, AppendVerifies
  <1>5. w \in WriterType /\ w.pc = "newline" /\ w.key = 1 /\ w.row = row
    BY <1>1 DEF WriterType, Pc
  <1>6. \A q \in Writer : q # p => ~HasLock(writer[q].pc)
    BY <1>1 DEF LogInv, Held
  <1> HIDE DEF w
  <1>7. \A q \in Writer : writer'[q] = IF q = p THEN w ELSE writer[q]
    BY <1>3 DEF LogInv, Typed
  <1>8. Typed'
    <2>1. writer' \in [Writer -> WriterType]
      BY <1>3, <1>5 DEF LogInv, Typed
    <2>2. log' \in Seq(Row)
      BY <1>4
    <2>. QED
      BY <1>2, <2>1, <2>2 DEF LogInv, Typed, LastLines
  <1>9. OneKey'
    BY <1>1, <1>2, <1>5, <1>7 DEF LogInv, OneKey
  <1>10. Held'
    <2> SUFFICES ASSUME NEW q \in Writer
                 PROVE  /\ HasKey(writer'[q].pc) => writer'[q].key = 1
                        /\ HasLock(writer'[q].pc) => holder' = q
                        /\ HasRead(writer'[q].pc) => Verifies(log', 1)
      BY DEF Held, Verifies, TextBefore
    <2>. QED
      BY <1>1, <1>2, <1>4, <1>5, <1>6, <1>7 DEF LogInv, Held, HasKey, HasLock
  <1>11. Chained'
    BY <1>1, <1>2, <1>4 DEF Chained, Verifies, TextBefore
  <1>12. RowFits'
    BY <1>4, <1>5, <1>6, <1>7 DEF RowFits, HasLock, InLog
  <1>13. AllLogged'
    BY <1>2, <1>4 DEF LogInv, AllLogged, InLog
  <1>14. TornByFault'
    <2>1. InRow(writer'[p].pc)
      BY <1>5, <1>7 DEF InRow
    <2>. QED
      BY <1>2, <2>1 DEF LogInv, TornByFault
  <1>. QED
    BY <1>8, <1>9, <1>10, <1>11, <1>12, <1>13, <1>14 DEF LogInv

(* The newline makes the row a line of its own, unless it was begun on another's. *)
LEMMA EndLineKeeps == ASSUME LogInv, NEW p \in Writer, EndLine(p) PROVE LogInv'
  <1> DEFINE w == [writer[p] EXCEPT !.pc = "sync"]
  <1>1. /\ writer[p].pc = "newline" /\ writer[p].key = 1 /\ holder = p /\ Verifies(log, 1)
        /\ writer[p] \in WriterType /\ InLog(log, writer[p].row.text)
    BY DEF EndLine, WriterAt, LogInv, Typed, Held, HasKey, HasLock, HasRead, RowFits
  <1>2. /\ lastLine' = IF lastLine = "glued" THEN "glued" ELSE "ended"
        /\ UNCHANGED <<keyFile, keys, log, holder, texts, appended, faults>>
    BY DEF EndLine
  <1>3. writer' = [writer EXCEPT ![p] = w]
    BY DEF EndLine, WriterGoes, LogInv, Typed
  <1>4. /\ w \in WriterType /\ w.pc = "sync" /\ w.key = writer[p].key
        /\ w.row = writer[p].row
    BY <1>1 DEF WriterType, Pc
  <1> HIDE DEF w
  <1>5. \A q \in Writer : writer'[q] = IF q = p THEN w ELSE writer[q]
    BY <1>3 DEF LogInv, Typed
  <1>6. Typed'
    BY <1>2, <1>3, <1>4 DEF LogInv, Typed, LastLines
  <1>7. OneKey'
    BY <1>2, <1>4, <1>5 DEF LogInv, OneKey
  <1>8. Held'
    BY <1>1, <1>2, <1>4, <1>5 DEF LogInv, Held, HasKey, HasLock, HasRead, Verifies, TextBefore
  <1>9. Chained'
    BY <1>2 DEF LogInv, Chained, IsLegacy, Verifies, TextBefore
  <1>10. RowFits'
    BY <1>1, <1>2, <1>4, <1>5 DEF LogInv, RowFits, NextRow, TextBefore, InLog
  <1>11. AllLogged'
    BY <1>2 DEF LogInv, AllLogged, InLog
  <1>12. TornByFault'
    BY <1>2 DEF LogInv, TornByFault
  <1>. QED
    BY <1>6, <1>7, <1>8, <1>9, <1>10, <1>11, <1>12 DEF LogInv

LEMMA AppendReturnsKeeps == ASSUME LogInv, NEW p \in Writer, AppendReturns(p) PROVE LogInv'
  <1> DEFINE w == [writer[p] EXCEPT !.pc = "ready", !.row = Missing]
  <1>1. /\ writer[p].pc = "sync" /\ writer[p].key = 1 /\ holder = p /\ Verifies(log, 1)
        /\ keyFile = 1 /\ writer[p] \in WriterType /\ InLog(log, writer[p].row.text)
    BY DEF AppendReturns, WriterAt, LogInv, Typed, OneKey, Held, HasKey, HasLock, HasRead, RowFits
  <1>2. /\ UNCHANGED <<keyFile, keys, log, lastLine, texts, faults>> /\ holder' = Missing
        /\ appended' = appended \cup {writer[p].row.text}
    BY <1>1 DEF AppendReturns, Unlock
  <1>3. writer' = [writer EXCEPT ![p] = w]
    BY DEF AppendReturns, LogInv, Typed
  <1>4. w \in WriterType /\ w.pc = "ready" /\ w.key = 1
    BY <1>1 DEF WriterType, Pc
  <1>5. Fits(p, w)
    BY <1>1, <1>4 DEF Fits, HasLock
  <1>6. \A text \in appended' : InLog(log, text)
    BY <1>1, <1>2 DEF LogInv, AllLogged
  <1>7. texts' \in Nat /\ faults' \in Nat /\ faults' = faults
    BY <1>2 DEF LogInv, Typed
  <1>8. \A q \in Writer : q # p /\ holder = q => holder' = q
    BY <1>1
  <1>. QED
    BY <1>1, <1>2, <1>3, <1>5, <1>6, <1>7, <1>8, Moves DEF InRow

LEMMA EndsKeep == ASSUME LogInv, NEW p \in Writer, Fault(p) \/ ExitWriter(p) PROVE LogInv'
  <1>1. faults \in Nat
    BY DEF LogInv, Typed
  <1>2. CASE Fault(p)
    BY <1>1, <1>2, RaiseMoves DEF Fault
  <1>3. CASE ExitWriter(p)
    BY <1>1, <1>3, RaiseMoves DEF ExitWriter, WriterAt, InRow
  <1>. QED
    BY <1>2, <1>3

----------------------------------------------------------------------------
(* The theorem *)

LEMMA InitLogInv == ASSUME InitLog PROVE LogInv
  <1>1. writer \in [Writer -> WriterType] /\ \A p \in Writer : writer[p] = Off
    BY DEF InitLog, Off, WriterType, Pc
  <1>2. log \in Seq(Row) /\ IsLegacy(log)
    <2>1. CASE log = <<>>
      BY <2>1 DEF IsLegacy
    <2>2. CASE log = <<Legacy(1)>>
      <3>1. Legacy(1) \in Row
        BY DEF Legacy, Envelope, Row
      <3>. QED
        BY <2>2, <3>1 DEF IsLegacy
    <2>. QED
      BY <2>1, <2>2 DEF InitLog
  <1>3. Typed
    <2>1. Len(log) \in Nat
      BY <1>2
    <2>2. keyFile = Missing /\ keys = 0 /\ texts = Len(log) /\ lastLine = "ended" /\ faults = 0
      BY DEF InitLog
    <2>3. lastLine \in LastLines
      BY <2>2 DEF LastLines
    <2>4. keyFile \in {Missing, 0, 1} /\ keys \in {0, 1} /\ (keys = 1 <=> keyFile = 1)
      BY <2>2
    <2>5. texts \in Nat /\ faults \in Nat
      BY <2>1, <2>2
    <2>. QED
      BY <1>1, <1>2, <2>3, <2>4, <2>5 DEF Typed
  <1>4. OneKey /\ Held /\ RowFits
    BY <1>1 DEF Off, OneKey, Held, RowFits, HasKey, HasLock, HasRead
  <1>5. Chained /\ AllLogged /\ TornByFault
    BY <1>2 DEF InitLog, Chained, AllLogged, InLog, TornByFault
  <1>. QED
    BY <1>3, <1>4, <1>5 DEF LogInv

LEMMA StutterKeeps == ASSUME LogInv, UNCHANGED logVars PROVE LogInv'
  BY DEF logVars, LogInv, Typed, OneKey, Held, Chained, RowFits, AllLogged, TornByFault,
         Verifies, TextBefore, IsLegacy, InLog, NextRow

LEMMA LogInvGives == ASSUME LogInv PROVE RowsAreKept
  <1>1. \A p \in Writer : writer[p].key # Missing => writer[p].key = keyFile
    BY DEF LogInv, Typed, OneKey, WriterType
  <1>2. appended \subseteq {log[i].text : i \in 1 .. Len(log)}
    BY DEF LogInv, AllLogged, InLog
  <1>3. Verifies(log, keyFile) \/ (\A i \in 1 .. Len(log) : log[i] = Legacy(i))
    BY DEF LogInv, Chained, IsLegacy
  <1>4. /\ lastLine # "ended" => faults > 0 \/ \E p \in Writer : Writing(p)
        /\ lastLine = "glued" => faults > 0
    BY DEF LogInv, TornByFault, InRow, Writing, WriterAt
  <1>. QED
    BY <1>1, <1>2, <1>3, <1>4 DEF RowsAreKept

(* However many processes start, append, fail and are killed at any step, they *)
(* sign with one key, no row whose append has returned is lost, the rows are   *)
(* chained under that key, and a line that is not one row was cut by a fault   *)
(* or is being written (AuthenticatedConversationLedger).  That the next       *)
(* append and read can go on from there is not so: see AppendLeavesReadable.   *)
THEOREM RowsAreAlwaysKept == LogSpec => []RowsAreKept
  <1>1. InitLog => LogInv
    BY InitLogInv
  <1>2. LogInv /\ [NextLog]_logVars => LogInv'
    BY KeyActionsKeep, CreateKeyFileKeeps, WriteKeyKeeps, LocksKeep, MigrateLegacyKeeps,
       ReadLastKeeps, BeginRowKeeps, FinishRowKeeps, EndLineKeeps,
       AppendReturnsKeeps, EndsKeep, StutterKeeps
       DEF NextLog
  <1>3. LogInv => RowsAreKept
    BY LogInvGives
  <1>. QED
    BY <1>1, <1>2, <1>3, PTL DEF LogSpec
=============================================================================
