----------------------------- MODULE GateProofs -----------------------------
(* Lemmas about the verification gate and the batch that runs under it, for *)
(* every content, number of checks and size of a message.  The sessions of  *)
(* AgentRun and ChatSession both rest on them.                              *)
EXTENDS VerificationGate, TLAPS

USE GateAssumption

----------------------------------------------------------------------------
(* What holds of gate and batch in any session *)

Testing == {"before", "run", "after", "tested"}

(* The locals of execute_tool_batch and of the matrix at each point. *)
BatchOK ==
    /\ batch.at \in Testing => batch.left > 0
    /\ batch.at \notin {"idle", "sync"} => batch.seen \in Content
    /\ batch.at \in {"before", "run"} => batch.check < Checks
    /\ batch.at \in Testing /\ batch.ok =>
          /\ batch.base \in Content
          /\ batch.at \in {"after", "tested"} => batch.on # {}

(* While no check has failed, checks have run on the baseline alone, or the one *)
(* outside write was made and the workspace is no longer the baseline.  A second *)
(* outside write can put the baseline back behind the matrix: what rests on the *)
(* matrix is said of behaviours with at most one.                               *)
MatrixOK ==
  writes <= 1 =>
    /\ batch.at \in {"before", "run"} /\ batch.ok => workspace = batch.base \/ writes > 0
    /\ batch.at \in Testing /\ batch.ok =>
          batch.on \subseteq {batch.base} \/ (workspace # batch.base /\ writes > 0)

(* The gate's evidence is tested, and its fields agree. *)
GateOK ==
    /\ writes <= 1 /\ gate.verified # None => gate.verified \in tested
    /\ gate.status = "passed" => gate.verified = gate.current
    /\ gate.has_changes = (gate.current # gate.baseline)

(* A submission was accepted for the content the gate knows, which the *)
(* workspace still is unless something else wrote to it.               *)
AcceptedOK ==
    batch.accepted =>
        /\ batch.at = "done"
        /\ MaySubmit(gate, gate.current)
        /\ gate.current = workspace \/ writes > 0

GateInv == GateTypeOK /\ BatchOK /\ MatrixOK /\ GateOK /\ AcceptedOK

(* A failed run of the tests is not forgotten: what is left is no evidence, *)
(* and a submission needs evidence.                                         *)
Unforgiven(g) == g.status = "failed" \/ (g.require_verification /\ g.verified = None)

----------------------------------------------------------------------------
(* The gate's operations *)

(* verification.py, Sync keeps the gate a gate, and its fields in agreement. *)
LEMMA SyncGate ==
    ASSUME NEW g \in Gate, NEW c \in Content
    PROVE  /\ Sync(g, c) \in Gate
           /\ Sync(g, c).verified = g.verified /\ Sync(g, c).current = c
           /\ Sync(g, c).baseline = g.baseline
           /\ Sync(g, c).require_verification = g.require_verification
           /\ Sync(g, c).has_changes = (c # g.baseline)
           /\ Sync(g, c).status = "passed" => g.status # "failed" /\ g.verified = c
           /\ g.status = "failed" <=> Sync(g, c).status = "failed"
  BY DEF Sync, Gate

(* record_test: evidence is for the content that was tested, or there is none. *)
LEMMA RecordGate ==
    ASSUME NEW g \in Gate, NEW c \in Content, NEW passed \in BOOLEAN
    PROVE  /\ RecordTest(g, passed, c) \in Gate
           /\ RecordTest(g, passed, c).verified = IF passed THEN c ELSE None
           /\ RecordTest(g, passed, c).status = IF passed THEN "passed" ELSE "failed"
           /\ RecordTest(g, passed, c).current = c
           /\ RecordTest(g, passed, c).baseline = g.baseline
           /\ RecordTest(g, passed, c).require_verification = g.require_verification
           /\ RecordTest(g, passed, c).has_changes = (c # g.baseline)
  BY DEF RecordTest, Gate

(* Without a fingerprint there is no evidence and no submission. *)
LEMMA LostGate ==
    ASSUME NEW g \in Gate
    PROVE  /\ Lost(g) \in Gate
           /\ Lost(g).verified = None /\ Lost(g).status = "failed"
           /\ Lost(g).current = g.current /\ Lost(g).baseline = g.baseline
           /\ Lost(g).require_verification = g.require_verification
           /\ Lost(g).has_changes = g.has_changes
  BY DEF Lost, Gate

(* execute_tool_batch: a tool that succeeded makes verification required. *)
LEMMA RequireGate ==
    ASSUME NEW g \in Gate, NEW b \in BOOLEAN
    PROVE  LET h == [g EXCEPT !.require_verification = @ \/ b]
           IN  /\ h \in Gate
               /\ h.verified = g.verified /\ h.status = g.status
               /\ h.current = g.current /\ h.baseline = g.baseline
               /\ h.has_changes = g.has_changes
               /\ h.require_verification = (g.require_verification \/ b)
  BY DEF Gate

----------------------------------------------------------------------------
(* The steps of the batch.  Each keeps GateInv and two facts that a session *)
(* adds: evidence is of the latest run of the tests, failures are kept.     *)

PassIsLast == gate.verified # None => last = "pass"
FailureKept == last = "fail" => Unforgiven(gate)

(* What a step of the batch keeps, and what it leaves to the session. *)
Kept ==
    /\ GateInv'
    /\ PassIsLast => PassIsLast'
    /\ FailureKept => FailureKept'
    /\ gate.require_verification => gate'.require_verification
    /\ tested \subseteq tested'
    /\ writes' = writes

USE DEF Testing

(* BatchSync: the first look at the workspace. *)
LEMMA BatchSyncKeeps == ASSUME GateInv, BatchSync PROVE Kept
  <1> USE DEF GateInv, GateTypeOK
  <1>1. batch.at = "sync" /\ gate \in Gate /\ workspace \in Content /\ batch \in Batch
        /\ ~batch.accepted
    BY DEF BatchSync, At, AcceptedOK, Batch
  <1>2. CASE /\ gate' = Sync(gate, workspace) /\ UNCHANGED last
             /\ batch' = [batch EXCEPT !.at = "next", !.seen = workspace]
    <2>1. batch' \in Batch /\ batch'.at = "next" /\ batch'.seen = workspace /\ ~batch'.accepted
      BY <1>1, <1>2 DEF Batch, BatchPoints
    <2>. QED
      BY <1>1, <1>2, <2>1, SyncGate
         DEF BatchSync, Kept, BatchOK, MatrixOK, GateOK, AcceptedOK, PassIsLast, FailureKept, Unforgiven
  <1>3. CASE /\ gate' = Lost(gate) /\ last' = "lost"
             /\ batch' = [batch EXCEPT !.at = "next", !.seen = gate.current, !.left = 0]
    <2>1. gate.current \in Content /\ 0 \in 0 .. MaxBatch /\ "next" \in BatchPoints
      BY <1>1 DEF Gate, BatchPoints
    <2>2. batch' \in Batch
      BY ONLY GateAssumption, <1>1, <1>3, <2>1 DEF Batch
    <2>3. batch'.at = "next" /\ batch'.seen = gate.current /\ ~batch'.accepted
      BY <1>1, <1>3 DEF Batch
    <2>. QED
      BY <1>1, <1>3, <2>1, <2>2, <2>3, LostGate
         DEF BatchSync, Kept, BatchOK, MatrixOK, GateOK, AcceptedOK, PassIsLast, FailureKept, Unforgiven
  <1>. QED
    BY <1>2, <1>3 DEF BatchSync

(* A call that is through, with the fingerprint that was seen last. *)
LEMMA CalledBatch ==
    ASSUME batch \in Batch, batch.left > 0, NEW seen \in Content
    PROVE  /\ Called(seen) \in Batch /\ Called(seen).at = "next"
           /\ Called(seen).seen = seen /\ Called(seen).accepted = batch.accepted
  <1>1. batch.left - 1 \in 0 .. MaxBatch
    BY DEF Batch
  <1>2. Called(seen) \in Batch
    BY <1>1 DEF Called, Batch, BatchPoints
  <1>. QED
    BY <1>2 DEF Called, Batch

(* What GateInv says at the place between two calls. *)
LEMMA AtNext ==
    ASSUME GateInv, At("next") \/ At("tested")
    PROVE  /\ batch \in Batch /\ gate \in Gate /\ workspace \in Content
           /\ batch.seen \in Content /\ ~batch.accepted
  BY DEF GateInv, GateTypeOK, BatchOK, AcceptedOK, At, Batch

(* A call that is through and leaves such a gate keeps what must be kept. *)
LEMMA CallKeeps ==
    ASSUME GateInv, At("next"), batch.left > 0,
           NEW seen \in Content, batch' = Called(seen),
           workspace' \in Content, gate' \in Gate, GateOK', tested' = tested, writes' = writes,
           last' \in {last, "lost"},
           gate'.verified \in {gate.verified, None}, gate'.verified # None => last' = last,
           gate.status = "failed" => gate'.status = "failed",
           gate.require_verification => gate'.require_verification
    PROVE  Kept
  <1>1. batch' \in Batch /\ batch'.at = "next" /\ batch'.seen = seen /\ ~batch'.accepted
    BY AtNext, CalledBatch
  <1>2. GateTypeOK'
    BY <1>1 DEF GateInv, GateTypeOK
  <1>3. BatchOK' /\ MatrixOK' /\ AcceptedOK'
    BY <1>1 DEF BatchOK, MatrixOK, AcceptedOK
  <1>4. (PassIsLast => PassIsLast') /\ (FailureKept => FailureKept')
    BY DEF PassIsLast, FailureKept, Unforgiven
  <1>. QED
    BY <1>2, <1>3, <1>4 DEF Kept, GateInv

(* CallReads: an older fingerprint, no new evidence. *)
LEMMA CallReadsKeeps == ASSUME GateInv, CallReads PROVE Kept
  <1>1. batch.left > 0 /\ At("next")
    BY DEF CallReads
  <1>2. gate' = Sync(gate, batch.seen) /\ batch' = Called(batch.seen)
    BY DEF CallReads
  <1>. QED
    BY <1>1, <1>2, AtNext, CallKeeps, SyncGate DEF CallReads, GateInv, GateTypeOK, GateOK

(* CallMutates: whatever the tool left, evidence is for another content then. *)
LEMMA CallMutatesKeeps ==
    ASSUME GateInv, NEW allowed \in BOOLEAN, CallMutates(allowed) PROVE Kept
  <1>1. batch.left > 0 /\ At("next")
    BY DEF CallMutates
  <1>2. PICK c \in Content, success \in BOOLEAN :
            /\ workspace' = c
            /\ LET g == [gate EXCEPT !.require_verification = @ \/ success]
               IN  \/ gate' = Sync(g, c) /\ batch' = Called(c) /\ UNCHANGED last
                   \/ gate' = Lost(g) /\ batch' = Called(batch.seen) /\ last' = "lost"
    BY DEF CallMutates
  <1> DEFINE g == [gate EXCEPT !.require_verification = @ \/ success]
  <1>3. /\ batch \in Batch /\ gate \in Gate /\ batch.seen \in Content /\ ~batch.accepted
    BY <1>1, AtNext
  <1>4. /\ g \in Gate
        /\ g.verified = gate.verified /\ g.status = gate.status
        /\ g.current = gate.current /\ g.baseline = gate.baseline
        /\ g.has_changes = gate.has_changes
        /\ g.require_verification = (gate.require_verification \/ success)
    BY <1>3, RequireGate
  <1>. HIDE DEF g
  <1>5. CASE gate' = Sync(g, c) /\ batch' = Called(c) /\ UNCHANGED last
    <2>1. gate' \in Gate
      BY <1>3, <1>4, <1>5, SyncGate
    <2>2. /\ gate'.verified = gate.verified /\ gate'.has_changes = (gate'.current # gate'.baseline)
          /\ gate'.status = "passed" => gate'.verified = gate'.current
      BY <1>3, <1>4, <1>5, SyncGate
    <2>3. gate.status = "failed" => gate'.status = "failed"
      BY <1>3, <1>4, <1>5, SyncGate
    <2>4. gate.require_verification => gate'.require_verification
      BY <1>3, <1>4, <1>5, SyncGate
    <2>5. workspace' \in Content /\ UNCHANGED <<tested, last, writes>>
      BY <1>2, <1>5 DEF CallMutates
    <2>6. GateOK'
      BY <2>2, <2>5 DEF GateInv, GateOK
    <2>. QED
      BY <1>1, <1>5, <2>1, <2>2, <2>3, <2>4, <2>5, <2>6, CallKeeps
  <1>6. CASE gate' = Lost(g) /\ batch' = Called(batch.seen) /\ last' = "lost"
    <2>1. gate' \in Gate
      BY <1>3, <1>4, <1>6, LostGate
    <2>2. /\ gate'.verified = None /\ gate'.status = "failed"
          /\ gate'.has_changes = (gate'.current # gate'.baseline)
      BY <1>3, <1>4, <1>6, LostGate DEF GateInv, GateOK
    <2>3. gate.require_verification => gate'.require_verification
      BY <1>3, <1>4, <1>6, LostGate
    <2>4. workspace' \in Content /\ UNCHANGED <<tested, writes>>
      BY <1>2 DEF CallMutates
    <2>5. GateOK'
      BY <2>2, <2>4 DEF GateOK
    <2>. QED
      BY <1>1, <1>3, <1>6, <2>1, <2>2, <2>3, <2>4, <2>5, CallKeeps
  <1>. QED
    BY <1>2, <1>5, <1>6 DEF g

(* A step that moves the batch alone keeps what is said of the gate. *)
LEMMA GateStays ==
    ASSUME GateInv, UNCHANGED <<gate, tested, last, writes>>,
           batch' \in Batch, workspace' \in Content, ~batch'.accepted, BatchOK', MatrixOK'
    PROVE  Kept
  BY DEF GateInv, GateTypeOK, GateOK, AcceptedOK, Kept, PassIsLast, FailureKept, Unforgiven

(* run_tests that starts no check. *)
LEMMA TestRefusedKeeps == ASSUME GateInv, TestRefused PROVE Kept
  <1>1. batch.left > 0 /\ At("next")
    BY DEF TestRefused
  <1>2. /\ batch' \in Batch /\ batch'.at = "tested" /\ ~batch'.ok /\ batch'.seen = batch.seen
        /\ ~batch'.accepted /\ batch'.left = batch.left
    BY <1>1, AtNext DEF TestRefused, Batch, BatchPoints
  <1>. QED
    BY <1>1, <1>2, AtNext, GateStays DEF TestRefused, BatchOK, MatrixOK

(* run_tests on the workspace as it is now. *)
LEMMA TestStartKeeps ==
    ASSUME GateInv, NEW allowed \in BOOLEAN, NEW point \in {"before", "run"},
           TestStart(allowed, point)
    PROVE  Kept
  <1>1. batch.left > 0 /\ At("next")
    BY DEF TestStart
  <1>2. /\ batch'.at = point /\ batch'.ok /\ batch'.seen = batch.seen
        /\ batch'.base = workspace /\ batch'.check = 0 /\ batch'.on = {}
        /\ ~batch'.accepted /\ batch'.left = batch.left
    BY <1>1, AtNext DEF TestStart, Batch
  <1>3. batch' \in Batch
    <2>1. /\ batch \in Batch /\ workspace \in Content \cup {None} /\ point \in BatchPoints
          /\ 0 \in 0 .. Checks /\ {} \in SUBSET Content /\ TRUE \in BOOLEAN
      BY <1>1, AtNext DEF BatchPoints
    <2>2. batch' = [batch EXCEPT !.at = point, !.base = workspace, !.check = 0, !.ok = TRUE, !.on = {}]
      BY DEF TestStart
    <2>. QED
      BY ONLY <2>1, <2>2 DEF Batch
  <1>. QED
    BY <1>1, <1>2, <1>3, AtNext, GateStays DEF TestStart, BatchOK, MatrixOK

(* The comparison before and after a check goes on only with the baseline. *)
LEMMA ComparedKeeps ==
    ASSUME GateInv, NEW point \in {"before", "run", "tested"}, Compared(point),
           batch.at \in {"before", "after"},
           point # "tested" => batch.check < Checks,
           point = "tested" => batch.at = "after"
    PROVE  Kept
  <1>1. batch \in Batch /\ workspace \in Content /\ ~batch.accepted
    BY DEF GateInv, GateTypeOK, AcceptedOK, Batch
  <1>2. CASE workspace = batch.base /\ batch' = [batch EXCEPT !.at = point]
    <2>1. /\ batch' \in Batch /\ batch'.at = point /\ batch'.ok = batch.ok
          /\ batch'.seen = batch.seen /\ batch'.base = batch.base /\ batch'.check = batch.check
          /\ batch'.on = batch.on /\ ~batch'.accepted /\ batch'.left = batch.left
      BY <1>1, <1>2 DEF Batch, BatchPoints
    <2>. QED
      BY <1>1, <1>2, <2>1, GateStays DEF Compared, GateInv, BatchOK, MatrixOK
  <1>3. CASE batch' = [batch EXCEPT !.at = "tested", !.ok = FALSE]
    <2>1. /\ batch' \in Batch /\ batch'.at = "tested" /\ ~batch'.ok
          /\ batch'.seen = batch.seen /\ ~batch'.accepted /\ batch'.left = batch.left
      BY <1>1, <1>3 DEF Batch, BatchPoints
    <2>. QED
      BY <1>1, <1>3, <2>1, GateStays DEF Compared, GateInv, BatchOK, MatrixOK
  <1>. QED
    BY <1>2, <1>3 DEF Compared

(* A check runs on what is there; with no write from outside, the baseline. *)
LEMMA CheckRunKeeps == ASSUME GateInv, CheckRun PROVE Kept
  <1>1. /\ batch.at = "run" /\ batch \in Batch /\ workspace \in Content /\ ~batch.accepted
        /\ batch.check < Checks /\ batch.left > 0 /\ batch.seen \in Content
    BY DEF CheckRun, At, GateInv, GateTypeOK, BatchOK, AcceptedOK, Batch
  <1>2. PICK passed \in BOOLEAN, point \in {"after", "tested"} :
            batch' = [batch EXCEPT !.at = point, !.check = @ + 1,
                                   !.ok = @ /\ passed /\ point = "after",
                                   !.on = @ \cup {workspace}]
    BY DEF CheckRun
  <1> DEFINE ok == batch.ok /\ passed /\ point = "after"
  <1>3. /\ batch' \in Batch /\ batch'.at = point /\ batch'.ok = ok
        /\ batch'.seen = batch.seen /\ batch'.base = batch.base
        /\ batch'.on = batch.on \cup {workspace} /\ ~batch'.accepted /\ batch'.left = batch.left
    <2>1. /\ batch.check + 1 \in 0 .. Checks /\ batch.on \cup {workspace} \in SUBSET Content
          /\ ok \in BOOLEAN
      BY <1>1 DEF Batch
    <2>2. batch' = [batch EXCEPT !.at = point, !.check = batch.check + 1, !.ok = ok,
                                 !.on = batch.on \cup {workspace}]
      BY <1>2
    <2>. HIDE DEF ok
    <2>3. batch' \in Batch
      BY <1>1, <2>1, <2>2 DEF Batch, BatchPoints
    <2>. QED
      BY <1>1, <2>2, <2>3 DEF Batch
  <1>4. workspace' \in Content /\ (workspace' = workspace \/ workspace' # batch.base)
    BY <1>1 DEF CheckRun
  <1>5. UNCHANGED <<gate, tested, last, writes>>
    BY DEF CheckRun
  <1>6. BatchOK'
    BY <1>1, <1>3 DEF BatchOK, GateInv
  <1>7. MatrixOK'
    BY <1>1, <1>3, <1>4, <1>5 DEF MatrixOK, GateInv
  <1>. QED
    BY <1>1, <1>3, <1>4, <1>5, <1>6, <1>7, GateStays

(* The end of run_tests: evidence only for the content every check passed on. *)
LEMMA TestRecordKeeps == ASSUME GateInv, TestRecord PROVE Kept
  <1>1. /\ batch.at = "tested" /\ batch \in Batch /\ gate \in Gate /\ workspace \in Content
        /\ ~batch.accepted /\ batch.left > 0 /\ batch.seen \in Content /\ batch.ok \in BOOLEAN
    BY DEF TestRecord, At, GateInv, GateTypeOK, BatchOK, AcceptedOK, Batch
  <1> DEFINE g == [gate EXCEPT !.require_verification = @ \/ batch.ok]
  <1>4. /\ g \in Gate /\ g.baseline = gate.baseline
        /\ g.require_verification = (gate.require_verification \/ batch.ok)
        /\ g.current = gate.current /\ g.has_changes = gate.has_changes
    BY <1>1 DEF Gate
  <1>5. UNCHANGED <<workspace, writes>> /\ (TestRecord =>
             \/ /\ gate' = RecordTest(g, HandedOver, workspace)
                /\ batch' = Called(workspace)
                /\ tested' = tested \cup {c \in Content : batch.ok /\ batch.on = {c}}
                /\ last' = IF HandedOver THEN "pass"
                           ELSE IF batch.on = {} THEN "refused" ELSE "fail"
             \/ /\ gate' = Lost(g) /\ batch' = Called(batch.seen) /\ last' = "lost"
                /\ UNCHANGED tested)
    BY DEF TestRecord
  <1>. HIDE DEF g
  <1>2. CASE /\ gate' = RecordTest(g, HandedOver, workspace)
             /\ batch' = Called(workspace)
             /\ tested' = tested \cup {c \in Content : batch.ok /\ batch.on = {c}}
             /\ last' = IF HandedOver THEN "pass"
                        ELSE IF batch.on = {} THEN "refused" ELSE "fail"
    <2>1. /\ g \in Gate /\ g.baseline = gate.baseline
          /\ g.require_verification = (gate.require_verification \/ batch.ok)
      BY <1>4
    <2>2. HandedOver \in BOOLEAN
      BY DEF HandedOver
    <2>3. gate' = RecordTest(g, HandedOver, workspace)
      BY <1>2
    <2>4. writes <= 1 /\ HandedOver => workspace \in tested'
      <3>1. writes <= 1 /\ HandedOver => batch.on = {workspace}
        BY <1>1 DEF HandedOver, GateInv, BatchOK, MatrixOK
      <3>. QED
        BY <1>1, <1>2, <3>1 DEF HandedOver
    <2>5. /\ batch' \in Batch /\ batch'.at = "next" /\ batch'.seen = workspace /\ ~batch'.accepted
      BY <1>1, <1>2, CalledBatch
    <2>6. GateTypeOK'
      BY <1>1, <1>2, <2>1, <2>2, <2>3, <2>5, RecordGate DEF TestRecord, GateInv, GateTypeOK
    <2>7. GateOK'
      BY <1>1, <2>1, <2>2, <2>3, <2>4, RecordGate DEF TestRecord, GateOK
    <2>8. (PassIsLast => PassIsLast') /\ (FailureKept => FailureKept')
      BY <1>1, <1>2, <2>1, <2>2, <2>3, RecordGate DEF PassIsLast, FailureKept, Unforgiven
    <2>9. gate.require_verification => gate'.require_verification
      BY <1>1, <2>1, <2>2, <2>3, RecordGate
    <2>. QED
      BY <1>1, <1>2, <2>5, <2>6, <2>7, <2>8, <2>9
         DEF TestRecord, Kept, GateInv, BatchOK, MatrixOK, AcceptedOK
  <1>3. CASE gate' = Lost(g) /\ batch' = Called(batch.seen) /\ last' = "lost" /\ UNCHANGED tested
    <2>1. /\ gate' \in Gate /\ gate'.verified = None /\ gate'.status = "failed"
          /\ gate'.current = gate.current /\ gate'.baseline = gate.baseline
          /\ gate'.has_changes = gate.has_changes
          /\ (gate.require_verification => gate'.require_verification)
      BY <1>3, <1>4, LostGate
    <2>2. /\ batch' \in Batch /\ batch'.at = "next" /\ batch'.seen = batch.seen
          /\ ~batch'.accepted
      BY <1>1, <1>3, CalledBatch
    <2>3. GateTypeOK'
      BY <1>3, <1>5, <2>1, <2>2 DEF GateInv, GateTypeOK
    <2>4. GateOK'
      BY <2>1 DEF GateInv, GateOK
    <2>5. (PassIsLast => PassIsLast') /\ (FailureKept => FailureKept')
      BY <1>3, <2>1 DEF PassIsLast, FailureKept, Unforgiven
    <2>. QED
      BY <1>1, <1>3, <1>5, <2>1, <2>2, <2>3, <2>4, <2>5
         DEF Kept, GateInv, BatchOK, MatrixOK, AcceptedOK
  <1>. QED
    BY <1>2, <1>3, <1>5

(* submit is decided on the content of this moment (submission_error). *)
LEMMA DecideKeeps == ASSUME GateInv, NEW allowed \in BOOLEAN, Decide(allowed) PROVE Kept
  <1>1. At("next") /\ batch \in Batch /\ gate \in Gate /\ workspace \in Content
        /\ batch.seen \in Content /\ ~batch.accepted
    BY AtNext DEF Decide
  <1>2. CASE /\ gate' = Sync(gate, workspace)
             /\ batch' = [batch EXCEPT !.at = "done",
                                       !.accepted = allowed /\ MaySubmit(gate', workspace)]
    <2>1. /\ batch' \in Batch /\ batch'.at = "done" /\ batch'.seen = batch.seen
          /\ batch'.accepted => MaySubmit(gate', workspace)
      BY <1>1, <1>2 DEF Batch, BatchPoints, MaySubmit
    <2>2. AcceptedOK'
      BY <1>1, <1>2, <2>1, SyncGate DEF Decide, AcceptedOK
    <2>. QED
      BY <1>1, <1>2, <2>1, <2>2, SyncGate
         DEF Decide, GateInv, GateTypeOK, Kept, BatchOK, MatrixOK, GateOK, PassIsLast,
             FailureKept, Unforgiven
  <1>3. CASE batch' = [batch EXCEPT !.at = "done"] /\ UNCHANGED gate
    <2>1. batch' \in Batch /\ batch'.at = "done" /\ batch'.seen = batch.seen /\ ~batch'.accepted
      BY <1>1, <1>3 DEF Batch, BatchPoints
    <2>. QED
      BY <1>1, <1>3, <2>1, GateStays DEF Decide, BatchOK, MatrixOK
  <1>. QED
    BY <1>2, <1>3 DEF Decide

(* Every step of a batch, allowed tools or not, keeps the gate honest. *)
LEMMA BatchKeeps ==
    ASSUME GateInv, NEW allowed \in BOOLEAN, BatchStep(allowed) PROVE Kept
  <1>1. CASE StartMatrix(allowed) \/ StartLegacy(allowed)
    BY <1>1, TestStartKeeps DEF StartMatrix, StartLegacy
  <1>2. CASE CheckBefore
    <2>1. batch.at = "before" /\ batch.check < Checks
      BY <1>2 DEF CheckBefore, At, GateInv, BatchOK
    <2>. QED
      BY <1>2, <2>1, ComparedKeeps DEF CheckBefore
  <1>3. CASE CheckAfter
    <2>1. batch.at = "after" /\ batch.check \in 0 .. Checks
      BY <1>3 DEF CheckAfter, At, GateInv, GateTypeOK, Batch
    <2>. QED
      BY <1>3, <2>1, ComparedKeeps DEF CheckAfter
  <1>. QED
    BY <1>1, <1>2, <1>3, BatchSyncKeeps, CallReadsKeeps, CallMutatesKeeps, TestRefusedKeeps,
       CheckRunKeeps, TestRecordKeeps, DecideKeeps DEF BatchStep

(* A write from outside: no evidence, no locals, another content. *)
LEMMA WriteKeeps ==
    ASSUME GateInv, Write
    PROVE  /\ GateInv' /\ writes' = writes + 1
           /\ UNCHANGED <<gate, batch, tested, last>>
  <1>1. /\ writes \in Nat /\ writes' = writes + 1 /\ writes' \in 0 .. MaxWrites
        /\ workspace' \in Content \ {workspace} /\ UNCHANGED <<gate, batch, tested, last>>
    BY DEF Write, GateInv, GateTypeOK
  <1>2. GateTypeOK' /\ BatchOK' /\ GateOK' /\ AcceptedOK'
    BY <1>1 DEF GateInv, GateTypeOK, BatchOK, GateOK, AcceptedOK, MaySubmit
  <1>3. MatrixOK'
    BY <1>1 DEF GateInv, MatrixOK
  <1>. QED
    BY <1>1, <1>2, <1>3 DEF GateInv

(* A session without a batch, as it starts and between two messages. *)
LEMMA NoBatchOK ==
    /\ NoBatch \in Batch /\ NoBatch.at = "idle" /\ ~NoBatch.accepted
    /\ \A r \in Requests : /\ NewBatch(r[1], r[2]) \in Batch
                           /\ NewBatch(r[1], r[2]).at = "sync"
                           /\ ~NewBatch(r[1], r[2]).accepted
  <1>1. NoBatch \in Batch /\ NoBatch.at = "idle" /\ ~NoBatch.accepted
    BY DEF NoBatch, Batch, BatchPoints
  <1>2. ASSUME NEW r \in Requests
        PROVE  /\ NewBatch(r[1], r[2]) \in Batch /\ NewBatch(r[1], r[2]).at = "sync"
               /\ ~NewBatch(r[1], r[2]).accepted
    BY <1>1 DEF NewBatch, Batch, BatchPoints, Requests
  <1>. QED
    BY <1>1, <1>2

(* When the batch is idle or new, only the gate matters. *)
LEMMA IdleKeeps ==
    ASSUME workspace \in Content, gate \in Gate, batch \in Batch, tested \subseteq Content,
           last \in {"none", "pass", "fail", "refused", "lost"}, writes \in 0 .. MaxWrites,
           GateOK, batch.at \in {"idle", "sync"}, ~batch.accepted
    PROVE  GateInv
  BY DEF GateInv, GateTypeOK, BatchOK, MatrixOK, AcceptedOK
=============================================================================
