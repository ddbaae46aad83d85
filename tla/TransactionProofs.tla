-------------------------- MODULE TransactionProofs --------------------------
(* Proofs about a transaction, for every value of its constants, and about *)
(* the audit of its attempts, for any number of attempts and of events.    *)
EXTENDS TransactionInv, AttemptAudit, FiniteSetTheorems, TLAPS

USE ContentAssumption, TransactionAssumption, NoneAssumption

----------------------------------------------------------------------------
(* The operations on contents stay within their types. *)

(* Tracked drops ignored files and keeps a tree a tree (transaction.create). *)
LEMMA TrackedType == ASSUME NEW c \in Snapshot PROVE Tracked(c) \in Tree
  BY DEF Tracked, Tree, Snapshot

(* A fresh worktree is a well-formed content. *)
LEMMA CheckoutType == ASSUME NEW listing \in Tree PROVE Checkout(listing) \in Content
  <1>1. Parents(Present(listing)) \subseteq Dir
    BY DEF Parents, Present
  <1>2. Checkout(listing) \in Snapshot
    BY <1>1 DEF Checkout, Snapshot
  <1>. QED
    BY <1>2 DEF Checkout, Content

(* `git diff` of a content against a tree is a patch. *)
LEMMA PatchType ==
    ASSUME NEW listing \in Tree, NEW c \in Snapshot PROVE PatchOf(listing, c) \in Patch
  <1> DEFINE S == PatchNames(listing, c)
  <1>1. S \in SUBSET File
    BY DEF PatchNames
  <1>2. PatchOf(listing, c) \in [S -> [old : Value \cup {Absent}, new : Value \cup {Absent}]]
    BY <1>1 DEF PatchOf, Tree, Snapshot
  <1>. QED
    BY <1>1, <1>2 DEF Patch

(* A patch is a function on a set of files. *)
LEMMA PatchDomain ==
    ASSUME NEW patch \in Patch
    PROVE  /\ DOMAIN patch \subseteq File
           /\ patch \in [DOMAIN patch -> [old : Value \cup {Absent}, new : Value \cup {Absent}]]
  BY DEF Patch

(* What prepare projects is a snapshot. *)
LEMMA ProjectedType ==
    ASSUME NEW a \in Snapshot, NEW b \in Snapshot, NEW c \in Snapshot
    PROVE  Projected(a, b, c) \in Snapshot
  BY DEF Projected, Snapshot, Tree

(* `git apply` of any part of a patch keeps every file in a directory. *)
LEMMA ApplyPartType ==
    ASSUME NEW patch \in Patch, NEW S \in SUBSET DOMAIN patch, NEW c \in Content
    PROVE  ApplyPart(patch, S, c) \in Content
  <1> DEFINE files == PatchedFiles(patch, S, c.files)
             removed == {f \in S : patch[f].new = Absent}
             dirs == (c.dirs \ Parents(removed)) \cup Parents(Present(files))
  <1>1. files \in Tree
    BY PatchDomain DEF PatchedFiles, Tree, Content, Snapshot
  <1>2. dirs \in SUBSET Dir
    BY DEF Parents, Present, Content, Snapshot
  <1>3. ApplyPart(patch, S, c) = [files |-> files, dirs |-> dirs]
    BY DEF ApplyPart
  <1>4. Parents(Present(files)) \subseteq dirs
    OBVIOUS
  <1>. HIDE DEF files, dirs
  <1>5. [files |-> files, dirs |-> dirs] \in Snapshot
    BY <1>1, <1>2 DEF Snapshot
  <1>. QED
    BY <1>3, <1>4, <1>5 DEF Content

(* Whatever git makes of a source that changed meanwhile is a content. *)
LEMMA OutcomesType ==
    ASSUME NEW patch \in Patch, NEW c \in Content, NEW x \in ApplyOutcomes(patch, c)
    PROVE  x \in Content
  <1> DEFINE bad == Mismatched(patch, c)
             merged(m) == [f \in DOMAIN patch |->
                             IF f \in bad THEN [patch[f] EXCEPT !.new = m[f]] ELSE patch[f]]
  <1>1. PICK m \in [bad -> Value] : x = ApplyPatch(merged(m), c)
    BY DEF ApplyOutcomes
  <1>2. merged(m) \in [DOMAIN patch -> [old : Value \cup {Absent}, new : Value \cup {Absent}]]
    <2> SUFFICES ASSUME NEW f \in DOMAIN patch
                 PROVE  (IF f \in bad THEN [patch[f] EXCEPT !.new = m[f]] ELSE patch[f])
                          \in [old : Value \cup {Absent}, new : Value \cup {Absent}]
      OBVIOUS
    <2>1. patch[f] \in [old : Value \cup {Absent}, new : Value \cup {Absent}]
      BY PatchDomain
    <2>2. CASE f \in bad
      <3>1. m[f] \in Value
        BY <1>1, <2>2
      <3>. QED
        BY <2>1, <2>2, <3>1
    <2>3. CASE f \notin bad
      BY <2>1, <2>3
    <2>. QED
      BY <2>2, <2>3
  <1>3. merged(m) \in Patch /\ DOMAIN merged(m) = DOMAIN patch
    BY <1>2, PatchDomain DEF Patch
  <1>. QED
    BY <1>1, <1>3, ApplyPartType DEF ApplyPatch

----------------------------------------------------------------------------
(* Steps of one invocation *)

(* Only p moves, and it moves to r. *)
Moves(p, r) == proc'[p] = r /\ \A q \in Proc \ {p} : proc'[q] = proc[q]

(* A step of p leaves the other invocations where they are (Become). *)
LEMMA Moved ==
    ASSUME proc \in [Proc -> Process], NEW p \in Proc, NEW r, Become(p, r)
    PROVE  DOMAIN proc' = Proc /\ Moves(p, r)
  BY DEF Become, Moves

USE DEF Points, BeginPoints, RunPoints, PreparePoints, CommitPoints, LockedPoints,
        OwnPoints, DiffPoints, SealPoints, EvidencePoints, OnDisk, IInv

(* A fresh invocation has a point and no locals. *)
LEMMA FreshType ==
    ASSUME NEW pc \in Points
    PROVE  /\ Fresh(pc) \in Process
           /\ Fresh(pc).pc = pc /\ Fresh(pc).tx = None /\ Fresh(pc).mem = None
           /\ Fresh(pc).evidence = None /\ Fresh(pc).own = None
  BY DEF Process, Fresh

(* An invocation that has ended promises nothing. *)
LEMMA EndedType == Fresh("done") \in Process /\ LocalsOK(Fresh("done"))
  BY FreshType DEF LocalsOK

(* What the invariant says of one invocation between its begin and its exit. *)
LEMMA Locals ==
    ASSUME TypeOK, PointsOK, TestedOK, NEW p \in Proc
    PROVE  /\ proc[p] \in Process /\ LocalsOK(proc[p])
           /\ Active(p) => proc[p].tx \in Tx /\ RunTested(p, proc[p], passed[proc[p].tx])
           /\ proc[p].pc \in BeginPoints \cup RunPoints \cup LockedPoints =>
                proc[p].mem \in Manifest /\ Complete(proc[p].mem)
           /\ OnDisk(proc[p].pc) => disk[proc[p].tx] \in Manifest
  <1>1. proc[p] \in Process /\ LocalsOK(proc[p])
    BY DEF TypeOK, PointsOK
  <1>2. Active(p) => proc[p].tx \in Tx /\ RunTested(p, proc[p], passed[proc[p].tx])
    BY <1>1 DEF LocalsOK, Active, TestedOK
  <1>3. ASSUME proc[p].pc \in BeginPoints \cup RunPoints \cup LockedPoints
        PROVE  proc[p].mem \in Manifest /\ Complete(proc[p].mem)
    <2>1. proc[p].mem \in Manifest
      BY <1>1, <1>3 DEF LocalsOK
    <2>. QED
      BY <2>1 DEF PointsOK
  <1>. QED
    BY <1>1, <1>2, <1>3 DEF PointsOK

(* What a step does to the manifests on disk: none disappears, all are complete *)
(* and all name tested contents.                                                *)
DiskKept ==
    /\ disk' \in [Tx -> Manifest \cup {None}]
    /\ \A t \in Tx : disk[t] \in Manifest => disk'[t] \in Manifest
    /\ \A t \in Tx : Published(t)' => Complete(disk'[t]) /\ TestedManifest(disk'[t], passed[t])

(* TransactionStore.save of a complete manifest with a tested content. *)
LEMMA SaveKeeps ==
    ASSUME TypeOK, PointsOK, TestedOK, NEW t \in Tx, NEW m \in Manifest, Complete(m),
           TestedManifest(m, passed[t]), Save(t, m)
    PROVE  DiskKept /\ disk'[t] = m
  <1>1. disk' \in [Tx -> Manifest \cup {None}] /\ disk'[t] = m
        /\ \A u \in Tx \ {t} : disk'[u] = disk[u]
    BY DEF Save, TypeOK
  <1>. QED
    BY <1>1 DEF DiskKept, PointsOK, TestedOK, Published

LEMMA SameDiskKeeps == ASSUME TypeOK, PointsOK, TestedOK, UNCHANGED disk PROVE DiskKept
  BY DEF DiskKept, TypeOK, PointsOK, TestedOK, Published

(* Evidence is never taken back. *)
LEMMA Monotone ==
    ASSUME NEW p, NEW r, NEW seen, NEW more, seen \subseteq more
    PROVE  /\ RunTested(p, r, seen) => RunTested(p, r, more)
           /\ \A m : TestedManifest(m, seen) => TestedManifest(m, more)
  BY DEF RunTested, TestedManifest

(* A step of p that keeps the manifests and after which p's record is good. *)
GoodMove(p, r) ==
    /\ r \in Process /\ Become(p, r) /\ LocalsOK(r)
    /\ DiskKept
    /\ r.mem # None => Complete(r.mem)
    /\ OnDisk(r.pc) => disk'[r.tx] \in Manifest
    /\ \A t \in Tx : passed[t] \subseteq passed'[t]
    /\ r.pc \notin {"ready", "done"} => RunTested(p, r, passed'[r.tx])

(* Such a step keeps every invocation's locals good. *)
LEMMA StepKeeps ==
    ASSUME TypeOK, PointsOK, TestedOK, NEW p \in Proc, NEW r, GoodMove(p, r)
    PROVE  proc' \in [Proc -> Process] /\ Moves(p, r) /\ PointsOK' /\ TestedOK'
  <1> USE DEF GoodMove
  <1>1. DOMAIN proc' = Proc /\ Moves(p, r)
    BY Moved DEF TypeOK
  <1>2. proc' \in [Proc -> Process]
    BY DEF Become, TypeOK
  <1>3. \A q \in Proc : LocalsOK(proc'[q])
    BY <1>1 DEF PointsOK, Moves
  <1>4. ASSUME NEW q \in Proc, OnDisk(proc'[q].pc) PROVE disk'[proc'[q].tx] \in Manifest
    <2>1. CASE q = p
      BY <1>1, <1>4, <2>1 DEF Moves
    <2>2. CASE q # p
      <3>1. proc'[q] = proc[q]
        BY <1>1, <2>2 DEF Moves
      <3>2. proc[q].tx \in Tx /\ disk[proc[q].tx] \in Manifest
        BY <1>4, <3>1 DEF PointsOK, LocalsOK
      <3>. QED
        BY <3>1, <3>2 DEF DiskKept
    <2>. QED
      BY <2>1, <2>2
  <1>5. \A q \in Proc : proc'[q].mem # None => Complete(proc'[q].mem)
    BY <1>1 DEF PointsOK, Moves
  <1>6. PointsOK'
    BY <1>3, <1>4, <1>5 DEF PointsOK, DiskKept
  <1>7. ASSUME NEW t \in Tx, Published(t)' PROVE TestedManifest(disk'[t], passed'[t])
    <2>1. TestedManifest(disk'[t], passed[t]) /\ passed[t] \subseteq passed'[t]
      BY <1>7 DEF DiskKept
    <2>. QED
      BY <2>1, Monotone
  <1>8. ASSUME NEW q \in Proc, Active(q)' PROVE RunTested(q, proc'[q], passed'[proc'[q].tx])
    <2>1. CASE q = p
      BY <1>1, <1>8, <2>1 DEF Moves, Active
    <2>2. CASE q # p
      <3>1. proc'[q] = proc[q]
        BY <1>1, <2>2 DEF Moves
      <3>2. RunTested(q, proc[q], passed[proc[q].tx]) /\ proc[q].tx \in Tx
        BY <1>8, <3>1, Locals DEF Active
      <3>3. passed[proc[q].tx] \subseteq passed'[proc[q].tx]
        BY <3>2
      <3>. QED
        BY <3>1, <3>2, <3>3, Monotone
    <2>. QED
      BY <2>1, <2>2
  <1>9. TestedOK'
    BY <1>7, <1>8 DEF TestedOK
  <1>. QED
    BY <1>1, <1>2, <1>6, <1>9

(* Exit(p) is such a step. *)
LEMMA ExitMove ==
    ASSUME NEW p \in Proc, Exit(p), DiskKept, UNCHANGED passed
    PROVE  GoodMove(p, Fresh("done")) /\ Fresh("done").pc = "done"
  BY FreshType, EndedType DEF Exit, GoodMove

----------------------------------------------------------------------------
(* The flock of a transaction's directory. *)

(* The lock table stays a table of holders (store.locked). *)
LEMMA LockTypes ==
    ASSUME TypeOK, NEW p \in Proc, NEW t \in Tx,
           Acquire(p, t) \/ Release(t) \/ UNCHANGED lock
    PROVE  lock' \in [Tx -> Proc \cup {None}]
  BY DEF TypeOK, Acquire, Release

(* Outside a locked block no lock is needed. *)
LEMMA FreeLock ==
    ASSUME LockExclusive, NEW p \in Proc, NEW r, Moves(p, r), UNCHANGED lock,
           r.pc \notin LockedPoints
    PROVE  LockExclusive'
  BY DEF LockExclusive, Moves

(* Within the block the lock stays. *)
LEMMA HoldLock ==
    ASSUME LockExclusive, NEW p \in Proc, NEW r, Moves(p, r), UNCHANGED lock,
           proc[p].pc \in LockedPoints, r.tx = proc[p].tx
    PROVE  LockExclusive'
  BY DEF LockExclusive, Moves

(* Releasing the lock that p holds takes nobody else's. *)
LEMMA ReleaseLock ==
    ASSUME TypeOK, PointsOK, LockExclusive, NEW p \in Proc, NEW r, Moves(p, r),
           proc[p].pc \in LockedPoints, r.pc \notin LockedPoints, Release(proc[p].tx)
    PROVE  LockExclusive' /\ lock' \in [Tx -> Proc \cup {None}]
  <1>1. proc[p].tx \in Tx /\ lock[proc[p].tx] = p
    BY DEF PointsOK, LocalsOK, LockExclusive
  <1>2. ASSUME NEW q \in Proc \ {p}, proc[q].pc \in LockedPoints
        PROVE  lock'[proc[q].tx] = q
    <2>1. proc[q].tx \in Tx /\ lock[proc[q].tx] = q
      BY <1>2 DEF PointsOK, LocalsOK, LockExclusive
    <2>. QED
      BY <1>1, <2>1 DEF Release, TypeOK
  <1>. QED
    BY <1>1, <1>2, LockTypes DEF LockExclusive, Moves

(* Acquire waits until nobody holds the lock. *)
LEMMA AcquireLock ==
    ASSUME TypeOK, PointsOK, LockExclusive, NEW p \in Proc, NEW t \in Tx, NEW r,
           Moves(p, r), r.tx = t, Acquire(p, t)
    PROVE  LockExclusive' /\ lock' \in [Tx -> Proc \cup {None}]
  <1>1. lock'[t] = p
    BY DEF Acquire, TypeOK
  <1>2. ASSUME NEW q \in Proc \ {p}, proc[q].pc \in LockedPoints
        PROVE  lock'[proc[q].tx] = q
    <2>1. proc[q].tx \in Tx /\ lock[proc[q].tx] = q
      BY <1>2 DEF PointsOK, LocalsOK, LockExclusive
    <2>2. lock[t] # q
      BY DEF Acquire
    <2>. QED
      BY <2>1, <2>2 DEF Acquire, TypeOK
  <1>. QED
    BY <1>1, <1>2, LockTypes DEF LockExclusive, Moves

(* What every step must do to manifests, locks and invocations. *)
Kept ==
    /\ disk' \in [Tx -> Manifest \cup {None}]
    /\ proc' \in [Proc -> Process]
    /\ lock' \in [Tx -> Proc \cup {None}]
    /\ PointsOK' /\ LockExclusive' /\ TestedOK'

LEMMA FreeStep ==
    ASSUME IInv, NEW p \in Proc, NEW r, GoodMove(p, r), UNCHANGED lock,
           r.pc \notin LockedPoints
    PROVE  Kept
  BY StepKeeps, FreeLock DEF GoodMove, DiskKept, TypeOK, Kept

LEMMA HoldStep ==
    ASSUME IInv, NEW p \in Proc, NEW r, GoodMove(p, r), UNCHANGED lock,
           proc[p].pc \in LockedPoints, r.tx = proc[p].tx
    PROVE  Kept
  BY StepKeeps, HoldLock DEF GoodMove, DiskKept, TypeOK, Kept

LEMMA AcquireStep ==
    ASSUME IInv, NEW p \in Proc, NEW t \in Tx, NEW r, GoodMove(p, r), r.tx = t,
           Acquire(p, t)
    PROVE  Kept
  BY StepKeeps, AcquireLock DEF GoodMove, DiskKept, Kept

LEMMA ReleaseStep ==
    ASSUME IInv, NEW p \in Proc, NEW r, GoodMove(p, r), Release(proc[p].tx),
           proc[p].pc \in LockedPoints, r.pc \notin LockedPoints
    PROVE  Kept
  BY StepKeeps, ReleaseLock DEF GoodMove, DiskKept, Kept

(* An invocation that ends outside a locked block, or in one. *)
LEMMA ExitStep ==
    ASSUME IInv, NEW p \in Proc, Exit(p), DiskKept, UNCHANGED <<passed, lock>> PROVE Kept
  BY ExitMove, FreeStep

LEMMA RefuseStep ==
    ASSUME IInv, NEW p \in Proc, proc[p].pc \in LockedPoints, Refuse(p), DiskKept,
           UNCHANGED passed
    PROVE  Kept
  BY ExitMove, ReleaseStep DEF Refuse

----------------------------------------------------------------------------
(* Every action keeps the invariant: first the record it moves to is good, *)
(* then the other variables keep their types.                              *)

LEMMA BeginStep == ASSUME IInv, NEW p \in Proc, NEW t \in Tx, Begin(p, t) PROVE IInv'
  <1>1. NewManifest \in Manifest /\ Complete(NewManifest) /\ NewManifest.prepared = None
    BY CheckoutType DEF NewManifest, Manifest, TypeOK, Commit, Complete
  <1> DEFINE b == Fresh("begin")
             r == [b EXCEPT !.tx = t, !.mem = NewManifest]
  <1>2. Become(p, r)
    BY DEF Begin
  <1>3. b \in Process /\ b.pc = "begin" /\ b.evidence = None
    BY FreshType
  <1>. HIDE DEF b
  <1>4. /\ r \in Process /\ r.pc = "begin" /\ r.tx = t /\ r.mem = NewManifest
        /\ r.evidence = None
    BY <1>1, <1>3 DEF Process
  <1>5. LocalsOK(r) /\ RunTested(p, r, passed[t])
    BY <1>1, <1>4 DEF LocalsOK, RunTested, TestedManifest
  <1>6. DiskKept /\ UNCHANGED <<passed, lock>>
    BY SameDiskKeeps DEF Begin, store, history
  <1>. HIDE DEF r
  <1>7. Kept
    BY <1>1, <1>2, <1>4, <1>5, <1>6, FreeStep DEF GoodMove
  <1>. QED
    BY <1>7 DEF Kept, TypeOK, Begin, git, store, history

LEMMA AddWorktreeStep == ASSUME IInv, NEW p \in Proc, AddWorktree(p) PROVE IInv'
  <1> DEFINE r == [proc[p] EXCEPT !.pc = "publish"]
  <1>1. /\ proc[p].pc = "begin" /\ proc[p] \in Process /\ proc[p].tx \in Tx
        /\ proc[p].mem \in Manifest /\ Complete(proc[p].mem)
        /\ RunTested(p, proc[p], passed[proc[p].tx])
    BY Locals DEF AddWorktree, At, Active
  <1>2. Become(p, r)
    BY DEF AddWorktree, Goto
  <1>3. /\ r \in Process /\ r.pc = "publish" /\ r.tx = proc[p].tx /\ r.mem = proc[p].mem
        /\ r.evidence = proc[p].evidence
    BY <1>1 DEF Process
  <1>4. LocalsOK(r) /\ RunTested(p, r, passed[proc[p].tx])
    BY <1>1, <1>3 DEF LocalsOK, RunTested
  <1>5. DiskKept /\ UNCHANGED <<passed, lock>>
    BY SameDiskKeeps DEF AddWorktree, history
  <1>. HIDE DEF r
  <1>6. Kept
    BY <1>1, <1>2, <1>3, <1>4, <1>5, FreeStep DEF GoodMove
  <1>7. worktree' \in [Tx -> Content \cup {None}]
    BY <1>1 DEF AddWorktree, TypeOK, Manifest
  <1>. QED
    BY <1>6, <1>7 DEF Kept, TypeOK, AddWorktree, git, store, history

LEMMA PublishStep == ASSUME IInv, NEW p \in Proc, Publish(p) PROVE IInv'
  <1> DEFINE t == proc[p].tx
             r == [proc[p] EXCEPT !.pc = "start"]
  <1>1. /\ proc[p].pc = "publish" /\ proc[p] \in Process /\ t \in Tx
        /\ proc[p].mem \in Manifest /\ Complete(proc[p].mem)
        /\ RunTested(p, proc[p], passed[t])
    BY Locals DEF Publish, At, Active
  <1>2. UNCHANGED <<passed, lock>>
    BY DEF Publish, history
  <1>3. Kept
    <2>1. CASE Save(t, proc[p].mem) /\ Goto(p, "start")
      <3>1. DiskKept /\ disk'[t] = proc[p].mem
        BY <1>1, <2>1, SaveKeeps DEF RunTested
      <3>2. /\ r \in Process /\ r.pc = "start" /\ r.tx = t /\ r.mem = proc[p].mem
            /\ r.evidence = proc[p].evidence
        BY <1>1 DEF Process
      <3>3. LocalsOK(r) /\ RunTested(p, r, passed[t])
        BY <1>1, <3>2 DEF LocalsOK, RunTested
      <3>4. Become(p, r)
        BY <2>1 DEF Goto
      <3>. HIDE DEF r, t
      <3>. QED
        BY <1>1, <1>2, <3>1, <3>2, <3>3, <3>4, FreeStep DEF GoodMove
    <2>2. CASE Exit(p) /\ UNCHANGED disk
      BY <1>2, <2>2, SameDiskKeeps, ExitStep
    <2>. QED
      BY <2>1, <2>2 DEF Publish
  <1>4. worktree' \in [Tx -> Content \cup {None}]
    BY <1>1 DEF Publish, TypeOK
  <1>. QED
    BY <1>3, <1>4 DEF Kept, TypeOK, Publish, git, history

LEMMA ResumeStep == ASSUME IInv, NEW p \in Proc, NEW t \in Tx, Resume(p, t) PROVE IInv'
  <1>1. /\ disk[t] \in Manifest /\ Complete(disk[t]) /\ TestedManifest(disk[t], passed[t])
        /\ traj[t] \in Trajectory
    BY DEF Resume, TypeOK, PointsOK, TestedOK, Published
  <1> DEFINE b == Fresh("restore")
             r == [b EXCEPT !.tx = t, !.mem = disk[t], !.own = traj[t]]
  <1>2. Become(p, r)
    BY DEF Resume
  <1>3. b \in Process /\ b.pc = "restore" /\ b.evidence = None
    BY FreshType
  <1>. HIDE DEF b
  <1>4. /\ r \in Process /\ r.pc = "restore" /\ r.tx = t /\ r.mem = disk[t]
        /\ r.own = traj[t] /\ r.evidence = None
    <2> DEFINE Txs == Tx \cup {None}
               Manifests == Manifest \cup {None}
               Trajectories == Trajectory \cup {None}
    <2>1. t \in Txs /\ disk[t] \in Manifests /\ traj[t] \in Trajectories
      BY <1>1
    <2> DEFINE Contents == Content \cup {None}
               Calls == 0 .. MaxCalls
               Processes == [pc : Points, tx : Txs, mem : Manifests, evidence : Contents,
                             calls : Calls, own : Trajectories, snap : Contents, body : Contents]
    <2>2. Process = Processes
      BY DEF Process
    <2> HIDE DEF Txs, Manifests, Trajectories, Contents, Calls
    <2>. QED
      BY ONLY <1>3, <2>1, <2>2
  <1>5. LocalsOK(r) /\ RunTested(p, r, passed[t])
    BY <1>1, <1>4 DEF LocalsOK, RunTested
  <1>6. DiskKept /\ UNCHANGED <<disk, passed, lock>>
    BY SameDiskKeeps DEF Resume, store, history
  <1>. HIDE DEF r
  <1>7. Kept
    BY <1>1, <1>2, <1>4, <1>5, <1>6, FreeStep DEF GoodMove
  <1>. QED
    BY <1>7 DEF Kept, TypeOK, Resume, git, store, history

LEMMA RestoreStep == ASSUME IInv, NEW p \in Proc, Restore(p) PROVE IInv'
  <1> DEFINE t == proc[p].tx
             r == [proc[p] EXCEPT !.pc = "start", !.own = None,
                                  !.evidence = RestoredEvidence(proc[p].own)]
  <1>1. /\ proc[p].pc = "restore" /\ proc[p] \in Process /\ t \in Tx
        /\ proc[p].mem \in Manifest /\ Complete(proc[p].mem)
        /\ RunTested(p, proc[p], passed[t])
    BY Locals DEF Restore, At, Active
  <1>2. DiskKept /\ disk'[t] = proc[p].mem /\ UNCHANGED <<passed, lock>>
    BY <1>1, SaveKeeps DEF Restore, RunTested, history
  <1>3. Kept
    <2>1. CASE Exit(p)
      BY <1>2, <2>1, ExitStep
    <2>2. CASE Become(p, r)
      <3>1. /\ r \in Process /\ r.pc = "start" /\ r.tx = t /\ r.mem = proc[p].mem
            /\ r.evidence = None
        BY <1>1 DEF Process, RestoredEvidence
      <3>2. LocalsOK(r) /\ RunTested(p, r, passed[t])
        BY <1>1, <3>1 DEF LocalsOK, RunTested
      <3>. HIDE DEF r, t
      <3>. QED
        BY <1>1, <1>2, <2>2, <3>1, <3>2, FreeStep DEF GoodMove
    <2>. QED
      BY <2>1, <2>2 DEF Restore
  <1>. QED
    BY <1>3 DEF Kept, TypeOK, Restore, git, history

(* A checkpoint of the invocation p is a trajectory (agent._checkpoint). *)
LEMMA CheckpointType ==
    ASSUME NEW p \in Proc, proc[p] \in Process,
           NEW exit \in {"Running", "Submitted", "Stopped"}, NEW final \in BOOLEAN
    PROVE  /\ Checkpoint(p, exit, final) \in Trajectory
           /\ Checkpoint(p, exit, final).by = p
           /\ Checkpoint(p, exit, final).verified = proc[p].evidence
  BY DEF Checkpoint, Trajectory, Process

LEMMA SaveCheckpointStep == ASSUME IInv, NEW p \in Proc, SaveCheckpoint(p) PROVE IInv'
  <1> DEFINE t == proc[p].tx
             c == Checkpoint(p, "Running", FALSE)
             r == [proc[p] EXCEPT !.pc = "model", !.own = c]
  <1>1. /\ proc[p].pc \in {"start", "observed"} /\ proc[p] \in Process /\ t \in Tx
        /\ disk[t] \in Manifest /\ Complete(proc[p].mem) /\ proc[p].mem \in Manifest
        /\ RunTested(p, proc[p], passed[t])
    BY Locals DEF SaveCheckpoint, Active
  <1>2. c \in Trajectory
    BY <1>1, CheckpointType
  <1>3. /\ traj' = [traj EXCEPT ![t] = c] /\ Become(p, r)
        /\ UNCHANGED <<disk, passed, lock>>
    BY DEF SaveCheckpoint, history
  <1>. HIDE DEF c
  <1>4. /\ r \in Process /\ r.pc = "model" /\ r.tx = t /\ r.mem = proc[p].mem
        /\ r.own = c /\ r.evidence = proc[p].evidence
    BY <1>1, <1>2 DEF Process
  <1>5. LocalsOK(r) /\ RunTested(p, r, passed[t])
    BY <1>1, <1>2, <1>4 DEF LocalsOK, RunTested
  <1>6. DiskKept
    BY <1>3, SameDiskKeeps
  <1>7. traj' \in [Tx -> Trajectory \cup {None}]
    BY <1>1, <1>2, <1>3 DEF TypeOK
  <1>. HIDE DEF r, t
  <1>8. Kept
    BY <1>1, <1>3, <1>4, <1>5, <1>6, FreeStep DEF GoodMove
  <1>. QED
    BY <1>7, <1>8 DEF Kept, TypeOK, SaveCheckpoint, git, history

(* Appending to the access log does not touch what was prepared. *)
LEMMA LogStartStep ==
    ASSUME IInv, NEW p \in Proc, NEW next \in {"tool", "submitted"}, At(p, "model"),
           LogStart(p, next), UNCHANGED <<passed, lock>>
    PROVE  Kept
  <1> DEFINE t == proc[p].tx
             call == <<p, proc[p].calls + 1>>
             m == [proc[p].mem EXCEPT !.started = @ \cup {call}]
             r == [proc[p] EXCEPT !.pc = next, !.mem = m, !.calls = @ + 1]
  <1>1. /\ proc[p].pc = "model" /\ proc[p] \in Process /\ LocalsOK(proc[p]) /\ t \in Tx
        /\ proc[p].mem \in Manifest /\ Complete(proc[p].mem)
        /\ RunTested(p, proc[p], passed[t])
    BY Locals DEF At, Active
  <1>2. proc[p].calls < MaxCalls /\ Save(t, m) /\ Become(p, r)
    BY DEF LogStart
  <1>3. call \in Call /\ proc[p].calls + 1 \in 0 .. MaxCalls /\ proc[p].calls + 1 \in 1 .. MaxCalls
    BY <1>1, <1>2 DEF Call, Process
  <1>4. /\ m \in Manifest /\ m.status = proc[p].mem.status /\ m.prepared = proc[p].mem.prepared
        /\ m.expected = proc[p].mem.expected /\ m.patch = proc[p].mem.patch
        /\ m.receipt = proc[p].mem.receipt
    BY <1>1, <1>3 DEF Manifest
  <1>5. Complete(m) /\ TestedManifest(m, passed[t])
    BY <1>1, <1>4 DEF Complete, RunTested, TestedManifest
  <1>. HIDE DEF call, m
  <1>6. /\ r \in Process /\ r.pc = next /\ r.tx = t /\ r.mem = m
        /\ r.own = proc[p].own /\ r.calls = proc[p].calls + 1
        /\ r.evidence = proc[p].evidence
    BY <1>1, <1>3, <1>4 DEF Process
  <1>7. LocalsOK(r) /\ RunTested(p, r, passed[t])
    BY <1>1, <1>3, <1>4, <1>5, <1>6 DEF LocalsOK, RunTested
  <1>8. DiskKept /\ disk'[t] = m
    BY <1>1, <1>2, <1>4, <1>5, SaveKeeps
  <1>. HIDE DEF r, t
  <1>. QED
    BY <1>1, <1>2, <1>4, <1>5, <1>6, <1>7, <1>8, FreeStep DEF GoodMove

LEMMA LogDoneStep ==
    ASSUME IInv, NEW p \in Proc, proc[p].pc \in {"answered", "submitted"},
           NEW next \in {"observed", "closing"}, LogDone(p, next), UNCHANGED <<passed, lock>>
    PROVE  Kept
  <1> DEFINE t == proc[p].tx
             call == <<p, proc[p].calls>>
             m == [proc[p].mem EXCEPT !.completed = @ \cup {call}]
             r == [proc[p] EXCEPT !.pc = next, !.mem = m]
  <1>1. /\ proc[p] \in Process /\ LocalsOK(proc[p]) /\ t \in Tx
        /\ proc[p].mem \in Manifest /\ Complete(proc[p].mem)
        /\ RunTested(p, proc[p], passed[t])
    BY Locals DEF Active
  <1>2. Save(t, m) /\ Become(p, r)
    BY DEF LogDone
  <1>3. call \in Call
    BY <1>1 DEF Call, LocalsOK
  <1>4. /\ m \in Manifest /\ m.status = proc[p].mem.status /\ m.prepared = proc[p].mem.prepared
        /\ m.expected = proc[p].mem.expected /\ m.patch = proc[p].mem.patch
        /\ m.receipt = proc[p].mem.receipt
    BY <1>1, <1>3 DEF Manifest
  <1>5. Complete(m) /\ TestedManifest(m, passed[t])
    BY <1>1, <1>4 DEF Complete, RunTested, TestedManifest
  <1>. HIDE DEF call, m
  <1>6. /\ r \in Process /\ r.pc = next /\ r.tx = t /\ r.mem = m
        /\ r.own = proc[p].own /\ r.evidence = proc[p].evidence
    BY <1>1, <1>4 DEF Process
  <1>7. LocalsOK(r) /\ RunTested(p, r, passed[t])
    BY <1>1, <1>4, <1>5, <1>6 DEF LocalsOK, RunTested
  <1>8. DiskKept /\ disk'[t] = m
    BY <1>1, <1>2, <1>4, <1>5, SaveKeeps
  <1>. HIDE DEF r, t
  <1>. QED
    BY <1>1, <1>2, <1>4, <1>5, <1>6, <1>7, <1>8, FreeStep DEF GoodMove

LEMMA LoggingStep ==
    ASSUME IInv, NEW p \in Proc, ToolStart(p) \/ Submit(p) \/ ToolDone(p) \/ SubmitDone(p)
    PROVE  IInv'
  <1>1. UNCHANGED <<passed, lock>>
    BY DEF ToolStart, Submit, ToolDone, SubmitDone, history
  <1>2. Kept
    BY <1>1, LogStartStep, LogDoneStep DEF ToolStart, Submit, ToolDone, SubmitDone, At
  <1>. QED
    BY <1>2 DEF Kept, TypeOK, ToolStart, Submit, ToolDone, SubmitDone, git, history

LEMMA ToolEditsStep == ASSUME IInv, NEW p \in Proc, ToolEdits(p) PROVE IInv'
  <1> DEFINE t == proc[p].tx
             r == [proc[p] EXCEPT !.pc = "answered"]
  <1>1. /\ proc[p].pc = "tool" /\ proc[p] \in Process /\ LocalsOK(proc[p])
        /\ t \in Tx /\ disk[t] \in Manifest /\ Complete(proc[p].mem)
        /\ RunTested(p, proc[p], passed[t])
    BY Locals DEF ToolEdits, At, Active
  <1>2. /\ r \in Process /\ r.pc = "answered" /\ r.tx = t /\ r.mem = proc[p].mem
        /\ r.own = proc[p].own /\ r.calls = proc[p].calls /\ r.evidence = proc[p].evidence
    BY <1>1 DEF Process
  <1>3. LocalsOK(r) /\ RunTested(p, r, passed[t])
    BY <1>1, <1>2 DEF LocalsOK, RunTested
  <1>4. DiskKept /\ Become(p, r) /\ UNCHANGED <<disk, passed, lock>>
    BY SameDiskKeeps DEF ToolEdits, Goto
  <1>5. worktree' \in [Tx -> Content \cup {None}]
    BY <1>1 DEF ToolEdits, TypeOK
  <1>6. edited' \in [Tx -> SUBSET Call]
    <2>1. <<p, proc[p].calls>> \in Call
      BY <1>1 DEF Call, LocalsOK
    <2>. QED
      BY <1>1, <2>1 DEF ToolEdits, TypeOK
  <1>. HIDE DEF r, t
  <1>7. Kept
    BY <1>1, <1>2, <1>3, <1>4, FreeStep DEF GoodMove
  <1>. QED
    BY <1>5, <1>6, <1>7 DEF Kept, TypeOK, ToolEdits, git

(* The one step that adds evidence: the checks passed on this very worktree. *)
LEMMA ToolPassesStep == ASSUME IInv, NEW p \in Proc, ToolPasses(p) PROVE IInv'
  <1> DEFINE t == proc[p].tx
             r == [proc[p] EXCEPT !.pc = "answered", !.evidence = worktree[t]]
  <1>1. /\ proc[p].pc = "tool" /\ proc[p] \in Process /\ LocalsOK(proc[p])
        /\ t \in Tx /\ disk[t] \in Manifest /\ Complete(proc[p].mem)
        /\ RunTested(p, proc[p], passed[t]) /\ worktree[t] \in Content
    BY Locals DEF ToolPasses, At, Active, TypeOK
  <1>2. /\ r \in Process /\ r.pc = "answered" /\ r.tx = t /\ r.mem = proc[p].mem
        /\ r.own = proc[p].own /\ r.calls = proc[p].calls /\ r.evidence = worktree[t]
    BY <1>1 DEF Process
  <1>3. /\ passed' \in [Tx -> SUBSET [by : Proc, body : Content]]
        /\ \A u \in Tx : passed[u] \subseteq passed'[u]
        /\ [by |-> p, body |-> worktree[t]] \in passed'[t]
    BY <1>1 DEF ToolPasses, TypeOK
  <1>4. LocalsOK(r)
    BY <1>1, <1>2 DEF LocalsOK
  <1>5. RunTested(p, r, passed'[t])
    <2>1. RunTested(p, proc[p], passed'[t])
      BY <1>1, <1>3, Monotone
    <2>. QED
      BY <1>1, <1>2, <1>3, <2>1 DEF RunTested
  <1>6. DiskKept /\ Become(p, r) /\ UNCHANGED <<disk, lock>>
    BY SameDiskKeeps DEF ToolPasses, store
  <1>. HIDE DEF r, t
  <1>7. Kept
    BY <1>1, <1>2, <1>3, <1>4, <1>5, <1>6, FreeStep DEF GoodMove
  <1>. QED
    BY <1>3, <1>7 DEF Kept, TypeOK, ToolPasses, git, store

LEMMA ToolFailsStep == ASSUME IInv, NEW p \in Proc, ToolFails(p) PROVE IInv'
  <1> DEFINE t == proc[p].tx
             r == [proc[p] EXCEPT !.pc = "answered", !.evidence = None]
  <1>1. /\ proc[p].pc = "tool" /\ proc[p] \in Process /\ LocalsOK(proc[p])
        /\ t \in Tx /\ disk[t] \in Manifest /\ Complete(proc[p].mem)
        /\ RunTested(p, proc[p], passed[t])
    BY Locals DEF ToolFails, At, Active
  <1>2. /\ r \in Process /\ r.pc = "answered" /\ r.tx = t /\ r.mem = proc[p].mem
        /\ r.own = proc[p].own /\ r.calls = proc[p].calls /\ r.evidence = None
    BY <1>1 DEF Process
  <1>3. LocalsOK(r) /\ RunTested(p, r, passed[t])
    BY <1>1, <1>2 DEF LocalsOK, RunTested
  <1>4. DiskKept /\ Become(p, r) /\ UNCHANGED <<disk, passed, lock>>
    BY SameDiskKeeps DEF ToolFails, store, history
  <1>. HIDE DEF r, t
  <1>5. Kept
    BY <1>1, <1>2, <1>3, <1>4, FreeStep DEF GoodMove
  <1>. QED
    BY <1>5 DEF Kept, TypeOK, ToolFails, git, store, history

(* The submission's checkpoint: from here on the run carries its evidence in its *)
(* trajectory.                                                                   *)
LEMMA SubmitCheckpointStep == ASSUME IInv, NEW p \in Proc, SubmitCheckpoint(p) PROVE IInv'
  <1> DEFINE t == proc[p].tx
             c == Checkpoint(p, "Submitted", TRUE)
             c2 == Checkpoint(p, "Submitted", FALSE)
             r == [proc[p] EXCEPT !.pc = "finish", !.own = c]
  <1>1. /\ proc[p].pc = "closing" /\ proc[p] \in Process /\ LocalsOK(proc[p]) /\ t \in Tx
        /\ disk[t] \in Manifest /\ Complete(proc[p].mem) /\ RunTested(p, proc[p], passed[t])
    BY Locals DEF SubmitCheckpoint, At, Active
  <1>2. /\ c \in Trajectory /\ c.by = p /\ c.verified = proc[p].evidence
        /\ c2 \in Trajectory
    BY <1>1, CheckpointType
  <1>3. /\ traj' = [traj EXCEPT ![t] = c2] /\ Become(p, r)
        /\ UNCHANGED <<disk, passed, lock>>
    BY DEF SubmitCheckpoint, history
  <1>. HIDE DEF c, c2
  <1>4. /\ r \in Process /\ r.pc = "finish" /\ r.tx = t /\ r.mem = proc[p].mem
        /\ r.own = c /\ r.evidence = proc[p].evidence
    BY <1>1, <1>2 DEF Process
  <1>5. LocalsOK(r) /\ RunTested(p, r, passed[t])
    BY <1>1, <1>2, <1>4 DEF LocalsOK, RunTested
  <1>6. DiskKept
    BY <1>3, SameDiskKeeps
  <1>7. traj' \in [Tx -> Trajectory \cup {None}]
    BY <1>1, <1>2, <1>3 DEF TypeOK
  <1>. HIDE DEF r, t
  <1>8. Kept
    BY <1>1, <1>3, <1>4, <1>5, <1>6, FreeStep DEF GoodMove
  <1>. QED
    BY <1>7, <1>8 DEF Kept, TypeOK, SubmitCheckpoint, git, history

LEMMA StopStep == ASSUME IInv, NEW p \in Proc, Stop(p) PROVE IInv'
  <1> DEFINE t == proc[p].tx
             c == Checkpoint(p, "Stopped", TRUE)
             r == [proc[p] EXCEPT !.pc = "finish", !.own = c]
  <1>1. /\ proc[p].pc = "model" /\ proc[p] \in Process /\ LocalsOK(proc[p]) /\ t \in Tx
        /\ disk[t] \in Manifest /\ Complete(proc[p].mem) /\ RunTested(p, proc[p], passed[t])
    BY Locals DEF Stop, At, Active
  <1>2. c \in Trajectory /\ c.by = p /\ c.verified = proc[p].evidence
    BY <1>1, CheckpointType
  <1>3. Become(p, r) /\ UNCHANGED <<disk, passed, lock>>
    BY DEF Stop, store, history
  <1>. HIDE DEF c
  <1>4. /\ r \in Process /\ r.pc = "finish" /\ r.tx = t /\ r.mem = proc[p].mem
        /\ r.own = c /\ r.evidence = proc[p].evidence
    BY <1>1, <1>2 DEF Process
  <1>5. LocalsOK(r) /\ RunTested(p, r, passed[t])
    BY <1>1, <1>2, <1>4 DEF LocalsOK, RunTested
  <1>6. DiskKept
    BY <1>3, SameDiskKeeps
  <1>. HIDE DEF r, t
  <1>7. Kept
    BY <1>1, <1>3, <1>4, <1>5, <1>6, FreeStep DEF GoodMove
  <1>. QED
    BY <1>7 DEF Kept, TypeOK, Stop, git, store, history

LEMMA InterruptStep == ASSUME IInv, NEW p \in Proc, Interrupt(p) PROVE IInv'
  <1>1. proc[p].tx \in Tx /\ proc[p].own \in Trajectory
    BY Locals DEF Interrupt, Active, LocalsOK
  <1>2. [proc[p].own EXCEPT !.exit = "Stopped", !.final = FALSE] \in Trajectory
    BY <1>1 DEF Trajectory
  <1>3. traj' \in [Tx -> Trajectory \cup {None}]
    BY <1>1, <1>2 DEF Interrupt, TypeOK
  <1>4. Kept
    BY SameDiskKeeps, ExitStep DEF Interrupt, history
  <1>5. crashes' \in 0 .. MaxCrash
    BY DEF Interrupt, TypeOK
  <1>. QED
    BY <1>3, <1>4, <1>5 DEF Kept, TypeOK, Interrupt, git, history

LEMMA SaveTrajectoryStep == ASSUME IInv, NEW p \in Proc, SaveTrajectory(p) PROVE IInv'
  <1> DEFINE t == proc[p].tx
             r == [proc[p] EXCEPT !.pc = "prepare"]
  <1>1. /\ proc[p].pc = "finish" /\ proc[p] \in Process /\ LocalsOK(proc[p]) /\ t \in Tx
        /\ disk[t] \in Manifest /\ Complete(proc[p].mem) /\ RunTested(p, proc[p], passed[t])
    BY Locals DEF SaveTrajectory, At, Active
  <1>2. /\ r \in Process /\ r.pc = "prepare" /\ r.tx = t /\ r.mem = proc[p].mem
        /\ r.own = proc[p].own /\ r.evidence = proc[p].evidence
    BY <1>1 DEF Process
  <1>3. LocalsOK(r) /\ RunTested(p, r, passed[t])
    BY <1>1, <1>2 DEF LocalsOK, RunTested
  <1>4. DiskKept /\ Become(p, r) /\ UNCHANGED <<disk, passed, lock>>
    BY SameDiskKeeps DEF SaveTrajectory, Goto, history
  <1>5. traj' \in [Tx -> Trajectory \cup {None}]
    BY <1>1 DEF SaveTrajectory, TypeOK, LocalsOK
  <1>. HIDE DEF r, t
  <1>6. Kept
    BY <1>1, <1>2, <1>3, <1>4, FreeStep DEF GoodMove
  <1>. QED
    BY <1>5, <1>6 DEF Kept, TypeOK, SaveTrajectory, git, history

LEMMA PrepareLockStep == ASSUME IInv, NEW p \in Proc, PrepareLock(p) PROVE IInv'
  <1> DEFINE t == proc[p].tx
             r == [proc[p] EXCEPT !.pc = "snapshot", !.mem = disk[t]]
  <1>1. /\ proc[p].pc = "prepare" /\ proc[p] \in Process /\ LocalsOK(proc[p]) /\ t \in Tx
        /\ disk[t] \in Manifest /\ RunTested(p, proc[p], passed[t])
    BY Locals DEF PrepareLock, At, Active
  <1>2. Complete(disk[t]) /\ TestedManifest(disk[t], passed[t])
    BY <1>1 DEF PointsOK, TestedOK, Published
  <1>3. DiskKept /\ UNCHANGED <<disk, passed>>
    BY SameDiskKeeps DEF PrepareLock, store, history
  <1>4. Kept
    <2>1. CASE Exit(p) /\ UNCHANGED lock
      BY <1>3, <2>1, ExitStep
    <2>2. CASE Acquire(p, t) /\ Become(p, r)
      <3>1. /\ r \in Process /\ r.pc = "snapshot" /\ r.tx = t /\ r.mem = disk[t]
            /\ r.own = proc[p].own /\ r.evidence = proc[p].evidence
        BY <1>1 DEF Process
      <3>2. LocalsOK(r) /\ RunTested(p, r, passed[t])
        BY <1>1, <1>2, <3>1 DEF LocalsOK, RunTested
      <3>. HIDE DEF r, t
      <3>. QED
        BY <1>1, <1>2, <1>3, <2>2, <3>1, <3>2, AcquireStep DEF GoodMove
    <2>. QED
      BY <2>1, <2>2 DEF PrepareLock
  <1>. QED
    BY <1>4 DEF Kept, TypeOK, PrepareLock, git, store, history

(* Recording a failure keeps the manifest's earlier evidence. *)
LEMMA PrepareFailsStep ==
    ASSUME IInv, NEW p \in Proc, proc[p].pc \in PreparePoints \ SealPoints,
           NEW failure \in {"no submission", "not bound", "unrepresentable"},
           PrepareFails(p, failure), UNCHANGED passed
    PROVE  Kept
  <1> DEFINE m == [proc[p].mem EXCEPT !.failure = failure]
  <1>1. /\ proc[p].tx \in Tx /\ proc[p].mem \in Manifest /\ Complete(proc[p].mem)
        /\ TestedManifest(proc[p].mem, passed[proc[p].tx])
    BY Locals DEF Active, RunTested
  <1>2. /\ m \in Manifest /\ m.status = proc[p].mem.status /\ m.prepared = proc[p].mem.prepared
        /\ m.expected = proc[p].mem.expected /\ m.patch = proc[p].mem.patch
        /\ m.receipt = proc[p].mem.receipt
    BY <1>1 DEF Manifest
  <1>3. Complete(m) /\ TestedManifest(m, passed[proc[p].tx])
    BY <1>1, <1>2 DEF Complete, TestedManifest
  <1>4. Save(proc[p].tx, m) /\ Refuse(p)
    BY DEF PrepareFails
  <1>. HIDE DEF m
  <1>5. DiskKept
    BY <1>1, <1>2, <1>3, <1>4, SaveKeeps
  <1>. QED
    BY <1>4, <1>5, RefuseStep

(* The first snapshot must be the content that the trajectory verified. *)
LEMMA PrepareSnapshotStep == ASSUME IInv, NEW p \in Proc, PrepareSnapshot(p) PROVE IInv'
  <1> DEFINE t == proc[p].tx
             r == [proc[p] EXCEPT !.pc = "content", !.snap = worktree[t]]
  <1>1. /\ proc[p].pc = "snapshot" /\ proc[p] \in Process /\ LocalsOK(proc[p]) /\ t \in Tx
        /\ disk[t] \in Manifest /\ Complete(proc[p].mem) /\ RunTested(p, proc[p], passed[t])
    BY Locals DEF PrepareSnapshot, At, Active
  <1>2. UNCHANGED passed
    BY DEF PrepareSnapshot, history
  <1>3. Kept
    <2>1. CASE Refuse(p) /\ UNCHANGED disk
      BY <1>1, <1>2, <2>1, SameDiskKeeps, RefuseStep
    <2>2. CASE PrepareFails(p, "no submission") \/ PrepareFails(p, "not bound")
      BY <1>1, <1>2, <2>2, PrepareFailsStep
    <2>3. CASE /\ worktree[t] # None /\ Bound(proc[p].own, worktree[t])
               /\ Become(p, r) /\ UNCHANGED <<disk, lock>>
      <3>1. worktree[t] \in Content /\ proc[p].own.verified = worktree[t]
        BY <1>1, <2>3 DEF TypeOK, Bound
      <3>2. /\ r \in Process /\ r.pc = "content" /\ r.tx = t /\ r.mem = proc[p].mem
            /\ r.own = proc[p].own /\ r.evidence = proc[p].evidence
            /\ r.snap = worktree[t]
        BY <1>1, <3>1 DEF Process
      <3>3. LocalsOK(r) /\ RunTested(p, r, passed[t])
        BY <1>1, <3>1, <3>2 DEF LocalsOK, RunTested
      <3>4. DiskKept
        BY <2>3, SameDiskKeeps
      <3>. HIDE DEF r
      <3>. QED
        BY <1>1, <1>2, <2>3, <3>2, <3>3, <3>4, HoldStep DEF GoodMove
    <2>. QED
      BY <2>1, <2>2, <2>3 DEF PrepareSnapshot
  <1>. QED
    BY <1>3 DEF Kept, TypeOK, PrepareSnapshot, git, history

LEMMA PrepareContentStep == ASSUME IInv, NEW p \in Proc, PrepareContent(p) PROVE IInv'
  <1> DEFINE t == proc[p].tx
             r == [proc[p] EXCEPT !.pc = "diff", !.body = worktree[t]]
  <1>1. /\ proc[p].pc = "content" /\ proc[p] \in Process /\ LocalsOK(proc[p]) /\ t \in Tx
        /\ disk[t] \in Manifest /\ Complete(proc[p].mem) /\ RunTested(p, proc[p], passed[t])
    BY Locals DEF PrepareContent, At, Active
  <1>2. DiskKept /\ UNCHANGED <<disk, passed>>
    BY SameDiskKeeps DEF PrepareContent, store, history
  <1>3. Kept
    <2>1. CASE Refuse(p)
      BY <1>1, <1>2, <2>1, RefuseStep
    <2>2. CASE worktree[t] # None /\ Become(p, r) /\ UNCHANGED lock
      <3>1. worktree[t] \in Content
        BY <1>1, <2>2 DEF TypeOK
      <3>2. /\ r \in Process /\ r.pc = "diff" /\ r.tx = t /\ r.mem = proc[p].mem
            /\ r.own = proc[p].own /\ r.evidence = proc[p].evidence
            /\ r.snap = proc[p].snap /\ r.body = worktree[t]
        BY <1>1, <3>1 DEF Process
      <3>3. LocalsOK(r) /\ RunTested(p, r, passed[t])
        BY <1>1, <3>1, <3>2 DEF LocalsOK, RunTested
      <3>. HIDE DEF r
      <3>. QED
        BY <1>1, <1>2, <2>2, <3>2, <3>3, HoldStep DEF GoodMove
    <2>. QED
      BY <2>1, <2>2 DEF PrepareContent
  <1>. QED
    BY <1>3 DEF Kept, TypeOK, PrepareContent, git, store, history

(* The names of the changed files only decide whether prepare goes on. *)
LEMMA PrepareNamesStep == ASSUME IInv, NEW p \in Proc, PrepareNames(p) PROVE IInv'
  <1> DEFINE t == proc[p].tx
             r == [proc[p] EXCEPT !.pc = "patch"]
  <1>1. /\ proc[p].pc = "diff" /\ proc[p] \in Process /\ LocalsOK(proc[p]) /\ t \in Tx
        /\ disk[t] \in Manifest /\ Complete(proc[p].mem) /\ RunTested(p, proc[p], passed[t])
    BY Locals DEF PrepareNames, At, Active
  <1>2. UNCHANGED passed
    BY DEF PrepareNames, history
  <1>3. Kept
    <2>1. CASE Refuse(p) /\ UNCHANGED disk
      BY <1>1, <1>2, <2>1, SameDiskKeeps, RefuseStep
    <2>2. CASE PrepareFails(p, "unrepresentable")
      BY <1>1, <1>2, <2>2, PrepareFailsStep
    <2>3. CASE Become(p, r) /\ UNCHANGED <<disk, lock>>
      <3>1. /\ r \in Process /\ r.pc = "patch" /\ r.tx = t /\ r.mem = proc[p].mem
            /\ r.own = proc[p].own /\ r.evidence = proc[p].evidence
            /\ r.snap = proc[p].snap /\ r.body = proc[p].body
        BY <1>1 DEF Process
      <3>2. LocalsOK(r) /\ RunTested(p, r, passed[t])
        BY <1>1, <3>1 DEF LocalsOK, RunTested
      <3>3. DiskKept
        BY <2>3, SameDiskKeeps
      <3>. HIDE DEF r
      <3>. QED
        BY <1>1, <1>2, <2>3, <3>1, <3>2, <3>3, HoldStep DEF GoodMove
    <2>. QED
      BY <2>1, <2>2, <2>3 DEF PrepareNames, Goto
  <1>. QED
    BY <1>3 DEF Kept, TypeOK, PrepareNames, git, history

(* The manifest that prepare fills in names its first snapshot, which the run tested. *)
LEMMA PreparePatchStep == ASSUME IInv, NEW p \in Proc, PreparePatch(p) PROVE IInv'
  <1> DEFINE t == proc[p].tx
             m == proc[p].mem
             patch == PatchOf(m.commit.tree, worktree[t])
             done == PreparedManifest(p, patch)
             r == [proc[p] EXCEPT !.pc = "evidence", !.mem = done]
  <1>1. /\ proc[p].pc = "patch" /\ proc[p] \in Process /\ LocalsOK(proc[p]) /\ t \in Tx
        /\ disk[t] \in Manifest /\ m \in Manifest /\ Complete(m)
        /\ RunTested(p, proc[p], passed[t])
    BY Locals DEF PreparePatch, At, Active
  <1>2. UNCHANGED passed
    BY DEF PreparePatch, history
  <1>3. Kept /\ patchFile' \in [Tx -> Patch \cup {None}]
    <2>1. CASE Refuse(p) /\ UNCHANGED <<disk, patchFile>>
      BY <1>1, <1>2, <2>1, SameDiskKeeps, RefuseStep DEF TypeOK
    <2>2. CASE /\ worktree[t] # None
               /\ patchFile' = [patchFile EXCEPT ![t] = patch]
               /\ Become(p, r) /\ UNCHANGED <<disk, lock>>
      <3>1. patch \in Patch
        <4>1. m.commit.tree \in Tree
          BY <1>1 DEF Manifest, Commit
        <4>2. worktree[t] \in Snapshot
          BY <1>1, <2>2 DEF TypeOK, Content
        <4>. QED
          BY ONLY <4>1, <4>2, PatchType
      <3>2. /\ Projected(m.base, m.wsBase, proc[p].body) \in Snapshot
            /\ proc[p].snap \in Content
        BY <1>1, ProjectedType DEF Manifest, Content, LocalsOK
      <3>3. patchFile' \in [Tx -> Patch \cup {None}]
        BY <1>1, <2>2, <3>1 DEF TypeOK
      <3>. HIDE DEF patch
      <3>4. /\ done \in Manifest /\ Complete(done)
            /\ done.prepared = proc[p].snap /\ done.patch = patch
            /\ done.expected = Projected(m.base, m.wsBase, proc[p].body)
        BY <1>1, <3>1, <3>2 DEF PreparedManifest, Manifest, Complete
      <3>. HIDE DEF done
      <3>5. /\ r \in Process /\ r.pc = "evidence" /\ r.tx = t /\ r.mem = done
            /\ r.own = proc[p].own /\ r.evidence = proc[p].evidence
            /\ r.snap = proc[p].snap /\ r.body = proc[p].body
        BY <1>1, <3>4 DEF Process
      <3>6. LocalsOK(r) /\ RunTested(p, r, passed[t])
        BY <1>1, <3>1, <3>2, <3>4, <3>5 DEF LocalsOK, RunTested
      <3>7. DiskKept
        BY <2>2, SameDiskKeeps
      <3>. HIDE DEF r
      <3>8. Kept
        BY <1>1, <1>2, <2>2, <3>4, <3>5, <3>6, <3>7, HoldStep DEF GoodMove
      <3>. QED
        BY <3>3, <3>8
    <2>. QED
      BY <2>1, <2>2 DEF PreparePatch, AfterPatch
  <1>. QED
    BY <1>3 DEF Kept, TypeOK, PreparePatch, git, history

LEMMA PrepareTrajectoryStep == ASSUME IInv, NEW p \in Proc, PrepareTrajectory(p) PROVE IInv'
  <1> DEFINE t == proc[p].tx
             r == [proc[p] EXCEPT !.pc = "receipt"]
  <1>1. /\ proc[p].pc = "evidence" /\ proc[p] \in Process /\ LocalsOK(proc[p]) /\ t \in Tx
        /\ disk[t] \in Manifest /\ Complete(proc[p].mem) /\ RunTested(p, proc[p], passed[t])
    BY Locals DEF PrepareTrajectory, At, Active
  <1>2. /\ r \in Process /\ r.pc = "receipt" /\ r.tx = t /\ r.mem = proc[p].mem
        /\ r.own = proc[p].own /\ r.evidence = proc[p].evidence
        /\ r.snap = proc[p].snap /\ r.body = proc[p].body
    BY <1>1 DEF Process
  <1>3. LocalsOK(r) /\ RunTested(p, r, passed[t])
    BY <1>1, <1>2 DEF LocalsOK, RunTested
  <1>4. DiskKept /\ Become(p, r) /\ UNCHANGED <<disk, passed, lock>>
    BY SameDiskKeeps DEF PrepareTrajectory, Goto, history
  <1>5. traj' \in [Tx -> Trajectory \cup {None}]
    BY <1>1 DEF PrepareTrajectory, TypeOK, LocalsOK
  <1>. HIDE DEF r
  <1>6. Kept
    BY <1>1, <1>2, <1>3, <1>4, HoldStep DEF GoodMove
  <1>. QED
    BY <1>5, <1>6 DEF Kept, TypeOK, PrepareTrajectory, git, history

(* The receipt names the run that prepared, so the manifest's evidence is that run's. *)
LEMMA PrepareReceiptStep == ASSUME IInv, NEW p \in Proc, PrepareReceipt(p) PROVE IInv'
  <1> DEFINE t == proc[p].tx
             m == proc[p].mem
             receipt == ReceiptOf(m, proc[p].own)
             done == [m EXCEPT !.receipt = receipt]
             r == [proc[p] EXCEPT !.pc = "seal", !.mem = done]
  <1>1. /\ proc[p].pc = "receipt" /\ proc[p] \in Process /\ LocalsOK(proc[p]) /\ t \in Tx
        /\ disk[t] \in Manifest /\ m \in Manifest /\ Complete(m)
        /\ RunTested(p, proc[p], passed[t])
    BY Locals DEF PrepareReceipt, At, Active
  <1>2. /\ m.prepared \in Content /\ m.expected \in Snapshot /\ m.patch \in Patch
        /\ proc[p].own \in Trajectory
    BY <1>1 DEF LocalsOK
  <1>3. receipt \in Receipt /\ receipt.trajectory = proc[p].own
    BY <1>1, <1>2 DEF ReceiptOf, Receipt, Manifest
  <1>4. /\ receiptFile' = [receiptFile EXCEPT ![t] = receipt]
        /\ Become(p, [proc[p] EXCEPT !.pc = "seal", !.mem.receipt = receipt])
        /\ UNCHANGED <<disk, passed, lock>>
    BY DEF PrepareReceipt, history
  <1>. HIDE DEF receipt
  <1>5. [proc[p] EXCEPT !.pc = "seal", !.mem.receipt = receipt] = r
    BY <1>1 DEF Process
  <1>6. /\ done \in Manifest /\ Complete(done) /\ done.receipt = receipt
        /\ done.prepared = m.prepared /\ done.expected = m.expected /\ done.patch = m.patch
    BY <1>1, <1>3 DEF Manifest, Complete
  <1>7. TestedManifest(done, passed[t])
    <2>1. /\ proc[p].own.by = p /\ m.prepared = proc[p].own.verified
          /\ m.prepared # None
          /\ [by |-> p, body |-> proc[p].own.verified] \in passed[t]
      BY <1>1, <1>2 DEF RunTested, Content
    <2>. HIDE DEF done
    <2>. QED
      BY <1>3, <1>6, <2>1 DEF TestedManifest
  <1>. HIDE DEF done
  <1>8. /\ r \in Process /\ r.pc = "seal" /\ r.tx = t /\ r.mem = done
        /\ r.own = proc[p].own /\ r.evidence = proc[p].evidence
        /\ r.snap = proc[p].snap /\ r.body = proc[p].body
    BY <1>1, <1>6 DEF Process
  <1>9. LocalsOK(r) /\ RunTested(p, r, passed[t])
    BY <1>1, <1>2, <1>6, <1>7, <1>8 DEF LocalsOK, RunTested
  <1>10. DiskKept
    BY <1>4, SameDiskKeeps
  <1>11. receiptFile' \in [Tx -> Receipt \cup {None}]
    BY <1>1, <1>3, <1>4 DEF TypeOK
  <1>12. Become(p, r)
    BY <1>4, <1>5
  <1>. HIDE DEF r
  <1>13. Kept
    BY <1>1, <1>4, <1>6, <1>8, <1>9, <1>10, <1>12, HoldStep DEF GoodMove
  <1>. QED
    BY <1>11, <1>13 DEF Kept, TypeOK, PrepareReceipt, git, history

LEMMA PrepareSealStep == ASSUME IInv, NEW p \in Proc, PrepareSeal(p) PROVE IInv'
  <1>1. /\ proc[p].tx \in Tx /\ proc[p].mem \in Manifest /\ Complete(proc[p].mem)
        /\ proc[p].pc = "seal" /\ TestedManifest(proc[p].mem, passed[proc[p].tx])
    BY Locals DEF PrepareSeal, At, Active, RunTested
  <1>2. DiskKept /\ UNCHANGED passed
    BY <1>1, SaveKeeps DEF PrepareSeal, history
  <1>3. Kept
    BY <1>1, <1>2, RefuseStep DEF PrepareSeal
  <1>. QED
    BY <1>3 DEF Kept, TypeOK, PrepareSeal, git, history

LEMMA CommitLockStep ==
    ASSUME IInv, NEW p \in Proc, NEW t \in Tx, CommitLock(p, t) PROVE IInv'
  <1>1. /\ disk[t] \in Manifest /\ Complete(disk[t]) /\ disk[t].status = "prepared"
        /\ TestedManifest(disk[t], passed[t])
    BY DEF CommitLock, TypeOK, PointsOK, TestedOK, Published
  <1> DEFINE b == Fresh("check")
             r == [b EXCEPT !.tx = t, !.mem = disk[t]]
  <1>2. Become(p, r)
    BY DEF CommitLock
  <1>3. b \in Process /\ b.pc = "check" /\ b.evidence = None
    BY FreshType
  <1>. HIDE DEF b
  <1>4. /\ r \in Process /\ r.pc = "check" /\ r.tx = t /\ r.mem = disk[t]
        /\ r.evidence = None
    <2> DEFINE Txs == Tx \cup {None}
               Manifests == Manifest \cup {None}
               Trajectories == Trajectory \cup {None}
    <2>1. t \in Txs /\ disk[t] \in Manifests
      BY <1>1
    <2> DEFINE Contents == Content \cup {None}
               Calls == 0 .. MaxCalls
               Processes == [pc : Points, tx : Txs, mem : Manifests, evidence : Contents,
                             calls : Calls, own : Trajectories, snap : Contents, body : Contents]
    <2>2. Process = Processes
      BY DEF Process
    <2> HIDE DEF Txs, Manifests, Trajectories, Contents, Calls
    <2>. QED
      BY ONLY <1>3, <2>1, <2>2
  <1>5. LocalsOK(r) /\ RunTested(p, r, passed[t])
    BY <1>1, <1>4 DEF LocalsOK, RunTested, Complete
  <1>6. DiskKept /\ UNCHANGED <<disk, passed>> /\ Acquire(p, t)
    BY SameDiskKeeps DEF CommitLock, store, history
  <1>. HIDE DEF r
  <1>7. Kept
    BY <1>1, <1>2, <1>4, <1>5, <1>6, AcquireStep DEF GoodMove
  <1>. QED
    BY <1>7 DEF Kept, TypeOK, CommitLock, git, store, history

LEMMA CommitCheckStep == ASSUME IInv, NEW p \in Proc, CommitCheck(p) PROVE IInv'
  <1> DEFINE r == [proc[p] EXCEPT !.pc = "apply"]
  <1>1. /\ proc[p].pc = "check" /\ proc[p] \in Process /\ LocalsOK(proc[p])
        /\ proc[p].tx \in Tx /\ disk[proc[p].tx] \in Manifest
        /\ Complete(proc[p].mem) /\ RunTested(p, proc[p], passed[proc[p].tx])
    BY Locals DEF CommitCheck, At, Active
  <1>2. DiskKept /\ UNCHANGED <<disk, passed>>
    BY SameDiskKeeps DEF CommitCheck, store, history
  <1>3. Kept
    <2>1. CASE Refuse(p)
      BY <1>1, <1>2, <2>1, RefuseStep
    <2>2. CASE Become(p, r) /\ UNCHANGED lock
      <3>1. /\ r \in Process /\ r.pc = "apply" /\ r.tx = proc[p].tx /\ r.mem = proc[p].mem
            /\ r.evidence = proc[p].evidence
        BY <1>1 DEF Process
      <3>2. LocalsOK(r) /\ RunTested(p, r, passed[proc[p].tx])
        BY <1>1, <3>1 DEF LocalsOK, RunTested
      <3>. HIDE DEF r
      <3>. QED
        BY <1>1, <1>2, <2>2, <3>1, <3>2, HoldStep DEF GoodMove
    <2>. QED
      BY <2>1, <2>2 DEF CommitCheck, Goto
  <1>. QED
    BY <1>3 DEF Kept, TypeOK, CommitCheck, git, store, history

(* What commit writes to the source is recorded with its type. *)
LEMMA ApplicationType ==
    ASSUME TypeOK, NEW m \in Manifest, m.prepared \in Content, m.patch \in Patch,
           NEW t \in Tx, NEW c \in Content
    PROVE  [tx |-> t, before |-> source, after |-> c, prepared |-> m.prepared,
            patch |-> m.patch] \in Application
  BY DEF Application, TypeOK

LEMMA CommitApplyStep == ASSUME IInv, NEW p \in Proc, CommitApply(p) PROVE IInv'
  <1> DEFINE r == [proc[p] EXCEPT !.pc = "verify"]
             m == proc[p].mem
             a(c) == [tx |-> proc[p].tx, before |-> source, after |-> c,
                      prepared |-> m.prepared, patch |-> m.patch]
  <1>1. /\ proc[p].pc = "apply" /\ proc[p] \in Process /\ LocalsOK(proc[p])
        /\ proc[p].tx \in Tx /\ disk[proc[p].tx] \in Manifest
        /\ m \in Manifest /\ Complete(m) /\ RunTested(p, proc[p], passed[proc[p].tx])
    BY Locals DEF CommitApply, At, Active
  <1>2. m.prepared \in Content /\ m.patch \in Patch
    BY <1>1 DEF LocalsOK
  <1>3. DiskKept /\ UNCHANGED <<disk, passed>>
    BY SameDiskKeeps DEF CommitApply, store
  <1>4. Kept /\ source' \in Content /\ applied' \subseteq Application
    <2>1. CASE Refuse(p) /\ UNCHANGED <<source, applied>>
      BY <1>1, <1>3, <2>1, RefuseStep DEF TypeOK
    <2>2. CASE \E c \in ApplyOutcomes(m.patch, source) :
                 /\ source' = c /\ applied' = applied \cup {a(c)}
                 /\ Become(p, r) /\ UNCHANGED lock
      <3>1. PICK c \in ApplyOutcomes(m.patch, source) :
                 /\ source' = c /\ applied' = applied \cup {a(c)}
                 /\ Become(p, r) /\ UNCHANGED lock
        BY <2>2
      <3>2. c \in Content
        BY <1>2, OutcomesType DEF TypeOK
      <3>3. a(c) \in Application
        BY <1>1, <1>2, <3>2, ApplicationType
      <3>4. applied' \subseteq Application
        BY <3>1, <3>3 DEF TypeOK
      <3>5. /\ r \in Process /\ r.pc = "verify" /\ r.tx = proc[p].tx /\ r.mem = m
            /\ r.evidence = proc[p].evidence
        BY <1>1 DEF Process
      <3>6. LocalsOK(r) /\ RunTested(p, r, passed[proc[p].tx])
        BY <1>1, <3>5 DEF LocalsOK, RunTested
      <3>. HIDE DEF r
      <3>7. Kept
        BY <1>1, <1>3, <3>1, <3>5, <3>6, HoldStep DEF GoodMove
      <3>. QED
        BY <3>1, <3>2, <3>4, <3>7
    <2>. QED
      BY <2>1, <2>2 DEF CommitApply, Goto
  <1>. QED
    BY <1>4 DEF Kept, TypeOK, CommitApply, store

LEMMA CommitTornStep == ASSUME IInv, NEW p \in Proc, CommitTorn(p) PROVE IInv'
  <1> DEFINE m == proc[p].mem
  <1>1. proc[p].pc = "apply" /\ LocalsOK(proc[p]) /\ proc[p].tx \in Tx /\ m \in Manifest
    BY Locals DEF CommitTorn, At, Active
  <1>2. m.prepared \in Content /\ m.patch \in Patch
    BY <1>1 DEF LocalsOK
  <1>3. PICK S \in SUBSET DOMAIN m.patch :
          /\ source' = ApplyPart(m.patch, S, source)
          /\ applied' = applied \cup
               {[tx |-> proc[p].tx, before |-> source, after |-> source',
                 prepared |-> m.prepared, patch |-> m.patch]}
    BY DEF CommitTorn
  <1>4. source' \in Content
    BY <1>2, <1>3, ApplyPartType DEF TypeOK
  <1>5. applied' \subseteq Application
    BY <1>1, <1>2, <1>3, <1>4, ApplicationType DEF TypeOK
  <1>6. Kept
    BY <1>1, SameDiskKeeps, RefuseStep DEF CommitTorn, store
  <1>7. crashes' \in 0 .. MaxCrash
    BY DEF CommitTorn, TypeOK
  <1>. QED
    BY <1>4, <1>5, <1>6, <1>7 DEF Kept, TypeOK, CommitTorn, store

(* Commit goes on with the source in which it found what prepare projected. *)
LEMMA CommitVerifyStep == ASSUME IInv, NEW p \in Proc, CommitVerify(p) PROVE IInv'
  <1> DEFINE t == proc[p].tx
             r == [proc[p] EXCEPT !.pc = "mark", !.body = source]
  <1>1. /\ proc[p].pc = "verify" /\ proc[p] \in Process /\ LocalsOK(proc[p]) /\ t \in Tx
        /\ disk[t] \in Manifest /\ Complete(proc[p].mem) /\ RunTested(p, proc[p], passed[t])
        /\ source \in Content
    BY Locals DEF CommitVerify, At, Active, TypeOK
  <1>2. DiskKept /\ UNCHANGED <<disk, passed>>
    BY SameDiskKeeps DEF CommitVerify, store, history
  <1>3. Kept
    <2>1. CASE Refuse(p)
      BY <1>1, <1>2, <2>1, RefuseStep
    <2>2. CASE Become(p, r) /\ UNCHANGED lock
      <3>1. /\ r \in Process /\ r.pc = "mark" /\ r.tx = t /\ r.mem = proc[p].mem
            /\ r.evidence = proc[p].evidence /\ r.body = source
        BY <1>1 DEF Process
      <3>2. LocalsOK(r) /\ RunTested(p, r, passed[t])
        BY <1>1, <3>1 DEF LocalsOK, RunTested
      <3>. HIDE DEF r
      <3>. QED
        BY <1>1, <1>2, <2>2, <3>1, <3>2, HoldStep DEF GoodMove
    <2>. QED
      BY <2>1, <2>2 DEF CommitVerify
  <1>. QED
    BY <1>3 DEF Kept, TypeOK, CommitVerify, git, store, history

(* The manifest that commit marks still names what was tested. *)
LEMMA CommitMarkStep == ASSUME IInv, NEW p \in Proc, CommitMark(p) PROVE IInv'
  <1> DEFINE t == proc[p].tx
             m == [proc[p].mem EXCEPT !.status = "committed"]
             r == [proc[p] EXCEPT !.pc = "remove"]
  <1>1. /\ proc[p].pc = "mark" /\ proc[p] \in Process /\ LocalsOK(proc[p]) /\ t \in Tx
        /\ proc[p].mem \in Manifest /\ Complete(proc[p].mem)
        /\ RunTested(p, proc[p], passed[t])
    BY Locals DEF CommitMark, At, Active
  <1>2. Save(t, m) /\ Release(t) /\ Become(p, r) /\ UNCHANGED passed
    BY DEF CommitMark, Goto, history
  <1>3. /\ m \in Manifest /\ m.prepared = proc[p].mem.prepared
        /\ m.expected = proc[p].mem.expected /\ m.patch = proc[p].mem.patch
        /\ m.receipt = proc[p].mem.receipt
    BY <1>1 DEF Manifest
  <1>4. Complete(m) /\ TestedManifest(m, passed[t])
    BY <1>1, <1>3 DEF Complete, LocalsOK, RunTested, TestedManifest
  <1>5. /\ r \in Process /\ r.pc = "remove" /\ r.tx = t /\ r.mem = proc[p].mem
        /\ r.evidence = proc[p].evidence
    BY <1>1 DEF Process
  <1>6. LocalsOK(r) /\ RunTested(p, r, passed[t])
    BY <1>1, <1>5 DEF LocalsOK, RunTested
  <1>. HIDE DEF m, r
  <1>7. DiskKept /\ disk'[t] = m
    BY <1>1, <1>2, <1>3, <1>4, SaveKeeps
  <1>8. Kept
    BY <1>1, <1>2, <1>3, <1>5, <1>6, <1>7, ReleaseStep DEF GoodMove
  <1>. QED
    BY <1>8 DEF Kept, TypeOK, CommitMark, git, history

LEMMA AbortStep == ASSUME IInv, NEW p \in Proc, NEW t \in Tx, Abort(p, t) PROVE IInv'
  <1> DEFINE m == [disk[t] EXCEPT !.status = "aborted"]
             b == Fresh("remove")
             r == [b EXCEPT !.tx = t]
  <1>1. disk[t] \in Manifest /\ TestedManifest(disk[t], passed[t])
    BY DEF Abort, TypeOK, TestedOK, Published
  <1>2. /\ m \in Manifest /\ m.status = "aborted" /\ m.prepared = disk[t].prepared
        /\ m.receipt = disk[t].receipt
    BY <1>1 DEF Manifest
  <1>3. Complete(m) /\ TestedManifest(m, passed[t])
    BY <1>1, <1>2 DEF Complete, TestedManifest
  <1>4. Save(t, m) /\ Become(p, r) /\ UNCHANGED <<passed, lock>>
    BY DEF Abort, history
  <1>5. b \in Process /\ b.pc = "remove" /\ b.mem = None /\ b.evidence = None
    BY FreshType
  <1>. HIDE DEF b, m
  <1>6. /\ r \in Process /\ r.pc = "remove" /\ r.tx = t /\ r.mem = None /\ r.evidence = None
    BY <1>5 DEF Process
  <1>7. LocalsOK(r) /\ RunTested(p, r, passed[t])
    BY <1>6 DEF LocalsOK, RunTested
  <1>. HIDE DEF r
  <1>8. DiskKept /\ disk'[t] = m
    BY <1>2, <1>3, <1>4, SaveKeeps
  <1>9. Kept
    BY <1>2, <1>4, <1>6, <1>7, <1>8, FreeStep DEF GoodMove
  <1>. QED
    BY <1>9 DEF Kept, TypeOK, Abort, git, history

LEMMA RemoveWorktreeStep == ASSUME IInv, NEW p \in Proc, RemoveWorktree(p) PROVE IInv'
  <1>1. Kept
    BY SameDiskKeeps, ExitStep DEF RemoveWorktree, history
  <1>2. worktree' \in [Tx -> Content \cup {None}]
    BY DEF RemoveWorktree, TypeOK
  <1>. QED
    BY <1>1, <1>2 DEF Kept, TypeOK, RemoveWorktree, git, history

(* The user, other writers and crashes do not touch a manifest. *)
LEMMA EnvironmentStep ==
    ASSUME IInv, UserEdit \/ UserCommit \/ (\E t \in Tx : WorktreeEdit(t)) PROVE IInv'
  <1>1. PointsOK' /\ LockExclusive' /\ TestedOK'
    BY DEF UserEdit, UserCommit, WorktreeEdit, store, history, PointsOK, LockExclusive,
           TestedOK, Published, Active
  <1>2. userSteps' \in 0 .. MaxUser
    BY DEF UserEdit, UserCommit, WorktreeEdit, TypeOK
  <1>3. CASE UserEdit
    <2>1. source' \in Content
      BY <1>3 DEF UserEdit
    <2>. QED
      BY <1>1, <1>2, <1>3, <2>1 DEF TypeOK, UserEdit, store, history
  <1>4. CASE UserCommit
    <2>1. head.id + 1 \in Nat /\ Tracked(source) \in Tree
      BY TrackedType DEF TypeOK, Commit, Content
    <2>2. head' \in Commit
      BY <1>4, <2>1 DEF UserCommit, Commit
    <2>. QED
      BY <1>1, <1>2, <1>4, <2>2 DEF TypeOK, UserCommit, store, history
  <1>5. ASSUME NEW t \in Tx, WorktreeEdit(t) PROVE IInv'
    <2>1. worktree' \in [Tx -> Content \cup {None}]
      BY <1>5 DEF WorktreeEdit, TypeOK
    <2>. QED
      BY <1>1, <1>2, <1>5, <2>1 DEF TypeOK, WorktreeEdit, git, history
  <1>. QED
    BY <1>3, <1>4, <1>5

(* A dead process holds no lock, and the others keep theirs. *)
LEMMA CrashStep == ASSUME IInv, NEW p \in Proc, Crash(p) PROVE IInv'
  <1>1. DiskKept /\ UNCHANGED <<disk, passed>> /\ Exit(p)
    BY SameDiskKeeps DEF Crash, store, history
  <1>2. proc' \in [Proc -> Process] /\ Moves(p, Fresh("done")) /\ PointsOK' /\ TestedOK'
    BY <1>1, ExitMove, StepKeeps
  <1>3. lock' \in [Tx -> Proc \cup {None}]
    BY DEF Crash, TypeOK
  <1>4. ASSUME NEW q \in Proc \ {p}, proc[q].pc \in LockedPoints
        PROVE  lock'[proc[q].tx] = q
    <2>1. proc[q].tx \in Tx /\ lock[proc[q].tx] = q
      BY <1>4, Locals DEF Active, LockExclusive
    <2>. QED
      BY <2>1 DEF Crash
  <1>5. LockExclusive'
    BY <1>2, <1>4, FreshType DEF LockExclusive, Moves
  <1>6. crashes' \in 0 .. MaxCrash
    BY DEF Crash, TypeOK
  <1>. QED
    BY <1>2, <1>3, <1>5, <1>6 DEF TypeOK, Crash, git, store, history

----------------------------------------------------------------------------
(* The theorems. *)

(* In the initial state nothing is published and nothing runs. *)
LEMMA InitInv == Init => IInv
  <1> SUFFICES ASSUME Init PROVE IInv
    OBVIOUS
  <1>1. proc \in [Proc -> Process] /\ \A p \in Proc : proc[p] = Fresh("ready")
    BY FreshType DEF Init
  <1>2. \A p \in Proc : proc[p].pc = "ready" /\ proc[p].mem = None
    BY <1>1, FreshType
  <1>3. source \in Content
    BY DEF Init
  <1>4. Tracked(source) \in Tree
    BY <1>3, TrackedType DEF Content
  <1>5. head \in Commit
    BY <1>4 DEF Init, Commit
  <1>6. TypeOK
    BY <1>1, <1>3, <1>5 DEF TypeOK, Init
  <1>7. PointsOK
    BY <1>2 DEF PointsOK, LocalsOK, Published, Init
  <1>8. LockExclusive /\ TestedOK
    BY <1>2 DEF LockExclusive, TestedOK, Published, Active, Init
  <1>. QED
    BY <1>6, <1>7, <1>8

LEMMA NextInv == IInv /\ [Next]_vars => IInv'
  <1> SUFFICES ASSUME IInv, [Next]_vars PROVE IInv'
    OBVIOUS
  <1>. HIDE DEF IInv
  <1>1. CASE UNCHANGED vars
    BY <1>1 DEF IInv, vars, TypeOK, PointsOK, LockExclusive, TestedOK, Published, Active
  <1>2. ASSUME NEW p \in Proc, Command(p) PROVE IInv'
    BY <1>2, BeginStep, ResumeStep, CommitLockStep, AbortStep DEF Command
  <1>3. ASSUME NEW p \in Proc, Creating(p) PROVE IInv'
    BY <1>3, AddWorktreeStep, PublishStep DEF Creating
  <1>4. ASSUME NEW p \in Proc, Running(p) PROVE IInv'
    BY <1>4, RestoreStep, SaveCheckpointStep, LoggingStep, ToolEditsStep, ToolPassesStep,
       ToolFailsStep, SubmitCheckpointStep, StopStep, SaveTrajectoryStep DEF Running
  <1>5. ASSUME NEW p \in Proc, Preparing(p) PROVE IInv'
    BY <1>5, PrepareLockStep, PrepareSnapshotStep, PrepareContentStep, PrepareNamesStep,
       PreparePatchStep, PrepareTrajectoryStep, PrepareReceiptStep, PrepareSealStep DEF Preparing
  <1>6. ASSUME NEW p \in Proc, Committing(p) PROVE IInv'
    BY <1>6, CommitCheckStep, CommitApplyStep, CommitVerifyStep, CommitMarkStep,
       RemoveWorktreeStep DEF Committing
  <1>7. ASSUME NEW p \in Proc, Failure(p) PROVE IInv'
    BY <1>7, InterruptStep, CommitTornStep, CrashStep DEF Failure
  <1>8. CASE UserEdit \/ UserCommit \/ (\E t \in Tx : WorktreeEdit(t))
    BY <1>8, EnvironmentStep
  <1>. QED
    BY <1>1, <1>2, <1>3, <1>4, <1>5, <1>6, <1>7, <1>8 DEF Next, Proceed

LEMMA Invariant == Spec => []IInv
  BY InitInv, NextInv, PTL DEF Spec

(* Whatever runs, crashes or interferes, every variable keeps its type: every *)
(* manifest, trajectory, patch and receipt on disk is a whole one.            *)
THEOREM TypeCorrect == Spec => []TypeOK
  <1>1. IInv => TypeOK
    OBVIOUS
  <1>. QED
    BY <1>1, Invariant, PTL

(* Prepare and commit of one transaction never interleave: whoever is between *)
(* the locked reads and writes of a transaction holds its lock, for any       *)
(* number of concurrent invocations and crashes.                              *)
THEOREM MutualExclusion == Spec => []LockExclusive
  <1>1. IInv => LockExclusive
    OBVIOUS
  <1>. QED
    BY <1>1, Invariant, PTL

(* No manifest ever names a prepared content on which the checks did not pass *)
(* in the run that its receipt names, whatever contents, tools, overlapping   *)
(* commands, foreign writers and crashes there are.                           *)
THEOREM OnlyTestedIsPrepared == Spec => []PreparedWasTested
  <1>1. IInv => PreparedWasTested
    BY DEF TestedOK, TestedManifest, PreparedWasTested
  <1>. QED
    BY <1>1, Invariant, PTL

----------------------------------------------------------------------------
(* Commands on one transaction one after the other. *)

USE DEF OpenPoints, SamePoints, WrotePoints

(* The step writes to no directory but that of t. *)
Alters(t) ==
    /\ UNCHANGED disk \/ \E x : disk' = [disk EXCEPT ![t] = x]
    /\ UNCHANGED worktree \/ \E x : worktree' = [worktree EXCEPT ![t] = x]
    /\ UNCHANGED traj \/ \E x : traj' = [traj EXCEPT ![t] = x]
    /\ UNCHANGED patchFile \/ \E x : patchFile' = [patchFile EXCEPT ![t] = x]
    /\ UNCHANGED receiptFile \/ \E x : receiptFile' = [receiptFile EXCEPT ![t] = x]
    /\ UNCHANGED edited \/ \E x : edited' = [edited EXCEPT ![t] = x]

LEMMA AltersOnly ==
    ASSUME TypeOK, NEW t \in Tx, Alters(t)
    PROVE  \A u \in Tx \ {t} : Directory(u)' = Directory(u)
  <1>1. \A u \in Tx \ {t} : /\ disk'[u] = disk[u] /\ worktree'[u] = worktree[u]
                            /\ traj'[u] = traj[u] /\ patchFile'[u] = patchFile[u]
                            /\ receiptFile'[u] = receiptFile[u] /\ edited'[u] = edited[u]
    BY DEF Alters, TypeOK
  <1>. QED
    BY <1>1 DEF Directory

(* What is known of the directory that an active invocation works on. *)
LEMMA Working ==
    ASSUME IInv, SerialInv, NEW p \in Proc, Active(p)
    PROVE  /\ proc[p] \in Process /\ LocalsOK(proc[p]) /\ proc[p].tx \in Tx
           /\ RunTested(p, proc[p], passed[proc[p].tx])
           /\ WorkOK(p, proc[p], Directory(proc[p].tx), userSteps)
           /\ DirectoryOK(Directory(proc[p].tx), userSteps)
           /\ OnDisk(proc[p].pc) => disk[proc[p].tx] \in Manifest
  BY Locals DEF SerialInv

(* An invocation that works on the transaction, or that finds it idle, keeps the *)
(* invariant if it leaves the directory good and knows what it says it knows.    *)
LEMMA SerialStep ==
    ASSUME IInv, SerialInv, NEW p \in Proc, NEW t \in Tx, NEW r, Become(p, r), Alters(t),
           (Active(p) /\ proc[p].tx = t) \/ ~Busy(t),
           r.pc \notin {"ready", "done"} =>
               r.tx = t /\ WorkOK(p, r, Directory(t)', userSteps),
           DirectoryOK(Directory(t)', userSteps),
           UNCHANGED userSteps
    PROVE  SerialInv'
  <1>1. DOMAIN proc' = Proc /\ Moves(p, r)
    BY Moved DEF TypeOK
  <1>2. \A u \in Tx \ {t} : Directory(u)' = Directory(u)
    BY AltersOnly
  <1>3. ASSUME NEW q \in Proc \ {p}, Active(q)' PROVE proc'[q] = proc[q] /\ proc[q].tx \in Tx \ {t}
    <2>1. proc'[q] = proc[q] /\ Active(q)
      BY <1>1, <1>3 DEF Moves, Active
    <2>2. proc[q].tx \in Tx
      BY <2>1, Working
    <2>3. proc[q].tx # t
      BY <2>1 DEF SerialInv, Alone, Busy
    <2>. QED
      BY <2>1, <2>2, <2>3
  <1>4. proc'[p] = r
    BY <1>1 DEF Moves
  <1>5. Active(p)' => r.tx = t
    BY <1>4 DEF Active
  <1>6. Alone'
    <2> SUFFICES ASSUME NEW a \in Proc, NEW b \in Proc, Active(a)', Active(b)',
                        proc'[a].tx = proc'[b].tx
                 PROVE  a = b
      BY DEF Alone
    <2>1. CASE a # p /\ b # p
      <3>1. Active(a) /\ Active(b) /\ proc[a].tx = proc[b].tx
        BY <1>3, <2>1 DEF Active
      <3>. QED
        BY <3>1 DEF SerialInv, Alone
    <2>2. CASE a = p \/ b = p
      BY <1>3, <1>4, <1>5, <2>2
    <2>. QED
      BY <2>1, <2>2
  <1>7. \A u \in Tx : DirectoryOK(Directory(u)', userSteps)
    BY <1>2 DEF SerialInv
  <1>8. ASSUME NEW q \in Proc, NEW u \in Tx, Active(q)', proc'[q].tx = u
        PROVE  WorkOK(q, proc'[q], Directory(u)', userSteps)
    <2>1. CASE q = p
      BY <1>4, <1>8, <2>1 DEF Active
    <2>2. CASE q # p
      <3>1. proc'[q] = proc[q] /\ u \in Tx \ {t} /\ Active(q)
        BY <1>3, <1>8, <2>2 DEF Active
      <3>2. WorkOK(q, proc[q], Directory(u), userSteps)
        BY <1>8, <3>1 DEF SerialInv
      <3>. QED
        BY <1>2, <3>1, <3>2
    <2>. QED
      BY <2>1, <2>2
  <1>. QED
    BY <1>6, <1>7, <1>8 DEF SerialInv

(* Another write from outside: what was known is still known, or the worktree *)
(* has strayed.                                                               *)
LEMMA WriteOutside ==
    ASSUME NEW n \in Nat, NEW d, NEW e,
           e.disk = d.disk, e.traj = d.traj, e.patch = d.patch, e.receipt = d.receipt,
           e.edited = d.edited,
           e.worktree = d.worktree \/ (Intruder /\ e.worktree # d.worktree)
    PROVE  /\ DirectoryOK(d, n) => DirectoryOK(e, n + 1)
           /\ \A p, r : WorkOK(p, r, d, n) => WorkOK(p, r, e, n + 1)
  <1>1. \A c : Strayed(d.worktree, c, n) => Strayed(e.worktree, c, n + 1)
    BY DEF Strayed
  <1>2. \A c : d.worktree = c => e.worktree = c \/ Strayed(e.worktree, c, n + 1)
    BY DEF Strayed
  <1>3. \A m : PreparedOK(m, d.worktree, n) => PreparedOK(m, e.worktree, n + 1)
    BY <1>1, <1>2 DEF PreparedOK
  <1>4. DirectoryOK(d, n) => DirectoryOK(e, n + 1)
    BY <1>3 DEF DirectoryOK
  <1>5. ASSUME NEW p, NEW r, WorkOK(p, r, d, n) PROVE WorkOK(p, r, e, n + 1)
    <2>1. r.pc = "content" => e.worktree = r.snap \/ Strayed(e.worktree, r.snap, n + 1)
      BY <1>1, <1>2, <1>5 DEF WorkOK
    <2>2. r.pc \in DiffPoints =>
             \/ e.worktree = r.snap /\ r.body = r.snap /\ (r.pc = "patch" => Represented(r))
             \/ Strayed(e.worktree, r.snap, n + 1)
      BY <1>1, <1>2, <1>5 DEF WorkOK
    <2>3. r.pc \in SealPoints => PreparedOK(r.mem, e.worktree, n + 1)
      BY <1>3, <1>5 DEF WorkOK
    <2>. QED
      BY <1>5, <2>1, <2>2, <2>3 DEF WorkOK
  <1>. QED
    BY <1>4, <1>5

LEMMA SerialEnvironment ==
    ASSUME IInv, SerialInv, UserEdit \/ UserCommit \/ (\E t \in Tx : WorktreeEdit(t))
    PROVE  SerialInv'
  <1>1. userSteps \in Nat /\ userSteps' = userSteps + 1 /\ proc' = proc
    BY DEF UserEdit, UserCommit, WorktreeEdit, TypeOK
  <1>2. ASSUME NEW u \in Tx
        PROVE  /\ DirectoryOK(Directory(u), userSteps) => DirectoryOK(Directory(u)', userSteps + 1)
               /\ \A p, r : WorkOK(p, r, Directory(u), userSteps)
                              => WorkOK(p, r, Directory(u)', userSteps + 1)
    <2>1. /\ disk'[u] = disk[u] /\ traj'[u] = traj[u] /\ patchFile'[u] = patchFile[u]
          /\ receiptFile'[u] = receiptFile[u] /\ edited'[u] = edited[u]
      BY DEF UserEdit, UserCommit, WorktreeEdit, store, history
    <2>2. worktree'[u] = worktree[u] \/ (Intruder /\ worktree'[u] # worktree[u])
      BY DEF UserEdit, UserCommit, WorktreeEdit, store, TypeOK
    <2> DEFINE d == Directory(u)
               e == [disk |-> disk'[u], worktree |-> worktree'[u], traj |-> traj'[u],
                     patch |-> patchFile'[u], receipt |-> receiptFile'[u],
                     edited |-> edited'[u]]
    <2>3. /\ e.disk = d.disk /\ e.traj = d.traj /\ e.patch = d.patch
          /\ e.receipt = d.receipt /\ e.edited = d.edited
          /\ e.worktree = d.worktree \/ (Intruder /\ e.worktree # d.worktree)
      BY <2>1, <2>2 DEF Directory
    <2>4. Directory(u)' = e
      BY DEF Directory
    <2>. HIDE DEF d, e
    <2>5. /\ DirectoryOK(d, userSteps) => DirectoryOK(e, userSteps + 1)
          /\ \A p, r : WorkOK(p, r, d, userSteps) => WorkOK(p, r, e, userSteps + 1)
      BY <1>1, <2>3, WriteOutside
    <2>. QED
      BY <2>4, <2>5 DEF d
  <1>3. Alone'
    BY <1>1 DEF SerialInv, Alone, Active
  <1>4. \A u \in Tx : DirectoryOK(Directory(u)', userSteps')
    BY <1>1, <1>2 DEF SerialInv
  <1>5. ASSUME NEW q \in Proc, NEW u \in Tx, Active(q)', proc'[q].tx = u
        PROVE  WorkOK(q, proc'[q], Directory(u)', userSteps')
    <2>1. WorkOK(q, proc[q], Directory(u), userSteps)
      BY <1>1, <1>5 DEF SerialInv, Active
    <2>. QED
      BY <1>1, <1>2, <2>1
  <1>. QED
    BY <1>3, <1>4, <1>5 DEF SerialInv

----------------------------------------------------------------------------
(* Steps that write nothing into a directory. *)

(* The invocation p, which works on t or finds it idle, moves to r. *)
LEMMA StillStep ==
    ASSUME IInv, SerialInv, NEW p \in Proc, NEW t \in Tx, NEW r, Become(p, r),
           (Active(p) /\ proc[p].tx = t) \/ ~Busy(t),
           r.pc \notin {"ready", "done"} =>
               r.tx = t /\ WorkOK(p, r, Directory(t), userSteps),
           UNCHANGED <<store, edited, userSteps>>
    PROVE  SerialInv'
  <1>1. Directory(t)' = Directory(t) /\ Alters(t)
    BY DEF Directory, Alters, store
  <1>2. DirectoryOK(Directory(t)', userSteps)
    BY <1>1 DEF SerialInv
  <1>3. r.pc \notin {"ready", "done"} =>
            r.tx = t /\ WorkOK(p, r, Directory(t)', userSteps)
    BY <1>1
  <1>. QED
    BY <1>1, <1>2, <1>3, SerialStep

LEMMA StillExit ==
    ASSUME IInv, SerialInv, NEW p \in Proc, Active(p), Exit(p),
           UNCHANGED <<store, edited, userSteps>>
    PROVE  SerialInv'
  <1>1. proc[p].tx \in Tx
    BY Working
  <1>. QED
    BY <1>1, FreshType, StillStep DEF Exit

LEMMA SerialBegin ==
    ASSUME IInv, SerialInv, ~Overlap, NEW p \in Proc, NEW t \in Tx,
           Begin(p, t) \/ Resume(p, t) \/ CommitLock(p, t)
    PROVE  SerialInv'
  <1>1. ~Busy(t) /\ UNCHANGED <<store, edited, userSteps>>
    BY DEF Begin, Resume, CommitLock, MayStart, history
  <1>2. CASE Begin(p, t)
    <2> DEFINE b == Fresh("begin")
               r == [b EXCEPT !.tx = t, !.mem = NewManifest]
    <2>1. Become(p, r) /\ disk[t] = None /\ Clean
      BY <1>2 DEF Begin
    <2>2. b \in Process /\ b.pc = "begin"
      BY FreshType
    <2>3. NewManifest \in Manifest /\ NewManifest.status = "open" /\ BaseOK(NewManifest)
      BY <2>1, CheckoutType DEF NewManifest, Manifest, TypeOK, Commit, BaseOK, Clean
    <2>. HIDE DEF b
    <2>4. r.pc = "begin" /\ r.tx = t /\ r.mem = NewManifest
      BY <2>2 DEF Process
    <2>. HIDE DEF r
    <2>5. WorkOK(p, r, Directory(t), userSteps)
      BY <2>1, <2>3, <2>4 DEF WorkOK, Directory
    <2>. QED
      BY <1>1, <2>1, <2>4, <2>5, StillStep
  <1>3. CASE Resume(p, t)
    <2> DEFINE b == Fresh("restore")
               r == [b EXCEPT !.tx = t, !.mem = disk[t], !.own = traj[t]]
    <2>1. Become(p, r) /\ disk[t] # None /\ disk[t].status = "open"
      BY <1>3 DEF Resume
    <2>2. b \in Process /\ b.pc = "restore"
      BY FreshType
    <2>. HIDE DEF b
    <2>3. r.pc = "restore" /\ r.tx = t /\ r.mem = disk[t]
      BY <2>2 DEF Process
    <2>. HIDE DEF r
    <2>4. WorkOK(p, r, Directory(t), userSteps)
      BY <2>1, <2>3 DEF WorkOK, Directory
    <2>. QED
      BY <1>1, <2>1, <2>3, <2>4, StillStep
  <1>4. CASE CommitLock(p, t)
    <2> DEFINE b == Fresh("check")
               r == [b EXCEPT !.tx = t, !.mem = disk[t]]
    <2>1. Become(p, r) /\ disk[t] # None /\ disk[t].status = "prepared"
      BY <1>4 DEF CommitLock
    <2>2. b \in Process /\ b.pc = "check"
      BY FreshType
    <2>. HIDE DEF b
    <2>3. r.pc = "check" /\ r.tx = t /\ r.mem = disk[t]
      BY <2>2 DEF Process
    <2>. HIDE DEF r
    <2>4. WorkOK(p, r, Directory(t), userSteps)
      BY <2>1, <2>3 DEF WorkOK, Directory
    <2>. QED
      BY <1>1, <2>1, <2>3, <2>4, StillStep
  <1>. QED
    BY <1>2, <1>3, <1>4

(* The run's steps that only move the invocation. *)
LEMMA SerialTool ==
    ASSUME IInv, SerialInv, NEW p \in Proc,
           ToolPasses(p) \/ ToolFails(p) \/ Stop(p) \/ CommitCheck(p) \/ PrepareContent(p)
    PROVE  SerialInv'
  <1> DEFINE t == proc[p].tx
  <1>1. Active(p) /\ UNCHANGED <<store, edited, userSteps>>
    BY DEF ToolPasses, ToolFails, Stop, CommitCheck, PrepareContent, At, Active, history
  <1>2. /\ proc[p] \in Process /\ t \in Tx /\ WorkOK(p, proc[p], Directory(t), userSteps)
        /\ DirectoryOK(Directory(t), userSteps) /\ LocalsOK(proc[p])
    BY <1>1, Working
  <1>3. CASE ToolPasses(p)
    <2> DEFINE r == [proc[p] EXCEPT !.pc = "answered", !.evidence = worktree[t]]
    <2>1. Become(p, r) /\ proc[p].pc = "tool"
      BY <1>3 DEF ToolPasses, At
    <2>2. r.pc = "answered" /\ r.tx = t /\ r.mem = proc[p].mem
      BY <1>2 DEF Process
    <2>. HIDE DEF r, t
    <2>3. WorkOK(p, r, Directory(t), userSteps)
      BY <1>2, <2>1, <2>2 DEF WorkOK
    <2>. QED
      BY <1>1, <1>2, <2>1, <2>2, <2>3, StillStep DEF t
  <1>4. CASE ToolFails(p)
    <2> DEFINE r == [proc[p] EXCEPT !.pc = "answered", !.evidence = None]
    <2>1. Become(p, r) /\ proc[p].pc = "tool"
      BY <1>4 DEF ToolFails, At
    <2>2. r.pc = "answered" /\ r.tx = t /\ r.mem = proc[p].mem
      BY <1>2 DEF Process
    <2>. HIDE DEF r, t
    <2>3. WorkOK(p, r, Directory(t), userSteps)
      BY <1>2, <2>1, <2>2 DEF WorkOK
    <2>. QED
      BY <1>1, <1>2, <2>1, <2>2, <2>3, StillStep DEF t
  <1>5. CASE Stop(p)
    <2> DEFINE r == [proc[p] EXCEPT !.pc = "finish", !.own = Checkpoint(p, "Stopped", TRUE)]
    <2>1. Become(p, r) /\ proc[p].pc = "model"
      BY <1>5 DEF Stop, At
    <2>2. r.pc = "finish" /\ r.tx = t /\ r.mem = proc[p].mem
      BY <1>2 DEF Process
    <2>. HIDE DEF r, t
    <2>3. WorkOK(p, r, Directory(t), userSteps)
      BY <1>2, <2>1, <2>2 DEF WorkOK
    <2>. QED
      BY <1>1, <1>2, <2>1, <2>2, <2>3, StillStep DEF t
  <1>6. CASE CommitCheck(p) /\ Exit(p)
    BY <1>1, <1>6, StillExit
  <1>7. CASE CommitCheck(p) /\ ~Exit(p)
    <2> DEFINE r == [proc[p] EXCEPT !.pc = "apply"]
    <2>1. Become(p, r) /\ proc[p].pc = "check" /\ worktree[t] = proc[p].mem.prepared
      BY <1>7 DEF CommitCheck, Goto, Refuse, At
    <2>2. r.pc = "apply" /\ r.tx = t /\ r.mem = proc[p].mem
      BY <1>2 DEF Process
    <2>3. PreparedOK(proc[p].mem, worktree[t], userSteps)
      BY <1>2, <2>1 DEF WorkOK, DirectoryOK, Directory
    <2>4. ExpectsPrepared(proc[p].mem) \/ (Intruder /\ userSteps >= 2)
      BY <2>1, <2>3 DEF PreparedOK, Strayed, TypeOK
    <2>. HIDE DEF r, t
    <2>5. WorkOK(p, r, Directory(t), userSteps)
      BY <1>2, <2>1, <2>2, <2>4 DEF WorkOK
    <2>. QED
      BY <1>1, <1>2, <2>1, <2>2, <2>5, StillStep DEF t
  <1>8. CASE PrepareContent(p) /\ Exit(p)
    BY <1>1, <1>8, StillExit
  <1>9. CASE PrepareContent(p) /\ ~Exit(p)
    <2> DEFINE r == [proc[p] EXCEPT !.pc = "diff", !.body = worktree[t]]
    <2>1. Become(p, r) /\ proc[p].pc = "content" /\ worktree[t] # None
      BY <1>9 DEF PrepareContent, Refuse, At
    <2>2. worktree[t] \in Content
      BY <1>2, <2>1 DEF TypeOK
    <2>3. r.pc = "diff" /\ r.tx = t /\ r.mem = proc[p].mem /\ r.body = worktree[t]
          /\ r.snap = proc[p].snap
      BY <1>2, <2>2 DEF Process
    <2>4. Directory(t).worktree = worktree[t]
      BY DEF Directory
    <2>. HIDE DEF r, t
    <2>5. WorkOK(p, r, Directory(t), userSteps)
      BY <1>2, <2>1, <2>3, <2>4 DEF WorkOK
    <2>. QED
      BY <1>1, <1>2, <2>1, <2>3, <2>5, StillStep DEF t
  <1>. QED
    BY <1>3, <1>4, <1>5, <1>6, <1>7, <1>8, <1>9

LEMMA SerialPrepareLock ==
    ASSUME IInv, SerialInv, NEW p \in Proc, PrepareLock(p) PROVE SerialInv'
  <1> DEFINE t == proc[p].tx
             r == [proc[p] EXCEPT !.pc = "snapshot", !.mem = disk[t]]
  <1>1. Active(p) /\ UNCHANGED <<store, edited, userSteps>> /\ proc[p].pc = "prepare"
    BY DEF PrepareLock, At, Active, history
  <1>2. /\ proc[p] \in Process /\ t \in Tx /\ WorkOK(p, proc[p], Directory(t), userSteps)
        /\ disk[t] \in Manifest
    BY <1>1, Working
  <1>3. CASE Exit(p)
    BY <1>1, <1>3, StillExit
  <1>4. CASE Become(p, r)
    <2>1. r.pc = "snapshot" /\ r.tx = t /\ r.mem = disk[t]
      BY <1>2 DEF Process
    <2>2. Directory(t).disk = disk[t]
      BY DEF Directory
    <2>. HIDE DEF r, t
    <2>3. WorkOK(p, r, Directory(t), userSteps)
      BY <1>1, <1>2, <2>1, <2>2 DEF WorkOK
    <2>. QED
      BY <1>1, <1>2, <1>4, <2>1, <2>3, StillStep DEF t
  <1>. QED
    BY <1>3, <1>4 DEF PrepareLock

(* A refusal of prepare that is recorded in the open manifest. *)
LEMMA SerialFailure ==
    ASSUME IInv, SerialInv, NEW p \in Proc, NEW t \in Tx, t = proc[p].tx,
           proc[p].pc \in {"snapshot", "diff"},
           NEW failure \in {"no submission", "not bound", "unrepresentable"},
           PrepareFails(p, failure),
           UNCHANGED <<worktree, traj, patchFile, receiptFile, edited, userSteps>>
    PROVE  SerialInv'
  <1> DEFINE m == [proc[p].mem EXCEPT !.failure = failure]
  <1>1. /\ Active(p) /\ proc[p].mem \in Manifest /\ disk[t] = proc[p].mem
        /\ disk[t].status = "open" /\ DirectoryOK(Directory(t), userSteps)
    BY Working DEF Active, LocalsOK, WorkOK, Directory
  <1>2. /\ m \in Manifest /\ m.status = "open" /\ m.started = disk[t].started
        /\ m.base = disk[t].base /\ m.wsBase = disk[t].wsBase /\ m.commit = disk[t].commit
    BY <1>1 DEF Manifest
  <1>3. disk' = [disk EXCEPT ![t] = m] /\ Become(p, Fresh("done"))
    BY DEF PrepareFails, Save, Refuse, Exit
  <1>. HIDE DEF m
  <1>4. Alters(t) /\ disk'[t] = m
    BY <1>3 DEF Alters, TypeOK
  <1>5. DirectoryOK(Directory(t)', userSteps)
    <2>1. /\ disk'[t] = m /\ worktree'[t] = worktree[t] /\ traj'[t] = traj[t]
          /\ patchFile'[t] = patchFile[t] /\ receiptFile'[t] = receiptFile[t]
          /\ edited'[t] = edited[t]
      BY <1>4
    <2>2. BaseOK(disk[t]) <=> BaseOK(m)
      BY ONLY <1>2 DEF BaseOK
    <2>3. disk[t] # None /\ m # None
      BY <1>1, <1>2, NoneAssumption
    <2>4. edited[t] \subseteq disk[t].started /\ BaseOK(disk[t])
      BY <1>1, <2>3 DEF DirectoryOK, Directory
    <2>. QED
      BY ONLY <1>2, <2>1, <2>2, <2>3, <2>4 DEF DirectoryOK, Directory
  <1>. QED
    BY <1>1, <1>3, <1>4, <1>5, FreshType, SerialStep

LEMMA SerialPrepareSnapshot ==
    ASSUME IInv, SerialInv, NEW p \in Proc, PrepareSnapshot(p) PROVE SerialInv'
  <1> DEFINE t == proc[p].tx
             r == [proc[p] EXCEPT !.pc = "content", !.snap = worktree[t]]
  <1>1. /\ Active(p) /\ proc[p].pc = "snapshot"
        /\ UNCHANGED <<worktree, traj, patchFile, receiptFile, edited, userSteps>>
    BY DEF PrepareSnapshot, At, Active, history
  <1>2. /\ proc[p] \in Process /\ t \in Tx /\ WorkOK(p, proc[p], Directory(t), userSteps)
    BY <1>1, Working
  <1>3. CASE Refuse(p) /\ UNCHANGED disk
    BY <1>1, <1>3, StillExit DEF Refuse, store
  <1>4. CASE PrepareFails(p, "no submission") \/ PrepareFails(p, "not bound")
    BY <1>1, <1>2, <1>4, SerialFailure
  <1>5. CASE worktree[t] # None /\ Become(p, r) /\ UNCHANGED disk
    <2>1. worktree[t] \in Content
      BY <1>2, <1>5 DEF TypeOK
    <2>2. /\ r.pc = "content" /\ r.tx = t /\ r.mem = proc[p].mem /\ r.snap = worktree[t]
          /\ Directory(t).worktree = worktree[t]
      BY <1>2, <2>1 DEF Process, Directory
    <2>3. UNCHANGED store
      BY <1>1, <1>5 DEF store
    <2>. HIDE DEF r, t
    <2>4. WorkOK(p, r, Directory(t), userSteps)
      BY <1>1, <1>2, <2>2 DEF WorkOK
    <2>. QED
      BY <1>1, <1>2, <1>5, <2>2, <2>3, <2>4, StillStep DEF t
  <1>. QED
    BY <1>3, <1>4, <1>5 DEF PrepareSnapshot

LEMMA SerialApply ==
    ASSUME IInv, SerialInv, NEW p \in Proc, CommitApply(p) \/ CommitTorn(p) PROVE SerialInv'
  <1> DEFINE t == proc[p].tx
             r == [proc[p] EXCEPT !.pc = "verify"]
  <1>1. Active(p) /\ UNCHANGED <<store, edited, userSteps>> /\ proc[p].pc = "apply"
    BY DEF CommitApply, CommitTorn, At, Active
  <1>2. proc[p] \in Process /\ t \in Tx /\ WorkOK(p, proc[p], Directory(t), userSteps)
    BY <1>1, Working
  <1>3. CASE Refuse(p)
    BY <1>1, <1>3, StillExit DEF Refuse
  <1>4. CASE Become(p, r)
    <2>1. r.pc = "verify" /\ r.tx = t /\ r.mem = proc[p].mem
      BY <1>2 DEF Process
    <2>. HIDE DEF r, t
    <2>2. WorkOK(p, r, Directory(t), userSteps)
      BY <1>1, <1>2, <2>1 DEF WorkOK
    <2>. QED
      BY <1>1, <1>2, <1>4, <2>1, <2>2, StillStep DEF t
  <1>. QED
    BY <1>3, <1>4 DEF CommitApply, CommitTorn, Goto

LEMMA SerialCrash == ASSUME IInv, SerialInv, NEW p \in Proc, Crash(p) PROVE SerialInv'
  BY StillExit DEF Crash, history

----------------------------------------------------------------------------
(* Steps that write into the directory. *)

(* The directory after a step. *)
LEMMA NewDirectory ==
    ASSUME NEW t \in Tx
    PROVE  Directory(t)' = [disk |-> disk'[t], worktree |-> worktree'[t], traj |-> traj'[t],
                            patch |-> patchFile'[t], receipt |-> receiptFile'[t],
                            edited |-> edited'[t]]
  BY DEF Directory

LEMMA SerialCreate ==
    ASSUME IInv, SerialInv, NEW p \in Proc, NEW t \in Tx, t = proc[p].tx,
           AddWorktree(p) \/ Publish(p)
    PROVE  SerialInv'
  <1>1. /\ Active(p) /\ proc[p].pc \in BeginPoints
        /\ UNCHANGED <<traj, patchFile, receiptFile, edited, userSteps>>
    BY DEF AddWorktree, Publish, At, Active, history
  <1>2. /\ proc[p] \in Process /\ WorkOK(p, proc[p], Directory(t), userSteps)
        /\ DirectoryOK(Directory(t), userSteps) /\ proc[p].mem \in Manifest
    BY <1>1, Working DEF LocalsOK
  <1>3. disk[t] = None /\ edited[t] = {} /\ proc[p].mem.status = "open" /\ BaseOK(proc[p].mem)
    BY <1>1, <1>2 DEF WorkOK, DirectoryOK, Directory
  <1>4. CASE AddWorktree(p)
    <2> DEFINE r == [proc[p] EXCEPT !.pc = "publish"]
    <2>1. Become(p, r) /\ Alters(t) /\ UNCHANGED disk
      BY <1>1, <1>4 DEF AddWorktree, Goto, Alters
    <2>2. r.pc = "publish" /\ r.tx = t /\ r.mem = proc[p].mem
      BY <1>2 DEF Process
    <2>3. DirectoryOK(Directory(t)', userSteps)
      BY <1>1, <1>3, <2>1, NewDirectory DEF DirectoryOK
    <2>. HIDE DEF r
    <2>4. WorkOK(p, r, Directory(t)', userSteps)
      BY <1>3, <2>1, <2>2, NewDirectory DEF WorkOK
    <2>. QED
      BY <1>1, <2>1, <2>2, <2>3, <2>4, SerialStep
  <1>5. CASE Publish(p) /\ Save(t, proc[p].mem)
    <2> DEFINE r == [proc[p] EXCEPT !.pc = "start"]
    <2>1. Become(p, r) /\ Alters(t) /\ disk'[t] = proc[p].mem
      <3>1. disk'[t] # None
        BY <1>2, <1>5 DEF Save, TypeOK
      <3>2. ~UNCHANGED disk
        BY <1>3, <3>1
      <3>3. Goto(p, "start") /\ UNCHANGED worktree
        BY <1>5, <3>2 DEF Publish
      <3>. QED
        BY <1>1, <1>5, <3>3 DEF Goto, Alters, Save, TypeOK
    <2>2. r.pc = "start" /\ r.tx = t /\ r.mem = proc[p].mem
      BY <1>2 DEF Process
    <2>3. DirectoryOK(Directory(t)', userSteps)
      BY <1>1, <1>2, <1>3, <2>1, NewDirectory DEF DirectoryOK
    <2>. HIDE DEF r
    <2>4. WorkOK(p, r, Directory(t)', userSteps)
      BY <1>2, <1>3, <2>1, <2>2, NewDirectory DEF WorkOK
    <2>. QED
      BY <1>1, <2>1, <2>2, <2>3, <2>4, SerialStep
  <1>6. CASE Publish(p) /\ Exit(p) /\ UNCHANGED disk
    <2>1. Alters(t)
      <3>1. UNCHANGED worktree \/ \E x : worktree' = [worktree EXCEPT ![t] = x]
        BY <1>6 DEF Publish
      <3>. QED
        BY <1>1, <1>6, <3>1 DEF Alters
    <2>2. DirectoryOK(Directory(t)', userSteps)
      BY <1>1, <1>3, <1>6, NewDirectory DEF DirectoryOK
    <2>. QED
      BY <1>1, <1>6, <2>1, <2>2, FreshType, SerialStep DEF Exit
  <1>. QED
    BY <1>4, <1>5, <1>6 DEF Publish

(* Checkpoints of the trajectory, while the transaction is open. *)
LEMMA SerialTrajectory ==
    ASSUME IInv, SerialInv, NEW p \in Proc, NEW t \in Tx, t = proc[p].tx,
           SaveCheckpoint(p) \/ SubmitCheckpoint(p) \/ SaveTrajectory(p) \/ Interrupt(p)
    PROVE  SerialInv'
  <1>1. /\ Active(p) /\ proc[p].pc \in RunPoints
        /\ UNCHANGED <<disk, worktree, patchFile, receiptFile, edited, userSteps>>
        /\ Alters(t)
    BY DEF SaveCheckpoint, SubmitCheckpoint, SaveTrajectory, Interrupt, At, Active, history,
           Alters
  <1>2. /\ proc[p] \in Process /\ WorkOK(p, proc[p], Directory(t), userSteps)
        /\ DirectoryOK(Directory(t), userSteps)
    BY <1>1, Working
  <1>3. disk[t] # None /\ disk[t].status = "open" /\ proc[p].mem = disk[t]
    BY <1>1, <1>2 DEF WorkOK, Directory
  <1>4. DirectoryOK(Directory(t)', userSteps)
    BY <1>1, <1>2, <1>3 DEF DirectoryOK, Directory
  <1>5. ASSUME NEW r, r.pc \in {"model", "finish", "prepare"}, r.tx = t, r.mem = proc[p].mem,
               Become(p, r)
        PROVE  SerialInv'
    <2>1. WorkOK(p, r, Directory(t)', userSteps)
      BY <1>1, <1>3, <1>5, NewDirectory DEF WorkOK
    <2>. QED
      BY <1>1, <1>4, <1>5, <2>1, SerialStep
  <1>6. CASE SaveCheckpoint(p)
    <2> DEFINE r == [proc[p] EXCEPT !.pc = "model", !.own = Checkpoint(p, "Running", FALSE)]
    <2>1. Become(p, r) /\ r.pc = "model" /\ r.tx = t /\ r.mem = proc[p].mem
      BY <1>2, <1>6 DEF SaveCheckpoint, Process
    <2>. HIDE DEF r
    <2>. QED
      BY <1>5, <2>1
  <1>7. CASE SubmitCheckpoint(p)
    <2> DEFINE r == [proc[p] EXCEPT !.pc = "finish", !.own = Checkpoint(p, "Submitted", TRUE)]
    <2>1. Become(p, r) /\ r.pc = "finish" /\ r.tx = t /\ r.mem = proc[p].mem
      BY <1>2, <1>7 DEF SubmitCheckpoint, Process
    <2>. HIDE DEF r
    <2>. QED
      BY <1>5, <2>1
  <1>8. CASE SaveTrajectory(p)
    <2> DEFINE r == [proc[p] EXCEPT !.pc = "prepare"]
    <2>1. Become(p, r) /\ r.pc = "prepare" /\ r.tx = t /\ r.mem = proc[p].mem
      BY <1>2, <1>8 DEF SaveTrajectory, Goto, Process
    <2>. HIDE DEF r
    <2>. QED
      BY <1>5, <2>1
  <1>9. CASE Interrupt(p)
    BY <1>1, <1>4, <1>9, FreshType, SerialStep DEF Interrupt, Exit
  <1>. QED
    BY <1>6, <1>7, <1>8, <1>9

LEMMA SerialRestore ==
    ASSUME IInv, SerialInv, NEW p \in Proc, NEW t \in Tx, t = proc[p].tx, Restore(p)
    PROVE  SerialInv'
  <1> DEFINE r == [proc[p] EXCEPT !.pc = "start", !.own = None,
                                  !.evidence = RestoredEvidence(proc[p].own)]
  <1>1. /\ Active(p) /\ proc[p].pc = "restore"
        /\ UNCHANGED <<worktree, traj, patchFile, receiptFile, edited, userSteps>>
    BY DEF Restore, At, Active, history
  <1>2. /\ proc[p] \in Process /\ WorkOK(p, proc[p], Directory(t), userSteps)
        /\ DirectoryOK(Directory(t), userSteps)
    BY <1>1, Working
  <1>3. disk[t] # None /\ disk[t].status = "open" /\ proc[p].mem = disk[t]
    BY <1>1, <1>2 DEF WorkOK, Directory
  <1>4. UNCHANGED disk
    BY <1>3 DEF Restore, Save, TypeOK
  <1>5. UNCHANGED store
    BY <1>1, <1>4 DEF store
  <1>6. CASE Exit(p)
    BY <1>1, <1>5, <1>6, StillExit
  <1>7. CASE Become(p, r)
    <2>1. r.pc = "start" /\ r.tx = t /\ r.mem = proc[p].mem
      BY <1>2 DEF Process
    <2>. HIDE DEF r
    <2>2. WorkOK(p, r, Directory(t), userSteps)
      BY <1>1, <1>2, <2>1 DEF WorkOK
    <2>. QED
      BY <1>1, <1>5, <1>7, <2>1, <2>2, StillStep
  <1>. QED
    BY <1>6, <1>7 DEF Restore

(* The access log: the manifest in memory and on disk get the call together. *)
LEMMA SerialLog ==
    ASSUME IInv, SerialInv, NEW p \in Proc, NEW t \in Tx, t = proc[p].tx,
           ToolStart(p) \/ Submit(p) \/ ToolDone(p) \/ SubmitDone(p)
    PROVE  SerialInv'
  <1>1. /\ Active(p) /\ proc[p].pc \in {"model", "answered", "submitted"}
        /\ UNCHANGED <<worktree, traj, patchFile, receiptFile, edited, userSteps>>
    BY DEF ToolStart, Submit, ToolDone, SubmitDone, At, Active, history
  <1>2. /\ proc[p] \in Process /\ WorkOK(p, proc[p], Directory(t), userSteps)
        /\ DirectoryOK(Directory(t), userSteps) /\ proc[p].mem \in Manifest
    BY <1>1, Working DEF LocalsOK
  <1>3. disk[t] # None /\ disk[t].status = "open" /\ proc[p].mem = disk[t]
    BY <1>1, <1>2 DEF WorkOK, Directory
  <1>4. ASSUME NEW m \in Manifest, m.status = "open", m.base = disk[t].base,
               m.wsBase = disk[t].wsBase, m.commit = disk[t].commit,
               disk[t].started \subseteq m.started, Save(t, m), NEW r,
               r.pc \in {"tool", "submitted", "observed", "closing"}, r.tx = t, r.mem = m,
               Become(p, r), r.pc = "tool" => <<p, r.calls>> \in m.started
        PROVE  SerialInv'
    <2>1. Alters(t) /\ disk'[t] = m
      BY <1>1, <1>4 DEF Alters, Save, TypeOK
    <2>2. DirectoryOK(Directory(t)', userSteps)
      <3>1. /\ worktree'[t] = worktree[t] /\ traj'[t] = traj[t]
            /\ patchFile'[t] = patchFile[t] /\ receiptFile'[t] = receiptFile[t]
            /\ edited'[t] = edited[t]
        BY <1>1
      <3>2. edited[t] \subseteq disk[t].started /\ BaseOK(disk[t])
        BY <1>2, <1>3 DEF DirectoryOK, Directory
      <3>3. BaseOK(m)
        BY ONLY <1>4, <3>2 DEF BaseOK
      <3>4. m # None
        BY <1>4, NoneAssumption
      <3>. QED
        BY ONLY <1>4, <2>1, <3>1, <3>2, <3>3, <3>4 DEF DirectoryOK, Directory
    <2>3. WorkOK(p, r, Directory(t)', userSteps)
      BY <1>4, <2>1, NewDirectory DEF WorkOK
    <2>. QED
      BY <1>1, <1>4, <2>1, <2>2, <2>3, SerialStep
  <1>5. ASSUME NEW next \in {"tool", "submitted"}, LogStart(p, next) PROVE SerialInv'
    <2> DEFINE call == <<p, proc[p].calls + 1>>
               m == [proc[p].mem EXCEPT !.started = @ \cup {call}]
               r == [proc[p] EXCEPT !.pc = next, !.mem = m, !.calls = @ + 1]
    <2>1. proc[p].calls < MaxCalls /\ Save(t, m) /\ Become(p, r)
      BY <1>5 DEF LogStart
    <2>2. call \in Call
      BY <1>2, <2>1 DEF Call, Process
    <2>3. /\ m \in Manifest /\ m.status = proc[p].mem.status /\ m.base = proc[p].mem.base
          /\ m.wsBase = proc[p].mem.wsBase /\ m.commit = proc[p].mem.commit
          /\ m.started = proc[p].mem.started \cup {call}
      BY <1>2, <2>2 DEF Manifest
    <2>. HIDE DEF m
    <2>4. r.pc = next /\ r.tx = t /\ r.mem = m /\ <<p, r.calls>> = call
      BY <1>2 DEF Process
    <2>. HIDE DEF r, call
    <2>5. /\ disk[t].started \subseteq m.started /\ m.status = "open"
          /\ m.base = disk[t].base /\ m.wsBase = disk[t].wsBase /\ m.commit = disk[t].commit
          /\ <<p, r.calls>> \in m.started
      BY <1>3, <2>3, <2>4
    <2>6. r.pc \in {"tool", "submitted", "observed", "closing"}
      BY <2>4
    <2>. QED
      BY <1>4, <2>1, <2>3, <2>4, <2>5, <2>6
  <1>6. ASSUME NEW next \in {"observed", "closing"}, LogDone(p, next),
               proc[p].pc \in {"answered", "submitted"}
        PROVE  SerialInv'
    <2> DEFINE call == <<p, proc[p].calls>>
               m == [proc[p].mem EXCEPT !.completed = @ \cup {call}]
               r == [proc[p] EXCEPT !.pc = next, !.mem = m]
    <2>1. Save(t, m) /\ Become(p, r)
      BY <1>6 DEF LogDone
    <2>2. call \in Call
      BY <1>1, <1>6, Working DEF Call, LocalsOK
    <2>3. /\ m \in Manifest /\ m.status = proc[p].mem.status /\ m.base = proc[p].mem.base
          /\ m.wsBase = proc[p].mem.wsBase /\ m.commit = proc[p].mem.commit
          /\ m.started = proc[p].mem.started
      BY <1>2, <2>2 DEF Manifest
    <2>. HIDE DEF m
    <2>4. r.pc = next /\ r.tx = t /\ r.mem = m
      BY <1>2 DEF Process
    <2>. HIDE DEF r, call
    <2>5. /\ disk[t].started \subseteq m.started /\ m.status = "open"
          /\ m.base = disk[t].base /\ m.wsBase = disk[t].wsBase /\ m.commit = disk[t].commit
          /\ r.pc = "tool" => <<p, r.calls>> \in m.started
      BY <1>3, <2>3, <2>4
    <2>6. r.pc \in {"tool", "submitted", "observed", "closing"}
      BY <2>4
    <2>. QED
      BY <1>4, <2>1, <2>3, <2>4, <2>5, <2>6
  <1>. QED
    BY <1>5, <1>6 DEF ToolStart, Submit, ToolDone, SubmitDone, At

(* A tool writes to the worktree: its call is in the manifest on disk. *)
LEMMA SerialToolEdits ==
    ASSUME IInv, SerialInv, NEW p \in Proc, NEW t \in Tx, t = proc[p].tx, ToolEdits(p)
    PROVE  SerialInv'
  <1> DEFINE r == [proc[p] EXCEPT !.pc = "answered"]
  <1>1. /\ Active(p) /\ proc[p].pc = "tool" /\ Become(p, r)
        /\ UNCHANGED <<disk, traj, patchFile, receiptFile, userSteps>>
        /\ edited' = [edited EXCEPT ![t] = @ \cup {<<p, proc[p].calls>>}]
    BY DEF ToolEdits, Goto, At, Active
  <1>2. /\ proc[p] \in Process /\ WorkOK(p, proc[p], Directory(t), userSteps)
        /\ DirectoryOK(Directory(t), userSteps)
    BY <1>1, Working
  <1>3. /\ disk[t] # None /\ disk[t].status = "open" /\ proc[p].mem = disk[t]
        /\ <<p, proc[p].calls>> \in disk[t].started
    BY <1>1, <1>2 DEF WorkOK, Directory
  <1>4. edited'[t] = edited[t] \cup {<<p, proc[p].calls>>}
    BY <1>1 DEF TypeOK
  <1>5. Alters(t)
    BY <1>1 DEF ToolEdits, Alters
  <1>6. DirectoryOK(Directory(t)', userSteps)
    BY <1>1, <1>2, <1>3, <1>4 DEF DirectoryOK, Directory
  <1>7. r.pc = "answered" /\ r.tx = t /\ r.mem = proc[p].mem
    BY <1>2 DEF Process
  <1>. HIDE DEF r
  <1>8. WorkOK(p, r, Directory(t)', userSteps)
    BY <1>1, <1>3, <1>7, NewDirectory DEF WorkOK
  <1>. QED
    BY <1>1, <1>5, <1>6, <1>7, <1>8, SerialStep

(* Where Git names exactly the changed paths, prepare expects each file as it was *)
(* tested, or as the source has it where Git ignores it.                          *)
LEMMA ExpectedFiles ==
    ASSUME NEW m \in Manifest, BaseOK(m), NEW c \in Content,
           PatchNames(m.commit.tree, c) = ChangedPaths(m.wsBase, c)
    PROVE  \A f \in File : Projected(m.base, m.wsBase, c).files[f]
                             = IF f \in Ignored THEN m.base.files[f] ELSE c.files[f]
  <1> SUFFICES ASSUME NEW f \in File
               PROVE  Projected(m.base, m.wsBase, c).files[f]
                        = IF f \in Ignored THEN m.base.files[f] ELSE c.files[f]
    OBVIOUS
  <1>1. Projected(m.base, m.wsBase, c).files[f]
          = IF f \in ChangedFiles(m.wsBase, c) THEN c.files[f] ELSE m.base.files[f]
    BY DEF Projected
  <1>2. CASE f \in Ignored
    <2>1. f \notin ChangedFiles(m.wsBase, c)
      BY <1>2 DEF PatchNames, ChangedPaths
    <2>. QED
      BY <1>1, <1>2, <2>1
  <1>3. CASE f \notin Ignored /\ f \notin ChangedFiles(m.wsBase, c)
    <2>1. c.files[f] = m.wsBase.files[f]
      BY <1>3 DEF ChangedFiles
    <2>2. m.wsBase.files[f] = m.commit.tree[f] /\ m.commit.tree[f] = m.base.files[f]
      BY <1>3 DEF BaseOK, Checkout, Tracked
    <2>. QED
      BY <1>1, <1>3, <2>1, <2>2
  <1>4. CASE f \notin Ignored /\ f \in ChangedFiles(m.wsBase, c)
    BY <1>1, <1>4
  <1>. QED
    BY <1>2, <1>3, <1>4

(* The names of the changed files are those of what prepare read before, unless *)
(* somebody else wrote to the worktree.                                         *)
LEMMA SerialPrepareNames ==
    ASSUME IInv, SerialInv, NEW p \in Proc, NEW t \in Tx, t = proc[p].tx, PrepareNames(p)
    PROVE  SerialInv'
  <1> DEFINE now == worktree[t]
             r == [proc[p] EXCEPT !.pc = "patch"]
  <1>1. /\ Active(p) /\ proc[p].pc = "diff"
        /\ UNCHANGED <<worktree, traj, patchFile, receiptFile, edited, userSteps>>
    BY DEF PrepareNames, At, Active, history
  <1>2. proc[p] \in Process /\ WorkOK(p, proc[p], Directory(t), userSteps)
    BY <1>1, Working
  <1>3. CASE Refuse(p) /\ UNCHANGED disk
    BY <1>1, <1>3, StillExit DEF Refuse, store
  <1>4. CASE PrepareFails(p, "unrepresentable")
    BY <1>1, <1>4, SerialFailure
  <1>5. CASE /\ Become(p, r) /\ UNCHANGED disk
             /\ PatchNames(proc[p].mem.commit.tree, now)
                  = ChangedPaths(proc[p].mem.wsBase, proc[p].body)
    <2>1. /\ r.pc = "patch" /\ r.tx = t /\ r.mem = proc[p].mem /\ r.body = proc[p].body
          /\ r.snap = proc[p].snap
      BY <1>2 DEF Process
    <2>2. \/ now = r.snap /\ r.body = r.snap /\ Represented(r)
          \/ Strayed(now, r.snap, userSteps)
      BY <1>1, <1>2, <1>5, <2>1 DEF WorkOK, Directory, Represented
    <2>3. Directory(t).worktree = now
      BY DEF Directory
    <2>. HIDE DEF r, now
    <2>4. WorkOK(p, r, Directory(t), userSteps)
      BY <1>1, <1>2, <2>1, <2>2, <2>3 DEF WorkOK
    <2>. QED
      BY <1>1, <1>5, <2>1, <2>4, StillStep DEF store
  <1>. QED
    BY <1>3, <1>4, <1>5 DEF PrepareNames, Goto

LEMMA SerialPreparePatch ==
    ASSUME IInv, SerialInv, NEW p \in Proc, NEW t \in Tx, t = proc[p].tx, PreparePatch(p)
    PROVE  SerialInv'
  <1> DEFINE now == worktree[t]
             patch == PatchOf(proc[p].mem.commit.tree, now)
             m == PreparedManifest(p, patch)
             r == [proc[p] EXCEPT !.pc = "evidence", !.mem = m]
  <1>1. /\ Active(p) /\ proc[p].pc = "patch"
        /\ UNCHANGED <<worktree, traj, receiptFile, edited, userSteps>>
    BY DEF PreparePatch, At, Active, history
  <1>2. /\ proc[p] \in Process /\ WorkOK(p, proc[p], Directory(t), userSteps)
        /\ DirectoryOK(Directory(t), userSteps) /\ proc[p].mem \in Manifest
        /\ proc[p].snap \in Content /\ proc[p].body \in Content
    BY <1>1, Working DEF LocalsOK
  <1>3. disk[t] # None /\ disk[t].status = "open" /\ proc[p].mem = disk[t]
    BY <1>1, <1>2 DEF WorkOK, Directory
  <1>4. CASE Refuse(p) /\ UNCHANGED <<disk, patchFile>>
    BY <1>1, <1>4, StillExit DEF Refuse, store
  <1>5. CASE /\ now # None /\ Become(p, r) /\ AfterPatch(p, patch)
             /\ patchFile' = [patchFile EXCEPT ![t] = patch]
    <2>1. now \in Content
      BY <1>5 DEF TypeOK
    <2>2. patch \in Patch
      BY <1>2, <2>1, PatchType DEF Manifest, Commit, Content
    <2>3. Projected(proc[p].mem.base, proc[p].mem.wsBase, proc[p].body) \in Snapshot
      BY <1>2, ProjectedType DEF Manifest, Content
    <2>. HIDE DEF patch
    <2>4. /\ m \in Manifest /\ m.status = "prepared" /\ m.prepared = proc[p].snap
          /\ m.patch = patch
          /\ m.expected = Projected(proc[p].mem.base, proc[p].mem.wsBase, proc[p].body)
          /\ m.started = proc[p].mem.started /\ m.base = proc[p].mem.base
          /\ m.wsBase = proc[p].mem.wsBase /\ m.commit = proc[p].mem.commit
      BY <1>2, <2>2, <2>3 DEF PreparedManifest, Manifest
    <2>. HIDE DEF m
    <2>5. BaseOK(proc[p].mem) /\ BaseOK(m)
      <3>1. BaseOK(proc[p].mem)
        BY <1>2, <1>3 DEF DirectoryOK, Directory
      <3>. QED
        BY ONLY <2>4, <3>1 DEF BaseOK
    <2>6. PreparedOK(m, now, userSteps)
      <3>1. CASE Strayed(now, proc[p].snap, userSteps)
        BY <2>4, <3>1 DEF PreparedOK
      <3>2. CASE /\ now = proc[p].snap /\ proc[p].body = proc[p].snap
                 /\ Represented(proc[p])
        <4>1. PatchNames(proc[p].mem.commit.tree, now) = ChangedPaths(proc[p].mem.wsBase, now)
          BY <3>2 DEF Represented
        <4>2. \A f \in File : Projected(proc[p].mem.base, proc[p].mem.wsBase, now).files[f]
                = IF f \in Ignored THEN proc[p].mem.base.files[f] ELSE now.files[f]
          BY <1>2, <2>1, <2>5, <4>1, ExpectedFiles
        <4>. QED
          BY <2>4, <3>2, <4>2 DEF PreparedOK, ExpectsPrepared
      <3>. QED
        BY <1>1, <1>2, <3>1, <3>2 DEF WorkOK, Directory
    <2>7. Alters(t) /\ UNCHANGED disk /\ patchFile'[t] = patch
      BY <1>1, <1>5 DEF Alters, AfterPatch, TypeOK
    <2>8. DirectoryOK(Directory(t)', userSteps)
      BY <1>1, <1>2, <1>3, <2>7 DEF DirectoryOK, Directory
    <2>9. r.pc = "evidence" /\ r.tx = t /\ r.mem = m
      BY <1>2, <2>4 DEF Process
    <2>. HIDE DEF r, now
    <2>10. WorkOK(p, r, Directory(t)', userSteps)
      BY <1>1, <1>3, <2>4, <2>5, <2>6, <2>7, <2>9, NewDirectory DEF WorkOK, now
    <2>. QED
      BY <1>1, <1>5, <2>7, <2>8, <2>9, <2>10, SerialStep
  <1>. QED
    BY <1>4, <1>5 DEF PreparePatch

(* Trajectory and receipt, written before the manifest that needs them. *)
LEMMA SerialEvidence ==
    ASSUME IInv, SerialInv, NEW p \in Proc, NEW t \in Tx, t = proc[p].tx,
           PrepareTrajectory(p) \/ PrepareReceipt(p)
    PROVE  SerialInv'
  <1>1. /\ Active(p) /\ proc[p].pc \in {"evidence", "receipt"}
        /\ UNCHANGED <<disk, worktree, patchFile, edited, userSteps>> /\ Alters(t)
    BY DEF PrepareTrajectory, PrepareReceipt, At, Active, history, Alters
  <1>2. /\ proc[p] \in Process /\ WorkOK(p, proc[p], Directory(t), userSteps)
        /\ DirectoryOK(Directory(t), userSteps) /\ LocalsOK(proc[p])
    BY <1>1, Working
  <1>3. disk[t] # None /\ disk[t].status = "open"
    BY <1>1, <1>2 DEF WorkOK, Directory
  <1>4. DirectoryOK(Directory(t)', userSteps)
    BY <1>1, <1>2, <1>3 DEF DirectoryOK, Directory
  <1>5. /\ proc[p].mem.started = disk[t].started /\ proc[p].mem.status = "prepared"
        /\ BaseOK(proc[p].mem) /\ patchFile[t] = proc[p].mem.patch
        /\ PreparedOK(proc[p].mem, worktree[t], userSteps)
    BY <1>1, <1>2 DEF WorkOK, Directory
  <1>6. CASE PrepareTrajectory(p)
    <2> DEFINE r == [proc[p] EXCEPT !.pc = "receipt"]
    <2>1. Become(p, r) /\ traj'[t] = proc[p].own
      BY <1>6 DEF PrepareTrajectory, Goto, TypeOK
    <2>2. r.pc = "receipt" /\ r.tx = t /\ r.mem = proc[p].mem /\ r.own = proc[p].own
      BY <1>2 DEF Process
    <2>. HIDE DEF r
    <2>3. WorkOK(p, r, Directory(t)', userSteps)
      BY <1>1, <1>3, <1>5, <2>1, <2>2, NewDirectory DEF WorkOK
    <2>. QED
      BY <1>1, <1>4, <2>1, <2>2, <2>3, SerialStep
  <1>7. CASE PrepareReceipt(p)
    <2> DEFINE c == ReceiptOf(proc[p].mem, proc[p].own)
               m == [proc[p].mem EXCEPT !.receipt = c]
               r == [proc[p] EXCEPT !.pc = "seal", !.mem.receipt = c]
    <2>1. Become(p, r) /\ receiptFile'[t] = c /\ UNCHANGED traj /\ proc[p].pc = "receipt"
      BY <1>7 DEF PrepareReceipt, TypeOK, At
    <2>2. proc[p].mem \in Manifest
      BY <1>1, <1>2 DEF LocalsOK
    <2>3. ReceiptOf(m, proc[p].own) = c
      BY <2>2 DEF ReceiptOf, Manifest
    <2>4. traj[t] = proc[p].own
      BY <1>2, <2>1 DEF WorkOK, Directory
    <2>. HIDE DEF c
    <2>5. /\ m.status = "prepared" /\ m.started = disk[t].started /\ m.receipt = c
          /\ m.base = proc[p].mem.base /\ m.wsBase = proc[p].mem.wsBase
          /\ m.commit = proc[p].mem.commit /\ m.patch = proc[p].mem.patch
          /\ m.prepared = proc[p].mem.prepared /\ m.expected = proc[p].mem.expected
      BY <1>5, <2>2 DEF Manifest
    <2>6. r.pc = "seal" /\ r.tx = t /\ r.mem = m /\ r.own = proc[p].own
      BY <1>2 DEF Process
    <2>. HIDE DEF r, m
    <2>7. BaseOK(m) /\ PreparedOK(m, worktree[t], userSteps)
      BY <1>5, <2>5 DEF BaseOK, PreparedOK, ExpectsPrepared
    <2>8. WorkOK(p, r, Directory(t)', userSteps)
      BY <1>1, <1>3, <1>5, <2>1, <2>3, <2>4, <2>5, <2>6, <2>7, NewDirectory DEF WorkOK
    <2>. QED
      BY <1>1, <1>4, <2>1, <2>6, <2>8, SerialStep
  <1>. QED
    BY <1>6, <1>7

(* What is sealed is what the files in the directory say. *)
LEMMA SerialSeal ==
    ASSUME IInv, SerialInv, NEW p \in Proc, NEW t \in Tx, t = proc[p].tx, PrepareSeal(p)
    PROVE  SerialInv'
  <1> DEFINE m == proc[p].mem
  <1>1. /\ Active(p) /\ proc[p].pc = "seal" /\ Save(t, m) /\ Become(p, Fresh("done"))
        /\ UNCHANGED <<worktree, traj, patchFile, receiptFile, edited, userSteps>>
    BY DEF PrepareSeal, Refuse, Exit, At, Active, history
  <1>2. /\ proc[p] \in Process /\ WorkOK(p, proc[p], Directory(t), userSteps)
        /\ DirectoryOK(Directory(t), userSteps) /\ LocalsOK(proc[p])
    BY <1>1, Working
  <1>3. m \in Manifest /\ proc[p].own \in Trajectory
    BY <1>1, <1>2 DEF LocalsOK
  <1>4. /\ disk[t] # None /\ m.started = disk[t].started /\ BaseOK(m)
        /\ m.status = "prepared" /\ patchFile[t] = m.patch
        /\ PreparedOK(m, worktree[t], userSteps) /\ traj[t] = proc[p].own
        /\ receiptFile[t] = m.receipt /\ m.receipt = ReceiptOf(m, proc[p].own)
    BY <1>1, <1>2 DEF WorkOK, Directory
  <1>5. Alters(t) /\ disk'[t] = m
    BY <1>1 DEF Alters, Save, TypeOK
  <1>6. edited[t] \subseteq disk[t].started
    BY <1>2, <1>4 DEF DirectoryOK, Directory
  <1>. HIDE DEF m
  <1>7. traj[t] # None
    BY <1>3, <1>4
  <1>8. DirectoryOK(Directory(t)', userSteps)
    BY <1>1, <1>3, <1>4, <1>5, <1>6, <1>7, NewDirectory DEF DirectoryOK
  <1>. QED
    BY <1>1, <1>5, <1>8, FreshType, SerialStep

(* Commit finds in the source what it expects. *)
LEMMA SerialVerify ==
    ASSUME IInv, SerialInv, NEW p \in Proc, NEW t \in Tx, t = proc[p].tx, CommitVerify(p)
    PROVE  SerialInv'
  <1> DEFINE r == [proc[p] EXCEPT !.pc = "mark", !.body = source]
  <1>1. Active(p) /\ proc[p].pc = "verify" /\ UNCHANGED <<store, edited, userSteps>>
    BY DEF CommitVerify, At, Active, history
  <1>2. proc[p] \in Process /\ WorkOK(p, proc[p], Directory(t), userSteps)
    BY <1>1, Working
  <1>3. CASE Refuse(p)
    BY <1>1, <1>3, StillExit DEF Refuse
  <1>4. CASE Become(p, r) /\ source = proc[p].mem.expected
    <2>1. r.pc = "mark" /\ r.tx = t /\ r.mem = proc[p].mem /\ r.body = proc[p].mem.expected
      BY <1>2, <1>4 DEF Process
    <2>. HIDE DEF r
    <2>2. WorkOK(p, r, Directory(t), userSteps)
      BY <1>1, <1>2, <2>1 DEF WorkOK
    <2>. QED
      BY <1>1, <1>4, <2>1, <2>2, StillStep
  <1>. QED
    BY <1>3, <1>4 DEF CommitVerify

(* Commit ends. *)
LEMMA SerialMark ==
    ASSUME IInv, SerialInv, NEW p \in Proc, NEW t \in Tx, t = proc[p].tx, CommitMark(p)
    PROVE  SerialInv'
  <1> DEFINE m == [proc[p].mem EXCEPT !.status = "committed"]
             r == [proc[p] EXCEPT !.pc = "remove"]
  <1>1. /\ Active(p) /\ proc[p].pc = "mark"
        /\ UNCHANGED <<worktree, traj, patchFile, receiptFile, edited, userSteps>>
    BY DEF CommitMark, At, Active, history
  <1>2. /\ proc[p] \in Process /\ WorkOK(p, proc[p], Directory(t), userSteps)
        /\ DirectoryOK(Directory(t), userSteps) /\ proc[p].mem \in Manifest
    BY <1>1, Working DEF LocalsOK
  <1>3. proc[p].mem = disk[t]
    BY <1>1, <1>2 DEF WorkOK, Directory
  <1>4. Save(t, m) /\ Become(p, r)
    BY DEF CommitMark, Goto
  <1>5. /\ m \in Manifest /\ m.status = "committed" /\ m.started = disk[t].started
        /\ m.base = disk[t].base /\ m.wsBase = disk[t].wsBase /\ m.commit = disk[t].commit
    BY <1>2, <1>3 DEF Manifest
  <1>. HIDE DEF m
  <1>6. Alters(t) /\ disk'[t] = m
    BY <1>1, <1>4 DEF Alters, Save, TypeOK
  <1>7. edited[t] \subseteq disk[t].started /\ BaseOK(disk[t])
    BY <1>2, <1>3 DEF DirectoryOK, Directory
  <1>8. DirectoryOK(Directory(t)', userSteps)
    <2>1. edited'[t] = edited[t] /\ m # None
      BY <1>1, <1>5, NoneAssumption
    <2>2. BaseOK(m)
      BY ONLY <1>5, <1>7 DEF BaseOK
    <2>. QED
      BY ONLY <1>5, <1>6, <1>7, <2>1, <2>2, NewDirectory DEF DirectoryOK
  <1>9. r.pc = "remove" /\ r.tx = t
    BY <1>2 DEF Process
  <1>. HIDE DEF r
  <1>10. WorkOK(p, r, Directory(t)', userSteps)
    BY <1>5, <1>6, <1>9, NewDirectory DEF WorkOK
  <1>. QED
    BY <1>1, <1>4, <1>6, <1>8, <1>9, <1>10, SerialStep

LEMMA SerialAbort ==
    ASSUME IInv, SerialInv, ~Overlap, NEW p \in Proc, NEW t \in Tx, Abort(p, t)
    PROVE  SerialInv'
  <1> DEFINE m == [disk[t] EXCEPT !.status = "aborted"]
             b == Fresh("remove")
             r == [b EXCEPT !.tx = t]
  <1>1. /\ ~Busy(t) /\ disk[t] # None /\ Save(t, m) /\ Become(p, r)
        /\ UNCHANGED <<worktree, traj, patchFile, receiptFile, edited, userSteps>>
    BY DEF Abort, MayStart, history
  <1>2. disk[t] \in Manifest /\ DirectoryOK(Directory(t), userSteps)
    BY <1>1 DEF TypeOK, SerialInv
  <1>3. /\ m \in Manifest /\ m.status = "aborted" /\ m.started = disk[t].started
        /\ m.base = disk[t].base /\ m.wsBase = disk[t].wsBase /\ m.commit = disk[t].commit
    BY <1>2 DEF Manifest
  <1>4. b \in Process /\ b.pc = "remove"
    BY FreshType
  <1>. HIDE DEF m, b
  <1>5. Alters(t) /\ disk'[t] = m
    BY <1>1 DEF Alters, Save, TypeOK
  <1>6. edited[t] \subseteq disk[t].started /\ BaseOK(disk[t])
    BY <1>1, <1>2 DEF DirectoryOK, Directory
  <1>7. DirectoryOK(Directory(t)', userSteps)
    BY <1>1, <1>3, <1>5, <1>6, NewDirectory DEF DirectoryOK, BaseOK
  <1>8. r.pc = "remove" /\ r.tx = t
    BY <1>4 DEF Process
  <1>. HIDE DEF r
  <1>9. WorkOK(p, r, Directory(t)', userSteps)
    BY <1>3, <1>5, <1>8, NewDirectory DEF WorkOK
  <1>. QED
    BY <1>1, <1>5, <1>7, <1>8, <1>9, SerialStep

LEMMA SerialRemove ==
    ASSUME IInv, SerialInv, NEW p \in Proc, NEW t \in Tx, t = proc[p].tx, RemoveWorktree(p)
    PROVE  SerialInv'
  <1>1. /\ Active(p) /\ proc[p].pc = "remove" /\ Become(p, Fresh("done")) /\ Alters(t)
        /\ UNCHANGED <<disk, traj, patchFile, receiptFile, edited, userSteps>>
    BY DEF RemoveWorktree, Exit, At, Active, history, Alters
  <1>2. /\ WorkOK(p, proc[p], Directory(t), userSteps)
        /\ DirectoryOK(Directory(t), userSteps)
    BY <1>1, Working
  <1>3. disk[t] # None /\ disk[t].status \in {"committed", "aborted"}
    BY <1>1, <1>2 DEF WorkOK, Directory
  <1>4. DirectoryOK(Directory(t)', userSteps)
    BY <1>1, <1>2, <1>3 DEF DirectoryOK, Directory
  <1>. QED
    BY <1>1, <1>4, FreshType, SerialStep

----------------------------------------------------------------------------
(* The invariant of commands that do not overlap. *)

LEMMA InitSerial == Init => SerialInv
  <1> SUFFICES ASSUME Init PROVE SerialInv
    OBVIOUS
  <1>1. \A p \in Proc : ~Active(p)
    BY FreshType DEF Init, Active
  <1>2. \A t \in Tx : DirectoryOK(Directory(t), userSteps)
    BY DEF Init, DirectoryOK, Directory
  <1>. QED
    BY <1>1, <1>2 DEF SerialInv, Alone

LEMMA SerialProceed ==
    ASSUME IInv, SerialInv, NEW p \in Proc, Proceed(p) \/ Failure(p) PROVE SerialInv'
  <1> HIDE DEF IInv
  <1>1. CASE Crash(p)
    BY <1>1, SerialCrash
  <1>2. CASE ~Crash(p)
    <2>1. Active(p)
      BY <1>2 DEF Proceed, Creating, Running, Preparing, Committing, Failure, AddWorktree,
            Publish, Restore, SaveCheckpoint, ToolStart, ToolEdits, ToolPasses, ToolFails,
            ToolDone, Submit, SubmitDone, SubmitCheckpoint, Stop, SaveTrajectory,
            PrepareLock, PrepareSnapshot, PrepareContent, PrepareNames, PreparePatch,
            PrepareTrajectory, PrepareReceipt, PrepareSeal, CommitCheck, CommitApply,
            CommitVerify, CommitMark, RemoveWorktree, Interrupt, CommitTorn, At, Active
    <2>2. PICK t \in Tx : t = proc[p].tx
      BY <2>1, Working
    <2>3. CASE Creating(p) \/ Committing(p)
      BY <2>2, <2>3, SerialCreate, SerialTool, SerialApply, SerialVerify, SerialMark,
         SerialRemove
         DEF Creating, Committing
    <2>4. CASE Running(p)
      BY <2>2, <2>4, SerialRestore, SerialTrajectory, SerialLog, SerialToolEdits, SerialTool
         DEF Running
    <2>5. CASE Preparing(p)
      BY <2>2, <2>5, SerialPrepareLock, SerialPrepareSnapshot, SerialTool,
         SerialPrepareNames, SerialPreparePatch, SerialEvidence, SerialSeal DEF Preparing
    <2>6. CASE Failure(p)
      BY <1>2, <2>2, <2>6, SerialTrajectory, SerialApply DEF Failure
    <2>. QED
      BY <2>3, <2>4, <2>5, <2>6 DEF Proceed
  <1>. QED
    BY <1>1, <1>2

LEMMA NextSerial ==
    ASSUME ~Overlap PROVE IInv /\ SerialInv /\ [Next]_vars => SerialInv'
  <1> SUFFICES ASSUME IInv, SerialInv, [Next]_vars PROVE SerialInv'
    OBVIOUS
  <1>1. CASE UNCHANGED vars
    <2>1. \A t \in Tx : Directory(t)' = Directory(t)
      BY <1>1 DEF vars, Directory
    <2>. QED
      BY <1>1, <2>1 DEF vars, SerialInv, Alone, Active
  <1>2. ASSUME NEW p \in Proc, Command(p) PROVE SerialInv'
    BY <1>2, SerialBegin, SerialAbort DEF Command
  <1>3. ASSUME NEW p \in Proc, Proceed(p) \/ Failure(p) PROVE SerialInv'
    BY <1>3, SerialProceed
  <1>4. CASE UserEdit \/ UserCommit \/ (\E t \in Tx : WorktreeEdit(t))
    BY <1>4, SerialEnvironment
  <1>. QED
    BY <1>1, <1>2, <1>3, <1>4 DEF Next

LEMMA SerialInvariant == ASSUME ~Overlap PROVE Spec => [](IInv /\ SerialInv)
  <1>1. Init => SerialInv
    BY InitSerial
  <1>2. IInv /\ SerialInv /\ [Next]_vars => SerialInv'
    BY NextSerial
  <1>. QED
    BY <1>1, <1>2, Invariant, PTL DEF Spec

(* A save changes the status of its own transaction. *)
LEMMA SavedStatus ==
    ASSUME TypeOK, NEW t \in Tx, NEW u \in Tx, NEW m \in Manifest, Save(u, m)
    PROVE  Status(t)' = IF t = u THEN m.status ELSE Status(t)
  BY DEF Save, Status, TypeOK

(* A transaction is committed by commit alone, and no save undoes an end. *)
LEMMA StatusStep ==
    ASSUME IInv, SerialInv, Next, NEW t \in Tx
    PROVE  \/ Status(t)' = Status(t)
           \/ Status(t) \notin {"committed", "aborted"} /\ Status(t)' # "committed"
           \/ \E p \in Proc : CommitMark(p) /\ proc[p].tx = t /\ Status(t) = "prepared"
  <1> DEFINE Good == \/ Status(t)' = Status(t)
                     \/ Status(t) \notin {"committed", "aborted"} /\ Status(t)' # "committed"
                     \/ \E p \in Proc : CommitMark(p) /\ proc[p].tx = t /\ Status(t) = "prepared"
  <1>1. CASE UNCHANGED disk
    BY <1>1 DEF Status
  <1>2. ASSUME NEW p \in Proc, NEW u \in Tx, Abort(p, u) PROVE Good
    <2> DEFINE m == [disk[u] EXCEPT !.status = "aborted"]
    <2>1. disk[u] \in Manifest /\ disk[u].status # "committed" /\ Save(u, m)
      BY <1>2 DEF Abort, TypeOK
    <2>2. m \in Manifest /\ m.status = "aborted"
      BY <2>1 DEF Manifest
    <2>. HIDE DEF m
    <2>3. Status(t)' = IF t = u THEN "aborted" ELSE Status(t)
      BY <2>1, <2>2, SavedStatus
    <2>4. t = u => Status(t) # "committed"
      BY <2>1 DEF Status
    <2>. QED
      BY <2>3, <2>4
  <1>3. ASSUME NEW p \in Proc, Active(p), NEW m \in Manifest, Save(proc[p].tx, m),
               m.status \in {"open", "prepared"},
               proc[p].pc \in {"begin", "publish"} \cup OpenPoints
        PROVE  Good
    <2>1. PICK u \in Tx : u = proc[p].tx
      BY <1>3, Working
    <2>2. disk[u] = None \/ disk[u].status = "open"
      BY <1>3, <2>1, Working DEF WorkOK, Directory
    <2>3. Status(u) \notin {"committed", "aborted"}
      BY <2>2 DEF Status
    <2>4. Status(t)' = IF t = u THEN m.status ELSE Status(t)
      BY <1>3, <2>1, SavedStatus
    <2>. QED
      BY <1>3, <2>3, <2>4
  <1>4. ASSUME NEW p \in Proc, Publish(p) \/ Restore(p) \/ PrepareSeal(p), ~UNCHANGED disk
        PROVE  Good
    <2>1. /\ Active(p) /\ proc[p].pc \in {"publish", "restore", "seal"}
          /\ Save(proc[p].tx, proc[p].mem)
      BY <1>4 DEF Publish, Restore, PrepareSeal, At, Active
    <2>2. proc[p].mem \in Manifest /\ WorkOK(p, proc[p], Directory(proc[p].tx), userSteps)
      BY <2>1, Working DEF LocalsOK
    <2>3. proc[p].mem.status \in {"open", "prepared"}
      BY <2>1, <2>2 DEF WorkOK
    <2>. QED
      BY <1>3, <2>1, <2>2, <2>3
  <1>5. ASSUME NEW p \in Proc, ToolStart(p) \/ Submit(p) \/ ToolDone(p) \/ SubmitDone(p)
        PROVE  Good
    <2> DEFINE a == [proc[p].mem EXCEPT !.started = @ \cup {<<p, proc[p].calls + 1>>}]
               b == [proc[p].mem EXCEPT !.completed = @ \cup {<<p, proc[p].calls>>}]
    <2>1. /\ Active(p) /\ proc[p].pc \in {"model", "answered", "submitted"}
          /\ \/ Save(proc[p].tx, a) /\ proc[p].calls < MaxCalls
             \/ Save(proc[p].tx, b) /\ proc[p].pc \in {"answered", "submitted"}
      BY <1>5 DEF ToolStart, Submit, ToolDone, SubmitDone, At, Active, LogStart, LogDone
    <2>2. /\ proc[p].mem \in Manifest /\ proc[p] \in Process /\ LocalsOK(proc[p])
          /\ WorkOK(p, proc[p], Directory(proc[p].tx), userSteps)
      BY <2>1, Working DEF LocalsOK
    <2>3. proc[p].mem.status = "open"
      BY <2>1, <2>2 DEF WorkOK
    <2>4. CASE Save(proc[p].tx, a) /\ proc[p].calls < MaxCalls
      <3>1. <<p, proc[p].calls + 1>> \in Call
        BY <2>2, <2>4 DEF Call, Process
      <3>2. a \in Manifest /\ a.status = "open"
        BY <2>2, <2>3, <3>1 DEF Manifest
      <3>. HIDE DEF a
      <3>. QED
        BY <1>3, <2>1, <2>4, <3>2
    <2>5. CASE Save(proc[p].tx, b) /\ proc[p].pc \in {"answered", "submitted"}
      <3>1. <<p, proc[p].calls>> \in Call
        BY <2>2, <2>5 DEF Call, LocalsOK
      <3>2. b \in Manifest /\ b.status = "open"
        BY <2>2, <2>3, <3>1 DEF Manifest
      <3>. HIDE DEF b
      <3>. QED
        BY <1>3, <2>1, <2>5, <3>2
    <2>. QED
      BY <2>1, <2>4, <2>5
  <1>6. ASSUME NEW p \in Proc, PrepareSnapshot(p) \/ PrepareNames(p), ~UNCHANGED disk
        PROVE  Good
    <2>1. PICK x \in {"no submission", "not bound", "unrepresentable"} : PrepareFails(p, x)
      BY <1>6 DEF PrepareSnapshot, PrepareNames
    <2> DEFINE m == [proc[p].mem EXCEPT !.failure = x]
    <2>2. Active(p) /\ proc[p].pc \in {"snapshot", "diff"} /\ Save(proc[p].tx, m)
      BY <1>6, <2>1 DEF PrepareSnapshot, PrepareNames, PrepareFails, At, Active
    <2>3. /\ proc[p].mem \in Manifest
          /\ WorkOK(p, proc[p], Directory(proc[p].tx), userSteps)
      BY <2>2, Working DEF LocalsOK
    <2>4. m \in Manifest /\ m.status = "open"
      BY <2>2, <2>3 DEF WorkOK, Manifest
    <2>. HIDE DEF m
    <2>. QED
      BY <1>3, <2>2, <2>4
  <1>7. ASSUME NEW p \in Proc, CommitMark(p), ~UNCHANGED disk PROVE Good
    <2> DEFINE m == [proc[p].mem EXCEPT !.status = "committed"]
    <2>1. Active(p) /\ proc[p].pc = "mark" /\ Save(proc[p].tx, m)
      BY <1>7 DEF CommitMark, At, Active
    <2>2. PICK u \in Tx : u = proc[p].tx
      BY <2>1, Working
    <2>3. proc[p].mem \in Manifest /\ disk[u] # None /\ disk[u].status = "prepared"
      BY <2>1, <2>2, Working DEF LocalsOK, WorkOK, Directory
    <2>4. m \in Manifest
      BY <2>3 DEF Manifest
    <2>. HIDE DEF m
    <2>5. t # u => Status(t)' = Status(t)
      BY <2>1, <2>2, <2>4, SavedStatus
    <2>6. Status(u) = "prepared"
      BY <2>3 DEF Status
    <2>. QED
      BY <1>7, <2>1, <2>2, <2>5, <2>6
  <1>8. ASSUME NEW p \in Proc, Command(p) PROVE Good
    BY <1>1, <1>2, <1>8 DEF Command, Begin, Resume, CommitLock, store
  <1>9. ASSUME NEW p \in Proc, Proceed(p), ~UNCHANGED disk PROVE Good
    <2>1. \/ Publish(p) \/ Restore(p) \/ PrepareSeal(p)
          \/ ToolStart(p) \/ Submit(p) \/ ToolDone(p) \/ SubmitDone(p)
          \/ PrepareSnapshot(p) \/ PrepareNames(p) \/ CommitMark(p)
      BY <1>9 DEF Proceed, Creating, Running, Preparing, Committing, AddWorktree,
            SaveCheckpoint, ToolEdits, ToolPasses, ToolFails, SubmitCheckpoint, Stop,
            SaveTrajectory, PrepareLock, PrepareContent, PreparePatch, AfterPatch,
            PrepareTrajectory, PrepareReceipt, CommitCheck, CommitApply, CommitVerify,
            RemoveWorktree, store
    <2>. QED
      BY <1>4, <1>5, <1>6, <1>7, <1>9, <2>1
  <1>10. CASE \/ \E p \in Proc : Failure(p)
              \/ UserEdit \/ UserCommit \/ (\E u \in Tx : WorktreeEdit(u))
    BY <1>1, <1>10 DEF Failure, Interrupt, CommitTorn, Crash, UserEdit, UserCommit,
          WorktreeEdit, store
  <1>. QED
    BY <1>1, <1>8, <1>9, <1>10 DEF Next

(* Where commands on a transaction do not overlap, a tool call that changed a  *)
(* worktree is in the manifest on disk (TransactionExecutor.execute_tool saves *)
(* it first), whatever crashes, is interrupted or writes from outside.         *)
THEOREM EffectsAreLogged == ASSUME ~Overlap PROVE Spec => []LoggedBeforeEffect
  <1>1. IInv /\ SerialInv => LoggedBeforeEffect
    BY DEF SerialInv, LoggedBeforeEffect, Published, DirectoryOK, Directory
  <1>. QED
    BY <1>1, SerialInvariant, PTL

(* Then commit and abort are final: no save of a manifest read before puts the *)
(* transaction back (TransactionStore.save takes no lock).                     *)
THEOREM EndsAreFinal == ASSUME ~Overlap PROVE Spec => TerminalStates
  <1> DEFINE Final == \A t \in Tx : Status(t) \in {"committed", "aborted"} => Status(t)' = Status(t)
  <1>1. IInv /\ SerialInv /\ [Next]_vars => [Final]_vars
    <2> SUFFICES ASSUME IInv, SerialInv, Next PROVE Final
      OBVIOUS
    <2>. HIDE DEF IInv
    <2> SUFFICES ASSUME NEW t \in Tx, Status(t) \in {"committed", "aborted"}
                 PROVE  Status(t)' = Status(t)
      OBVIOUS
    <2>. QED
      BY StatusStep
  <1>. HIDE DEF Final
  <1>2. Spec => [][Final]_vars
    BY <1>1, SerialInvariant, PTL DEF Spec
  <1>. QED
    BY <1>2 DEF Final, TerminalStates

(* Then a prepared transaction at rest has, in four separate files, just what  *)
(* its manifest says: prepare writes patch, trajectory and receipt before it,  *)
(* in whatever step it dies.  The worktree is the prepared one unless somebody *)
(* wrote to it.                                                                *)
THEOREM PreparedIsWhole ==
    ASSUME ~Overlap PROVE Spec => [](~Intruder \/ userSteps = 0 => PreparedIsCommittable)
  <1>1. IInv /\ SerialInv => (~Intruder \/ userSteps = 0 => PreparedIsCommittable)
    <2> SUFFICES ASSUME IInv, SerialInv, ~Intruder \/ userSteps = 0,
                        NEW t \in Tx, Status(t) = "prepared"
                 PROVE  /\ worktree[t] = disk[t].prepared
                        /\ patchFile[t] = disk[t].patch
                        /\ receiptFile[t] = disk[t].receipt
                        /\ traj[t] # None /\ disk[t].receipt = ReceiptOf(disk[t], traj[t])
      BY DEF PreparedIsCommittable
    <2>1. disk[t] # None /\ disk[t].status = "prepared"
      BY DEF Status
    <2>2. DirectoryOK(Directory(t), userSteps)
      BY DEF SerialInv
    <2>. QED
      BY <2>1, <2>2 DEF DirectoryOK, Directory, PreparedOK, Strayed
  <1>. QED
    BY <1>1, SerialInvariant, PTL

(* Then what TransactionStore.commit finds in the source before it marks the   *)
(* transaction is the baseline with exactly the tested changes, whatever the   *)
(* user did to source and HEAD, as long as no second write from outside can    *)
(* undo a first one to the worktree.                                           *)
THEOREM CommitsAreTested ==
    ASSUME ~Overlap
    PROVE  Spec => [][~Intruder \/ userSteps <= 1 => \A t \in Tx : CommitIsTested(t)]_vars
  <1> DEFINE Tested == ~Intruder \/ userSteps <= 1 => \A t \in Tx : CommitIsTested(t)
  <1>1. ASSUME IInv, SerialInv, Next, ~Intruder \/ userSteps <= 1, NEW t \in Tx
        PROVE  CommitIsTested(t)
    <2> SUFFICES ASSUME Status(t) # "committed", Status(t)' = "committed"
                 PROVE  \E p \in Proc : \E x \in passed[t] :
                          /\ At(p, "mark") /\ proc[p].tx = t
                          /\ proc[p].body.files = [f \in File |-> IF f \in Ignored
                                            THEN disk[t].base.files[f] ELSE x.body.files[f]]
      BY DEF CommitIsTested
    <2>1. PICK p \in Proc : CommitMark(p) /\ proc[p].tx = t /\ Status(t) = "prepared"
      BY <1>1, StatusStep
    <2>2. Active(p) /\ At(p, "mark") /\ proc[p].pc = "mark"
      BY <2>1 DEF CommitMark, At, Active
    <2>3. WorkOK(p, proc[p], Directory(t), userSteps) /\ LocalsOK(proc[p])
      BY <1>1, <2>1, <2>2, Working
    <2>4. disk[t] = proc[p].mem /\ disk[t] \in Manifest /\ disk[t].prepared \in Content
      BY <2>2, <2>3 DEF WorkOK, Directory, LocalsOK
    <2>5. ExpectsPrepared(disk[t])
      BY <1>1, <2>2, <2>3, <2>4 DEF WorkOK, TypeOK
    <2>6. PICK x \in passed[t] : x.body = disk[t].prepared
      <3>1. disk[t].prepared # None
        BY <2>4 DEF Content
      <3>2. TestedManifest(disk[t], passed[t])
        BY <1>1, <2>1 DEF TestedOK, Published, Status
      <3>. QED
        BY <3>1, <3>2 DEF TestedManifest
    <2> DEFINE body == proc[p].body
    <2>7. body.files \in Tree /\ body = disk[t].expected
      BY <2>2, <2>3, <2>4 DEF WorkOK, LocalsOK, Content, Snapshot
    <2>. HIDE DEF body
    <2>8. \A f \in File : body.files[f] = IF f \in Ignored THEN disk[t].base.files[f]
                                                             ELSE x.body.files[f]
      BY <2>5, <2>6, <2>7 DEF ExpectsPrepared
    <2>. QED
      <3>1. body.files = [f \in File |-> body.files[f]]
        BY ONLY <2>7 DEF Tree
      <3>2. body.files = [f \in File |-> IF f \in Ignored THEN disk[t].base.files[f]
                                                             ELSE x.body.files[f]]
        BY ONLY <2>8, <3>1
      <3>. QED
        BY <2>1, <2>2, <3>2 DEF body
  <1>2. IInv /\ SerialInv /\ [Next]_vars => [Tested]_vars
    BY <1>1
  <1>. HIDE DEF Tested
  <1>3. Spec => [][Tested]_vars
    BY <1>2, SerialInvariant, PTL DEF Spec
  <1>. QED
    BY <1>3 DEF Tested

----------------------------------------------------------------------------
(* A commit that is left alone *)

(* `git apply` of a patch to the baseline it was made of is what prepare projected. *)
LEMMA PatchIsExpected ==
    ASSUME NEW m \in Manifest, BaseOK(m), Faithful(m), m.prepared \in Content
    PROVE  Mismatched(m.patch, m.base) = {} /\ ApplyPatch(m.patch, m.base) = m.expected
  <1> DEFINE base == m.base
             c == m.prepared
             listing == m.commit.tree
             names == PatchNames(listing, c)
             patch == PatchOf(listing, c)
  <1>1. /\ base \in Content /\ c \in Content /\ listing \in Tree /\ listing = Tracked(base)
        /\ m.wsBase = Checkout(listing) /\ Tidy(base) /\ Tidy(c) /\ m.patch = patch
        /\ names = ChangedPaths(m.wsBase, c) /\ m.expected = Projected(base, m.wsBase, c)
    BY DEF Manifest, Commit, BaseOK, Faithful
  <1>2. /\ base.files \in Tree /\ base.dirs \in SUBSET Dir /\ c.files \in Tree /\ c.dirs \in SUBSET Dir
        /\ base.dirs = Parents(Present(base.files)) /\ c.dirs = Parents(Present(c.files))
        /\ m.wsBase.files = listing /\ m.wsBase.dirs = Parents(Present(listing))
    BY <1>1 DEF Content, Snapshot, Tidy, Checkout
  <1>3. /\ DOMAIN patch = names /\ names \in SUBSET (File \ Ignored)
        /\ \A f \in names : patch[f].old = listing[f] /\ patch[f].new = c.files[f]
    BY DEF PatchOf, PatchNames
  <1>4. \A f \in File : /\ f \in Ignored => listing[f] = Absent
                        /\ f \notin Ignored => listing[f] = base.files[f]
    BY <1>1 DEF Tracked
  <1>5. names = ChangedFiles(m.wsBase, c) /\ c.dirs = m.wsBase.dirs
    <2>1. ChangedDirs(m.wsBase, c) \in SUBSET Dir
      BY <1>1, <1>2, CheckoutType DEF ChangedDirs, Content, Snapshot
    <2>2. ChangedDirs(m.wsBase, c) = {}
      BY <1>1, <1>3, <2>1, ContentAssumption DEF ChangedPaths
    <2>. QED
      BY <1>1, <2>2 DEF ChangedPaths, ChangedDirs
  <1>6. \A f \in File : f \notin names => c.files[f] = listing[f]
    BY <1>2, <1>5 DEF ChangedFiles
  <1>. HIDE DEF base, c, listing, names, patch
  <1>7. Mismatched(patch, base) = {}
    BY <1>3, <1>4 DEF Mismatched
  <1> DEFINE files == PatchedFiles(patch, names, base.files)
             removed == {f \in names : patch[f].new = Absent}
  <1>8. ApplyPatch(patch, base)
          = [files |-> files, dirs |-> (base.dirs \ Parents(removed)) \cup Parents(Present(files))]
    BY <1>3 DEF ApplyPatch, ApplyPart
  <1>9. \A f \in File : files[f] = IF f \in names THEN c.files[f] ELSE base.files[f]
    BY <1>3 DEF PatchedFiles
  <1>10. Projected(base, m.wsBase, c) = [files |-> files, dirs |-> base.dirs]
    <2>1. (base.dirs \ (m.wsBase.dirs \ c.dirs)) \cup (c.dirs \ m.wsBase.dirs) = base.dirs
      BY <1>5
    <2>2. files = [f \in File |-> IF f \in ChangedFiles(m.wsBase, c) THEN c.files[f] ELSE base.files[f]]
      BY <1>3, <1>5 DEF PatchedFiles
    <2>. QED
      BY <2>1, <2>2 DEF Projected
  <1>. HIDE DEF files
  (* A directory of the worktree holds a tracked file, so the source has it too. *)
  <1>11. \A f \in File : f \notin Ignored => files[f] = c.files[f]
    BY <1>3, <1>4, <1>6, <1>9
  <1>12. \A f \in File : f \in Ignored => files[f] = base.files[f] /\ c.files[f] = Absent
    BY <1>3, <1>4, <1>6, <1>9
  <1>13. Parents(Present(files)) \subseteq base.dirs
    <2> SUFFICES ASSUME NEW f \in File, files[f] # Absent, DirOf[f] # Root
                 PROVE  DirOf[f] \in base.dirs
      BY DEF Parents, Present
    <2>1. CASE f \in Ignored
      BY <1>2, <1>12, <2>1 DEF Parents, Present
    <2>2. CASE f \notin Ignored
      <3>1. c.files[f] # Absent
        BY <1>11, <2>2
      <3>2. DirOf[f] \in Parents(Present(listing))
        BY <1>2, <1>5, <3>1 DEF Parents, Present
      <3>3. PICK x \in File : listing[x] # Absent /\ DirOf[x] = DirOf[f]
        BY <3>2 DEF Parents, Present
      <3>4. base.files[x] # Absent
        BY <1>4, <3>3
      <3>. QED
        BY <1>2, <3>3, <3>4 DEF Parents, Present
    <2>. QED
      BY <2>1, <2>2
  <1>14. Parents(removed) \subseteq Parents(Present(files))
    <2> SUFFICES ASSUME NEW f \in names, patch[f].new = Absent, DirOf[f] # Root
                 PROVE  DirOf[f] \in Parents(Present(files))
      BY DEF Parents
    <2>1. f \in File /\ listing[f] # Absent
      BY <1>1, <1>3 DEF names, PatchNames
    <2>2. DirOf[f] \in Parents(Present(c.files))
      BY <1>2, <1>5, <2>1 DEF Parents, Present
    <2>3. PICK x \in File : c.files[x] # Absent /\ DirOf[x] = DirOf[f]
      BY <2>2 DEF Parents, Present
    <2>4. files[x] # Absent
      BY <1>11, <1>12, <2>3
    <2>. QED
      BY <2>3, <2>4 DEF Parents, Present
  <1>15. ApplyPatch(patch, base) = Projected(base, m.wsBase, c)
    <2>1. (base.dirs \ Parents(removed)) \cup Parents(Present(files)) = base.dirs
      BY <1>13, <1>14
    <2>. QED
      BY <1>8, <1>10, <2>1
  <1>. QED
    BY <1>1, <1>7, <1>15 DEF base, c, patch

(* What applies cleanly applies in one way. *)
LEMMA OneOutcome ==
    ASSUME NEW patch \in Patch, NEW c, Mismatched(patch, c) = {}
    PROVE  \A x \in ApplyOutcomes(patch, c) : x = ApplyPatch(patch, c)
  <1>1. patch = [f \in DOMAIN patch |-> patch[f]]
    BY DEF Patch
  <1>2. \A m : [f \in DOMAIN patch |-> IF f \in {} THEN [patch[f] EXCEPT !.new = m[f]] ELSE patch[f]]
                 = patch
    BY <1>1
  <1>. QED
    BY <1>2 DEF ApplyOutcomes

(* An apply leaves no empty directory where there was none. *)
LEMMA ApplyIsTidy ==
    ASSUME NEW patch \in Patch, NEW c \in Content, Tidy(c) PROVE Tidy(ApplyPatch(patch, c))
  <1> DEFINE S == DOMAIN patch
             files == PatchedFiles(patch, S, c.files)
             removed == {f \in S : patch[f].new = Absent}
  <1>1. ApplyPatch(patch, c)
          = [files |-> files, dirs |-> (c.dirs \ Parents(removed)) \cup Parents(Present(files))]
    BY DEF ApplyPatch, ApplyPart
  <1>2. \A f \in File : files[f] = IF f \in S THEN patch[f].new ELSE c.files[f]
    BY DEF PatchedFiles
  <1>. HIDE DEF files
  <1>3. c.dirs \ Parents(removed) \subseteq Parents(Present(files))
    <2> SUFFICES ASSUME NEW e \in c.dirs, e \notin Parents(removed)
                 PROVE  e \in Parents(Present(files))
      OBVIOUS
    <2>1. PICK f \in File : c.files[f] # Absent /\ DirOf[f] = e /\ e # Root
      BY DEF Tidy, Parents, Present
    <2>2. f \notin removed
      BY <2>1 DEF Parents
    <2>3. files[f] # Absent
      BY <1>2, <2>1, <2>2
    <2>. QED
      BY <2>1, <2>3 DEF Parents, Present
  <1>. QED
    BY <1>1, <1>3 DEF Tidy


(* What a step of p keeps: it knows of its own commit what it says it knows. *)
LEMMA CalmStep ==
    ASSUME TypeOK, CalmInv, OneCommit', NEW p \in Proc, NEW r, Become(p, r),
           Tidy(source'), UNCHANGED source \/ proc[p].pc \in CommitPoints,
           \A t \in Tx : worktree'[t] # None => Tidy(worktree'[t]),
           \A t \in Tx : disk'[t] # None => TidyManifest(disk'[t]),
           r.mem # None => Tidy(r.mem.base),
           r.pc \in SealPoints => Faithful(r.mem),
           r.pc \in {"check", "apply"} => source' = r.mem.base,
           r.pc = "verify" => source' = r.mem.expected,
           \A t \in Tx : WroteSource(t)' => WroteSource(t) \/ (r.pc \in WrotePoints /\ r.tx = t),
           \A t \in Tx : Status(t) = "committed" => Status(t)' = "committed",
           \A t \in Tx : proc[p].pc \in WrotePoints /\ proc[p].tx = t =>
               Status(t)' = "committed" \/ (r.pc \in WrotePoints /\ r.tx = t),
           \A t \in Tx : Status(t)' \in {"committed", "aborted"} =>
               \/ worktree'[t] = None
               \/ r.pc = "remove" /\ r.tx = t
               \/ /\ Status(t) = Status(t)' /\ worktree'[t] = worktree[t]
                  /\ ~(proc[p].pc = "remove" /\ proc[p].tx = t)
    PROVE  CalmInv'
  <1>1. Moves(p, r)
    BY Moved DEF TypeOK
  <1>2. proc'[p] = r /\ \A q \in Proc \ {p} : proc'[q] = proc[q]
    BY <1>1 DEF Moves
  <1>3. ASSUME NEW q \in Proc PROVE CalmWork(proc[q])'
    <2>1. CASE q = p
      BY <1>2, <2>1 DEF CalmWork
    <2>2. CASE q # p
      <3>1. proc'[q] = proc[q] /\ CalmWork(proc[q])
        BY <1>2, <2>2 DEF CalmInv
      <3>2. proc[q].pc \in CommitPoints => UNCHANGED source
        BY <2>2 DEF CalmInv, OneCommit
      <3>. QED
        BY <3>1, <3>2 DEF CalmWork
    <2>. QED
      BY <2>1, <2>2
  <1>4. ASSUME NEW t \in Tx, WroteSource(t)'
        PROVE  \/ Status(t)' = "committed"
               \/ \E q \in Proc : proc'[q].pc \in WrotePoints /\ proc'[q].tx = t
    <2>1. CASE r.pc \in WrotePoints /\ r.tx = t
      BY <1>2, <2>1
    <2>2. CASE WroteSource(t) /\ Status(t) = "committed"
      BY <2>2
    <2>3. ASSUME NEW q \in Proc, proc[q].pc \in WrotePoints, proc[q].tx = t
          PROVE  \/ Status(t)' = "committed"
                 \/ \E x \in Proc : proc'[x].pc \in WrotePoints /\ proc'[x].tx = t
      <3>1. CASE q = p
        BY <1>2, <2>3, <3>1
      <3>2. CASE q # p
        <4>1. proc'[q] = proc[q]
          BY <1>2, <3>2
        <4>. QED
          BY <2>3, <4>1
      <3>. QED
        BY <3>1, <3>2
    <2>4. WroteSource(t) => \/ Status(t) = "committed"
                            \/ \E q \in Proc : proc[q].pc \in WrotePoints /\ proc[q].tx = t
      BY DEF CalmInv, Written
    <2>. QED
      BY <1>4, <2>1, <2>2, <2>3, <2>4
  <1>5. ASSUME NEW t \in Tx, Status(t)' \in {"committed", "aborted"}
        PROVE  worktree'[t] = None \/ \E q \in Proc : proc'[q].pc = "remove" /\ proc'[q].tx = t
    <2>1. CASE r.pc = "remove" /\ r.tx = t
      BY <1>2, <2>1
    <2>2. CASE /\ Status(t) = Status(t)' /\ worktree'[t] = worktree[t]
               /\ ~(proc[p].pc = "remove" /\ proc[p].tx = t)
      <3>1. worktree[t] = None \/ \E q \in Proc : proc[q].pc = "remove" /\ proc[q].tx = t
        BY <1>5, <2>2 DEF CalmInv, Ended
      <3>. QED
        BY <1>2, <2>2, <3>1
    <2>. QED
      BY <1>5, <2>1, <2>2
  <1>6. Written' /\ Ended'
    BY <1>4, <1>5 DEF Written, Ended
  <1>. QED
    BY <1>3, <1>6 DEF CalmInv

(* The step saves nothing, or a manifest that is open or prepared. *)
SavesOpen ==
    \/ UNCHANGED disk
    \/ \E u \in Tx, m \in Manifest :
          Save(u, m) /\ m.status \in {"open", "prepared"} /\ TidyManifest(m)

LEMMA CalmOwnStep ==
    ASSUME IInv, SerialInv, Next, CalmInv, OneCommit', NEW p \in Proc, NEW r, Become(p, r),
           SavesOpen, UNCHANGED <<source, applied>>,
           \A t \in Tx : worktree'[t] # None => Tidy(worktree'[t]),
           \A t \in Tx : worktree'[t] = worktree[t] \/ Status(t) \notin {"committed", "aborted"},
           proc[p].pc \notin WrotePoints \cup {"remove"},
           r.mem # None => Tidy(r.mem.base),
           r.pc \in SealPoints => Faithful(r.mem),
           r.pc \in {"check", "apply"} => source = r.mem.base,
           r.pc \notin WrotePoints
    PROVE  CalmInv'
  <1>1. \A t \in Tx : disk'[t] # None => TidyManifest(disk'[t])
    BY DEF SavesOpen, Save, TypeOK, CalmInv
  <1>2. ASSUME NEW t \in Tx PROVE Status(t) = "committed" => Status(t)' = "committed"
    BY StatusStep
  <1>3. ASSUME NEW t \in Tx, Status(t)' \in {"committed", "aborted"} PROVE Status(t)' = Status(t)
    <2>1. CASE UNCHANGED disk
      BY <2>1 DEF Status
    <2>2. ASSUME NEW u \in Tx, NEW m \in Manifest, Save(u, m), m.status \in {"open", "prepared"}
          PROVE  Status(t)' = Status(t)
      <3>1. Status(t)' = IF t = u THEN m.status ELSE Status(t)
        BY <2>2, SavedStatus
      <3>. QED
        BY <1>3, <2>2, <3>1
    <2>. QED
      BY <2>1, <2>2 DEF SavesOpen
  <1>4. \A t \in Tx : WroteSource(t)' <=> WroteSource(t)
    BY DEF WroteSource
  <1>5. ASSUME NEW t \in Tx, Status(t)' \in {"committed", "aborted"}
        PROVE  Status(t) = Status(t)' /\ worktree'[t] = worktree[t]
    BY <1>3, <1>5
  <1>6. Tidy(source')
    BY DEF CalmInv
  <1>. QED
    BY <1>1, <1>2, <1>4, <1>5, <1>6, CalmStep

(* A step that touches neither source nor worktree, far from a commit. *)
LEMMA CalmMove ==
    ASSUME IInv, SerialInv, Next, CalmInv, OneCommit', NEW p \in Proc, NEW r, Become(p, r),
           SavesOpen, UNCHANGED <<source, applied, worktree>>,
           proc[p].pc \notin WrotePoints \cup {"remove"},
           r.pc \notin SealPoints \cup CommitPoints,
           r.mem # None => Tidy(r.mem.base)
    PROVE  CalmInv'
  <1>1. \A t \in Tx : worktree'[t] # None => Tidy(worktree'[t])
    BY DEF CalmInv
  <1>. QED
    BY <1>1, CalmOwnStep

LEMMA CalmExit ==
    ASSUME IInv, SerialInv, Next, CalmInv, OneCommit', NEW p \in Proc, Exit(p),
           SavesOpen, UNCHANGED <<source, applied, worktree>>,
           proc[p].pc \notin WrotePoints \cup {"remove"}
    PROVE  CalmInv'
  BY FreshType, CalmMove DEF Exit

(* Where the open manifest in memory is the one on disk. *)
LEMMA OpenInHand ==
    ASSUME IInv, SerialInv, NEW p \in Proc,
           proc[p].pc \in RunPoints \cup {"snapshot", "content"} \cup DiffPoints
    PROVE  /\ Active(p) /\ proc[p] \in Process /\ proc[p].tx \in Tx
           /\ proc[p].mem \in Manifest /\ disk[proc[p].tx] = proc[p].mem
           /\ proc[p].mem.status = "open" /\ Status(proc[p].tx) = "open"
  <1>1. Active(p)
    BY DEF Active
  <1>2. /\ proc[p] \in Process /\ proc[p].tx \in Tx /\ proc[p].mem \in Manifest
        /\ disk[proc[p].tx] # None /\ disk[proc[p].tx].status = "open"
        /\ disk[proc[p].tx] = proc[p].mem
    BY <1>1, Working DEF LocalsOK, WorkOK, Directory
  <1>. QED
    BY <1>1, <1>2 DEF Status

LEMMA CalmBegin ==
    ASSUME IInv, SerialInv, Next, CalmInv, OneCommit', NEW p \in Proc, NEW t \in Tx,
           Begin(p, t) \/ Resume(p, t) \/ PrepareLock(p)
    PROVE  CalmInv'
  <1>1. UNCHANGED <<source, applied, worktree, disk>> /\ proc[p].pc \in {"ready", "prepare"}
    BY DEF Begin, Resume, PrepareLock, MayStart, At, git, store, history
  <1>2. SavesOpen
    BY <1>1 DEF SavesOpen
  <1>3. CASE Begin(p, t)
    <2> DEFINE b == Fresh("begin")
               r == [b EXCEPT !.tx = t, !.mem = NewManifest]
    <2>1. Become(p, r)
      BY <1>3 DEF Begin
    <2>2. b \in Process /\ b.pc = "begin"
      BY FreshType
    <2>3. r.pc = "begin" /\ r.mem = NewManifest
      BY <2>2 DEF Process
    <2>4. Tidy(NewManifest.base)
      BY DEF NewManifest, CalmInv
    <2>. HIDE DEF r
    <2>. QED
      BY <1>1, <1>2, <2>1, <2>3, <2>4, CalmMove
  <1>4. CASE Resume(p, t)
    <2> DEFINE b == Fresh("restore")
               r == [b EXCEPT !.tx = t, !.mem = disk[t], !.own = traj[t]]
    <2>1. Become(p, r) /\ disk[t] # None
      BY <1>4 DEF Resume
    <2>2. b \in Process /\ b.pc = "restore"
      BY FreshType
    <2>3. r.pc = "restore" /\ r.mem = disk[t]
      BY <2>2 DEF Process
    <2>4. Tidy(disk[t].base)
      BY <2>1 DEF CalmInv, TidyManifest
    <2>. HIDE DEF r
    <2>. QED
      BY <1>1, <1>2, <2>1, <2>3, <2>4, CalmMove
  <1>5. CASE PrepareLock(p) /\ Exit(p)
    BY <1>1, <1>2, <1>5, CalmExit
  <1>6. CASE PrepareLock(p) /\ ~Exit(p)
    <2> DEFINE u == proc[p].tx
               r == [proc[p] EXCEPT !.pc = "snapshot", !.mem = disk[u]]
    <2>1. Become(p, r) /\ proc[p].pc = "prepare"
      BY <1>6 DEF PrepareLock, At
    <2>2. proc[p] \in Process /\ u \in Tx /\ disk[u] = proc[p].mem /\ proc[p].mem \in Manifest
      BY <2>1, OpenInHand
    <2>3. r.pc = "snapshot" /\ r.mem = proc[p].mem
      BY <2>2 DEF Process
    <2>4. r.mem # None => Tidy(r.mem.base)
      BY <2>3 DEF CalmInv, CalmWork
    <2>. HIDE DEF r
    <2>. QED
      BY <1>1, <1>2, <2>1, <2>3, <2>4, CalmMove
  <1>. QED
    BY <1>3, <1>4, <1>5, <1>6

(* The steps of a run that write neither a manifest nor the worktree. *)
LEMMA CalmRun ==
    ASSUME IInv, SerialInv, Next, CalmInv, OneCommit', NEW p \in Proc,
           \/ SaveCheckpoint(p) \/ ToolPasses(p) \/ ToolFails(p) \/ SubmitCheckpoint(p)
           \/ Stop(p) \/ SaveTrajectory(p)
    PROVE  CalmInv'
  <1>1. UNCHANGED <<source, applied, worktree, disk>> /\ proc[p].pc \in RunPoints
    BY DEF SaveCheckpoint, ToolPasses, ToolFails, SubmitCheckpoint, Stop, SaveTrajectory, At,
           git, store, history
  <1>2. SavesOpen
    BY <1>1 DEF SavesOpen
  <1>3. proc[p] \in Process
    BY <1>1, OpenInHand
  <1>4. ASSUME NEW r, Become(p, r), r.pc \in RunPoints, r.mem = proc[p].mem PROVE CalmInv'
    BY <1>1, <1>2, <1>4, CalmMove DEF CalmInv, CalmWork
  <1>5. CASE SaveCheckpoint(p)
    <2> DEFINE x == Checkpoint(p, "Running", FALSE)
               r == [proc[p] EXCEPT !.pc = "model", !.own = x]
    <2>1. Become(p, r)
      BY <1>5 DEF SaveCheckpoint
    <2>. HIDE DEF x
    <2>2. r.pc = "model" /\ r.mem = proc[p].mem
      BY <1>3 DEF Process
    <2>. HIDE DEF r
    <2>. QED
      BY <1>4, <2>1, <2>2
  <1>6. CASE ToolPasses(p)
    <2> DEFINE x == worktree[proc[p].tx]
               r == [proc[p] EXCEPT !.pc = "answered", !.evidence = x]
    <2>1. Become(p, r)
      BY <1>6 DEF ToolPasses
    <2>. HIDE DEF x
    <2>2. r.pc = "answered" /\ r.mem = proc[p].mem
      BY <1>3 DEF Process
    <2>. HIDE DEF r
    <2>. QED
      BY <1>4, <2>1, <2>2
  <1>7. CASE ToolFails(p)
    <2> DEFINE x == None
               r == [proc[p] EXCEPT !.pc = "answered", !.evidence = x]
    <2>1. Become(p, r)
      BY <1>7 DEF ToolFails
    <2>. HIDE DEF x
    <2>2. r.pc = "answered" /\ r.mem = proc[p].mem
      BY <1>3 DEF Process
    <2>. HIDE DEF r
    <2>. QED
      BY <1>4, <2>1, <2>2
  <1>8. CASE SubmitCheckpoint(p)
    <2> DEFINE x == Checkpoint(p, "Submitted", TRUE)
               r == [proc[p] EXCEPT !.pc = "finish", !.own = x]
    <2>1. Become(p, r)
      BY <1>8 DEF SubmitCheckpoint
    <2>. HIDE DEF x
    <2>2. r.pc = "finish" /\ r.mem = proc[p].mem
      BY <1>3 DEF Process
    <2>. HIDE DEF r
    <2>. QED
      BY <1>4, <2>1, <2>2
  <1>9. CASE Stop(p)
    <2> DEFINE x == Checkpoint(p, "Stopped", TRUE)
               r == [proc[p] EXCEPT !.pc = "finish", !.own = x]
    <2>1. Become(p, r)
      BY <1>9 DEF Stop
    <2>. HIDE DEF x
    <2>2. r.pc = "finish" /\ r.mem = proc[p].mem
      BY <1>3 DEF Process
    <2>. HIDE DEF r
    <2>. QED
      BY <1>4, <2>1, <2>2
  <1>10. CASE SaveTrajectory(p)
    <2> DEFINE r == [proc[p] EXCEPT !.pc = "prepare"]
    <2>1. Become(p, r)
      BY <1>10 DEF SaveTrajectory, Goto
    <2>2. r.pc = "prepare" /\ r.mem = proc[p].mem
      BY <1>3 DEF Process
    <2>. HIDE DEF r
    <2>. QED
      BY <1>4, <2>1, <2>2
  <1>. QED
    BY <1>5, <1>6, <1>7, <1>8, <1>9, <1>10

(* A kill or an interrupt that is not inside a commit. *)
LEMMA CalmKill ==
    ASSUME IInv, SerialInv, Next, CalmInv, OneCommit', NEW p \in Proc, CalmFailure(p)
    PROVE  CalmInv'
  <1>1. Interrupt(p) \/ Crash(p)
    BY DEF CalmFailure, Failure, CommitTorn, At
  <1>2. Exit(p) /\ UNCHANGED <<source, applied, worktree, disk>>
    BY <1>1 DEF Interrupt, Crash, git, store, history
  <1>3. SavesOpen /\ proc[p].pc \notin WrotePoints \cup {"remove"}
    BY <1>2 DEF SavesOpen, CalmFailure
  <1>. QED
    BY <1>2, <1>3, CalmExit

(* The access log changes nothing that commit depends on. *)
LEMMA CalmLog ==
    ASSUME IInv, SerialInv, Next, CalmInv, OneCommit', NEW p \in Proc,
           ToolStart(p) \/ Submit(p) \/ ToolDone(p) \/ SubmitDone(p)
    PROVE  CalmInv'
  <1> DEFINE t == proc[p].tx
  <1>1. /\ proc[p].pc \in {"model", "answered", "submitted"}
        /\ UNCHANGED <<source, applied, worktree>>
    BY DEF ToolStart, Submit, ToolDone, SubmitDone, At, git, history
  <1>2. /\ proc[p] \in Process /\ t \in Tx /\ proc[p].mem \in Manifest
        /\ proc[p].mem.status = "open" /\ LocalsOK(proc[p])
    BY <1>1, OpenInHand, Working
  <1>3. proc[p].mem # None => Tidy(proc[p].mem.base)
    BY DEF CalmInv, CalmWork
  <1>4. ASSUME NEW m \in Manifest, m.status = "open", m.base = proc[p].mem.base, Save(t, m),
               NEW r, Become(p, r), r.mem = m,
               r.pc \in {"tool", "submitted", "observed", "closing"}
        PROVE  CalmInv'
    <2>1. TidyManifest(m)
      BY <1>2, <1>3, <1>4, NoneAssumption DEF TidyManifest
    <2>2. SavesOpen
      BY <1>2, <1>4, <2>1 DEF SavesOpen
    <2>. QED
      BY <1>1, <1>4, <2>1, <2>2, CalmMove DEF TidyManifest
  <1>5. ASSUME NEW next \in {"tool", "submitted"}, LogStart(p, next) PROVE CalmInv'
    <2> DEFINE call == <<p, proc[p].calls + 1>>
               m == [proc[p].mem EXCEPT !.started = @ \cup {call}]
               r == [proc[p] EXCEPT !.pc = next, !.mem = m, !.calls = @ + 1]
    <2>1. proc[p].calls < MaxCalls /\ Save(t, m) /\ Become(p, r)
      BY <1>5 DEF LogStart
    <2>2. call \in Call
      <3>1. proc[p].calls \in 0 .. MaxCalls /\ MaxCalls \in Nat
        BY <1>2, TransactionAssumption DEF Process
      <3>2. proc[p].calls + 1 \in 1 .. MaxCalls
        BY <2>1, <3>1
      <3>. QED
        BY <3>2 DEF Call
    <2>3. m \in Manifest /\ m.status = proc[p].mem.status /\ m.base = proc[p].mem.base
      BY <1>2, <2>2 DEF Manifest
    <2>. HIDE DEF m
    <2>4. r.pc = next /\ r.mem = m
      BY <1>2 DEF Process
    <2>. HIDE DEF r, t
    <2>. QED
      BY <1>2, <1>4, <2>1, <2>3, <2>4
  <1>6. ASSUME NEW next \in {"observed", "closing"}, LogDone(p, next),
               proc[p].pc \in {"answered", "submitted"}
        PROVE  CalmInv'
    <2> DEFINE call == <<p, proc[p].calls>>
               m == [proc[p].mem EXCEPT !.completed = @ \cup {call}]
               r == [proc[p] EXCEPT !.pc = next, !.mem = m]
    <2>1. Save(t, m) /\ Become(p, r)
      BY <1>6 DEF LogDone
    <2>2. call \in Call
      BY <1>2, <1>6, Working DEF Call, LocalsOK, Active
    <2>3. m \in Manifest /\ m.status = proc[p].mem.status /\ m.base = proc[p].mem.base
      BY <1>2, <2>2 DEF Manifest
    <2>. HIDE DEF m
    <2>4. r.pc = next /\ r.mem = m
      BY <1>2 DEF Process
    <2>. HIDE DEF r, t
    <2>. QED
      BY <1>2, <1>4, <2>1, <2>3, <2>4
  <1>. QED
    BY <1>5, <1>6 DEF ToolStart, Submit, ToolDone, SubmitDone, At

LEMMA CalmCreate ==
    ASSUME IInv, SerialInv, Next, CalmInv, OneCommit', NEW p \in Proc,
           AddWorktree(p) \/ Publish(p)
    PROVE  CalmInv'
  <1> DEFINE t == proc[p].tx
             m == proc[p].mem
  <1>1. Active(p) /\ proc[p].pc \in BeginPoints /\ UNCHANGED <<source, applied>>
    BY DEF AddWorktree, Publish, At, Active, git, history
  <1>2. /\ proc[p] \in Process /\ t \in Tx /\ m \in Manifest
        /\ disk[t] = None /\ m.status = "open" /\ BaseOK(m)
    BY <1>1, Working DEF LocalsOK, WorkOK, Directory
  <1>3. Tidy(m.base) /\ Tidy(m.wsBase)
    <2>1. Tidy(m.base)
      BY <1>2, NoneAssumption DEF CalmInv, CalmWork
    <2>. QED
      BY <1>2, <2>1 DEF BaseOK, Checkout, Tidy
  <1>4. TidyManifest(m)
    BY <1>2, <1>3 DEF TidyManifest
  <1>5. \A u \in Tx : u # t \/ Status(u) \notin {"committed", "aborted"}
    BY <1>2 DEF Status
  <1>. HIDE DEF t, m
  <1>6. CASE AddWorktree(p)
    <2> DEFINE r == [proc[p] EXCEPT !.pc = "publish"]
    <2>1. Become(p, r) /\ UNCHANGED disk /\ worktree' = [worktree EXCEPT ![t] = m.wsBase]
      BY <1>6 DEF AddWorktree, Goto, t, m
    <2>2. r.pc = "publish" /\ r.mem = m
      BY <1>2 DEF Process, m
    <2>3. /\ \A u \in Tx : worktree'[u] # None => Tidy(worktree'[u])
          /\ \A u \in Tx : worktree'[u] = worktree[u] \/ Status(u) \notin {"committed", "aborted"}
      BY <1>3, <1>5, <2>1 DEF CalmInv, TypeOK
    <2>4. SavesOpen
      BY <2>1 DEF SavesOpen
    <2>. HIDE DEF r
    <2>. QED
      BY <1>1, <1>3, <2>1, <2>2, <2>3, <2>4, CalmOwnStep
  <1>7. CASE Publish(p) /\ Save(t, m) /\ Goto(p, "start") /\ UNCHANGED worktree
    <2> DEFINE r == [proc[p] EXCEPT !.pc = "start"]
    <2>1. Become(p, r)
      BY <1>7 DEF Goto
    <2>2. r.pc = "start" /\ r.mem = m
      BY <1>2 DEF Process, m
    <2>3. SavesOpen
      BY <1>2, <1>4, <1>7 DEF SavesOpen
    <2>. HIDE DEF r
    <2>. QED
      BY <1>1, <1>3, <1>7, <2>1, <2>2, <2>3, CalmMove
  <1>8. CASE /\ Exit(p) /\ UNCHANGED disk
             /\ worktree' = [worktree EXCEPT ![t] = None]
    <2>1. /\ \A u \in Tx : worktree'[u] # None => Tidy(worktree'[u])
          /\ \A u \in Tx : worktree'[u] = worktree[u] \/ Status(u) \notin {"committed", "aborted"}
      BY <1>5, <1>8 DEF CalmInv, TypeOK
    <2>2. SavesOpen
      BY <1>8 DEF SavesOpen
    <2>. QED
      BY <1>1, <1>8, <2>1, <2>2, FreshType, CalmOwnStep DEF Exit
  <1>. QED
    BY <1>6, <1>7, <1>8 DEF Publish, t, m

LEMMA CalmRestore ==
    ASSUME IInv, SerialInv, Next, CalmInv, OneCommit', NEW p \in Proc, Restore(p)
    PROVE  CalmInv'
  <1> DEFINE t == proc[p].tx
             r == [proc[p] EXCEPT !.pc = "start", !.own = None,
                                  !.evidence = RestoredEvidence(proc[p].own)]
  <1>1. proc[p].pc = "restore" /\ UNCHANGED <<source, applied, worktree>>
    BY DEF Restore, At, git, history
  <1>2. proc[p] \in Process /\ t \in Tx /\ disk[t] = proc[p].mem /\ proc[p].mem \in Manifest
    BY <1>1, OpenInHand
  <1>3. UNCHANGED disk
    BY <1>2 DEF Restore, Save, TypeOK
  <1>4. SavesOpen
    BY <1>3 DEF SavesOpen
  <1>5. CASE Exit(p)
    BY <1>1, <1>4, <1>5, CalmExit
  <1>6. CASE Become(p, r)
    <2>1. r.pc = "start" /\ r.mem = proc[p].mem
      BY <1>2 DEF Process
    <2>2. r.mem # None => Tidy(r.mem.base)
      BY <2>1 DEF CalmInv, CalmWork
    <2>. HIDE DEF r
    <2>. QED
      BY <1>1, <1>4, <1>6, <2>1, <2>2, CalmMove
  <1>. QED
    BY <1>5, <1>6 DEF Restore

(* A tool may leave what Git can represent or what it cannot, not an empty directory. *)
LEMMA CalmToolEdits ==
    ASSUME IInv, SerialInv, Next, CalmInv, OneCommit', \A c \in Edits : Tidy(c),
           NEW p \in Proc, ToolEdits(p)
    PROVE  CalmInv'
  <1> DEFINE t == proc[p].tx
             r == [proc[p] EXCEPT !.pc = "answered"]
  <1>1. proc[p].pc = "tool" /\ UNCHANGED <<source, applied, disk>> /\ Become(p, r)
    BY DEF ToolEdits, At, git, history, Goto
  <1>2. PICK c \in Edits : worktree' = [worktree EXCEPT ![t] = c]
    BY DEF ToolEdits
  <1>3. proc[p] \in Process /\ t \in Tx /\ Status(t) = "open"
    BY <1>1, OpenInHand
  <1>4. r.pc = "answered" /\ r.mem = proc[p].mem
    BY <1>3 DEF Process
  <1>5. r.mem # None => Tidy(r.mem.base)
    BY <1>4 DEF CalmInv, CalmWork
  <1>6. /\ \A u \in Tx : worktree'[u] # None => Tidy(worktree'[u])
        /\ \A u \in Tx : worktree'[u] = worktree[u] \/ Status(u) \notin {"committed", "aborted"}
    BY <1>2, <1>3 DEF CalmInv, TypeOK
  <1>7. SavesOpen
    BY <1>1 DEF SavesOpen
  <1>. HIDE DEF r
  <1>. QED
    BY <1>1, <1>4, <1>5, <1>6, <1>7, CalmOwnStep

----------------------------------------------------------------------------
(* prepare *)

LEMMA CalmPrepareFails ==
    ASSUME IInv, SerialInv, Next, CalmInv, OneCommit', NEW p \in Proc,
           proc[p].pc \in {"snapshot", "diff"},
           NEW failure \in {"no submission", "not bound", "unrepresentable"},
           PrepareFails(p, failure), UNCHANGED <<source, applied, worktree>>
    PROVE  CalmInv'
  <1> DEFINE m == [proc[p].mem EXCEPT !.failure = failure]
  <1>1. proc[p].tx \in Tx /\ proc[p].mem \in Manifest /\ proc[p].mem.status = "open"
    BY OpenInHand
  <1>2. m \in Manifest /\ m.status = "open" /\ m.base = proc[p].mem.base
    BY <1>1 DEF Manifest
  <1>3. Save(proc[p].tx, m) /\ Exit(p)
    BY DEF PrepareFails, Refuse
  <1>. HIDE DEF m
  <1>4. TidyManifest(m)
    BY <1>1, <1>2, NoneAssumption DEF CalmInv, CalmWork, TidyManifest
  <1>5. SavesOpen
    BY <1>1, <1>2, <1>3, <1>4 DEF SavesOpen
  <1>. QED
    BY <1>3, <1>5, CalmExit

LEMMA CalmSnapshot ==
    ASSUME IInv, SerialInv, Next, CalmInv, OneCommit', NEW p \in Proc,
           PrepareSnapshot(p) \/ PrepareContent(p)
    PROVE  CalmInv'
  <1>1. proc[p].pc \in {"snapshot", "content"} /\ UNCHANGED <<source, applied, worktree>>
    BY DEF PrepareSnapshot, PrepareContent, At, git, store, history
  <1>2. proc[p] \in Process
    BY <1>1, OpenInHand
  <1>3. CASE Exit(p) /\ UNCHANGED disk
    BY <1>1, <1>3, CalmExit DEF SavesOpen
  <1>4. CASE proc[p].pc = "snapshot"
             /\ (PrepareFails(p, "no submission") \/ PrepareFails(p, "not bound"))
    BY <1>1, <1>4, CalmPrepareFails
  <1>5. ASSUME NEW r, Become(p, r), UNCHANGED disk, r.pc \in {"content", "diff"},
               r.mem = proc[p].mem
        PROVE  CalmInv'
    BY <1>1, <1>5, CalmMove DEF CalmInv, CalmWork, SavesOpen
  <1>6. CASE PrepareSnapshot(p)
             /\ Become(p, [proc[p] EXCEPT !.pc = "content", !.snap = worktree[proc[p].tx]])
             /\ UNCHANGED disk
    <2> DEFINE r == [proc[p] EXCEPT !.pc = "content", !.snap = worktree[proc[p].tx]]
    <2>1. r.pc = "content" /\ r.mem = proc[p].mem
      BY <1>2 DEF Process
    <2>. HIDE DEF r
    <2>. QED
      BY <1>5, <1>6, <2>1 DEF r
  <1>7. CASE PrepareContent(p)
             /\ Become(p, [proc[p] EXCEPT !.pc = "diff", !.body = worktree[proc[p].tx]])
             /\ UNCHANGED disk
    <2> DEFINE r == [proc[p] EXCEPT !.pc = "diff", !.body = worktree[proc[p].tx]]
    <2>1. r.pc = "diff" /\ r.mem = proc[p].mem
      BY <1>2 DEF Process
    <2>. HIDE DEF r
    <2>. QED
      BY <1>5, <1>7, <2>1 DEF r
  <1>8. CASE PrepareSnapshot(p)
    BY <1>3, <1>4, <1>6, <1>8 DEF PrepareSnapshot, Refuse, At
  <1>9. CASE PrepareContent(p)
    BY <1>3, <1>7, <1>9 DEF PrepareContent, Refuse, store
  <1>. QED
    BY <1>8, <1>9

LEMMA CalmNames ==
    ASSUME IInv, SerialInv, Next, CalmInv, OneCommit', NEW p \in Proc, PrepareNames(p)
    PROVE  CalmInv'
  <1> DEFINE r == [proc[p] EXCEPT !.pc = "patch"]
  <1>1. proc[p].pc = "diff" /\ UNCHANGED <<source, applied, worktree>>
    BY DEF PrepareNames, At, git, history
  <1>2. proc[p] \in Process
    BY <1>1, OpenInHand
  <1>3. CASE Refuse(p) /\ UNCHANGED disk
    BY <1>1, <1>3, CalmExit DEF Refuse, SavesOpen
  <1>4. CASE PrepareFails(p, "unrepresentable")
    BY <1>1, <1>4, CalmPrepareFails
  <1>5. CASE Become(p, r) /\ UNCHANGED disk
    <2>1. r.pc = "patch" /\ r.mem = proc[p].mem
      BY <1>2 DEF Process
    <2>. HIDE DEF r
    <2>. QED
      BY <1>1, <1>5, <2>1, CalmMove DEF CalmInv, CalmWork, SavesOpen
  <1>. QED
    BY <1>3, <1>4, <1>5 DEF PrepareNames, Goto

LEMMA CalmPatch ==
    ASSUME IInv, SerialInv, Next, CalmInv, OneCommit', ~Intruder, NEW p \in Proc, PreparePatch(p)
    PROVE  CalmInv'
  <1> DEFINE t == proc[p].tx
             now == worktree[t]
             patch == PatchOf(proc[p].mem.commit.tree, now)
             m == PreparedManifest(p, patch)
             r == [proc[p] EXCEPT !.pc = "evidence", !.mem = m]
  <1>1. proc[p].pc = "patch" /\ UNCHANGED <<source, applied, worktree>>
    BY DEF PreparePatch, At, git, history
  <1>2. /\ proc[p] \in Process /\ t \in Tx /\ proc[p].mem \in Manifest /\ Active(p)
        /\ proc[p].mem.status = "open" /\ disk[t] = proc[p].mem
    BY <1>1, OpenInHand
  <1>3. Tidy(proc[p].mem.base)
    BY <1>2, NoneAssumption DEF CalmInv, CalmWork
  <1>4. CASE Refuse(p) /\ UNCHANGED <<disk, patchFile>>
    BY <1>1, <1>4, CalmExit DEF Refuse, SavesOpen
  <1>5. CASE now # None /\ Become(p, r) /\ AfterPatch(p, patch)
    <2>1. now = proc[p].snap /\ now = proc[p].body /\ Represented(proc[p])
      <3>1. WorkOK(p, proc[p], Directory(t), userSteps)
        BY <1>2, Working
      <3>. QED
        BY <1>1, <3>1 DEF WorkOK, Directory, Strayed
    <2>2. Tidy(now)
      BY <1>2, <1>5 DEF CalmInv
    <2>3. /\ m.base = proc[p].mem.base /\ m.prepared = proc[p].snap /\ m.patch = patch
          /\ m.expected = Projected(proc[p].mem.base, proc[p].mem.wsBase, proc[p].body)
          /\ m.commit = proc[p].mem.commit /\ m.wsBase = proc[p].mem.wsBase
      BY <1>2 DEF PreparedManifest, Manifest
    <2>. HIDE DEF m
    <2>4. Faithful(m)
      BY <1>3, <2>1, <2>2, <2>3 DEF Faithful, Represented
    <2>5. r.pc = "evidence" /\ r.mem = m
      BY <1>2 DEF Process
    <2>6. SavesOpen
      BY <1>5 DEF AfterPatch, SavesOpen
    <2>7. \A u \in Tx : worktree'[u] # None => Tidy(worktree'[u])
      BY <1>1 DEF CalmInv
    <2>8. Tidy(m.base)
      BY <1>3, <2>3
    <2>. HIDE DEF r
    <2>. QED
      BY <1>1, <1>5, <2>4, <2>5, <2>6, <2>7, <2>8, CalmOwnStep
  <1>. QED
    BY <1>4, <1>5 DEF PreparePatch

LEMMA CalmEvidence ==
    ASSUME IInv, SerialInv, Next, CalmInv, OneCommit', NEW p \in Proc,
           PrepareTrajectory(p) \/ PrepareReceipt(p)
    PROVE  CalmInv'
  <1>1. /\ proc[p].pc \in {"evidence", "receipt"} /\ Active(p)
        /\ UNCHANGED <<source, applied, worktree, disk>>
    BY DEF PrepareTrajectory, PrepareReceipt, At, Active, git, history
  <1>2. proc[p] \in Process /\ proc[p].mem \in Manifest
    BY <1>1, Working DEF LocalsOK
  <1>3. Faithful(proc[p].mem)
    BY <1>1 DEF CalmInv, CalmWork
  <1>4. ASSUME NEW r, Become(p, r), r.pc \in SealPoints,
               /\ r.mem.base = proc[p].mem.base /\ r.mem.prepared = proc[p].mem.prepared
               /\ r.mem.patch = proc[p].mem.patch /\ r.mem.expected = proc[p].mem.expected
               /\ r.mem.commit = proc[p].mem.commit /\ r.mem.wsBase = proc[p].mem.wsBase
        PROVE  CalmInv'
    <2>1. Faithful(r.mem) /\ Tidy(r.mem.base)
      BY <1>3, <1>4 DEF Faithful
    <2>2. \A u \in Tx : worktree'[u] # None => Tidy(worktree'[u])
      BY <1>1 DEF CalmInv
    <2>3. SavesOpen
      BY <1>1 DEF SavesOpen
    <2>. QED
      BY <1>1, <1>4, <2>1, <2>2, <2>3, CalmOwnStep
  <1>5. CASE PrepareTrajectory(p)
    <2> DEFINE r == [proc[p] EXCEPT !.pc = "receipt"]
    <2>1. Become(p, r)
      BY <1>5 DEF PrepareTrajectory, Goto
    <2>2. r.pc = "receipt" /\ r.mem = proc[p].mem
      BY <1>2 DEF Process
    <2>. HIDE DEF r
    <2>. QED
      BY <1>4, <2>1, <2>2
  <1>6. CASE PrepareReceipt(p)
    <2> DEFINE x == ReceiptOf(proc[p].mem, proc[p].own)
               r == [proc[p] EXCEPT !.pc = "seal", !.mem.receipt = x]
    <2>1. Become(p, r)
      BY <1>6 DEF PrepareReceipt
    <2> DEFINE w == [proc[p].mem EXCEPT !.receipt = x]
    <2>. HIDE DEF x
    <2>2. r.pc = "seal" /\ r.mem = w
      BY <1>2 DEF Process
    <2>3. /\ w.base = proc[p].mem.base /\ w.prepared = proc[p].mem.prepared
          /\ w.patch = proc[p].mem.patch /\ w.expected = proc[p].mem.expected
          /\ w.commit = proc[p].mem.commit /\ w.wsBase = proc[p].mem.wsBase
      BY <1>2 DEF Manifest
    <2>. HIDE DEF w
    <2>. HIDE DEF r
    <2>. QED
      BY <1>4, <2>1, <2>2, <2>3
  <1>. QED
    BY <1>5, <1>6

LEMMA CalmSeal ==
    ASSUME IInv, SerialInv, Next, CalmInv, OneCommit', NEW p \in Proc, PrepareSeal(p)
    PROVE  CalmInv'
  <1> DEFINE m == proc[p].mem
  <1>1. /\ proc[p].pc = "seal" /\ Active(p) /\ UNCHANGED <<source, applied, worktree>>
        /\ Save(proc[p].tx, m) /\ Exit(p)
    BY DEF PrepareSeal, Refuse, At, Active, git, history
  <1>2. m \in Manifest /\ proc[p].tx \in Tx /\ m.status = "prepared"
    BY <1>1, Working DEF LocalsOK, WorkOK
  <1>3. TidyManifest(m)
    BY <1>1 DEF CalmInv, CalmWork, TidyManifest, Faithful
  <1>4. SavesOpen
    BY <1>1, <1>2, <1>3 DEF SavesOpen
  <1>. QED
    BY <1>1, <1>4, CalmExit

----------------------------------------------------------------------------
(* commit and abort *)

LEMMA CalmCommitLock ==
    ASSUME IInv, SerialInv, Next, CalmInv, OneCommit', NEW p \in Proc, NEW t \in Tx,
           CommitLock(p, t)
    PROVE  CalmInv'
  <1> DEFINE b == Fresh("check")
             r == [b EXCEPT !.tx = t, !.mem = disk[t]]
  <1>1. /\ proc[p].pc = "ready" /\ UNCHANGED <<source, applied, worktree, disk>> /\ Become(p, r)
        /\ disk[t] # None /\ source = disk[t].base
    BY DEF CommitLock, MayStart, At, git, store, history
  <1>2. b \in Process /\ b.pc = "check"
    BY FreshType
  <1>3. r.pc = "check" /\ r.mem = disk[t]
    BY <1>2 DEF Process
  <1>4. Tidy(disk[t].base)
    BY <1>1 DEF CalmInv, TidyManifest
  <1>5. \A u \in Tx : worktree'[u] # None => Tidy(worktree'[u])
    BY <1>1 DEF CalmInv
  <1>6. SavesOpen
    BY <1>1 DEF SavesOpen
  <1>. HIDE DEF r
  <1>. QED
    BY <1>1, <1>3, <1>4, <1>5, <1>6, CalmOwnStep

LEMMA CalmCheck ==
    ASSUME IInv, SerialInv, Next, CalmInv, OneCommit', NEW p \in Proc, CommitCheck(p)
    PROVE  CalmInv'
  <1> DEFINE r == [proc[p] EXCEPT !.pc = "apply"]
  <1>1. /\ proc[p].pc = "check" /\ Active(p) /\ UNCHANGED <<source, applied, worktree, disk>>
        /\ Exit(p) \/ Become(p, r)
    BY DEF CommitCheck, Refuse, Goto, At, Active, git, store, history
  <1>2. SavesOpen
    BY <1>1 DEF SavesOpen
  <1>3. CASE Exit(p)
    BY <1>1, <1>2, <1>3, CalmExit
  <1>4. CASE Become(p, r)
    <2>1. proc[p] \in Process
      BY <1>1, Working
    <2>2. r.pc = "apply" /\ r.mem = proc[p].mem
      BY <2>1 DEF Process
    <2>3. source = r.mem.base /\ (r.mem # None => Tidy(r.mem.base))
      BY <1>1, <2>2 DEF CalmInv, CalmWork
    <2>4. \A u \in Tx : worktree'[u] # None => Tidy(worktree'[u])
      BY <1>1 DEF CalmInv
    <2>. HIDE DEF r
    <2>. QED
      BY <1>1, <1>2, <1>4, <2>2, <2>3, <2>4, CalmOwnStep
  <1>. QED
    BY <1>1, <1>3, <1>4

(* The manifest in hand at a commit is the prepared one of the disk. *)
LEMMA CommitInHand ==
    ASSUME IInv, SerialInv, CalmInv, NEW p \in Proc, proc[p].pc \in CommitPoints
    PROVE  /\ Active(p) /\ proc[p] \in Process /\ proc[p].tx \in Tx
           /\ proc[p].mem \in Manifest /\ disk[proc[p].tx] = proc[p].mem
           /\ proc[p].mem.prepared \in Content /\ proc[p].mem.patch \in Patch
           /\ BaseOK(proc[p].mem) /\ Faithful(proc[p].mem)
  <1>1. Active(p)
    BY DEF Active
  <1>2. /\ proc[p] \in Process /\ proc[p].tx \in Tx /\ LocalsOK(proc[p])
        /\ WorkOK(p, proc[p], Directory(proc[p].tx), userSteps)
        /\ DirectoryOK(Directory(proc[p].tx), userSteps)
    BY <1>1, Working
  <1>3. /\ disk[proc[p].tx] # None /\ disk[proc[p].tx].status = "prepared"
        /\ disk[proc[p].tx] = proc[p].mem
    BY <1>2 DEF WorkOK, Directory
  <1>4. BaseOK(proc[p].mem)
    BY <1>2, <1>3 DEF DirectoryOK, Directory
  <1>5. Faithful(proc[p].mem)
    BY <1>2, <1>3 DEF CalmInv, TidyManifest
  <1>6. /\ proc[p].mem \in Manifest /\ proc[p].mem.prepared \in Content
        /\ proc[p].mem.patch \in Patch
    BY <1>2 DEF LocalsOK
  <1>. QED
    BY <1>1, <1>2, <1>3, <1>4, <1>5, <1>6

(* The patch applies to the source, which is the baseline, and what it leaves is *)
(* what the manifest expects.                                                    *)
LEMMA CalmApply ==
    ASSUME IInv, SerialInv, Next, CalmInv, OneCommit', NEW p \in Proc, CommitApply(p)
    PROVE  CalmInv'
  <1> DEFINE t == proc[p].tx
             m == proc[p].mem
             r == [proc[p] EXCEPT !.pc = "verify"]
  <1>1. proc[p].pc = "apply" /\ UNCHANGED <<worktree, disk>>
    BY DEF CommitApply, At, store
  <1>2. /\ proc[p] \in Process /\ t \in Tx /\ m \in Manifest /\ m.prepared \in Content
        /\ m.patch \in Patch /\ BaseOK(m) /\ Faithful(m)
    BY <1>1, CommitInHand
  <1>3. source = m.base
    BY <1>1 DEF CalmInv, CalmWork
  <1>4. Mismatched(m.patch, source) = {} /\ ApplyPatch(m.patch, source) = m.expected
    <2>. HIDE DEF m
    <2>. QED
      BY <1>2, <1>3, PatchIsExpected
  <1>5. PICK c \in ApplyOutcomes(m.patch, source) :
            /\ source' = c /\ Become(p, r)
            /\ applied' = applied \cup {[tx |-> t, before |-> source, after |-> c,
                                         prepared |-> m.prepared, patch |-> m.patch]}
    BY <1>4 DEF CommitApply, Goto
  <1>6. source' = m.expected
    <2>. HIDE DEF m
    <2>. QED
      BY <1>2, <1>4, <1>5, OneOutcome
  <1>7. Tidy(source')
    <2>1. source \in Content /\ Tidy(source)
      BY DEF TypeOK, CalmInv
    <2>. HIDE DEF m
    <2>. QED
      BY <1>2, <1>4, <1>6, <2>1, ApplyIsTidy
  <1>8. r.pc = "verify" /\ r.mem = m /\ r.tx = t
    BY <1>2 DEF Process
  <1>9. \A u \in Tx : WroteSource(u)' => WroteSource(u) \/ u = t
    <2>1. applied' = applied \cup {[tx |-> t, before |-> source, after |-> source',
                                    prepared |-> m.prepared, patch |-> m.patch]}
      BY <1>5
    <2>. HIDE DEF m, t
    <2>. QED
      BY <2>1 DEF WroteSource
  <1>10. \A u \in Tx : Status(u)' = Status(u)
    BY <1>1 DEF Status
  <1>11. \A u \in Tx : /\ worktree'[u] # None => Tidy(worktree'[u])
                       /\ disk'[u] # None => TidyManifest(disk'[u])
    BY <1>1 DEF CalmInv
  <1>12. Tidy(m.base)
    BY <1>2 DEF Faithful
  <1>. HIDE DEF r, t, m
  <1>. QED
    BY <1>1, <1>5, <1>6, <1>7, <1>8, <1>9, <1>10, <1>11, <1>12, CalmStep

(* The source is what the manifest expects: commit goes on to mark it. *)
LEMMA CalmVerify ==
    ASSUME IInv, SerialInv, Next, CalmInv, OneCommit', NEW p \in Proc, CommitVerify(p)
    PROVE  CalmInv'
  <1> DEFINE t == proc[p].tx
             r == [proc[p] EXCEPT !.pc = "mark", !.body = source]
  <1>1. proc[p].pc = "verify" /\ UNCHANGED <<source, applied, worktree, disk>>
    BY DEF CommitVerify, At, git, store, history
  <1>2. source = proc[p].mem.expected
    BY <1>1 DEF CalmInv, CalmWork
  <1>3. Become(p, r)
    BY <1>2 DEF CommitVerify
  <1>4. proc[p] \in Process /\ Tidy(proc[p].mem.base)
    BY <1>1, CommitInHand DEF Faithful
  <1>5. r.pc = "mark" /\ r.mem = proc[p].mem /\ r.tx = t
    BY <1>4 DEF Process
  <1>6. \A u \in Tx : Status(u)' = Status(u) /\ (WroteSource(u)' <=> WroteSource(u))
    BY <1>1 DEF Status, WroteSource
  <1>7. /\ Tidy(source')
        /\ \A u \in Tx : /\ worktree'[u] # None => Tidy(worktree'[u])
                         /\ disk'[u] # None => TidyManifest(disk'[u])
    BY <1>1 DEF CalmInv
  <1>. HIDE DEF r, t
  <1>8. proc[p].tx = t
    BY DEF t
  <1>. QED
    BY <1>1, <1>3, <1>4, <1>5, <1>6, <1>7, <1>8, CalmStep

LEMMA CalmMark ==
    ASSUME IInv, SerialInv, Next, CalmInv, OneCommit', NEW p \in Proc, CommitMark(p)
    PROVE  CalmInv'
  <1> DEFINE t == proc[p].tx
             m == [proc[p].mem EXCEPT !.status = "committed"]
             r == [proc[p] EXCEPT !.pc = "remove"]
  <1>1. proc[p].pc = "mark" /\ UNCHANGED <<source, applied, worktree>>
    BY DEF CommitMark, At, git, history
  <1>2. Save(t, m) /\ Become(p, r)
    BY DEF CommitMark, Goto
  <1>3. /\ proc[p] \in Process /\ t \in Tx /\ proc[p].mem \in Manifest
        /\ Tidy(proc[p].mem.base)
    BY <1>1, CommitInHand DEF Faithful
  <1>4. m \in Manifest /\ m.status = "committed" /\ m.base = proc[p].mem.base
    BY <1>3 DEF Manifest
  <1>. HIDE DEF m
  <1>5. r.pc = "remove" /\ r.tx = t /\ r.mem = proc[p].mem
    BY <1>3 DEF Process
  <1>. HIDE DEF r
  <1>6. PICK u \in Tx : u = t
    BY <1>3
  <1>7. \A v \in Tx : Status(v)' = IF v = u THEN "committed" ELSE Status(v)
    BY <1>2, <1>4, <1>6, SavedStatus
  <1>8. \A v \in Tx : disk'[v] # None => TidyManifest(disk'[v])
    <2>1. TidyManifest(m)
      BY <1>3, <1>4 DEF TidyManifest
    <2>. QED
      BY <1>2, <2>1 DEF Save, TypeOK, CalmInv
  <1>9. \A v \in Tx : WroteSource(v)' <=> WroteSource(v)
    BY <1>1 DEF WroteSource
  <1>10. Tidy(source') /\ \A v \in Tx : worktree'[v] # None => Tidy(worktree'[v])
    BY <1>1 DEF CalmInv
  <1>. HIDE DEF t
  <1>11. proc[p].tx = u /\ r.tx = u
    BY <1>5, <1>6 DEF t
  <1>. QED
    BY <1>1, <1>2, <1>3, <1>5, <1>7, <1>8, <1>9, <1>10, <1>11, CalmStep

LEMMA CalmAbort ==
    ASSUME IInv, SerialInv, ~Overlap, Next, CalmInv, OneCommit', NEW p \in Proc, NEW t \in Tx,
           Abort(p, t)
    PROVE  CalmInv'
  <1> DEFINE m == [disk[t] EXCEPT !.status = "aborted"]
             b == Fresh("remove")
             r == [b EXCEPT !.tx = t]
  <1>1. /\ proc[p].pc = "ready" /\ disk[t] # None /\ disk[t].status # "committed"
        /\ Save(t, m) /\ Become(p, r) /\ UNCHANGED <<source, applied, worktree>>
    BY DEF Abort, MayStart, At, git, history
  <1>2. disk[t] \in Manifest
    BY <1>1 DEF TypeOK
  <1>3. m \in Manifest /\ m.status = "aborted" /\ m.base = disk[t].base
    BY <1>2 DEF Manifest
  <1>4. b \in Process /\ b.pc = "remove" /\ b.mem = None
    BY FreshType
  <1>. HIDE DEF m, b
  <1>5. r.pc = "remove" /\ r.tx = t /\ r.mem = None
    BY <1>4 DEF Process
  <1>. HIDE DEF r
  <1>6. \A v \in Tx : Status(v)' = IF v = t THEN "aborted" ELSE Status(v)
    BY <1>1, <1>3, SavedStatus
  <1>7. Status(t) # "committed"
    BY <1>1 DEF Status
  <1>8. \A v \in Tx : disk'[v] # None => TidyManifest(disk'[v])
    <2>1. TidyManifest(m)
      BY <1>1, <1>3 DEF TidyManifest, CalmInv
    <2>. QED
      BY <1>1, <2>1 DEF Save, TypeOK, CalmInv
  <1>9. \A v \in Tx : WroteSource(v)' <=> WroteSource(v)
    BY <1>1 DEF WroteSource
  <1>10. Tidy(source') /\ \A v \in Tx : worktree'[v] # None => Tidy(worktree'[v])
    BY <1>1 DEF CalmInv
  <1>. QED
    BY <1>1, <1>5, <1>6, <1>7, <1>8, <1>9, <1>10, CalmStep

LEMMA CalmRemove ==
    ASSUME IInv, SerialInv, Next, CalmInv, OneCommit', NEW p \in Proc, RemoveWorktree(p)
    PROVE  CalmInv'
  <1> DEFINE t == proc[p].tx
  <1>1. /\ proc[p].pc = "remove" /\ Active(p) /\ UNCHANGED <<source, applied, disk>>
        /\ worktree' = [worktree EXCEPT ![t] = None] /\ Become(p, Fresh("done"))
    BY DEF RemoveWorktree, Exit, At, Active, git, history
  <1>2. t \in Tx
    BY <1>1, Working
  <1>3. \A u \in Tx : Status(u)' = Status(u) /\ (WroteSource(u)' <=> WroteSource(u))
    BY <1>1 DEF Status, WroteSource
  <1>4. \A u \in Tx : worktree'[u] = IF u = t THEN None ELSE worktree[u]
    BY <1>1 DEF TypeOK
  <1>5. /\ Tidy(source') /\ \A u \in Tx : worktree'[u] # None => Tidy(worktree'[u])
        /\ \A u \in Tx : disk'[u] # None => TidyManifest(disk'[u])
    BY <1>1, <1>4 DEF CalmInv
  <1>. QED
    BY <1>1, <1>3, <1>4, <1>5, FreshType, CalmStep

(* The user, while no commit is under way. *)
LEMMA CalmUser ==
    ASSUME IInv, CalmInv, OneCommit', \A c \in Edits : Tidy(c), UserEdit \/ UserCommit,
           \A p \in Proc : proc[p].pc \notin CommitPoints
    PROVE  CalmInv'
  <1>1. UNCHANGED <<proc, disk, worktree, applied>> /\ Tidy(source')
    BY DEF UserEdit, UserCommit, CalmInv, store, history
  <1>2. \A t \in Tx : Status(t)' = Status(t) /\ (WroteSource(t)' <=> WroteSource(t))
    BY <1>1 DEF Status, WroteSource
  <1>3. \A p \in Proc : CalmWork(proc[p])'
    BY <1>1 DEF CalmInv, CalmWork
  <1>4. Written' /\ Ended'
    BY <1>1, <1>2 DEF CalmInv, Written, Ended
  <1>. QED
    BY <1>1, <1>3, <1>4 DEF CalmInv

LEMMA CalmStarts == ASSUME \A c \in Edits : Tidy(c), Init PROVE CalmInv
  <1>1. /\ Tidy(source) /\ applied = {} /\ \A p \in Proc : proc[p] = Fresh("ready")
        /\ \A t \in Tx : worktree[t] = None /\ disk[t] = None
    BY DEF Init
  <1>2. \A p \in Proc : proc[p].pc = "ready" /\ proc[p].mem = None
    BY <1>1, FreshType
  <1>3. \A t \in Tx : Status(t) = "absent" /\ ~WroteSource(t)
    BY <1>1 DEF Status, WroteSource
  <1>. QED
    BY <1>1, <1>2, <1>3 DEF CalmInv, CalmWork, Written, Ended, OneCommit

LEMMA CalmKeeps ==
    ASSUME ~Overlap, ~Intruder, \A c \in Edits : Tidy(c), IInv, SerialInv, CalmInv,
           [CalmNext]_vars
    PROVE  CalmInv'
  <1>1. CASE CalmNext
    <2>1. Next /\ OneCommit'
      BY <1>1 DEF CalmNext, Next, CalmFailure
    <2>2. ASSUME NEW p \in Proc, Command(p) PROVE CalmInv'
      BY <2>1, <2>2, CalmBegin, CalmCommitLock, CalmAbort DEF Command
    <2>3. ASSUME NEW p \in Proc, Proceed(p) PROVE CalmInv'
      <3>1. CASE Creating(p)
        BY <2>1, <3>1, CalmCreate DEF Creating
      <3>2. CASE Running(p)
        BY <2>1, <3>2, CalmRestore, CalmRun, CalmLog, CalmToolEdits DEF Running
      <3>3. CASE Preparing(p)
        <4>1. CASE PrepareLock(p)
          <5>1. proc[p].tx \in Tx
            BY <4>1, OpenInHand DEF PrepareLock, At
          <5>. QED
            BY <2>1, <4>1, <5>1, CalmBegin
        <4>. QED
          BY <2>1, <3>3, <4>1, CalmSnapshot, CalmNames, CalmPatch, CalmEvidence,
             CalmSeal DEF Preparing
      <3>4. CASE Committing(p)
        BY <2>1, <3>4, CalmCheck, CalmApply, CalmVerify, CalmMark, CalmRemove
           DEF Committing
      <3>. QED
        BY <2>3, <3>1, <3>2, <3>3, <3>4 DEF Proceed
    <2>4. ASSUME NEW p \in Proc, CalmFailure(p) PROVE CalmInv'
      BY <2>1, <2>4, CalmKill
    <2>5. CASE (UserEdit \/ UserCommit) /\ \A p \in Proc : proc[p].pc \notin CommitPoints
      BY <2>1, <2>5, CalmUser
    <2>. QED
      BY <1>1, <2>2, <2>3, <2>4, <2>5 DEF CalmNext
  <1>2. CASE UNCHANGED vars
    BY <1>2 DEF vars, CalmInv, CalmWork, Written, Ended, OneCommit, WroteSource, Status
  <1>. QED
    BY <1>1, <1>2

(* Where commits are left alone - one at a time, no write to the source and no   *)
(* kill between the checks and the removal of the worktree, nobody else in a     *)
(* worktree - and no empty directory is kept, which Git would not carry over,    *)
(* TransactionStore.commit fails closed: once it has written to the source the   *)
(* transaction is committed, and what is committed or aborted has no worktree.   *)
THEOREM CommitsFailClosed ==
    ASSUME ~Overlap, ~Intruder, \A c \in Edits : Tidy(c)
    PROVE  CalmSpec => []CommitFailsClosed
  <1>1. IInv /\ SerialInv /\ CalmInv => CommitFailsClosed
    <2> SUFFICES ASSUME CalmInv, NEW t \in Tx, ~Busy(t)
                 PROVE  /\ WroteSource(t) => Status(t) = "committed"
                        /\ Status(t) \in {"committed", "aborted"} => worktree[t] = None
      BY DEF CommitFailsClosed
    <2>1. \A p \in Proc : proc[p].tx = t => proc[p].pc \notin WrotePoints \cup {"remove"}
      BY DEF Busy, Active
    <2>. QED
      BY <2>1 DEF CalmInv, Written, Ended
  <1>2. CalmSpec => Spec
    <2>1. [CalmNext]_vars => [Next]_vars
      BY DEF CalmNext, Next, CalmFailure
    <2>. QED
      BY <2>1, PTL DEF CalmSpec, Spec
  <1>3. Init => CalmInv
    BY CalmStarts
  <1>4. IInv /\ SerialInv /\ CalmInv /\ [CalmNext]_vars => CalmInv'
    BY CalmKeeps
  <1>. QED
    BY <1>1, <1>2, <1>3, <1>4, SerialInvariant, PTL DEF CalmSpec

----------------------------------------------------------------------------
(* The audit of the attempts: what the events of a trajectory count *)

Told == [resumed : BOOLEAN, started : Nat, advanced : Nat, changed : BOOLEAN,
         progress : BOOLEAN, failed : BOOLEAN]

AuditedRun == [exit : {"none", "Running", "Submitted", "Error", "StepLimitExceeded", "Interrupted"},
               steps : Nat, events : Seq({"answer", "error"}), tree : Nat,
               audited : BOOLEAN, audit : Seq(Told)]

Attempt == [from : Nat, answers : Int, edited : BOOLEAN, failed : BOOLEAN]

Agent == [pc : {"off", "loaded", "model", "tools", "returned", "audited"},
          previous : AuditedRun, limit : Nat, steps : Nat, events : Seq({"answer", "error"}),
          safe : Seq({"answer", "error"}), safeTree : Nat, from : Nat, fromTree : Nat]

AuditVarTypes ==
    /\ saved \in AuditedRun /\ agent \in Agent /\ whole \in Seq(Attempt)
    /\ tree \in 0 .. MaxEdits /\ offered \in Nat
    /\ tries \in 0 .. MaxTries /\ breaks \in 0 .. MaxBreaks

(* One attempt is told as it was, b times something having been cut off. *)
TrueOf(told, real, b) ==
    /\ told.started = real.from
    /\ told.failed = real.failed
    /\ told.advanced <= real.answers
    /\ b = 0 => told.advanced = real.answers
    /\ told.resumed /\ real.edited => told.progress

TellsAll(audit, attempts, b) ==
    /\ Len(audit) = Len(attempts)
    /\ \A i \in 1 .. Len(attempts) : TrueOf(audit[i], attempts[i], b)

(* The steps of a trajectory are its answers, or more where the last of them *)
(* are not among the events because the attempt was interrupted.             *)
Counted(trajectory, b) ==
    /\ Answers(trajectory.events) <= trajectory.steps
    /\ b = 0 => Answers(trajectory.events) = trajectory.steps

(* An attempt that runs has added answers to what it was started with. *)
OnlyAnswers(a) ==
    /\ Len(a.previous.events) <= Len(a.events)
    /\ \A k \in Len(a.previous.events) + 1 .. Len(a.events) : a.events[k] = "answer"
    /\ a.previous.steps <= a.steps
    /\ a.steps - a.previous.steps = Answers(a.events) - Answers(a.previous.events)
    /\ Answers(a.safe) <= Answers(a.events)

(* The checkpoint of an attempt that returned tells how far it came. *)
TellsTheEnd(s, a, b) ==
    /\ s.events = a.events
    /\ Monus(s.steps, a.previous.steps) <= Answers(a.events) - Answers(a.previous.events)
    /\ b = 0 => Monus(s.steps, a.previous.steps)
                    = Answers(a.events) - Answers(a.previous.events)
    /\ Len(a.previous.events) <= Len(a.events)
    /\ (\E k \in Len(a.previous.events) + 1 .. Len(a.events) : a.events[k] = "error")
           <=> s.exit = "Error"

AgentOK(s, a, t, w, b) ==
    /\ a.pc = "off" => TellsAll(s.audit, w, b)
    /\ a.pc # "off" =>
          /\ a.from = a.previous.steps /\ Counted(a.previous, b)
          /\ a.previous.tree <= a.fromTree /\ a.fromTree <= t /\ a.safeTree <= t
    /\ a.pc \in {"loaded", "model", "tools", "returned"} => TellsAll(a.previous.audit, w, b)
    /\ a.pc = "loaded" => s = a.previous
    /\ a.pc \in {"model", "tools", "returned"} => ~s.audited
    /\ a.pc \in {"loaded", "model", "tools"} => OnlyAnswers(a)
    /\ a.pc = "returned" => s.tree = t /\ TellsTheEnd(s, a, b)
    /\ a.pc = "audited" => s.audited /\ TellsAll(s.audit, w, b)

(* Until something is cut off, the limit that is offered leaves room. *)
OfferOK(s, a, o, b) ==
    b = 0 /\ o # 0 =>
        /\ a.pc = "off" => s.steps < o
        /\ a.pc # "off" => a.from < o

AuditInv ==
    /\ AuditVarTypes
    /\ saved.tree <= tree
    /\ ~saved.audited => saved.audit = <<>>
    /\ Counted(saved, breaks)
    /\ AgentOK(saved, agent, tree, whole, breaks)
    /\ OfferOK(saved, agent, offered, breaks)

LEMMA AnswersCount ==
    ASSUME NEW events \in Seq({"answer", "error"})
    PROVE  /\ Answers(events) \in Nat
           /\ Answers(Append(events, "answer")) = Answers(events) + 1
           /\ Answers(Append(events, "error")) = Answers(events)
  <1> DEFINE at(e) == {k \in 1 .. Len(e) : e[k] = "answer"}
  <1>1. IsFiniteSet(1 .. Len(events))
    BY FS_Interval
  <1>2. IsFiniteSet(at(events)) /\ Cardinality(at(events)) \in Nat
    BY <1>1, FS_Subset, FS_CardinalityType
  <1>3. ASSUME NEW x \in {"answer", "error"}
        PROVE  at(Append(events, x))
                   = IF x = "answer" THEN at(events) \cup {Len(events) + 1} ELSE at(events)
    <2>1. Len(Append(events, x)) = Len(events) + 1
      BY <1>3
    <2>2. /\ \A k \in 1 .. Len(events) : Append(events, x)[k] = events[k]
          /\ Append(events, x)[Len(events) + 1] = x
      BY <1>3
    <2> QED
      BY <2>1, <2>2
  <1>4. Len(events) + 1 \notin at(events)
    OBVIOUS
  <1>5. Cardinality(at(events) \cup {Len(events) + 1}) = Cardinality(at(events)) + 1
    BY <1>2, <1>4, FS_AddElement
  <1> QED
    BY <1>2, <1>3, <1>5 DEF Answers

LEMMA NoAnswers == Answers(<<>>) = 0
  <1>1. {k \in 1 .. Len(<<>>) : <<>>[k] = "answer"} = {}
    BY Len(<<>>) = 0
  <1> QED
    BY <1>1, FS_EmptySet DEF Answers

----------------------------------------------------------------------------
(* Each step keeps the invariant. *)

LEMMA UnauditedIsRun ==
    ASSUME NEW exit \in {"none", "Running", "Submitted", "Error", "StepLimitExceeded", "Interrupted"},
           NEW steps \in Nat, NEW events \in Seq({"answer", "error"}), NEW t \in Nat
    PROVE  Unaudited(exit, steps, events, t) \in AuditedRun
  BY DEF Unaudited, AuditedRun

LEMMA NoTrajectoryIsRun == NoTrajectory \in AuditedRun
  <1>1. <<>> \in Seq({"answer", "error"})
    OBVIOUS
  <1> QED
    BY <1>1, UnauditedIsRun DEF NoTrajectory

LEMMA NoAgentIsAgent == NoAgent \in Agent
  <1>1. NoTrajectory \in AuditedRun
    BY NoTrajectoryIsRun
  <1> QED
    BY <1>1 DEF NoAgent, Agent

LEMMA AuditInit == InitAudit => AuditInv
  <1> SUFFICES ASSUME InitAudit PROVE AuditInv
    OBVIOUS
  <1>1. NoTrajectory \in AuditedRun
    BY NoTrajectoryIsRun
  <1>2. AuditVarTypes
    BY <1>1, NoAgentIsAgent, AuditAssumption DEF InitAudit, AuditVarTypes
  <1>3. /\ saved.tree = 0 /\ ~saved.audited /\ saved.audit = <<>> /\ saved.steps = 0
        /\ saved.events = <<>> /\ agent.pc = "off" /\ tree = 0 /\ offered = 0 /\ whole = <<>>
    BY DEF InitAudit, NoTrajectory, Unaudited, NoAgent
  <1>4. Counted(saved, breaks)
    BY <1>3, NoAnswers DEF Counted
  <1>5. TellsAll(saved.audit, whole, breaks)
    BY <1>3 DEF TellsAll
  <1>6. AgentOK(saved, agent, tree, whole, breaks)
    BY <1>3, <1>5 DEF AgentOK
  <1> QED
    BY <1>2, <1>3, <1>4, <1>6 DEF AuditInv, OfferOK

(* What was cut off ends the claim that nothing was. *)
LEMMA TellsLater ==
    ASSUME NEW audit, NEW attempts, NEW b \in Nat, TellsAll(audit, attempts, b)
    PROVE  TellsAll(audit, attempts, b + 1)
  BY DEF TellsAll, TrueOf

LEMMA LoadKeeps == ASSUME AuditInv, Load PROVE AuditInv'
  <1>1. PICK limit \in {StepCeiling, offered} \ {0} :
          agent' = [NoAgent EXCEPT !.pc = "loaded", !.previous = saved, !.limit = limit,
                                   !.steps = saved.steps, !.events = saved.events,
                                   !.safe = saved.events, !.safeTree = tree,
                                   !.from = saved.steps, !.fromTree = tree]
    BY DEF Load
  <1>2. /\ saved' = saved /\ tree' = tree /\ offered' = offered /\ whole' = whole
        /\ breaks' = breaks /\ tries' = tries + 1 /\ tries < MaxTries /\ agent.pc = "off"
    BY DEF Load
  <1>3. AuditVarTypes
    BY DEF AuditInv
  <1>4. saved \in AuditedRun /\ saved.steps \in Nat /\ saved.events \in Seq({"answer", "error"})
    BY <1>3 DEF AuditVarTypes, AuditedRun
  <1>5. tree \in Nat /\ limit \in Nat
    BY <1>1, <1>3, AuditAssumption DEF AuditVarTypes
  <1>6. /\ agent'.pc = "loaded" /\ agent'.previous = saved /\ agent'.limit = limit
        /\ agent'.steps = saved.steps /\ agent'.events = saved.events
        /\ agent'.safe = saved.events /\ agent'.safeTree = tree
        /\ agent'.from = saved.steps /\ agent'.fromTree = tree
    BY <1>1, NoAgentIsAgent DEF Agent
  <1>7. agent' \in Agent
    BY <1>1, <1>4, <1>5, NoAgentIsAgent DEF Agent
  <1>8. AuditVarTypes'
    BY <1>2, <1>3, <1>7, AuditAssumption DEF AuditVarTypes
  <1>9. OnlyAnswers(agent')
    <2>1. Answers(saved.events) \in Nat /\ Len(saved.events) \in Nat
      BY <1>4, AnswersCount
    <2> QED
      BY <1>4, <1>6, <2>1 DEF OnlyAnswers
  <1>10. saved.tree <= tree /\ Counted(saved, breaks) /\ TellsAll(saved.audit, whole, breaks)
    BY <1>2 DEF AuditInv, AgentOK
  <1>11. AgentOK(saved, agent', tree, whole, breaks)
    BY <1>5, <1>6, <1>9, <1>10 DEF AgentOK
  <1>12. OfferOK(saved, agent', offered, breaks)
    BY <1>2, <1>6 DEF AuditInv, OfferOK
  <1> QED
    BY <1>2, <1>8, <1>11, <1>12 DEF AuditInv

LEMMA EnterKeeps == ASSUME AuditInv, Enter PROVE AuditInv'
  <1>1. /\ agent.pc = "loaded" /\ agent' = [agent EXCEPT !.pc = "model"]
        /\ tree' = tree /\ offered' = offered /\ whole' = whole /\ tries' = tries
        /\ breaks' = breaks
    BY DEF Enter
  <1>2. AuditVarTypes
    BY DEF AuditInv
  <1>3. /\ agent' \in Agent /\ agent'.pc = "model" /\ agent'.previous = agent.previous
        /\ agent'.steps = agent.steps /\ agent'.events = agent.events
        /\ agent'.safe = agent.safe /\ agent'.safeTree = agent.safeTree
        /\ agent'.from = agent.from /\ agent'.fromTree = agent.fromTree
    BY <1>1, <1>2 DEF AuditVarTypes, Agent
  <1>4. saved' = Unaudited("Running", agent.steps, agent.events, tree)
    BY <1>1, <1>3 DEF Enter, SaveHere
  <1>5. saved' \in AuditedRun
    BY <1>2, <1>4, UnauditedIsRun DEF AuditVarTypes, Agent
  <1>6. /\ ~saved'.audited /\ saved'.audit = <<>> /\ saved'.tree = tree
        /\ saved'.steps = agent.steps /\ saved'.events = agent.events
    BY <1>4 DEF Unaudited
  <1>7. AuditVarTypes'
    BY <1>1, <1>2, <1>3, <1>5 DEF AuditVarTypes
  <1>8. /\ AgentOK(saved, agent, tree, whole, breaks) /\ OnlyAnswers(agent)
        /\ TellsAll(agent.previous.audit, whole, breaks) /\ tree \in Nat
    BY <1>1, <1>2 DEF AuditInv, AgentOK, AuditVarTypes
  <1>9. OnlyAnswers(agent')
    BY <1>3, <1>8 DEF OnlyAnswers
  <1>10. AgentOK(saved', agent', tree, whole, breaks)
    BY <1>1, <1>3, <1>6, <1>8, <1>9 DEF AgentOK
  <1>11. Counted(saved', breaks)
    <2>1. /\ agent.previous.steps \in Nat /\ agent.steps \in Nat
          /\ Answers(agent.events) \in Nat /\ Answers(agent.previous.events) \in Nat
      BY <1>2, AnswersCount DEF AuditVarTypes, Agent, AuditedRun
    <2>2. Counted(agent.previous, breaks)
      BY <1>1, <1>8 DEF AgentOK
    <2> QED
      BY <1>6, <1>8, <2>1, <2>2 DEF Counted, OnlyAnswers
  <1>12. OfferOK(saved', agent', offered, breaks)
    BY <1>1, <1>3 DEF AuditInv, OfferOK
  <1> QED
    BY <1>1, <1>6, <1>7, <1>8, <1>10, <1>11, <1>12 DEF AuditInv

LEMMA AnswerKeeps == ASSUME AuditInv, Answer PROVE AuditInv'
  <1>1. /\ agent.pc = "model" /\ UNCHANGED <<saved, tree, offered, whole, tries, breaks>>
        /\ agent' = [agent EXCEPT !.pc = "tools", !.steps = @ + 1, !.events = Append(@, "answer")]
    BY DEF Answer
  <1>2. AuditVarTypes
    BY DEF AuditInv
  <1>3. /\ agent.steps \in Nat /\ agent.events \in Seq({"answer", "error"})
        /\ agent.previous.events \in Seq({"answer", "error"}) /\ agent.previous.steps \in Nat
        /\ agent.safe \in Seq({"answer", "error"})
    BY <1>2 DEF AuditVarTypes, Agent, AuditedRun
  <1>4. /\ agent.steps + 1 \in Nat /\ Append(agent.events, "answer") \in Seq({"answer", "error"})
        /\ Len(Append(agent.events, "answer")) = Len(agent.events) + 1
        /\ \A k \in 1 .. Len(agent.events) : Append(agent.events, "answer")[k] = agent.events[k]
        /\ Append(agent.events, "answer")[Len(agent.events) + 1] = "answer"
    BY <1>3
  <1>5. /\ agent' \in Agent /\ agent'.pc = "tools" /\ agent'.previous = agent.previous
        /\ agent'.steps = agent.steps + 1 /\ agent'.events = Append(agent.events, "answer")
        /\ agent'.safe = agent.safe /\ agent'.safeTree = agent.safeTree
        /\ agent'.from = agent.from /\ agent'.fromTree = agent.fromTree
    BY <1>1, <1>2, <1>4 DEF AuditVarTypes, Agent
  <1>6. AuditVarTypes'
    BY <1>1, <1>2, <1>5 DEF AuditVarTypes
  <1>7. AgentOK(saved, agent, tree, whole, breaks) /\ OnlyAnswers(agent)
    BY <1>1 DEF AuditInv, AgentOK
  <1>8. /\ Answers(agent.events) \in Nat /\ Answers(agent.previous.events) \in Nat
        /\ Answers(Append(agent.events, "answer")) = Answers(agent.events) + 1
        /\ Answers(agent.safe) \in Nat
    BY <1>3, AnswersCount
  <1>9. OnlyAnswers(agent')
    <2>1. Len(agent.previous.events) \in Nat /\ Len(agent.events) \in Nat
      BY <1>3
    <2>2. \A k \in Len(agent.previous.events) + 1 .. Len(agent.events) + 1 :
             Append(agent.events, "answer")[k] = "answer"
      BY <1>4, <1>7, <2>1 DEF OnlyAnswers
    <2>3. /\ Len(agent.previous.events) <= Len(agent.events)
          /\ agent.previous.steps <= agent.steps
          /\ agent.steps - agent.previous.steps
                 = Answers(agent.events) - Answers(agent.previous.events)
          /\ Answers(agent.safe) <= Answers(agent.events)
      BY ONLY <1>7 DEF OnlyAnswers
    <2>4. /\ Len(agent.previous.events) <= Len(agent.events) + 1
          /\ agent.previous.steps <= agent.steps + 1
          /\ (agent.steps + 1) - agent.previous.steps
                 = (Answers(agent.events) + 1) - Answers(agent.previous.events)
          /\ Answers(agent.safe) <= Answers(agent.events) + 1
      <3>1. /\ agent.steps \in Nat /\ agent.previous.steps \in Nat
            /\ Answers(agent.events) \in Nat /\ Answers(agent.previous.events) \in Nat
            /\ Answers(agent.safe) \in Nat
        BY ONLY <1>3, <1>8
      <3>2. Len(agent.previous.events) <= Len(agent.events) + 1
        BY ONLY <2>1, <2>3
      <3>3. agent.previous.steps <= agent.steps + 1
        BY ONLY <2>3, <3>1
      <3>4. (agent.steps + 1) - agent.previous.steps
                = (Answers(agent.events) + 1) - Answers(agent.previous.events)
        <4>1. agent.steps - agent.previous.steps
                  = Answers(agent.events) - Answers(agent.previous.events)
          BY ONLY <2>3
        <4>2. ASSUME NEW a \in Int, NEW b \in Int, NEW c \in Int, NEW e \in Int, a - b = c - e
              PROVE  (a + 1) - b = (c + 1) - e
          BY ONLY <4>2
        <4> QED
          BY ONLY <3>1, <4>1, <4>2
      <3>5. Answers(agent.safe) <= Answers(agent.events) + 1
        BY ONLY <2>3, <3>1
      <3> QED
        BY ONLY <3>2, <3>3, <3>4, <3>5
    <2> HIDE DEF Answers
    <2> QED
      BY ONLY <1>4, <1>5, <1>8, <2>2, <2>4 DEF OnlyAnswers
  <1>10. AgentOK(saved, agent', tree, whole, breaks)
    BY <1>1, <1>5, <1>7, <1>9 DEF AgentOK
  <1>11. OfferOK(saved, agent', offered, breaks)
    BY <1>1, <1>5 DEF AuditInv, OfferOK
  <1> QED
    BY <1>1, <1>6, <1>10, <1>11 DEF AuditInv

LEMMA EditTreeKeeps == ASSUME AuditInv, EditTree PROVE AuditInv'
  <1>1. /\ agent.pc \in {"off", "tools"} /\ tree < MaxEdits /\ tree' = tree + 1
        /\ UNCHANGED <<saved, agent, offered, whole, tries, breaks>>
    BY DEF EditTree
  <1>2. AuditVarTypes /\ tree \in Nat /\ saved.tree \in Nat
        /\ agent.safeTree \in Nat /\ agent.fromTree \in Nat
    BY DEF AuditInv, AuditVarTypes, AuditedRun, Agent
  <1>3. AuditVarTypes'
    BY <1>1, <1>2, AuditAssumption DEF AuditVarTypes
  <1>4. AgentOK(saved, agent, tree + 1, whole, breaks)
    BY <1>1, <1>2 DEF AuditInv, AgentOK
  <1> QED
    BY <1>1, <1>2, <1>3, <1>4 DEF AuditInv

(* A checkpoint of an attempt that goes on or has returned, with its safe state. *)
LEMMA CountedAgain ==
    ASSUME AuditInv, agent.pc \in {"loaded", "model", "tools"}
    PROVE  /\ Answers(agent.events) <= agent.steps
           /\ breaks = 0 => Answers(agent.events) = agent.steps
           /\ Answers(agent.events) \in Nat /\ Answers(agent.previous.events) \in Nat
           /\ Answers(agent.safe) \in Nat
  <1>1. /\ agent.previous.steps \in Nat /\ agent.steps \in Nat
        /\ Answers(agent.events) \in Nat /\ Answers(agent.previous.events) \in Nat
        /\ Answers(agent.safe) \in Nat
    BY AnswersCount DEF AuditInv, AuditVarTypes, Agent, AuditedRun
  <1>2. Counted(agent.previous, breaks) /\ OnlyAnswers(agent)
    BY DEF AuditInv, AgentOK
  <1> QED
    BY <1>1, <1>2 DEF Counted, OnlyAnswers

(* An attempt that has only added answers tells how many. *)
LEMMA AnswersAreTold ==
    ASSUME NEW a \in Agent, NEW s, NEW b, OnlyAnswers(a),
           s.events = a.events, s.steps = a.steps, s.exit # "Error"
    PROVE  TellsTheEnd(s, a, b)
  <1>1. /\ a.previous.steps \in Nat /\ a.steps \in Nat
        /\ Answers(a.events) \in Nat /\ Answers(a.previous.events) \in Nat
    BY AnswersCount DEF Agent, AuditedRun
  <1>2. Monus(a.steps, a.previous.steps) = Answers(a.events) - Answers(a.previous.events)
    BY <1>1 DEF OnlyAnswers, Monus
  <1>3. ~\E k \in Len(a.previous.events) + 1 .. Len(a.events) : a.events[k] = "error"
    BY DEF OnlyAnswers
  <1> QED
    BY <1>1, <1>2, <1>3 DEF OnlyAnswers, TellsTheEnd

LEMMA EndToolsKeeps ==
    ASSUME AuditInv, NEW exit \in {"Running", "Submitted"}, EndTools(exit) PROVE AuditInv'
  <1>1. /\ agent.pc = "tools" /\ tree' = tree /\ offered' = offered /\ whole' = whole
        /\ tries' = tries /\ breaks' = breaks
        /\ agent' = [agent EXCEPT !.pc = IF exit = "Submitted" THEN "returned" ELSE "model",
                              !.safe = agent.events, !.safeTree = tree]
    BY DEF EndTools
  <1>2. AuditVarTypes /\ tree \in Nat /\ agent \in Agent
        /\ agent.events \in Seq({"answer", "error"})
    BY DEF AuditInv, AuditVarTypes, Agent
  <1>3. /\ agent'.pc = (IF exit = "Submitted" THEN "returned" ELSE "model")
        /\ agent'.previous = agent.previous
        /\ agent'.steps = agent.steps /\ agent'.events = agent.events
        /\ agent'.safe = agent.events /\ agent'.safeTree = tree
        /\ agent'.from = agent.from /\ agent'.fromTree = agent.fromTree
    BY <1>1, <1>2 DEF Agent
  <1>4. agent' \in Agent
    BY <1>1, <1>2 DEF Agent
  <1>5. saved' = Unaudited(exit, agent.steps, agent.events, tree)
    BY <1>1, <1>3 DEF EndTools, SaveHere
  <1>6. saved' \in AuditedRun
    BY <1>2, <1>5, UnauditedIsRun DEF Agent
  <1>7. /\ ~saved'.audited /\ saved'.audit = <<>> /\ saved'.tree = tree
        /\ saved'.steps = agent.steps /\ saved'.events = agent.events /\ saved'.exit = exit
    BY <1>5 DEF Unaudited
  <1>8. AuditVarTypes'
    BY <1>1, <1>2, <1>4, <1>6 DEF AuditVarTypes
  <1>9. AgentOK(saved, agent, tree, whole, breaks) /\ OnlyAnswers(agent)
    BY <1>1 DEF AuditInv, AgentOK
  <1>10. OnlyAnswers(agent')
    BY <1>1, <1>3, <1>9, CountedAgain DEF OnlyAnswers
  <1>11. TellsTheEnd(saved', agent', breaks)
    BY <1>3, <1>4, <1>7, <1>10, AnswersAreTold
  <1>12. AgentOK(saved', agent', tree, whole, breaks)
    <2>1. /\ agent'.from = agent'.previous.steps /\ Counted(agent'.previous, breaks)
          /\ agent'.previous.tree <= agent'.fromTree /\ agent'.fromTree <= tree
          /\ TellsAll(agent'.previous.audit, whole, breaks)
      BY <1>1, <1>3, <1>9 DEF AgentOK
    <2>2. agent'.safeTree <= tree /\ agent'.pc \in {"returned", "model"}
      BY <1>2, <1>3
    <2> QED
      BY ONLY <1>7, <1>10, <1>11, <2>1, <2>2 DEF AgentOK
  <1>13. Counted(saved', breaks)
    BY <1>1, <1>7, CountedAgain DEF Counted
  <1>14. OfferOK(saved', agent', offered, breaks)
    BY <1>1, <1>3 DEF AuditInv, OfferOK
  <1> QED
    BY <1>1, <1>2, <1>7, <1>8, <1>12, <1>13, <1>14 DEF AuditInv

LEMMA MeetLimitKeeps == ASSUME AuditInv, MeetLimit PROVE AuditInv'
  <1>1. /\ agent.pc = "model" /\ tree' = tree /\ offered' = offered /\ whole' = whole
        /\ tries' = tries /\ breaks' = breaks /\ agent' = [agent EXCEPT !.pc = "returned"]
    BY DEF MeetLimit
  <1>2. AuditVarTypes /\ tree \in Nat /\ agent \in Agent
    BY DEF AuditInv, AuditVarTypes
  <1>3. /\ agent'.pc = "returned" /\ agent'.previous = agent.previous
        /\ agent'.steps = agent.steps /\ agent'.events = agent.events
        /\ agent'.safe = agent.safe /\ agent'.safeTree = agent.safeTree
        /\ agent'.from = agent.from /\ agent'.fromTree = agent.fromTree /\ agent' \in Agent
    BY <1>1, <1>2 DEF Agent
  <1>4. saved' = Unaudited("StepLimitExceeded", agent.steps, agent.events, tree)
    BY <1>1, <1>3 DEF MeetLimit, SaveHere
  <1>5. saved' \in AuditedRun
    BY <1>2, <1>4, UnauditedIsRun DEF Agent
  <1>6. /\ ~saved'.audited /\ saved'.audit = <<>> /\ saved'.tree = tree
        /\ saved'.steps = agent.steps /\ saved'.events = agent.events
        /\ saved'.exit = "StepLimitExceeded"
    BY <1>4 DEF Unaudited
  <1>7. AuditVarTypes'
    BY <1>1, <1>2, <1>3, <1>5 DEF AuditVarTypes
  <1>8. AgentOK(saved, agent, tree, whole, breaks) /\ OnlyAnswers(agent)
    BY <1>1 DEF AuditInv, AgentOK
  <1>9. OnlyAnswers(agent')
    BY <1>3, <1>8 DEF OnlyAnswers
  <1>10. TellsTheEnd(saved', agent', breaks)
    BY <1>3, <1>6, <1>9, AnswersAreTold
  <1>11. AgentOK(saved', agent', tree, whole, breaks)
    BY <1>1, <1>3, <1>6, <1>8, <1>10 DEF AgentOK
  <1>12. Counted(saved', breaks)
    BY <1>1, <1>6, CountedAgain DEF Counted
  <1>13. OfferOK(saved', agent', offered, breaks)
    BY <1>1, <1>3 DEF AuditInv, OfferOK
  <1> QED
    BY <1>1, <1>2, <1>6, <1>7, <1>11, <1>12, <1>13 DEF AuditInv

(* What the attempt counted for itself is counted again from its events. *)
LEMMA FailModelKeeps == ASSUME AuditInv, FailModel PROVE AuditInv'
  <1>1. /\ agent.pc = "model" /\ tree' = tree /\ offered' = offered /\ whole' = whole
        /\ tries' = tries /\ breaks' = breaks
        /\ agent' = [agent EXCEPT !.pc = "returned", !.steps = Answers(agent.events),
                              !.events = Append(@, "error")]
    BY DEF FailModel
  <1>2. AuditVarTypes /\ tree \in Nat /\ agent \in Agent
        /\ agent.events \in Seq({"answer", "error"})
        /\ agent.previous.events \in Seq({"answer", "error"})
        /\ agent.steps \in Nat /\ agent.previous.steps \in Nat
    <2>1. AuditVarTypes /\ tree \in Nat /\ agent \in Agent
      BY DEF AuditInv, AuditVarTypes
    <2>2. /\ agent.events \in Seq({"answer", "error"}) /\ agent.steps \in Nat
          /\ agent.previous \in AuditedRun
      BY ONLY <2>1 DEF Agent
    <2>3. agent.previous.events \in Seq({"answer", "error"}) /\ agent.previous.steps \in Nat
      BY ONLY <2>2 DEF AuditedRun
    <2> QED
      BY ONLY <2>1, <2>2, <2>3
  <1>3. /\ Answers(agent.events) \in Nat /\ Answers(agent.previous.events) \in Nat
        /\ Answers(agent.events) <= agent.steps
        /\ breaks = 0 => Answers(agent.events) = agent.steps
        /\ Answers(Append(agent.events, "error")) = Answers(agent.events)
    BY <1>1, <1>2, CountedAgain, AnswersCount
  <1>4. /\ Append(agent.events, "error") \in Seq({"answer", "error"})
        /\ Len(Append(agent.events, "error")) = Len(agent.events) + 1
        /\ Append(agent.events, "error")[Len(agent.events) + 1] = "error"
        /\ Len(agent.events) \in Nat /\ Len(agent.previous.events) \in Nat
    BY <1>2
  <1>5. /\ agent'.pc = "returned" /\ agent'.previous = agent.previous
        /\ agent'.steps = Answers(agent.events)
        /\ agent'.events = Append(agent.events, "error")
        /\ agent'.safe = agent.safe /\ agent'.safeTree = agent.safeTree
        /\ agent'.from = agent.from /\ agent'.fromTree = agent.fromTree
    BY <1>1, <1>2 DEF Agent
  <1>6. agent' \in Agent
    BY <1>1, <1>2, <1>3, <1>4 DEF Agent
  <1>7. saved' = Unaudited("Error", agent'.steps, agent'.events, tree)
    BY <1>1 DEF FailModel, SaveHere
  <1>8. saved' \in AuditedRun
    BY <1>2, <1>3, <1>4, <1>5, <1>7, UnauditedIsRun
  <1>9. /\ ~saved'.audited /\ saved'.audit = <<>> /\ saved'.tree = tree
        /\ saved'.steps = agent'.steps /\ saved'.events = agent'.events
        /\ saved'.exit = "Error"
    BY <1>7 DEF Unaudited
  <1>10. AuditVarTypes'
    BY <1>1, <1>2, <1>6, <1>8 DEF AuditVarTypes
  <1>11. AgentOK(saved, agent, tree, whole, breaks) /\ OnlyAnswers(agent)
    BY <1>1 DEF AuditInv, AgentOK
  <1>12. Counted(saved', breaks)
    BY <1>3, <1>5, <1>9 DEF Counted
  <1>13. TellsTheEnd(saved', agent', breaks)
    <2>1. Monus(Answers(agent.events), agent.previous.steps)
              <= Answers(agent.events) - Answers(agent.previous.events)
      BY <1>2, <1>3, <1>11 DEF OnlyAnswers, Monus
    <2>2. breaks = 0 => Monus(Answers(agent.events), agent.previous.steps)
              = Answers(agent.events) - Answers(agent.previous.events)
      BY <1>2, <1>3, <1>11 DEF OnlyAnswers, Monus
    <2>3. Len(agent.previous.events) <= Len(agent.events)
      BY <1>11 DEF OnlyAnswers
    <2>4. Len(agent.events) + 1 \in
              Len(agent.previous.events) + 1 .. Len(Append(agent.events, "error"))
      BY <1>4, <2>3
    <2>5. \E k \in Len(agent.previous.events) + 1 .. Len(Append(agent.events, "error")) :
              Append(agent.events, "error")[k] = "error"
      BY <1>4, <2>4
    <2>6. Len(agent.previous.events) <= Len(Append(agent.events, "error"))
      BY <1>4, <2>3
    <2> QED
      BY ONLY <1>3, <1>5, <1>9, <2>1, <2>2, <2>5, <2>6 DEF TellsTheEnd
  <1>14. AgentOK(saved', agent', tree, whole, breaks)
    <2>1. /\ agent'.from = agent'.previous.steps /\ Counted(agent'.previous, breaks)
          /\ agent'.previous.tree <= agent'.fromTree /\ agent'.fromTree <= tree
          /\ agent'.safeTree <= tree
          /\ TellsAll(agent'.previous.audit, whole, breaks)
      BY <1>1, <1>5, <1>11 DEF AgentOK
    <2> QED
      BY ONLY <1>5, <1>9, <1>13, <2>1 DEF AgentOK
  <1>15. OfferOK(saved', agent', offered, breaks)
    BY <1>1, <1>5 DEF AuditInv, OfferOK
  <1> QED
    BY <1>1, <1>2, <1>9, <1>10, <1>12, <1>14, <1>15 DEF AuditInv

LEMMA NoAgentIsOff == NoAgent.pc = "off"
  BY DEF NoAgent

LEMMA InterruptTryKeeps == ASSUME AuditInv, InterruptTry PROVE AuditInv'
  <1>1. /\ agent.pc \in {"model", "tools"} /\ breaks < MaxBreaks /\ breaks' = breaks + 1
        /\ saved' = Unaudited("Interrupted", Answers(agent.events), agent.safe, agent.safeTree)
        /\ agent' = NoAgent /\ whole' = <<>>
        /\ tree' = tree /\ offered' = offered /\ tries' = tries
    BY DEF InterruptTry
  <1>2. AuditVarTypes /\ agent.safe \in Seq({"answer", "error"}) /\ agent.safeTree \in Nat
        /\ breaks \in Nat /\ breaks' # 0
    BY <1>1 DEF AuditInv, AuditVarTypes, Agent
  <1>3. Answers(agent.events) \in Nat /\ Answers(agent.safe) <= Answers(agent.events)
        /\ agent.safeTree <= tree
    BY <1>1, CountedAgain DEF AuditInv, AgentOK, OnlyAnswers
  <1>4. saved' \in AuditedRun
    BY <1>1, <1>2, <1>3, UnauditedIsRun
  <1>5. /\ ~saved'.audited /\ saved'.audit = <<>> /\ saved'.tree = agent.safeTree
        /\ saved'.steps = Answers(agent.events) /\ saved'.events = agent.safe
    BY <1>1 DEF Unaudited
  <1>6. agent' \in Agent /\ agent'.pc = "off"
    BY <1>1, NoAgentIsAgent, NoAgentIsOff
  <1>7. whole' \in Seq(Attempt) /\ Len(whole') = 0 /\ Len(saved'.audit) = 0
    BY <1>1, <1>5
  <1>8. AuditVarTypes'
    BY <1>1, <1>2, <1>4, <1>6, <1>7, AuditAssumption DEF AuditVarTypes
  <1>9. TellsAll(saved'.audit, whole', breaks')
    BY <1>7 DEF TellsAll
  <1>10. AgentOK(saved', agent', tree', whole', breaks')
    BY <1>6, <1>9 DEF AgentOK
  <1>11. Counted(saved', breaks') /\ OfferOK(saved', agent', offered', breaks')
    BY <1>2, <1>3, <1>5 DEF Counted, OfferOK
  <1> QED
    BY <1>1, <1>3, <1>5, <1>8, <1>10, <1>11 DEF AuditInv

LEMMA KillTryKeeps == ASSUME AuditInv, KillTry PROVE AuditInv'
  <1>1. /\ agent.pc # "off" /\ breaks < MaxBreaks /\ breaks' = breaks + 1
        /\ agent' = NoAgent
        /\ whole' = (IF agent.pc \in {"loaded", "audited"} THEN whole ELSE <<>>)
        /\ saved' = saved /\ tree' = tree /\ offered' = offered /\ tries' = tries
    BY DEF KillTry
  <1>2. AuditVarTypes /\ breaks \in Nat /\ breaks' # 0
        /\ agent.pc \in {"loaded", "model", "tools", "returned", "audited"}
    BY <1>1 DEF AuditInv, AuditVarTypes, Agent
  <1>3. agent' \in Agent /\ agent'.pc = "off"
    BY <1>1, NoAgentIsAgent, NoAgentIsOff
  <1>4. AuditVarTypes'
    BY <1>1, <1>2, <1>3, AuditAssumption DEF AuditVarTypes
  <1>5. TellsAll(saved.audit, whole', breaks')
    <2>1. CASE agent.pc \in {"loaded", "audited"}
      <3>1. TellsAll(saved.audit, whole, breaks)
        BY <2>1 DEF AuditInv, AgentOK
      <3> QED
        BY <1>1, <1>2, <2>1, <3>1, TellsLater
    <2>2. CASE agent.pc \in {"model", "tools", "returned"}
      <3>1. saved.audit = <<>> /\ whole' = <<>>
        BY <1>1, <2>2 DEF AuditInv, AgentOK
      <3>2. Len(saved.audit) = 0 /\ Len(whole') = 0
        BY <3>1
      <3> QED
        BY <3>2 DEF TellsAll
    <2> QED
      BY <1>2, <2>1, <2>2
  <1>6. AgentOK(saved', agent', tree', whole', breaks')
    BY <1>1, <1>3, <1>5 DEF AgentOK
  <1>7. Counted(saved', breaks') /\ OfferOK(saved', agent', offered', breaks')
    BY <1>1, <1>2 DEF AuditInv, Counted, OfferOK
  <1> QED
    BY <1>1, <1>4, <1>6, <1>7 DEF AuditInv

(* The events of an attempt are those behind the ones it was started with. *)
LEMMA OwnErrors ==
    ASSUME NEW previous, previous.events \in Seq({"answer", "error"}),
           NEW events \in Seq({"answer", "error"}), Len(previous.events) <= Len(events)
    PROVE  (\E k \in 1 .. Len(EventsOfAttempt(previous, events)) :
                EventsOfAttempt(previous, events)[k] = "error")
             <=> \E k \in Len(previous.events) + 1 .. Len(events) : events[k] = "error"
  <1> DEFINE before == previous.events
             own == EventsOfAttempt(previous, events)
  <1>1. Len(before) \in Nat /\ Len(events) \in Nat
    OBVIOUS
  <1>2. /\ Len(own) = Len(events) - Len(before)
        /\ \A k \in 1 .. Len(events) - Len(before) : own[k] = events[Len(before) + k]
    <2>1. own = SubSeq(events, Len(before) + 1, Len(events))
      BY DEF EventsOfAttempt
    <2>2. Len(before) <= Len(events)
      OBVIOUS
    <2> HIDE DEF before, own
    <2> DEFINE n == Len(before)
               m == Len(events)
               part == SubSeq(events, n + 1, m)
    <2>3. n \in Nat /\ m \in Nat /\ n <= m /\ (m - (n + 1)) + 1 = m - n
      BY ONLY <1>1, <2>2
    <2>4. Len(part) = m - n
      <3> HIDE DEF n, m
      <3>. QED
        BY ONLY <2>3
    <2>5. ASSUME NEW k \in 1 .. m - n PROVE part[k] = events[n + k]
      <3> HIDE DEF n, m
      <3>1. (n + 1) + k - 1 = n + k
        BY ONLY <2>3, k \in 1 .. m - n
      <3>2. k \in 1 .. (m - (n + 1)) + 1
        BY ONLY <2>3, k \in 1 .. m - n
      <3>. QED
        BY ONLY <2>3, <3>1, <3>2
    <2>. QED
      BY ONLY <2>1, <2>4, <2>5
  <1> HIDE DEF before, own
  <1>3. ASSUME NEW k \in Len(before) + 1 .. Len(events), events[k] = "error"
        PROVE  \E j \in 1 .. Len(own) : own[j] = "error"
    <2>1. k - Len(before) \in 1 .. Len(events) - Len(before)
          /\ Len(before) + (k - Len(before)) = k
      BY ONLY <1>1, k \in Len(before) + 1 .. Len(events)
    <2>2. k - Len(before) \in 1 .. Len(own) /\ own[k - Len(before)] = events[k]
      BY ONLY <1>2, <2>1
    <2> QED
      BY ONLY <1>3, <2>2
  <1>4. ASSUME NEW j \in 1 .. Len(own), own[j] = "error"
        PROVE  \E k \in Len(before) + 1 .. Len(events) : events[k] = "error"
    <2>1. Len(before) + j \in Len(before) + 1 .. Len(events)
      BY ONLY <1>1, <1>2, j \in 1 .. Len(own)
    <2>2. events[Len(before) + j] = own[j]
      BY ONLY <1>2, j \in 1 .. Len(own)
    <2> QED
      BY ONLY <1>4, <2>1, <2>2
  <1>5. (\E k \in 1 .. Len(own) : own[k] = "error")
          <=> \E k \in Len(before) + 1 .. Len(events) : events[k] = "error"
    BY ONLY <1>3, <1>4
  <1> QED
    BY ONLY <1>5 DEF before, own

NewTold(previous, current) == AuditOf(previous, current)[Len(previous.audit) + 1]

LEMMA AuditGrows ==
    ASSUME NEW previous \in AuditedRun, NEW current \in AuditedRun
    PROVE  LET told == NewTold(previous, current)
               changed == previous.exit # "none" /\ previous.tree # current.tree
           IN  /\ AuditOf(previous, current) = Append(previous.audit, told)
               /\ told \in Told
               /\ told.resumed = (previous.exit # "none")
               /\ told.started = previous.steps
               /\ told.advanced = Monus(current.steps, previous.steps)
               /\ told.progress = (current.steps > previous.steps \/ changed)
               /\ told.failed = \E k \in 1 .. Len(EventsOfAttempt(previous, current.events)) :
                                    EventsOfAttempt(previous, current.events)[k] = "error"
  <1> DEFINE changed == previous.exit # "none" /\ previous.tree # current.tree
             failed == \E k \in 1 .. Len(EventsOfAttempt(previous, current.events)) :
                           EventsOfAttempt(previous, current.events)[k] = "error"
             told == [resumed  |-> previous.exit # "none",
                      started  |-> previous.steps,
                      advanced |-> Monus(current.steps, previous.steps),
                      changed  |-> changed,
                      progress |-> current.steps > previous.steps \/ changed,
                      failed   |-> failed]
  <1>1. AuditOf(previous, current) = Append(previous.audit, told)
    BY DEF AuditOf
  <1>2. previous.steps \in Nat /\ current.steps \in Nat
        /\ previous.audit \in Seq(Told) /\ Len(previous.audit) \in Nat
    BY DEF AuditedRun
  <1>3. Monus(current.steps, previous.steps) \in Nat
    BY <1>2 DEF Monus
  <1>4. failed \in BOOLEAN /\ changed \in BOOLEAN /\ (previous.exit # "none") \in BOOLEAN
        /\ (current.steps > previous.steps \/ changed) \in BOOLEAN
    OBVIOUS
  <1> HIDE DEF failed, changed
  <1>5. told \in Told
    BY <1>2, <1>3, <1>4 DEF Told
  <1>6. /\ told.resumed = (previous.exit # "none") /\ told.started = previous.steps
        /\ told.advanced = Monus(current.steps, previous.steps)
        /\ told.progress = (current.steps > previous.steps \/ changed)
        /\ told.failed = failed
    OBVIOUS
  <1> HIDE DEF told
  <1>7. NewTold(previous, current) = told
    BY <1>1, <1>2, <1>5 DEF NewTold
  <1> QED
    BY <1>1, <1>5, <1>6, <1>7 DEF failed, changed

LEMMA WriteAuditKeeps == ASSUME AuditInv, WriteAudit PROVE AuditInv'
  <1> DEFINE told == NewTold(agent.previous, saved)
             real == [from    |-> agent.from,
                      answers |-> Answers(agent.events) - Answers(agent.previous.events),
                      edited  |-> tree # agent.fromTree,
                      failed  |-> saved.exit = "Error"]
  <1>1. /\ agent.pc = "returned" /\ agent' = [agent EXCEPT !.pc = "audited"]
        /\ saved' = [saved EXCEPT !.audited = TRUE, !.audit = AuditOf(agent.previous, saved)]
        /\ whole' = Append(whole, real)
        /\ tree' = tree /\ offered' = offered /\ tries' = tries /\ breaks' = breaks
    BY DEF WriteAudit
  <1>2. AuditVarTypes /\ agent \in Agent /\ saved \in AuditedRun /\ agent.previous \in AuditedRun
        /\ whole \in Seq(Attempt) /\ tree \in Nat
    BY DEF AuditInv, AuditVarTypes, Agent
  <1>3. /\ agent.from \in Nat /\ agent.fromTree \in Nat /\ agent.previous.tree \in Nat
        /\ agent.previous.steps \in Nat /\ saved.steps \in Nat
        /\ agent.events \in Seq({"answer", "error"})
        /\ agent.previous.events \in Seq({"answer", "error"})
        /\ agent.previous.audit \in Seq(Told)
    BY <1>2 DEF Agent, AuditedRun
  <1>4. Answers(agent.events) \in Nat /\ Answers(agent.previous.events) \in Nat
    BY <1>3, AnswersCount
  <1>5. /\ agent.from = agent.previous.steps /\ Counted(agent.previous, breaks)
        /\ agent.previous.tree <= agent.fromTree /\ agent.fromTree <= tree
        /\ agent.safeTree <= tree
        /\ TellsAll(agent.previous.audit, whole, breaks)
        /\ saved.tree = tree /\ TellsTheEnd(saved, agent, breaks)
    BY <1>1 DEF AuditInv, AgentOK
  <1>6. /\ told \in Told /\ AuditOf(agent.previous, saved) = Append(agent.previous.audit, told)
        /\ told.resumed = (agent.previous.exit # "none")
        /\ told.started = agent.previous.steps
        /\ told.advanced = Monus(saved.steps, agent.previous.steps)
        /\ told.progress = (saved.steps > agent.previous.steps
                              \/ (agent.previous.exit # "none" /\ agent.previous.tree # saved.tree))
        /\ told.failed = \E k \in 1 .. Len(EventsOfAttempt(agent.previous, saved.events)) :
                             EventsOfAttempt(agent.previous, saved.events)[k] = "error"
    <2>1. saved \in AuditedRun /\ agent.previous \in AuditedRun
      BY <1>2
    <2> QED
      BY ONLY <2>1, AuditGrows
  <1>7. real \in Attempt
    BY <1>3, <1>4 DEF Attempt
  <1>8. /\ real.from = agent.from
        /\ real.answers = Answers(agent.events) - Answers(agent.previous.events)
        /\ real.edited = (tree # agent.fromTree) /\ real.failed = (saved.exit = "Error")
    OBVIOUS
  <1> HIDE DEF told, real
  <1>9. TrueOf(told, real, breaks)
    <2>1. told.failed = real.failed
      <3>1. Len(agent.previous.events) <= Len(agent.events) /\ saved.events = agent.events
        BY <1>5 DEF TellsTheEnd
      <3>2. (\E k \in 1 .. Len(EventsOfAttempt(agent.previous, agent.events)) :
                 EventsOfAttempt(agent.previous, agent.events)[k] = "error")
              <=> \E k \in Len(agent.previous.events) + 1 .. Len(agent.events) :
                      agent.events[k] = "error"
        <4>1. /\ agent.events \in Seq({"answer", "error"})
              /\ agent.previous.events \in Seq({"answer", "error"})
              /\ Len(agent.previous.events) <= Len(agent.events)
          BY ONLY <1>3, <3>1
        <4> QED
          BY ONLY <4>1, OwnErrors
      <3>3. told.failed <=> real.failed
        <4>1. saved.exit = "Error" <=>
                  \E k \in Len(agent.previous.events) + 1 .. Len(agent.events) :
                      agent.events[k] = "error"
          BY ONLY <1>5 DEF TellsTheEnd
        <4>2. told.failed = \E k \in 1 .. Len(EventsOfAttempt(agent.previous, agent.events)) :
                  EventsOfAttempt(agent.previous, agent.events)[k] = "error"
          BY ONLY <1>6, <3>1
        <4> QED
          BY ONLY <1>8, <3>2, <4>1, <4>2, Zenon
      <3>4. told.failed \in BOOLEAN /\ real.failed \in BOOLEAN
        BY <1>6, <1>7 DEF Told, Attempt
      <3> QED
        BY <3>3, <3>4
    <2>2. real.edited => agent.previous.tree # saved.tree
      <3>1. tree # agent.fromTree => agent.previous.tree # saved.tree
        BY <1>2, <1>3, <1>5
      <3> QED
        BY ONLY <1>8, <3>1
    <2>3. told.resumed /\ real.edited => told.progress
      BY <1>6, <2>2
    <2>4. told.advanced <= real.answers /\ (breaks = 0 => told.advanced = real.answers)
      BY <1>5, <1>6, <1>8 DEF TellsTheEnd
    <2> QED
      BY <1>5, <1>6, <1>8, <2>1, <2>3, <2>4 DEF TrueOf
  <1>10. /\ saved'.audited /\ saved'.audit = Append(agent.previous.audit, told)
         /\ saved'.tree = saved.tree /\ saved'.steps = saved.steps
         /\ saved'.events = saved.events
    BY <1>1, <1>2, <1>6 DEF AuditedRun
  <1>11. saved' \in AuditedRun
    <2>1. Append(agent.previous.audit, told) \in Seq(Told)
      BY <1>3, <1>6
    <2> QED
      BY <1>1, <1>2, <1>6, <2>1 DEF AuditedRun
  <1>12. /\ agent' \in Agent /\ agent'.pc = "audited" /\ agent'.previous = agent.previous
         /\ agent'.from = agent.from /\ agent'.fromTree = agent.fromTree
         /\ agent'.safeTree = agent.safeTree
    BY <1>1, <1>2 DEF Agent
  <1>13. whole' \in Seq(Attempt)
    BY <1>1, <1>2, <1>7
  <1>14. AuditVarTypes'
    BY <1>1, <1>2, <1>11, <1>12, <1>13 DEF AuditVarTypes
  <1>15. TellsAll(saved'.audit, whole', breaks)
    <2> DEFINE audit == agent.previous.audit
    <2>1. /\ Len(audit) = Len(whole) /\ Len(whole) \in Nat
          /\ \A i \in 1 .. Len(whole) : TrueOf(audit[i], whole[i], breaks)
      BY <1>2, <1>5 DEF TellsAll
    <2>2. /\ Len(Append(audit, told)) = Len(whole) + 1 /\ Len(Append(whole, real)) = Len(whole) + 1
          /\ \A i \in 1 .. Len(whole) :
                Append(audit, told)[i] = audit[i] /\ Append(whole, real)[i] = whole[i]
          /\ Append(audit, told)[Len(whole) + 1] = told
          /\ Append(whole, real)[Len(whole) + 1] = real
      BY <1>2, <1>3, <1>6, <1>7, <2>1
    <2>3. ASSUME NEW i \in 1 .. Len(whole) + 1
          PROVE  TrueOf(Append(audit, told)[i], Append(whole, real)[i], breaks)
      <3>1. CASE i = Len(whole) + 1
        BY <1>9, <2>2, <3>1
      <3>2. CASE i \in 1 .. Len(whole)
        BY <2>1, <2>2, <3>2
      <3> QED
        BY <2>1, <3>1, <3>2
    <2> QED
      BY <1>1, <1>10, <2>2, <2>3 DEF TellsAll
  <1>16. AgentOK(saved', agent', tree, whole', breaks)
    BY <1>5, <1>10, <1>12, <1>15 DEF AgentOK
  <1>17. OfferOK(saved', agent', offered, breaks)
    BY <1>1, <1>12 DEF AuditInv, OfferOK
  <1>18. Counted(saved', breaks) /\ saved'.tree <= tree
    BY <1>10 DEF AuditInv, Counted
  <1> QED
    BY <1>1, <1>10, <1>14, <1>16, <1>17, <1>18 DEF AuditInv

LEMMA OfferKeeps == ASSUME AuditInv, Offer PROVE AuditInv'
  <1>1. /\ agent.pc = "audited" /\ agent' = NoAgent
        /\ offered' = (IF saved.exit = "Submitted" THEN 0 ELSE NextLimit(agent.limit, saved.steps))
        /\ saved' = saved /\ tree' = tree /\ whole' = whole /\ tries' = tries
        /\ breaks' = breaks
    BY DEF Offer
  <1>2. AuditVarTypes /\ agent.limit \in Nat /\ saved.steps \in Nat
    BY DEF AuditInv, AuditVarTypes, Agent, AuditedRun
  <1>3. NextLimit(agent.limit, saved.steps) \in Nat
        /\ saved.steps < NextLimit(agent.limit, saved.steps)
    BY <1>2, AuditAssumption DEF NextLimit
  <1>4. agent' \in Agent /\ agent'.pc = "off"
    BY <1>1, NoAgentIsAgent, NoAgentIsOff
  <1>5. AuditVarTypes'
    BY <1>1, <1>2, <1>3, <1>4 DEF AuditVarTypes
  <1>6. AgentOK(saved, agent', tree, whole, breaks)
    BY <1>1, <1>4 DEF AuditInv, AgentOK
  <1>7. OfferOK(saved, agent', offered', breaks)
    BY <1>1, <1>3, <1>4 DEF OfferOK
  <1> QED
    BY <1>1, <1>5, <1>6, <1>7 DEF AuditInv

----------------------------------------------------------------------------
(* The theorem *)

LEMMA AuditStep == AuditInv /\ [NextAudit]_auditVars => AuditInv'
  <1> SUFFICES ASSUME AuditInv, [NextAudit]_auditVars PROVE AuditInv'
    OBVIOUS
  <1>1. CASE UNCHANGED auditVars
    BY <1>1 DEF AuditInv, AuditVarTypes, auditVars
  <1>2. CASE NextAudit
    BY <1>2, LoadKeeps, EnterKeeps, AnswerKeeps, EditTreeKeeps, FailModelKeeps, MeetLimitKeeps,
       EndToolsKeeps, InterruptTryKeeps, KillTryKeeps, WriteAuditKeeps, OfferKeeps DEF NextAudit
  <1> QED
    BY <1>1, <1>2

(* An attempt is given at least one step. *)
LEMMA LimitKept ==
    ASSUME AuditInv, agent.pc # "off" => agent.limit # 0, NextAudit
    PROVE  agent'.pc # "off" => agent'.limit # 0
  <1>1. agent \in Agent
    BY DEF AuditInv, AuditVarTypes
  <1>2. NoAgent.pc = "off" /\ NoAgent \in Agent
    BY NoAgentIsOff, NoAgentIsAgent
  <1>3. CASE Load
    <2>1. agent'.limit \in {StepCeiling, offered} \ {0}
      BY <1>2, <1>3 DEF Load, Agent
    <2> QED
      BY <2>1
  <1>4. CASE InterruptTry \/ KillTry \/ Offer
    BY <1>2, <1>4 DEF InterruptTry, KillTry, Offer
  <1>5. CASE EditTree \/ Enter \/ Answer \/ FailModel \/ MeetLimit \/ WriteAudit
    BY <1>1, <1>5 DEF EditTree, Enter, Answer, FailModel, MeetLimit, WriteAudit, Agent
  <1>6. CASE \E exit \in {"Running", "Submitted"} : EndTools(exit)
    BY <1>1, <1>6 DEF EndTools, Agent
  <1> QED
    BY <1>3, <1>4, <1>5, <1>6 DEF NextAudit

LEMMA AuditInvariant == AuditInv /\ (agent.pc # "off" => agent.limit # 0) => AuditIsTrue
  <1> SUFFICES ASSUME AuditInv, agent.pc # "off" => agent.limit # 0 PROVE AuditIsTrue
    OBVIOUS
  <1>1. AuditTypeOK
    BY DEF AuditInv, AuditVarTypes, AuditedRun, Agent, AuditTypeOK
  <1>2. agent.pc \in {"off", "loaded", "model", "tools", "returned", "audited"}
    BY <1>1 DEF AuditTypeOK
  <1>3. ASSUME saved.audited
        PROVE  TellsAll(saved.audit, whole, breaks)
    <2>1. CASE agent.pc \in {"off", "audited"}
      BY <2>1 DEF AuditInv, AgentOK
    <2>2. CASE agent.pc = "loaded"
      BY <2>2 DEF AuditInv, AgentOK
    <2> QED
      BY <1>2, <1>3, <2>1, <2>2 DEF AuditInv, AgentOK
  <1>4. ASSUME NEW i \in 1 .. Len(whole), TellsAll(saved.audit, whole, breaks)
        PROVE  i \in Stuck(saved.audit) => whole[i].failed
    <2>1. Len(saved.audit) = Len(whole) /\ Len(whole) \in Nat
          /\ saved.audit[i].failed = whole[i].failed
      BY <1>4 DEF AuditInv, AuditVarTypes, TellsAll, TrueOf
    <2>2. i \in i .. Len(saved.audit)
      BY <2>1
    <2> QED
      BY <2>1, <2>2 DEF Stuck
  <1>5. ASSUME saved.audited
        PROVE  /\ Len(saved.audit) = Len(whole)
               /\ \A i \in 1 .. Len(whole) :
                     LET told == saved.audit[i] IN
                     LET real == whole[i] IN
                     /\ told.started = real.from
                     /\ told.failed = real.failed
                     /\ told.advanced <= real.answers
                     /\ breaks = 0 => told.advanced = real.answers
                     /\ told.resumed /\ real.edited => told.progress
                     /\ i \in Stuck(saved.audit) => real.failed
    BY <1>3, <1>4, <1>5 DEF TellsAll, TrueOf
  <1>6. ASSUME agent.pc = "model", agent.limit = offered, breaks = 0
        PROVE  agent.steps < agent.limit \/ agent.steps > agent.from
    <2>1. /\ agent.from = agent.previous.steps /\ agent.previous.steps <= agent.steps
          /\ agent.from \in Nat /\ agent.steps \in Nat /\ offered \in Nat
      BY <1>6 DEF AuditInv, AgentOK, OnlyAnswers, AuditVarTypes, Agent
    <2>2. offered # 0 => agent.from < offered
      BY <1>6 DEF AuditInv, OfferOK
    <2>3. offered # 0
      BY <1>6
    <2> QED
      BY <1>6, <2>1, <2>2, <2>3
  <1> QED
    BY <1>1, <1>5, <1>6 DEF AuditIsTrue

(* What is said of the attempts of a transaction is what happened in them,     *)
(* however they are interrupted, killed and continued, for every ceiling,      *)
(* margin and number of attempts (_recovery_audit, _next_resume_max_steps in   *)
(* transaction_cli.py, over the checkpoints of agent.py).                      *)
THEOREM AuditIsTold == AuditSpec => []AuditIsTrue
  <1> DEFINE LimitOK == agent.pc # "off" => agent.limit # 0
  <1>1. InitAudit => LimitOK
    BY NoAgentIsOff DEF InitAudit
  <1>2. AuditInv /\ LimitOK /\ [NextAudit]_auditVars => LimitOK'
    BY LimitKept DEF auditVars
  <1>3. AuditInv /\ LimitOK => AuditIsTrue
    BY AuditInvariant
  <1> HIDE DEF LimitOK
  <1> QED
    BY <1>1, <1>2, <1>3, AuditInit, AuditStep, PTL DEF AuditSpec
=============================================================================
