--------------------------- MODULE TransactionInv ---------------------------
(* The inductive invariant of Transaction: which locals an invocation has set *)
(* at each point, who holds a lock, and where tested evidence may be copied.  *)
EXTENDS Transaction

DiffPoints == {"diff", "patch"}
SealPoints == {"evidence", "receipt", "seal"}
OwnPoints == (RunPoints \ {"start"}) \cup PreparePoints
EvidencePoints == {"finish", "prepare"} \cup PreparePoints

(* The locals that are set at the point of r. *)
LocalsOK(r) ==
    /\ r.pc \notin {"ready", "done"} => r.tx \in Tx
    /\ r.pc \in BeginPoints \cup RunPoints \cup LockedPoints => r.mem \in Manifest
    /\ r.pc \in OwnPoints => r.own \in Trajectory
    /\ r.pc \in {"tool", "answered", "submitted"} => r.calls \in 1 .. MaxCalls
    /\ r.pc \in {"content"} \cup DiffPoints \cup SealPoints => r.snap \in Content
    /\ r.pc \in DiffPoints \cup SealPoints \cup {"mark"} => r.body \in Content
    /\ r.pc \in SealPoints \cup CommitPoints =>
          /\ r.mem.prepared \in Content
          /\ r.mem.expected \in Snapshot
          /\ r.mem.patch \in Patch

(* Past the begin, the transaction's manifest is on disk. *)
OnDisk(pc) == pc \in RunPoints \cup LockedPoints \cup {"remove"}

(* A manifest that says prepared or committed names what was prepared. *)
Complete(m) ==
    m.status \in {"prepared", "committed"} =>
        m.prepared \in Content /\ m.expected \in Snapshot /\ m.patch \in Patch

PointsOK ==
    /\ \A p \in Proc : LocalsOK(proc[p])
    /\ \A p \in Proc : OnDisk(proc[p].pc) => disk[proc[p].tx] \in Manifest
    /\ \A t \in Tx : Published(t) => Complete(disk[t])
    /\ \A p \in Proc : proc[p].mem # None => Complete(proc[p].mem)

(* A manifest whose prepared content was tested, by the run its receipt names. *)
TestedManifest(m, seen) ==
    m.prepared # None =>
        \E x \in seen :
            /\ x.body = m.prepared
            /\ m.receipt # None => x.by = m.receipt.trajectory.by

(* Evidence is passed on from the gate to the trajectory, to prepare's snapshot *)
(* and to the manifest, within one run and never from another one.              *)
RunTested(p, r, seen) ==
    /\ r.evidence # None => [by |-> p, body |-> r.evidence] \in seen
    /\ r.pc \in EvidencePoints =>
          /\ r.own.by = p
          /\ r.own.verified # None => [by |-> p, body |-> r.own.verified] \in seen
    /\ r.pc \in {"content"} \cup DiffPoints \cup SealPoints => r.snap = r.own.verified
    /\ r.pc \in SealPoints => r.mem.prepared = r.snap
    /\ r.mem # None /\ r.pc \notin {"evidence", "receipt"} => TestedManifest(r.mem, seen)

TestedOK ==
    /\ \A t \in Tx : Published(t) => TestedManifest(disk[t], passed[t])
    /\ \A p \in Proc : Active(p) => RunTested(p, proc[p], passed[proc[p].tx])

IInv == TypeOK /\ PointsOK /\ LockExclusive /\ TestedOK

----------------------------------------------------------------------------
(* What holds besides where commands on one transaction do not overlap: each *)
(* file of its directory is as the one active invocation left it.            *)

Directory(t) ==
    [disk |-> disk[t], worktree |-> worktree[t], traj |-> traj[t], patch |-> patchFile[t],
     receipt |-> receiptFile[t], edited |-> edited[t]]

(* The worktree began as the source was, ignored files aside. *)
BaseOK(m) == Tracked(m.base) = m.commit.tree /\ m.wsBase = Checkout(m.commit.tree)

(* The files that commit expects are the prepared ones, ignored files aside. *)
ExpectsPrepared(m) ==
    \A f \in File :
        m.expected.files[f] = IF f \in Ignored THEN m.base.files[f] ELSE m.prepared.files[f]

(* Somebody wrote to the worktree w since its content c was taken; only a second *)
(* write can put c back.                                                         *)
Strayed(w, c, writes) == Intruder /\ writes >= 1 /\ (writes = 1 => w # c)

PreparedOK(m, w, writes) ==
    (ExpectsPrepared(m) /\ w = m.prepared) \/ Strayed(w, m.prepared, writes)

(* A transaction, whether or not a command is working on it. *)
DirectoryOK(dir, writes) ==
    /\ dir.disk = None => dir.edited = {}
    /\ dir.disk # None => dir.edited \subseteq dir.disk.started /\ BaseOK(dir.disk)
    /\ dir.disk # None /\ dir.disk.status = "prepared" =>
          /\ dir.patch = dir.disk.patch
          /\ dir.receipt = dir.disk.receipt
          /\ dir.traj # None /\ dir.disk.receipt = ReceiptOf(dir.disk, dir.traj)
          /\ PreparedOK(dir.disk, dir.worktree, writes)

(* Where the manifest on disk is open, and where it is the one in memory. *)
OpenPoints == RunPoints \cup PreparePoints
SamePoints == RunPoints \cup {"snapshot", "content"} \cup DiffPoints \cup CommitPoints

(* Git names the paths in which what prepare read differs. *)
Represented(r) == PatchNames(r.mem.commit.tree, r.body) = ChangedPaths(r.mem.wsBase, r.body)

(* What the invocation p, with record r, knows of the directory it works on. *)
WorkOK(p, r, dir, writes) ==
    /\ r.pc \in BeginPoints => dir.disk = None /\ r.mem.status = "open" /\ BaseOK(r.mem)
    /\ r.pc \in OpenPoints => dir.disk # None /\ dir.disk.status = "open"
    /\ r.pc \in SamePoints => r.mem = dir.disk
    /\ r.pc = "tool" => <<p, r.calls>> \in r.mem.started
    /\ r.pc = "content" => dir.worktree = r.snap \/ Strayed(dir.worktree, r.snap, writes)
    /\ r.pc \in DiffPoints =>
          \/ dir.worktree = r.snap /\ r.body = r.snap /\ (r.pc = "patch" => Represented(r))
          \/ Strayed(dir.worktree, r.snap, writes)
    /\ r.pc \in SealPoints =>
          /\ r.mem.started = dir.disk.started
          /\ r.mem.status = "prepared" /\ BaseOK(r.mem)
          /\ dir.patch = r.mem.patch
          /\ PreparedOK(r.mem, dir.worktree, writes)
    /\ r.pc \in {"receipt", "seal"} => dir.traj = r.own
    /\ r.pc = "seal" => dir.receipt = r.mem.receipt /\ r.mem.receipt = ReceiptOf(r.mem, r.own)
    /\ r.pc \in CommitPoints => dir.disk # None /\ dir.disk.status = "prepared"
    /\ r.pc \in {"apply", "verify", "mark"} => ExpectsPrepared(r.mem) \/ (Intruder /\ writes >= 2)
    /\ r.pc = "mark" => r.body = r.mem.expected
    /\ r.pc = "remove" => dir.disk # None /\ dir.disk.status \in {"committed", "aborted"}

(* One command at a time works on a transaction. *)
Alone ==
    \A p, q \in Proc : Active(p) /\ Active(q) /\ proc[p].tx = proc[q].tx => p = q

SerialInv ==
    /\ Alone
    /\ \A t \in Tx : DirectoryOK(Directory(t), userSteps)
    /\ \A p \in Proc, t \in Tx :
          Active(p) /\ proc[p].tx = t => WorkOK(p, proc[p], Directory(t), userSteps)

----------------------------------------------------------------------------
(* What holds besides where each commit is left alone: nobody else commits,  *)
(* writes to the source or ends a process between the checks of a commit and *)
(* the removal of the worktree.                                              *)

OneCommit ==
    \A p, q \in Proc : proc[p].pc \in CommitPoints /\ proc[q].pc \in CommitPoints => p = q

CalmFailure(p) == Failure(p) /\ proc[p].pc \notin CommitPoints \cup {"remove"}

CalmNext ==
    /\ \/ \E p \in Proc : Command(p) \/ Proceed(p) \/ CalmFailure(p)
       \/ (UserEdit \/ UserCommit) /\ \A p \in Proc : proc[p].pc \notin CommitPoints
    /\ OneCommit'

CalmSpec == Init /\ [][CalmNext]_vars

(* A directory that holds no file is one that Git does not keep. *)
Tidy(c) == c.dirs = Parents(Present(c.files))

(* What a manifest expects of the source is what its patch makes of the baseline. *)
Faithful(m) ==
    /\ Tidy(m.base) /\ Tidy(m.prepared)
    /\ m.patch = PatchOf(m.commit.tree, m.prepared)
    /\ PatchNames(m.commit.tree, m.prepared) = ChangedPaths(m.wsBase, m.prepared)
    /\ m.expected = Projected(m.base, m.wsBase, m.prepared)

TidyManifest(m) == Tidy(m.base) /\ (m.status = "prepared" => Faithful(m))

(* What the invocation with record r relies on. *)
CalmWork(r) ==
    /\ r.mem # None => Tidy(r.mem.base)
    /\ r.pc \in SealPoints => Faithful(r.mem)
    /\ r.pc \in {"check", "apply"} => source = r.mem.base
    /\ r.pc = "verify" => source = r.mem.expected

WrotePoints == {"verify", "mark"}

(* A written source is on its way to be the one of a committed transaction. *)
Written ==
    \A t \in Tx : WroteSource(t) =>
        Status(t) = "committed" \/ \E p \in Proc : proc[p].pc \in WrotePoints /\ proc[p].tx = t

Ended ==
    \A t \in Tx : Status(t) \in {"committed", "aborted"} =>
        worktree[t] = None \/ \E p \in Proc : proc[p].pc = "remove" /\ proc[p].tx = t

CalmInv ==
    /\ Tidy(source)
    /\ \A t \in Tx : worktree[t] # None => Tidy(worktree[t])
    /\ \A t \in Tx : disk[t] # None => TidyManifest(disk[t])
    /\ \A p \in Proc : CalmWork(proc[p])
    /\ Written /\ Ended
    /\ OneCommit
=============================================================================
