---------------------------- MODULE MCScenarios ----------------------------
(* Runs of Transaction that answer several questions at once: a behaviour is *)
(* one of a single scenario, which says who starts which command and which   *)
(* part of the instance is used.  Two scenarios are of what a transaction    *)
(* rests on: the replacement of a file, and the audit of its attempts.       *)
EXTENDS MCTransaction, FileAccess, AttemptAudit

CONSTANTS t1, t2, p3, p4, w1, w2,
          Scenario      \* the scenarios of the run

VARIABLE scenario

allVars == <<vars, accessVars, auditVars, scenario>>

CommandOn(p, t) == Begin(p, t) \/ Resume(p, t) \/ CommitLock(p, t) \/ Abort(p, t)

(* The processes of a scenario are numbered, and started in that order where *)
(* they are alike.                                                           *)
InTurn(p) == \A k \in 1 .. 3 : p = <<p1, p2, p3>>[k] =>
                 \A j \in 1 .. k - 1 : ~At(<<p1, p2, p3>>[j], "ready")

Only(x, v) == source.files[x] = v /\ \A t \in Tx : worktree[t] # None => worktree[t].files[x] = v

(* One transaction on f, its commands one after the other; one may crash. *)
CrashInit == Only(g, v1)

CrashNext ==
    /\ \E p \in {p1, p2, p3} : (InTurn(p) /\ CommandOn(p, t1)) \/ Proceed(p) \/ Failure(p)
    /\ Only(g, v1)'

(* Two transactions, begun and committed at the same time. *)
PairInit == source.files[f] = v1 /\ source.files[g] = v1

PairNext ==
    \/ Begin(p1, t1) \/ Begin(p2, t2) \/ CommitLock(p3, t1) \/ CommitLock(p4, t2)
    \/ \E p \in {p1, p2, p3, p4} : Proceed(p) \/ CommitTorn(p)

(* Commands on one transaction at the same time: p1 runs it, p2 resumes it  *)
(* and p3 finishes it; g is not there.                                      *)
OverlapInit == Only(g, Absent)

OverlapNext ==
    /\ \/ Begin(p1, t1) \/ Resume(p2, t1) \/ CommitLock(p3, t1) \/ Abort(p3, t1)
       \/ \E p \in {p1, p2, p3} : Proceed(p)
    /\ Only(g, Absent)'
    /\ \A p \in Proc : proc'[p].calls <= 2

(* One transaction with the ignored file g, two commands one after the other, *)
(* a crash and a write from outside; a second run makes two tool calls.       *)
ConflictNext ==
    /\ \/ \E p \in {p1, p2} :
             \/ InTurn(p) /\ ~Busy(t1) /\ CommandOn(p, t1)
             \/ Proceed(p) \/ Failure(p)
       \/ UserEdit \/ UserCommit \/ WorktreeEdit(t1)
    /\ proc'[p2].calls <= 2

(* The writers of a file are alike: they start in turn; one actor is killed,   *)
(* or all by a power failure.  The kinds of platform differ only where the     *)
(* directory is new, or in what is on disk at the end: they are read on one.   *)
FilesInit ==
    /\ InitAccess
    /\ entry # Folder
    /\ platform = "state" => parent = "none"
    /\ scenario # "files" => parent = "there" /\ entry = Missing /\ platform = "fallback"

FilesNext ==
    /\ NextAccess
    /\ step'[w2] # "idle" => step'[w1] # "idle"
    /\ outages' = 0 => \A a, b \in Actor : step'[a] = "dead" /\ step'[b] = "dead" => a = b
    /\ platform # "descriptors" => reader' = Closed

MCInit ==
    /\ scenario \in Scenario
    /\ Init /\ FilesInit /\ InitAudit
    /\ scenario \in {"pair", "files", "attempts"} => PairInit
    /\ scenario = "crash" => CrashInit
    /\ scenario = "overlap" => OverlapInit

MCNext ==
    /\ UNCHANGED scenario
    /\ \/ /\ \/ scenario = "crash" /\ CrashNext
             \/ scenario = "pair" /\ PairNext
             \/ scenario = "overlap" /\ OverlapNext
             \/ scenario = "conflict" /\ ConflictNext
          /\ UNCHANGED <<accessVars, auditVars>>
       \/ scenario = "files" /\ FilesNext /\ UNCHANGED <<vars, auditVars>>
       \/ scenario = "attempts" /\ NextAudit /\ UNCHANGED <<vars, accessVars>>

MCSpec == MCInit /\ [][MCNext]_allVars

(* Where commands on a transaction run one after the other, as the protocol  *)
(* asks, what TransactionStore.commit finds in the source before it marks    *)
(* the transaction is tested, crash or write from outside or not.            *)
CommittedSourceIsTested ==
    [][scenario = "conflict" => \A t \in Tx : CommitIsTested(t)]_allVars
=============================================================================
