-------------------------- MODULE FileAccessProofs --------------------------
(* Whatever writers, removals and readers there are, files are whole: the    *)
(* invariant WritesAreWhole of FileAccess for any set of writers, any number *)
(* of parts, of changes by other programs and of power failures.             *)
EXTENDS FileAccess, TLAPS

Early == {"idle", "parent", "mkdir", "look", "create"}
Filling == {"write", "sync", "replace"}

(* What a writer knows of its text: it is on disk before it is shown. *)
WriterInv(w) ==
    /\ synced[w] <= written[w]
    /\ step[w] \in Early => written[w] = 0
    /\ step[w] = "write" => written[w] < Parts
    /\ step[w] \in {"sync", "replace"} => written[w] = Parts
    /\ step[w] = "replace" => synced[w] = Parts
    /\ step[w] \in Early \cup Filling => w \notin shown
    /\ w \in shown => written[w] = Parts /\ synced[w] = Parts
    /\ w \in returnable => w \in shown
    /\ w \in temporary => step[w] \in Filling \cup {"clean", "dead"}

(* No text is shown a second time but by a power failure. *)
ActorInv(a) ==
    /\ displaced[a] \subseteq shown
    /\ step[a] = "settle" => entry \notin displaced[a]
    /\ step[a] = "done" /\ platform # "fallback" => returnable \cap displaced[a] = {}

ReaderInv ==
    /\ reader.state # "closed" /\ reader.text \in Writer => reader.text \in shown
    /\ reader.text = Blank => reader.got = 0
    /\ reader.state = "whole" => reader.got = (IF reader.text = Blank THEN 0 ELSE Parts)

PathInv == entry \in returnable /\ shown \subseteq Writer \cup {FirstText}

AccessInv ==
    /\ AccessTypeOK /\ PathInv /\ ReaderInv
    /\ \A w \in Writer : WriterInv(w)
    /\ \A a \in Actor : ActorInv(a)

USE AccessAssumption DEF Actor, Texts, Entry, Early, Filling, Steps, Over, ActorAt, ActorGoes,
    pathVars, textVars, boundVars, Closed

(* What the invariant says implies the property. *)
LEMMA AccessInvIsWhole == AccessInv => WritesAreWhole
  BY DEF AccessInv, WritesAreWhole, PathInv, ReaderInv, WriterInv, ActorInv, AccessTypeOK

LEMMA InitAccessInv == InitAccess => AccessInv
  BY DEF InitAccess, AccessInv, AccessTypeOK, PathInv, ReaderInv, WriterInv, ActorInv

(* The steps of a writer up to its temporary file: only its step changes, and *)
(* the path at most from nothing to the reserved, empty file.                 *)
LEMMA BeginKeeps ==
  ASSUME AccessInv, NEW w \in Writer,
         Reserve(w) \/ StartWrite(w) \/ OpenParent(w) \/ MakeParent(w) \/ Look(w)
  PROVE  AccessInv'
  <1> USE DEF Reserve, StartWrite, OpenParent, MakeParent, Look
  <1>1. AccessTypeOK'
    BY DEF AccessInv, AccessTypeOK
  <1>2. PathInv' /\ ReaderInv'
    BY DEF AccessInv, AccessTypeOK, PathInv, ReaderInv
  <1>3. ASSUME NEW v \in Writer PROVE WriterInv(v)'
    BY <1>3 DEF AccessInv, AccessTypeOK, WriterInv
  <1>4. ASSUME NEW a \in Actor PROVE ActorInv(a)'
    BY <1>4 DEF AccessInv, AccessTypeOK, ActorInv, PathInv
  <1>5. QED
    BY <1>1, <1>2, <1>3, <1>4 DEF AccessInv

(* The text is written and put on disk; the temporary file comes and goes. *)
LEMMA FillKeeps ==
  ASSUME AccessInv, NEW w \in Writer,
         CreateTemporary(w) \/ WritePart(w) \/ Sync(w) \/ CleanUp(w)
  PROVE  AccessInv'
  <1> USE DEF CreateTemporary, WritePart, Sync, CleanUp
  <1>1. AccessTypeOK'
    BY DEF AccessInv, AccessTypeOK, WriterInv
  <1>2. PathInv' /\ ReaderInv'
    BY DEF AccessInv, AccessTypeOK, PathInv, ReaderInv
  <1>3. ASSUME NEW v \in Writer PROVE WriterInv(v)'
    BY <1>3 DEF AccessInv, AccessTypeOK, WriterInv
  <1>4. ASSUME NEW a \in Actor PROVE ActorInv(a)'
    BY <1>4 DEF AccessInv, AccessTypeOK, ActorInv, PathInv
  <1>5. QED
    BY <1>1, <1>2, <1>3, <1>4 DEF AccessInv

(* Another text is shown: one that was not shown before, and is on disk. *)
LEMMA ReplaceKeeps ==
  ASSUME AccessInv, NEW w \in Writer, Replace(w)
  PROVE  AccessInv'
  <1> USE DEF Replace, NowNames
  <1>0. w \notin shown /\ written[w] = Parts /\ synced[w] = Parts
    BY DEF AccessInv, WriterInv
  <1>1. AccessTypeOK'
    BY DEF AccessInv, AccessTypeOK
  <1>2. PathInv' /\ ReaderInv'
    BY DEF AccessInv, AccessTypeOK, PathInv, ReaderInv
  <1>3. ASSUME NEW v \in Writer PROVE WriterInv(v)'
    BY <1>0, <1>3 DEF AccessInv, AccessTypeOK, WriterInv
  <1>4. ASSUME NEW a \in Actor PROVE ActorInv(a)'
    BY <1>0, <1>4 DEF AccessInv, AccessTypeOK, ActorInv, PathInv
  <1>5. QED
    BY <1>1, <1>2, <1>3, <1>4 DEF AccessInv

LEMMA RemoveKeeps ==
  ASSUME AccessInv, StartRemove \/ Unlink
  PROVE  AccessInv'
  <1> USE DEF StartRemove, Unlink, NowNames
  <1>1. AccessTypeOK'
    BY DEF AccessInv, AccessTypeOK
  <1>2. PathInv' /\ ReaderInv'
    BY DEF AccessInv, AccessTypeOK, PathInv, ReaderInv
  <1>3. ASSUME NEW v \in Writer PROVE WriterInv(v)'
    BY <1>3 DEF AccessInv, AccessTypeOK, WriterInv
  <1>4. ASSUME NEW a \in Actor PROVE ActorInv(a)'
    BY <1>4 DEF AccessInv, AccessTypeOK, ActorInv, PathInv
  <1>5. QED
    BY <1>1, <1>2, <1>3, <1>4 DEF AccessInv

(* What the path names is on disk: it was shown after what it displaced. *)
LEMMA EndKeeps ==
  ASSUME AccessInv, NEW a \in Actor, Settle(a) \/ Fail(a) \/ KillActor(a)
  PROVE  AccessInv'
  <1> USE DEF Settle, Fail, KillActor
  <1>1. AccessTypeOK'
    BY DEF AccessInv, AccessTypeOK
  <1>2. PathInv' /\ ReaderInv'
    BY DEF AccessInv, AccessTypeOK, PathInv, ReaderInv
  <1>3. ASSUME NEW v \in Writer PROVE WriterInv(v)'
    BY <1>3 DEF AccessInv, AccessTypeOK, WriterInv, PathInv
  <1>4. ASSUME NEW b \in Actor PROVE ActorInv(b)'
    BY <1>4 DEF AccessInv, AccessTypeOK, ActorInv, PathInv
  <1>5. QED
    BY <1>1, <1>2, <1>3, <1>4 DEF AccessInv

(* A file that was opened is whole: only whole files have the name. *)
LEMMA ReadKeeps ==
  ASSUME AccessInv, OpenFile \/ ReadPart \/ StopReading
  PROVE  AccessInv'
  <1> USE DEF OpenFile, ReadPart, StopReading, Length
  <1>1. AccessTypeOK'
    BY DEF AccessInv, AccessTypeOK
  <1>2. PathInv'
    BY DEF AccessInv, PathInv
  <1>3. ReaderInv'
    <2>1. reader.state # "closed" /\ reader.text \in Writer => written[reader.text] = Parts
      BY DEF AccessInv, ReaderInv, WriterInv
    <2>2. CASE OpenFile
      BY <2>2 DEF AccessInv, AccessTypeOK, ReaderInv, WriterInv, PathInv
    <2>3. CASE ReadPart
      BY <2>1, <2>3 DEF AccessInv, AccessTypeOK, ReaderInv
    <2>4. CASE StopReading
      BY <2>4 DEF AccessInv, ReaderInv
    <2>5. QED
      BY <2>2, <2>3, <2>4
  <1>4. ASSUME NEW v \in Writer PROVE WriterInv(v)'
    BY <1>4 DEF AccessInv, WriterInv
  <1>5. ASSUME NEW b \in Actor PROVE ActorInv(b)'
    BY <1>5 DEF AccessInv, ActorInv
  <1>6. QED
    BY <1>1, <1>2, <1>3, <1>4, <1>5 DEF AccessInv

LEMMA IntrudeKeeps ==
  ASSUME AccessInv, Intrude
  PROVE  AccessInv'
  <1> USE DEF Intrude
  <1>1. AccessTypeOK'
    BY DEF AccessInv, AccessTypeOK
  <1>2. PathInv' /\ ReaderInv'
    BY DEF AccessInv, AccessTypeOK, PathInv, ReaderInv
  <1>3. ASSUME NEW v \in Writer PROVE WriterInv(v)'
    BY <1>3 DEF AccessInv, AccessTypeOK, WriterInv
  <1>4. ASSUME NEW b \in Actor PROVE ActorInv(b)'
    BY <1>4 DEF AccessInv, AccessTypeOK, ActorInv, PathInv
  <1>5. QED
    BY <1>1, <1>2, <1>3, <1>4 DEF AccessInv

(* What comes back was put on disk before it was shown. *)
LEMMA PowerFailsKeeps ==
  ASSUME AccessInv, PowerFails
  PROVE  AccessInv'
  <1> USE DEF PowerFails
  <1>1. AccessTypeOK'
    BY DEF AccessInv, AccessTypeOK
  <1>2. PathInv' /\ ReaderInv'
    BY DEF AccessInv, AccessTypeOK, PathInv, ReaderInv
  <1>3. ASSUME NEW v \in Writer PROVE WriterInv(v)'
    BY <1>3 DEF AccessInv, AccessTypeOK, WriterInv
  <1>4. ASSUME NEW b \in Actor PROVE ActorInv(b)'
    BY <1>4 DEF AccessInv, AccessTypeOK, ActorInv, PathInv
  <1>5. QED
    BY <1>1, <1>2, <1>3, <1>4 DEF AccessInv

(* atomic_write_text and unlink_file leave whole files, and readers get them: *)
(* WritesAreWhole holds in every reachable state.                             *)
THEOREM FilesAreAlwaysWhole == AccessSpec => []WritesAreWhole
  <1>1. AccessInv /\ [NextAccess]_accessVars => AccessInv'
    <2> SUFFICES ASSUME AccessInv, [NextAccess]_accessVars
                 PROVE  AccessInv'
      OBVIOUS
    <2>1. CASE UNCHANGED accessVars
      BY <2>1 DEF accessVars, AccessInv, AccessTypeOK, PathInv, ReaderInv, WriterInv, ActorInv
    <2>2. CASE NextAccess
      BY <2>2, BeginKeeps, FillKeeps, ReplaceKeeps, RemoveKeeps, EndKeeps, ReadKeeps,
         IntrudeKeeps, PowerFailsKeeps DEF NextAccess
    <2>3. QED
      BY <2>1, <2>2
  <1>2. QED
    BY <1>1, InitAccessInv, AccessInvIsWhole, PTL DEF AccessSpec
=============================================================================
