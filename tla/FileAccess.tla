----------------------------- MODULE FileAccess -----------------------------
(***************************************************************************)
(* security.py and utils.py: how a file of a workspace or of the state     *)
(* directory is replaced, removed and read while others do the same.  A    *)
(* writer fills a temporary file of its own, puts it on disk, gives it the *)
(* name of the file and puts the directory on disk; it may fail or be      *)
(* killed at any of these steps, and the power may fail.                   *)
(***************************************************************************)
EXTENDS Naturals, FiniteSets

CONSTANTS
    Writer,       \* writers of one path; a writer is also the text it writes
    Remover,      \* who removes the file
    FirstText,    \* what is there at first
    Blank,        \* the empty file of a reserved path
    Missing, Folder,
    Parts,        \* the writes a text takes
    MaxIntrusions,  \* bound on the changes of other programs
    MaxOutages    \* bound on power failures

ASSUME AccessAssumption ==
    /\ Parts \in Nat \ {0} /\ MaxIntrusions \in Nat /\ MaxOutages \in Nat
    /\ Remover \notin Writer /\ FirstText \notin Writer /\ Blank \notin Writer
    /\ Missing \notin Writer /\ Folder \notin Writer
    /\ FirstText \notin {Blank, Missing, Folder} /\ Blank \notin {Missing, Folder}

VARIABLES
    entry,        \* what the path names
    returnable,   \* what it may name after a power failure
    parent,       \* the directory: none, new (its name not on disk), there
    written,      \* Writer -> parts written
    synced,       \* Writer -> parts on disk
    temporary,    \* whose temporary files are there
    step,         \* Actor -> step
    reader,       \* a file that is open for reading
    platform,     \* how files are replaced here
    shown,        \* texts the path has named (history)
    displaced,    \* Actor -> texts it had named when the actor changed it (history)
    intrusions, outages    \* counters against the bounds

accessVars == <<entry, returnable, parent, written, synced, temporary, step, reader,
                platform, shown, displaced, intrusions, outages>>

pathVars == <<entry, returnable, parent, shown, displaced>>
textVars == <<written, synced, temporary>>
boundVars == <<platform, intrusions, outages>>

Actor == Writer \cup {Remover}
Texts == Writer \cup {FirstText, Blank}
Entry == Texts \cup {Missing, Folder}

Steps == {"idle", "parent", "mkdir", "look", "create", "write", "sync", "replace",
          "unlink", "settle", "clean", "done", "failed", "dead"}
Over == {"done", "failed", "dead"}
Closed == [state |-> "closed", text |-> FirstText, got |-> 0]

ActorAt(a, pc) == step[a] = pc
ActorGoes(a, pc) == step' = [step EXCEPT ![a] = pc]

(* The path names another file or none: not yet on disk. *)
NowNames(a, x) ==
    /\ entry' = x /\ returnable' = returnable \cup {x}
    /\ displaced' = [displaced EXCEPT ![a] = shown]
    /\ shown' = shown \cup (Writer \cap {x})

----------------------------------------------------------------------------
(* A run's output path is made empty, or refused, before it is written. *)
Reserve(w) ==
    /\ ActorAt(w, "idle") /\ parent # "none"
    /\ IF entry = Missing
       THEN entry' = Blank /\ returnable' = returnable \cup {Blank} /\ ActorGoes(w, "parent")
       ELSE UNCHANGED <<entry, returnable>> /\ ActorGoes(w, "failed")
    /\ UNCHANGED <<parent, shown, displaced, textVars, reader, boundVars>>

StartWrite(w) ==
    /\ ActorAt(w, "idle") /\ ActorGoes(w, "parent")
    /\ UNCHANGED <<pathVars, textVars, reader, boundVars>>

(* _open_parent_fd, or mkdir with exist_ok *)
OpenParent(w) ==
    /\ ActorAt(w, "parent") /\ ActorGoes(w, IF parent = "none" THEN "mkdir" ELSE "look")
    /\ UNCHANGED <<pathVars, textVars, reader, boundVars>>

MakeParent(w) ==
    /\ ActorAt(w, "mkdir")
    /\ IF parent = "none"
       THEN parent' = "new" /\ ActorGoes(w, "look")
       ELSE UNCHANGED parent
            /\ ActorGoes(w, IF platform = "descriptors" THEN "failed" ELSE "look")
    /\ UNCHANGED <<entry, returnable, shown, displaced, textVars, reader, boundVars>>

(* Nothing but a regular file is replaced. *)
Look(w) ==
    /\ ActorAt(w, "look")
    /\ ActorGoes(w, IF entry = Folder THEN "failed" ELSE "create")
    /\ UNCHANGED <<pathVars, textVars, reader, boundVars>>

(* O_EXCL with a random name: the writer's own. *)
CreateTemporary(w) ==
    /\ ActorAt(w, "create") /\ ActorGoes(w, "write")
    /\ temporary' = temporary \cup {w}
    /\ UNCHANGED <<pathVars, written, synced, reader, boundVars>>

WritePart(w) ==
    /\ ActorAt(w, "write")
    /\ written' = [written EXCEPT ![w] = @ + 1]
    /\ ActorGoes(w, IF written'[w] = Parts THEN "sync" ELSE "write")
    /\ UNCHANGED <<pathVars, synced, temporary, reader, boundVars>>

SyncForgotten(w) ==                                              \* mutant
    /\ ActorAt(w, "sync") /\ ActorGoes(w, "replace")
    /\ UNCHANGED <<pathVars, textVars, reader, boundVars>>

Sync(w) ==
    /\ ActorAt(w, "sync") /\ ActorGoes(w, "replace")
    /\ synced' = [synced EXCEPT ![w] = written[w]]
    /\ UNCHANGED <<pathVars, written, temporary, reader, boundVars>>

(* os.replace fails on a directory.  The fallback leaves the directory's own *)
(* sync to the system.                                                       *)
Replace(w) ==
    /\ ActorAt(w, "replace")
    /\ IF entry = Folder
       THEN ActorGoes(w, "clean") /\ UNCHANGED <<pathVars, textVars>>
       ELSE /\ NowNames(w, w)
            /\ temporary' = temporary \ {w}
            /\ ActorGoes(w, IF platform = "fallback" THEN "done" ELSE "settle")
            /\ UNCHANGED <<parent, written, synced>>
    /\ UNCHANGED <<reader, boundVars>>

(* fsync of the directory: what it names is on disk. *)
Settle(a) ==
    /\ ActorAt(a, "settle") /\ ActorGoes(a, "done")
    /\ returnable' = {entry}
    /\ UNCHANGED <<entry, parent, shown, displaced, textVars, reader, boundVars>>

(* unlink_file *)
StartRemove ==
    /\ ActorAt(Remover, "idle")
    /\ ActorGoes(Remover, IF entry \in {Missing, Folder} THEN "failed" ELSE "unlink")
    /\ UNCHANGED <<pathVars, textVars, reader, boundVars>>

Unlink ==
    /\ ActorAt(Remover, "unlink")
    /\ IF entry \in {Missing, Folder}
       THEN ActorGoes(Remover, "failed") /\ UNCHANGED pathVars
       ELSE /\ NowNames(Remover, Missing)
            /\ ActorGoes(Remover, IF platform = "fallback" THEN "done" ELSE "settle")
            /\ UNCHANGED parent
    /\ UNCHANGED <<textVars, reader, boundVars>>

(* A call of the file system fails, or Ctrl-C: what is left of the temporary *)
(* file is removed.                                                          *)
Fail(a) ==
    /\ step[a] \notin Over \cup {"idle", "clean"}
    /\ ActorGoes(a, IF a \in temporary THEN "clean" ELSE "failed")
    /\ UNCHANGED <<pathVars, textVars, reader, boundVars>>

CleanUp(w) ==
    /\ ActorAt(w, "clean") /\ ActorGoes(w, "failed")
    /\ temporary' = temporary \ {w}
    /\ UNCHANGED <<pathVars, written, synced, reader, boundVars>>

KillActor(a) ==
    /\ step[a] \notin Over \cup {"idle"} /\ ActorGoes(a, "dead")
    /\ UNCHANGED <<pathVars, textVars, reader, boundVars>>

----------------------------------------------------------------------------
Length(text) == IF text \in Writer THEN written[text] ELSE IF text = Blank THEN 0 ELSE Parts

(* open_text, open_binary, read_text, read_bytes: only a regular file opens, *)
(* and stays open whatever the path names afterwards.                        *)
OpenFile ==
    /\ reader.state # "open" /\ entry \in Texts
    /\ reader' = [state |-> "open", text |-> entry, got |-> 0]
    /\ UNCHANGED <<pathVars, textVars, step, boundVars>>

ReadPart ==
    /\ reader.state = "open"
    /\ reader' = IF reader.got < Length(reader.text)
                 THEN [reader EXCEPT !.got = @ + 1]
                 ELSE [reader EXCEPT !.state = "whole"]
    /\ UNCHANGED <<pathVars, textVars, step, boundVars>>

(* read_file and the bounded reads stop early, and say that they did. *)
StopReading ==
    /\ reader.state = "open" /\ reader' = Closed
    /\ UNCHANGED <<pathVars, textVars, step, boundVars>>

----------------------------------------------------------------------------
(* git or an editor removes the file, or puts a directory there. *)
Intrude ==
    /\ intrusions < MaxIntrusions /\ intrusions' = intrusions + 1 /\ parent # "none"
    /\ entry' \in (IF entry = Missing THEN {Folder} ELSE {Missing})
    /\ returnable' = returnable \cup {entry'}
    /\ UNCHANGED <<parent, shown, displaced, textVars, step, reader, platform, outages>>

(* The machine stops: every process ends, and what no fsync put on disk is *)
(* there or not.                                                           *)
PowerFails ==
    /\ outages < MaxOutages /\ outages' = outages + 1
    /\ step' = [a \in Actor |-> IF step[a] \in Over \cup {"idle"} THEN step[a] ELSE "dead"]
    /\ reader' = Closed
    /\ written' \in [Writer -> 0 .. Parts]
    /\ \A w \in Writer : synced[w] <= written'[w] /\ written'[w] <= written[w]
    /\ synced' = written'
    /\ \/ entry' \in returnable /\ temporary' \in SUBSET temporary
          /\ parent' = IF parent = "none" THEN "none" ELSE "there"
       \/ parent = "new" /\ parent' = "none" /\ entry' = Missing /\ temporary' = {}
    /\ returnable' = {entry'}
    /\ UNCHANGED <<shown, displaced, platform, intrusions>>

----------------------------------------------------------------------------
InitAccess ==
    /\ parent \in {"none", "there"} /\ entry \in {FirstText, Missing, Folder}
    /\ parent = "none" => entry = Missing
    /\ returnable = {entry}
    /\ written = [w \in Writer |-> 0] /\ synced = written /\ temporary = {}
    /\ step = [a \in Actor |-> "idle"] /\ reader = Closed
    /\ platform \in {"descriptors", "fallback", "state"}
    /\ shown = {FirstText} /\ displaced = [a \in Actor |-> {}]
    /\ intrusions = 0 /\ outages = 0

NextAccess ==
    \/ \E w \in Writer :
          \/ Reserve(w) \/ StartWrite(w) \/ OpenParent(w) \/ MakeParent(w) \/ Look(w)
          \/ CreateTemporary(w) \/ WritePart(w) \/ Sync(w) \/ Replace(w) \/ CleanUp(w)
    \/ \E a \in Actor : Settle(a) \/ Fail(a) \/ KillActor(a)
    \/ StartRemove \/ Unlink
    \/ OpenFile \/ ReadPart \/ StopReading
    \/ Intrude \/ PowerFails

AccessSpec == InitAccess /\ [][NextAccess]_accessVars

AccessTypeOK ==
    /\ entry \in Entry /\ returnable \subseteq Entry
    /\ parent \in {"none", "new", "there"}
    /\ written \in [Writer -> 0 .. Parts] /\ synced \in [Writer -> 0 .. Parts]
    /\ temporary \subseteq Writer /\ step \in [Actor -> Steps]
    /\ reader \in [state : {"closed", "open", "whole"}, text : Texts, got : 0 .. Parts]
    /\ platform \in {"descriptors", "fallback", "state"}
    /\ shown \subseteq Texts /\ displaced \in [Actor -> SUBSET Texts]
    /\ intrusions \in 0 .. MaxIntrusions /\ outages \in 0 .. MaxOutages

(* No crash, failure or power loss leaves a torn file under the path or makes  *)
(* one come back, and no reader takes a part for the whole; a write or removal *)
(* that has returned is never undone by an older text; and a temporary file    *)
(* outlives its writer only where that was killed (atomic_write_text,          *)
(* unlink_file, read_text).                                                    *)
WritesAreWhole ==
    /\ AccessTypeOK /\ entry \in returnable
    /\ \A w \in Writer \cap returnable : written[w] = Parts /\ synced[w] = Parts
    /\ reader.state = "whole" => reader.got = (IF reader.text = Blank THEN 0 ELSE Parts)
    /\ \A a \in Actor : step[a] = "done" /\ platform # "fallback"
                        => returnable \cap displaced[a] = {}
    /\ \A w \in temporary : step[w] \notin {"done", "failed"}
=============================================================================
