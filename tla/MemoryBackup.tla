---------------------------- MODULE MemoryBackup ----------------------------
(***************************************************************************)
(* memory_backup.py: export, purge and restore of the memory directory      *)
(* while chats run.  An export reads the files one after the other and      *)
(* takes no lock.                                                           *)
(***************************************************************************)
EXTENDS Conversation

CONSTANT Database     \* memory.sqlite

VARIABLES
    present,    \* the memory directory exists
    backup      \* the export and what it has copied

backupVars == <<present, backup>>

Copied == [events |-> [l \in Log |-> <<>>], decisions |-> <<>>, torn |-> {}, store |-> EmptyStore]

NoBackup == [pc |-> "none", left |-> {}, copy |-> Copied, began |-> Copied]

\* glob, which does not look into conversations/.
TopLevelFiles == {Database}

(* rglob: the first row makes the file of a log. *)
Files ==
    {l \in Log : events[l] # <<>>}
    \cup {c \in {Candidates} : decisions # <<>>} \cup {Database}

(* What is recorded, in the form of a copy. *)
Recordings == [events |-> events, decisions |-> decisions, torn |-> torn, store |-> store]

Sound(copy) == Verifies(copy.events, copy.decisions, copy.torn, copy.store)

(* export_memory_backup: the directory must verify.  The files are listed *)
(* once, before any is read.                                               *)
BeginExport ==
    /\ present /\ backup.pc = "none"
    /\ Verifies(events, decisions, torn, store)
    /\ backup' = [pc |-> "copying", left |-> Files, copy |-> Copied, began |-> Recordings]
    /\ UNCHANGED <<storeVars, conversationVars, present>>

(* Paths in order: the names of the logs are digests, so any order among the *)
(* files of conversations/, which are before memory.sqlite.                  *)
Copy(x) ==
    /\ backup.pc = "copying" /\ x \in backup.left
    /\ x = Database => backup.left = {Database}
    /\ backup' = [backup EXCEPT
          !.left = @ \ {x},
          !.copy.events = IF x \in Log THEN [@ EXCEPT ![x] = events[x]] ELSE @,
          !.copy.decisions = IF x = Candidates THEN decisions ELSE @,
          !.copy.torn = @ \cup (torn \cap {x}),
          !.copy.store = IF x = Database THEN store ELSE @]
    /\ UNCHANGED <<storeVars, conversationVars, present>>

(* The archive is restored once into a scratch directory, and kept if that *)
(* succeeds.                                                               *)
EndExport ==
    /\ backup.pc = "copying" /\ backup.left = {}
    /\ backup' = IF Sound(backup.copy) THEN [backup EXCEPT !.pc = "done"] ELSE NoBackup
    /\ UNCHANGED <<storeVars, conversationVars, present>>

(* purge_memory_store, when no chat is open. *)
Purge ==
    /\ present /\ backup.pc = "done" /\ \A p \in Chat : ChatAt(p, "closed")
    /\ present' = FALSE
    /\ store' = Copied.store /\ events' = Copied.events /\ decisions' = Copied.decisions
    /\ torn' = {}
    /\ UNCHANGED <<now, session, backup>>

(* restore_memory_backup: into a new directory, installed by one rename. *)
Restore ==
    /\ ~present /\ backup.pc = "done" /\ Sound(backup.copy)
    /\ present' = TRUE
    /\ store' = backup.copy.store /\ events' = backup.copy.events
    /\ decisions' = backup.copy.decisions /\ torn' = backup.copy.torn
    /\ backup' = [NoBackup EXCEPT !.pc = "restored", !.began = backup.began]
    /\ UNCHANGED <<now, session>>

(* The first chat makes the directory. *)
OpenChat(p, l) == Open(p, l) /\ present' = TRUE /\ UNCHANGED backup

InitBackup == present = FALSE /\ backup = NoBackup

NextChats ==
    \E p \in Chat :
        \/ \E l \in Log : OpenChat(p, l)
        \/ ChatStep(p) /\ UNCHANGED backupVars

(* To bound the model one archive is made and restored once, and the chats  *)
(* only end between the two.                                                *)
NextBackup ==
    \/ BeginExport \/ EndExport \/ Purge \/ Restore
    \/ \E x \in backup.left : Copy(x)
    \/ \E p \in Chat :
          \/ backup.pc # "done" /\ \E l \in Log : OpenChat(p, l)
          \/ /\ ChatStep(p) /\ UNCHANGED backupVars
             /\ backup.pc = "done" => session'[p] = Closed

BackupTypeOK ==
    /\ present \in BOOLEAN /\ backup.pc \in {"none", "copying", "done", "restored"}
    /\ backup.left \subseteq Log \cup {Candidates, Database}

Extends(more, rows) ==
    Len(rows) <= Len(more) /\ \A i \in 1 .. Len(rows) : more[i] = rows[i]

(* What was recorded earlier is there later, at its place. *)
Carries(later, earlier) ==
    /\ \A l \in Log : Extends(later.events[l], earlier.events[l])
    /\ Extends(later.decisions, earlier.decisions)
    /\ Extends(later.store.cards, earlier.store.cards)
    /\ Extends(later.store.events, earlier.store.events)
    /\ earlier.store.sources \subseteq later.store.sources
    /\ earlier.store.edges \subseteq later.store.edges

(* An archive that export reports has every event, candidate, decision and     *)
(* card that was recorded when the export began, though chats wrote while its   *)
(* files were read without a lock; and the directory that is restored from it,  *)
(* after a purge, has them for good.  The trial restore compares the files only *)
(* with each other: it would accept an archive that misses a whole conversation *)
(* (export_memory_backup, restore_memory_backup).                               *)
ArchiveMissesNothing ==
    /\ backup.pc = "done" => Carries(backup.copy, backup.began)
    /\ backup.pc = "restored" => Carries(Recordings, backup.began)
=============================================================================
