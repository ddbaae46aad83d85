--------------------------- MODULE WorkspaceScan ---------------------------
(***************************************************************************)
(* workspace.py, WorkspaceFingerprinter: the descriptor-relative scan of one *)
(* directory and of the Git controls beside it, with the cache that one scan *)
(* leaves to the next, while other processes change the files.  An entry is *)
(* a regular file or a symbolic link; the recursion into a subdirectory      *)
(* repeats the same steps and is left out.  Every change of a file or of a   *)
(* directory has a time of its own, so two writes in one tick of the clock   *)
(* are not modelled.                                                         *)
(***************************************************************************)
EXTENDS Integers, FiniteSets

CONSTANTS
    Listed,         \* names of entries of the directory
    Control,        \* names of Git controls (.git/config)
    Target,         \* contents of files, and targets of links
    Gone,           \* there is no such entry
    NoTarget,       \* "unreadable"
    Torn,           \* the digest of parts of two contents
    MaxScanned      \* bound on changes by other processes

ASSUME ScanAssumption ==
    /\ MaxScanned \in Nat /\ Listed \cap Control = {}
    /\ Gone \notin Target /\ NoTarget \notin Target /\ Torn \notin Target
    /\ Gone # NoTarget

VARIABLES
    disk,           \* what each name stands for
    changed,        \* the times at which the two directories last changed
    clock,
    fingerprints,   \* FingerprintCache: a signature and a value
    scan,           \* the scan under way
    opened,         \* the file behind the descriptor
    during          \* all that each name has stood for while its directory was scanned

scanVars == <<disk, changed, clock, fingerprints, scan, opened, during>>

Name == Listed \cup Control
Exists(n) == disk[n] # Gone
IsLink(n) == Exists(n) /\ disk[n].kind = "link"
IsFile(n) == Exists(n) /\ disk[n].kind = "file"

Now(n) == IF Exists(n) THEN disk[n].target ELSE Gone

(* What a name stands for: an inode, and the time of its last change. *)
EntryFile == [kind : {"file", "link"}, target : Target, readable : BOOLEAN,
              node : Nat, time : Nat]

ASSUME GoneAssumption == Gone \notin EntryFile

(* The directory of an entry: the scanned one, or .git. *)
Directory(n) == IF n \in Control THEN "git" ELSE "root"

(* _metadata_signature: kind, mode, inode and times, never the content. *)
Signature(file) == <<file.kind, file.readable, file.node, file.time>>

ScanAt(pc) == scan.pc = pc
NoFile == [name |-> Gone, file |-> Gone, linked |-> FALSE]

(* cached[0] == signature *)
Hit(n, signature) == fingerprints[n] # Gone /\ fingerprints[n].signature = signature

----------------------------------------------------------------------------
(* Other processes. *)

(* The directory of n is being scanned. *)
Scanned(n) ==
    /\ scan.pc \notin {"idle", "aborted", "prune", "done"}
    /\ n \in Control => scan.pc \notin {"root", "revalidate"}

(* The entry n becomes file, in a directory that changes as well when names do. *)
Become(n, file) ==
    /\ clock < MaxScanned /\ clock' = clock + 1
    /\ disk' = [disk EXCEPT ![n] = file]
    /\ during' = IF Scanned(n)
                 THEN [during EXCEPT ![n] = @ \cup {IF file = Gone THEN Gone ELSE file.target}]
                 ELSE during
    /\ UNCHANGED <<fingerprints, scan>>

(* In place; a descriptor of the file sees it too. *)
ChangeFile(n, target, readable) ==
    /\ IsFile(n)
    /\ LET file == [disk[n] EXCEPT !.target = target, !.readable = readable, !.time = clock + 1]
       IN /\ Become(n, file)
          /\ opened' = IF opened.name = n /\ opened.linked THEN [opened EXCEPT !.file = file] ELSE opened
    /\ UNCHANGED changed

(* Created, or put in the place of what was there, which loses its name. *)
Unlinked(n) ==
    IF opened.name = n /\ opened.linked
    THEN [opened EXCEPT !.linked = FALSE, !.file.time = clock + 1]
    ELSE opened

NewEntry(kind, target, time) ==
    [kind |-> kind, target |-> target, readable |-> TRUE, node |-> time, time |-> time]

PutEntry(n, kind, target) ==
    /\ Become(n, NewEntry(kind, target, clock + 1))
    /\ opened' = Unlinked(n)
    /\ changed' = [changed EXCEPT ![Directory(n)] = clock + 1]

RemoveEntry(n) ==
    /\ Exists(n) /\ Become(n, Gone)
    /\ opened' = Unlinked(n)
    /\ changed' = [changed EXCEPT ![Directory(n)] = clock + 1]

----------------------------------------------------------------------------
(* The scan. *)

(* files[relative] = value, and on to the next entry. *)
Enter(n, value, unreadable, cachedRegular) ==
    scan' = [scan EXCEPT
        !.pc = IF n \in Control THEN "controls" ELSE "entries",
        !.todo = @ \ {n},
        !.files[n] = value,
        !.unreadable = @ \/ (unreadable /\ n \in Listed),
        !.cached = IF cachedRegular /\ n \in Listed THEN @ \cup {n} ELSE @]

(* The value is also put into the cache. *)
Store(n, signature, value, unreadable) ==
    /\ fingerprints' = [fingerprints EXCEPT ![n] = [signature |-> signature, value |-> value]]
    /\ Enter(n, value, unreadable, FALSE)

Examine(n, pc, signature) ==
    scan' = [scan EXCEPT !.pc = pc, !.entry = n, !.signature = signature]

(* An OSError or a SecurityError ends the scan; the cache stays. *)
AbortScan == scan' = [pc |-> "aborted"] /\ opened' = NoFile

(* fstat of the directory, and scandir. *)
StartScan ==
    /\ scan.pc \in {"idle", "done", "aborted"}
    /\ scan' = [pc |-> "entries", todo |-> {n \in Listed : Exists(n)}, files |-> [n \in Name |-> Gone],
                unreadable |-> FALSE, cached |-> {}, directory |-> changed, entry |-> Gone,
                signature |-> Gone, part |-> Gone]
    /\ during' = [n \in Name |-> {Now(n)}]
    /\ UNCHANGED <<disk, changed, clock, fingerprints, opened>>

(* _capture_named_entry: stat by name. *)
StatEntry(n) ==
    /\ scan.pc \in {"entries", "controls"} /\ n \in scan.todo
    /\ UNCHANGED <<disk, changed, clock, fingerprints, opened, during>>
    /\ \/ /\ ~Exists(n)
          /\ IF n \in Listed
             THEN Enter(n, NoTarget, TRUE, FALSE)
             ELSE scan' = [scan EXCEPT !.todo = @ \ {n}]
       \/ /\ Exists(n) /\ Hit(n, Signature(disk[n]))
          /\ Enter(n, fingerprints[n].value, FALSE, IsFile(n))
       \/ /\ Exists(n) /\ ~Hit(n, Signature(disk[n]))
          /\ Examine(n, IF IsLink(n) THEN "readlink" ELSE "open", Signature(disk[n]))

(* _store_metadata_entry: the link is read by name once more. *)
ReadLink ==
    /\ ScanAt("readlink")
    /\ LET n == scan.entry
       IN Store(n, scan.signature, IF IsLink(n) THEN disk[n].target ELSE NoTarget, ~IsLink(n))
    /\ UNCHANGED <<disk, changed, clock, opened, during>>

(* os.open with O_NOFOLLOW, which may also fail for want of a descriptor. *)
CanOpen(n) == IsFile(n) /\ disk[n].readable

OpenEntry(fails) ==
    /\ ScanAt("open") /\ UNCHANGED <<disk, changed, clock, during>>
    /\ LET n == scan.entry
       IN \/ IsLink(n) /\ AbortScan /\ UNCHANGED fingerprints
          \/ /\ ~IsLink(n) /\ (fails \/ ~CanOpen(n))
             /\ Store(n, scan.signature, NoTarget, TRUE) /\ UNCHANGED opened
          \/ /\ CanOpen(n) /\ ~fails
             /\ opened' = [name |-> n, file |-> disk[n], linked |-> TRUE]
             /\ scan' = [scan EXCEPT !.pc = "fstat"] /\ UNCHANGED fingerprints

(* fstat by descriptor: from here on, the signature is that of the open file. *)
StatOpened ==
    /\ ScanAt("fstat")
    /\ UNCHANGED <<disk, changed, clock, fingerprints, during>>
    /\ IF Hit(scan.entry, Signature(opened.file))
       THEN Enter(scan.entry, fingerprints[scan.entry].value, FALSE, FALSE) /\ opened' = NoFile
       ELSE Examine(scan.entry, "read", Signature(opened.file)) /\ UNCHANGED opened

(* _hash_file_descriptor reads the file in parts, or fails. *)
ReadPart ==
    /\ ScanAt("read")
    /\ scan' = [scan EXCEPT !.pc = "hash", !.part = opened.file.target]
    /\ UNCHANGED <<disk, changed, clock, fingerprints, opened, during>>

HashFails ==
    /\ ScanAt("read")
    /\ Store(scan.entry, scan.signature, NoTarget, TRUE) /\ opened' = NoFile
    /\ UNCHANGED <<disk, changed, clock, during>>

Hash ==
    /\ ScanAt("hash")
    /\ scan' = [scan EXCEPT !.pc = "hashed", !.part = IF opened.file.target = @ THEN @ ELSE Torn]
    /\ UNCHANGED <<disk, changed, clock, fingerprints, opened, during>>

\* A file that changes while it is read is stored with what was read.
UnchangedUnread(file, signature) == TRUE

(* The file must not have changed while it was read. *)
Unchanged(file, signature) == Signature(file) = signature

StoreFile ==
    /\ ScanAt("hashed") /\ opened' = NoFile
    /\ UNCHANGED <<disk, changed, clock, during>>
    /\ \/ Unchanged(opened.file, scan.signature) /\ Store(scan.entry, scan.signature, scan.part, FALSE)
       \/ ~Unchanged(opened.file, scan.signature) /\ AbortScan /\ UNCHANGED fingerprints

(* The directory must not have changed either, unless an entry was unreadable: *)
(* then the values that came from the cache are checked against the files.     *)
EndDirectory(pc, next) ==
    /\ ScanAt(pc) /\ scan.todo = {} /\ UNCHANGED <<disk, changed, clock, fingerprints, during>>
    /\ \/ /\ changed.root # scan.directory.root /\ ~scan.unreadable /\ AbortScan
       \/ /\ changed.root # scan.directory.root /\ scan.unreadable
          /\ UNCHANGED opened
          /\ scan' = [scan EXCEPT !.pc = "revalidate", !.todo = scan.cached, !.entry = next]
       \/ /\ changed.root = scan.directory.root
          /\ UNCHANGED opened
          /\ scan' = [scan EXCEPT !.pc = next]

(* _revalidate_cached_regulars *)
Revalidate(n) ==
    /\ ScanAt("revalidate") /\ n \in scan.todo
    /\ UNCHANGED <<disk, changed, clock, fingerprints, during>>
    /\ IF IsFile(n) /\ disk[n].readable /\ Hit(n, Signature(disk[n]))
       THEN scan' = [scan EXCEPT !.todo = @ \ {n}] /\ UNCHANGED opened
       ELSE AbortScan

EndRevalidation ==
    /\ ScanAt("revalidate") /\ scan.todo = {}
    /\ scan' = [scan EXCEPT !.pc = scan.entry]
    /\ UNCHANGED <<disk, changed, clock, fingerprints, opened, during>>

(* _capture_git_controls *)
StartControls ==
    /\ ScanAt("git")
    /\ scan' = [scan EXCEPT !.pc = "controls", !.todo = Control, !.directory.git = changed.git]
    /\ during' = [n \in Name |-> IF n \in Control THEN {Now(n)} ELSE during[n]]
    /\ UNCHANGED <<disk, changed, clock, fingerprints, opened>>

EndControls ==
    /\ ScanAt("controls") /\ scan.todo = {} /\ UNCHANGED <<disk, changed, clock, fingerprints, during>>
    /\ IF changed.git = scan.directory.git
       THEN scan' = [scan EXCEPT !.pc = "root"] /\ UNCHANGED opened
       ELSE AbortScan

(* The entries of the cache that were not met are dropped. *)
FinishScan ==
    /\ ScanAt("prune")
    /\ fingerprints' = [n \in Name |-> IF scan.files[n] = Gone THEN Gone ELSE fingerprints[n]]
    /\ scan' = [pc |-> "done", files |-> scan.files, unreadable |-> scan.unreadable]
    /\ UNCHANGED <<disk, changed, clock, opened, during>>

----------------------------------------------------------------------------
InitScan ==
    /\ \E there \in SUBSET Name : \E target \in Target :
          disk = [n \in Name |-> IF n \in there THEN NewEntry("file", target, 0) ELSE Gone]
    /\ changed = [root |-> 0, git |-> 0] /\ clock = 0
    /\ fingerprints = [n \in Name |-> Gone]
    /\ scan = [pc |-> "idle"] /\ opened = NoFile
    /\ during = [n \in Name |-> {}]

NextScan ==
    \/ StartScan \/ ReadLink \/ StatOpened \/ ReadPart \/ HashFails \/ Hash \/ StoreFile
    \/ StartControls \/ EndControls \/ EndRevalidation \/ FinishScan
    \/ EndDirectory("entries", "git") \/ EndDirectory("root", "prune")
    \/ \E fails \in BOOLEAN : OpenEntry(fails)
    \/ \E n \in Name : RemoveEntry(n) \/ StatEntry(n) \/ Revalidate(n)
    \/ \E n \in Name, target \in Target :
          \/ \E readable \in BOOLEAN : ChangeFile(n, target, readable)
          \/ \E kind \in {"file", "link"} : PutEntry(n, kind, target)

ScanTypeOK ==
    /\ \A n \in Name : Exists(n) => disk[n].target \in Target /\ disk[n].time \in 0..MaxScanned
    /\ clock \in 0..MaxScanned
    /\ opened.linked => disk[opened.name] = opened.file

(* A scan that succeeds tells the truth, whatever the scans before it left in  *)
(* the cache, the ones that failed half-way included: each digest and each     *)
(* target is one that the entry had while this very scan was in its directory,  *)
(* is missing from the snapshot only if it was missing at such a moment, and,   *)
(* when every entry could be examined, an entry of the snapshot was there all   *)
(* the time.  So a scan during which nothing changes is exact                   *)
(* (WorkspaceFingerprinter.capture, _scan_directory, _store_regular_file).      *)
ScanIsTrue ==
    ScanAt("done") =>
        \A n \in Name :
            /\ scan.files[n] \notin {Gone, NoTarget} => scan.files[n] \in during[n]
            /\ scan.files[n] = Gone => Gone \in during[n]
            /\ scan.files[n] # Gone /\ ~scan.unreadable => Gone \notin during[n]
=============================================================================
