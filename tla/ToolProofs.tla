----------------------------- MODULE ToolProofs -----------------------------
(* Proofs about the tools: the commands that the executor runs, for every   *)
(* number of processes that a command leaves behind, and the scan of the     *)
(* workspace, for any entries and any changes of them while it runs.         *)
EXTENDS CommandProcess, WorkspaceScan, TLAPS

----------------------------------------------------------------------------
(* The command of the executor *)

CommandPoints == {"idle", "wait", "terminate", "grace", "kill", "reap", "remove", "returned", "killed"}

RunArgv == [pc : CommandPoints, ended : {"no", "exit", "timeout", "interrupt", "signal"},
            interrupted : BOOLEAN]

(* The inductive invariant: what the steps of the clean-up have achieved so far. *)
CommandInv ==
    /\ CommandTypeOK /\ runArgv \in RunArgv
    /\ runArgv.pc = "reap" => group = {}
    /\ runArgv.pc = "remove" => group = {} /\ reaped
    /\ CommandIsGone

LEMMA CommandStarts == InitCommand => CommandInv
  BY DEF InitCommand, CommandInv, CommandTypeOK, RunArgv, CommandPoints, CommandIsGone

(* A step that sets the program counter alone. *)
LEMMA Goes ==
    ASSUME runArgv \in RunArgv, NEW pc \in CommandPoints, CommandGoes(pc)
    PROVE  /\ runArgv' \in RunArgv /\ runArgv'.pc = pc
           /\ runArgv'.interrupted = runArgv.interrupted
  BY DEF CommandGoes, RunArgv

(* Processes are started, by the leader or by others, and end. *)
LEMMA ProcessesKeep ==
    ASSUME CommandInv, NEW p \in {Leader} \cup Descendant, NEW ignores \in BOOLEAN,
           (p \in Descendant /\ Fork(p, ignores)) \/ Exit(p)
    PROVE  CommandInv'
  <1>1. UNCHANGED <<runArgv, reaped, container>> /\ (group = {} => group' = {})
    BY DEF Fork, Exit
  <1>2. CommandTypeOK'
    BY DEF CommandInv, CommandTypeOK, Fork, Exit
  <1>. QED
    BY <1>1, <1>2 DEF CommandInv, CommandIsGone

LEMMA CommandStep == CommandInv /\ [NextCommandStep]_commandVars => CommandInv'
  <1> SUFFICES ASSUME CommandInv, [NextCommandStep]_commandVars PROVE CommandInv'
    OBVIOUS
  <1>1. runArgv \in RunArgv /\ CommandTypeOK
    BY DEF CommandInv
  <1>2. CASE UNCHANGED commandVars
    BY <1>2 DEF commandVars, CommandInv, CommandTypeOK, CommandIsGone
  <1>3. ASSUME NEW docker \in BOOLEAN, StartCommand(docker) PROVE CommandInv'
    <2>1. runArgv' = [pc |-> "wait", ended |-> "no", interrupted |-> FALSE]
          /\ group' = {Leader} /\ deaf' \in SUBSET {Leader} /\ reaped' = FALSE
          /\ container' \in {"none", "wanted"}
      BY <1>3 DEF StartCommand
    <2>. QED
      BY <2>1 DEF CommandInv, CommandTypeOK, RunArgv, CommandPoints, CommandIsGone
  <1>4. CASE StartContainer
    BY <1>4 DEF StartContainer, CommandInv, CommandTypeOK, CommandIsGone
  <1>5. CASE WaitReturns
    <2>1. runArgv' \in RunArgv /\ runArgv'.pc = "terminate"
      BY <1>1, <1>5 DEF WaitReturns, RunArgv, CommandPoints
    <2>. QED
      BY <1>1, <1>5, <2>1 DEF WaitReturns, CommandInv, CommandTypeOK, CommandIsGone
  <1>6. ASSUME NEW why \in {"timeout", "interrupt", "signal"}, WaitEnds(why) PROVE CommandInv'
    <2>1. runArgv' \in RunArgv /\ runArgv'.pc = "terminate"
      BY <1>1, <1>6 DEF WaitEnds, RunArgv, CommandPoints
    <2>. QED
      BY <1>1, <1>6, <2>1 DEF WaitEnds, CommandInv, CommandTypeOK, CommandIsGone
  <1>7. CASE Terminate
    <2>1. CASE group' = group \cap deaf /\ CommandGoes("grace")
      <3>1. runArgv' \in RunArgv /\ runArgv'.pc = "grace"
        BY <1>1, <2>1, Goes DEF CommandPoints
      <3>. QED
        BY <1>1, <1>7, <2>1, <3>1 DEF Terminate, CommandInv, CommandTypeOK, CommandIsGone
    <2>2. CASE ~GroupExists /\ UNCHANGED group /\ CommandGoes("reap")
      <3>1. runArgv' \in RunArgv /\ runArgv'.pc = "reap"
        BY <1>1, <2>2, Goes DEF CommandPoints
      <3>. QED
        BY <1>1, <1>7, <2>2, <3>1 DEF Terminate, GroupExists, CommandInv, CommandTypeOK, CommandIsGone
    <2>. QED
      BY <1>7, <2>1, <2>2 DEF Terminate
  <1>8. CASE GraceOver
    <2>1. runArgv' \in RunArgv /\ runArgv'.pc = "kill"
      BY <1>1, <1>8, Goes DEF GraceOver, CommandPoints
    <2>. QED
      BY <1>1, <1>8, <2>1 DEF GraceOver, CommandInv, CommandTypeOK, CommandIsGone
  <1>9. CASE Kill
    <2>1. runArgv' \in RunArgv /\ runArgv'.pc = "reap"
      BY <1>1, <1>9, Goes DEF Kill, CommandPoints
    <2>. QED
      BY <1>1, <1>9, <2>1 DEF Kill, CommandInv, CommandTypeOK, CommandIsGone
  <1>10. CASE Reap
    <2>1. runArgv' \in RunArgv /\ runArgv'.pc = "remove" /\ group = {}
      BY <1>1, <1>10, Goes DEF Reap, CommandAt, CommandInv, CommandPoints
    <2>. QED
      BY <1>1, <1>10, <2>1 DEF Reap, CommandInv, CommandTypeOK, CommandIsGone
  <1>11. CASE InterruptCleanup
    <2>1. runArgv' \in RunArgv /\ runArgv'.pc = "returned" /\ runArgv'.interrupted
      BY <1>1, <1>11 DEF InterruptCleanup, RunArgv, CommandPoints
    <2>. QED
      BY <1>1, <1>11, <2>1 DEF InterruptCleanup, CommandInv, CommandTypeOK, CommandIsGone
  <1>12. CASE RemoveContainer
    <2>1. runArgv' \in RunArgv /\ runArgv'.pc = "returned"
          /\ runArgv'.interrupted = runArgv.interrupted
      BY <1>1, <1>12, Goes DEF RemoveContainer, CommandPoints
    <2>. QED
      BY <1>1, <1>12, <2>1 DEF RemoveContainer, CommandAt, CommandInv, CommandTypeOK, CommandIsGone
  <1>13. CASE AgentKilled
    <2>1. runArgv' \in RunArgv /\ runArgv'.pc = "killed"
      BY <1>1, <1>13, Goes DEF AgentKilled, CommandPoints
    <2>. QED
      BY <1>1, <1>13, <2>1 DEF AgentKilled, CommandInv, CommandTypeOK, CommandIsGone
  <1>14. CASE NextCommand
    <2>1. runArgv' \in RunArgv /\ runArgv'.pc = "idle"
      BY <1>1, <1>14, Goes DEF NextCommand, CommandPoints
    <2>. QED
      BY <1>1, <1>14, <2>1 DEF NextCommand, CommandInv, CommandTypeOK, CommandIsGone
  <1>. QED
    BY <1>2, <1>3, <1>4, <1>5, <1>6, <1>7, <1>8, <1>9, <1>10, <1>11, <1>12, <1>13, <1>14,
       ProcessesKeep DEF NextCommandStep

(* When a command is over, nothing that it started still runs: no process in *)
(* the background and no container, whatever ended the wait and however many *)
(* processes ignore SIGTERM, unless a second Ctrl-C came during the clean-up *)
(* (_run_argv, _terminate_process_group, _cleanup_docker_run).               *)
THEOREM CommandsEnd == InitCommand /\ [][NextCommandStep]_commandVars => []CommandIsGone
  <1>1. CommandInv => CommandIsGone
    BY DEF CommandInv
  <1>. QED
    BY <1>1, CommandStarts, CommandStep, PTL

(* Every variable of a command has its type. *)
THEOREM CommandTypeCorrect == InitCommand /\ [][NextCommandStep]_commandVars => []CommandTypeOK
  <1>1. CommandInv => CommandTypeOK
    BY DEF CommandInv
  <1>. QED
    BY <1>1, CommandStarts, CommandStep, PTL

----------------------------------------------------------------------------
(* The scan of a directory *)

Times == 0 .. clock

Signatures == {"file", "link"} \X BOOLEAN \X Nat \X Nat

Cached == [signature : Signatures, value : Target \cup {NoTarget}]

(* Where an entry is examined, and where its file is open. *)
OpenedPoints == {"fstat", "read", "hash", "hashed"}
ExaminePoints == {"readlink", "open"} \cup OpenedPoints
ScanPoints == {"entries", "git", "controls", "root", "revalidate", "prune"} \cup ExaminePoints

ActiveScan ==
    [pc : ScanPoints, todo : SUBSET Name, files : [Name -> Target \cup {Gone, NoTarget}],
     unreadable : BOOLEAN, cached : SUBSET Name, directory : [root : Nat, git : Nat],
     entry : Name \cup {Gone, "git", "prune"}, signature : Signatures \cup {Gone},
     part : Target \cup {Gone, Torn}]

Scanning == scan.pc \in ScanPoints

TypesOK ==
    /\ disk \in [Name -> EntryFile \cup {Gone}]
    /\ changed \in [root : Nat, git : Nat] /\ clock \in Nat
    /\ fingerprints \in [Name -> Cached \cup {Gone}]
    /\ \/ scan \in ActiveScan
       \/ scan.pc \in {"idle", "aborted", "done"}
    /\ opened \in [name : Name \cup {Gone}, file : EntryFile \cup {Gone}, linked : BOOLEAN]
    /\ during \in [Name -> SUBSET (Target \cup {Gone})]

(* Nothing is of a time to come, so a change always shows. *)
TimesOK ==
    /\ changed.root \in Times /\ changed.git \in Times
    /\ \A n \in Name : Exists(n) => disk[n].node \in Times /\ disk[n].time \in Times
    /\ \A n \in Name : fingerprints[n] # Gone => fingerprints[n].signature[4] \in Times
    /\ Scanning => scan.directory.root \in Times /\ scan.directory.git \in Times

(* A cached value is good for as long as the signature is. *)
CacheOK ==
    \A n \in Name : Exists(n) /\ Hit(n, Signature(disk[n])) =>
        fingerprints[n].value \in {disk[n].target, NoTarget}

(* The file behind the descriptor is the entry's, or it lost its name at a time that *)
(* no signature has seen.                                                            *)
OpenedOK ==
    /\ scan.pc \notin OpenedPoints => opened = NoFile
    /\ scan.pc \in OpenedPoints =>
          LET n == scan.entry
          IN  /\ opened.name = n /\ opened.file \in EntryFile /\ opened.file.kind = "file"
              /\ opened.file.node \in Times /\ opened.file.time \in Times
              /\ opened.file.target \in during[n]
              /\ opened.linked => disk[n] = opened.file
              /\ ~opened.linked => /\ Exists(n) => disk[n].node # opened.file.node
                                   /\ ~Hit(n, Signature(opened.file))

ExamineOK ==
    /\ scan.pc \in ExaminePoints =>
          /\ scan.entry \in scan.todo
          /\ scan.signature \in Signatures /\ scan.signature[4] \in Times
    /\ scan.pc \in {"hash", "hashed"} /\ Signature(opened.file) = scan.signature =>
          scan.part = opened.file.target

(* The phases of a scan: the directory's entries, the Git controls, the end. *)
InEntries == ScanAt("entries") \/ (scan.pc \in ExaminePoints /\ scan.entry \in Listed)
InControls == ScanAt("controls") \/ (scan.pc \in ExaminePoints /\ scan.entry \in Control)
BeforeControls == InEntries \/ ScanAt("git") \/ (ScanAt("revalidate") /\ scan.entry = "git")
AfterControls ==
    ScanAt("root") \/ ScanAt("prune") \/ (ScanAt("revalidate") /\ scan.entry = "prune")

PhaseOK ==
    /\ scan.pc \in ExaminePoints => scan.entry \in Name
    /\ ScanAt("revalidate") => scan.entry \in {"git", "prune"}
    /\ InEntries => scan.todo \subseteq Listed
    /\ InControls => scan.todo \subseteq Control
    /\ ScanAt("revalidate") => scan.unreadable

(* What the entries of the directory were, and what the snapshot says of them. *)
ListedOK ==
    Scanning => \A n \in Listed :
        /\ ~ScanAt("prune") => Now(n) \in during[n]
        /\ scan.files[n] \notin {Gone, NoTarget} => scan.files[n] \in during[n]
        /\ scan.files[n] = Gone => Gone \in during[n] \/ (InEntries /\ n \in scan.todo)
        /\ Gone \in during[n] =>
              \/ scan.files[n] = Gone /\ (InEntries => n \notin scan.todo)
              \/ ~ScanAt("prune") /\ changed.root > scan.directory.root
              \/ ScanAt("prune") /\ scan.unreadable

(* The same of the Git controls, from the moment they are scanned. *)
ControlOK ==
    Scanning => \A n \in Control :
        /\ BeforeControls => scan.files[n] = Gone
        /\ InControls =>
              /\ Now(n) \in during[n]
              /\ Gone \in during[n] =>
                    \/ changed.git > scan.directory.git
                    \/ /\ scan.files[n] = Gone
                       /\ \/ n \notin scan.todo
                          \/ ~Exists(n) /\ ~(scan.pc \in ExaminePoints /\ scan.entry = n)
        /\ scan.files[n] \notin {Gone, NoTarget} => scan.files[n] \in during[n]
        /\ InControls /\ scan.files[n] = Gone => Gone \in during[n] \/ n \in scan.todo
        /\ AfterControls => (scan.files[n] = Gone <=> Gone \in during[n])

ScanInv ==
    /\ TypesOK /\ TimesOK /\ CacheOK /\ OpenedOK /\ ExamineOK /\ PhaseOK
    /\ ListedOK /\ ControlOK /\ ScanIsTrue

USE ScanAssumption, GoneAssumption
USE DEF Name, Exists, IsLink, IsFile, OpenedPoints, ExaminePoints, ScanPoints, ScanAt

(* What another process does to the entry n shows in the times of the clock. *)
Alters(n, file) ==
    /\ Become(n, file)
    /\ file \in EntryFile \cup {Gone}
    /\ file # Gone => file.time = clock + 1 /\ file.node \in 0 .. clock + 1
    /\ changed' \in [root : Nat, git : Nat]
    /\ changed'.root \in {changed.root, clock + 1} /\ changed'.git \in {changed.git, clock + 1}
    /\ \/ Exists(n) /\ file # Gone
       \/ IF n \in Control THEN changed'.git = clock + 1 ELSE changed'.root = clock + 1

LEMMA AltersFacts ==
    ASSUME ScanInv, NEW n \in Name, NEW file, Alters(n, file)
    PROVE  /\ clock' = clock + 1 /\ UNCHANGED <<fingerprints, scan>>
           /\ disk' \in [Name -> EntryFile \cup {Gone}] /\ disk'[n] = file
           /\ \A m \in Name \ {n} : disk'[m] = disk[m]
           /\ during' \in [Name -> SUBSET (Target \cup {Gone})]
           /\ \A m \in Name : during[m] \subseteq during'[m]
           /\ \A m \in Name \ {n} : during'[m] = during[m]
           /\ ~Scanned(n) => during'[n] = during[n]
           /\ Scanned(n) => during'[n] = during[n] \cup {IF file = Gone THEN Gone ELSE file.target}
  <1>1. /\ clock' = clock + 1 /\ UNCHANGED <<fingerprints, scan>>
        /\ disk' = [disk EXCEPT ![n] = file]
        /\ during' = IF Scanned(n)
                     THEN [during EXCEPT ![n] = @ \cup {IF file = Gone THEN Gone ELSE file.target}]
                     ELSE during
    BY DEF Alters, Become
  <1>2. disk \in [Name -> EntryFile \cup {Gone}] /\ during \in [Name -> SUBSET (Target \cup {Gone})]
    BY DEF ScanInv, TypesOK
  <1>3. file \in EntryFile \cup {Gone} /\ (file # Gone => file.target \in Target)
    BY DEF Alters, EntryFile
  <1>. QED
    BY <1>1, <1>2, <1>3

LEMMA AltersTimes ==
    ASSUME ScanInv, NEW n \in Name, NEW file, Alters(n, file)
    PROVE  TimesOK'
  <1> USE DEF Times
  <1>1. clock \in Nat /\ clock' = clock + 1 /\ Times \subseteq Times'
    BY AltersFacts DEF ScanInv, TypesOK
  <1>2. changed'.root \in Times' /\ changed'.git \in Times'
    BY <1>1 DEF ScanInv, TimesOK, Alters
  <1>3. ASSUME NEW m \in Name, Exists(m)' PROVE disk'[m].node \in Times' /\ disk'[m].time \in Times'
    <2>1. CASE m = n
      BY <1>1, <1>3, <2>1, AltersFacts DEF Alters
    <2>2. CASE m # n
      BY <1>1, <1>3, <2>2, AltersFacts DEF ScanInv, TimesOK
    <2>. QED
      BY <2>1, <2>2
  <1>4. \A m \in Name : fingerprints'[m] # Gone => fingerprints'[m].signature[4] \in Times'
    BY <1>1, AltersFacts DEF ScanInv, TimesOK
  <1>5. Scanning' => scan'.directory.root \in Times' /\ scan'.directory.git \in Times'
    BY <1>1, AltersFacts DEF ScanInv, TimesOK, Scanning
  <1>. QED
    BY <1>2, <1>3, <1>4, <1>5 DEF TimesOK

LEMMA AltersCache ==
    ASSUME ScanInv, NEW n \in Name, NEW file, Alters(n, file)
    PROVE  CacheOK'
  <1> SUFFICES ASSUME NEW m \in Name, Exists(m)', Hit(m, Signature(disk[m]))'
               PROVE  fingerprints'[m].value \in {disk'[m].target, NoTarget}
    BY DEF CacheOK
  <1>1. CASE m # n
    BY <1>1, AltersFacts DEF ScanInv, CacheOK, Hit, Signature
  <1>2. CASE m = n
    <2>1. fingerprints[n] # Gone /\ fingerprints[n].signature = <<file.kind, file.readable, file.node, file.time>>
      BY <1>2, AltersFacts DEF Hit, Signature
    <2>2. fingerprints[n].signature[4] \in 0 .. clock /\ clock \in Nat
      BY <2>1 DEF ScanInv, TimesOK, TypesOK, Times
    <2>3. file # Gone /\ file.time = clock + 1
      BY <1>2, AltersFacts DEF Alters
    <2>. QED
      BY <2>1, <2>2, <2>3
  <1>. QED
    BY <1>1, <1>2

LEMMA AltersListed ==
    ASSUME ScanInv, NEW n \in Name, NEW file, Alters(n, file)
    PROVE  ListedOK'
  <1> SUFFICES ASSUME Scanning, NEW m \in Listed
               PROVE  /\ ~ScanAt("prune") => Now(m)' \in during'[m]
                      /\ scan.files[m] \notin {Gone, NoTarget} => scan.files[m] \in during'[m]
                      /\ scan.files[m] = Gone => Gone \in during'[m] \/ (InEntries /\ m \in scan.todo)
                      /\ Gone \in during'[m] =>
                            \/ scan.files[m] = Gone /\ (InEntries => m \notin scan.todo)
                            \/ ~ScanAt("prune") /\ changed'.root > scan.directory.root
                            \/ ScanAt("prune") /\ scan.unreadable
    <2>1. UNCHANGED scan
      BY AltersFacts
    <2>. QED
      BY <2>1 DEF ListedOK, Scanning, InEntries
  <1>1. /\ ~ScanAt("prune") => Now(m) \in during[m]
        /\ scan.files[m] \notin {Gone, NoTarget} => scan.files[m] \in during[m]
        /\ scan.files[m] = Gone => Gone \in during[m] \/ (InEntries /\ m \in scan.todo)
        /\ Gone \in during[m] =>
              \/ scan.files[m] = Gone /\ (InEntries => m \notin scan.todo)
              \/ ~ScanAt("prune") /\ changed.root > scan.directory.root
              \/ ScanAt("prune") /\ scan.unreadable
    BY DEF ScanInv, ListedOK
  <1>2. during[m] \subseteq during'[m]
    BY AltersFacts
  <1>3. ~ScanAt("prune") => Now(m)' \in during'[m]
    <2>1. CASE m # n
      BY <1>1, <1>2, <2>1, AltersFacts DEF Now
    <2>2. CASE m = n
      <3>1. ~ScanAt("prune") => Scanned(n)
        BY <2>2 DEF Scanned, Scanning
      <3>. QED
        BY <2>2, <3>1, AltersFacts DEF Now
    <2>. QED
      BY <2>1, <2>2
  <1>4. ASSUME Gone \in during'[m]
        PROVE  \/ scan.files[m] = Gone /\ (InEntries => m \notin scan.todo)
               \/ ~ScanAt("prune") /\ changed'.root > scan.directory.root
               \/ ScanAt("prune") /\ scan.unreadable
    <2>1. /\ changed.root \in 0 .. clock /\ scan.directory.root \in 0 .. clock /\ clock \in Nat
          /\ changed'.root \in {changed.root, clock + 1}
      BY DEF ScanInv, TimesOK, TypesOK, Times, Alters
    <2>2. CASE Gone \in during[m]
      BY <1>1, <2>1, <2>2
    <2>3. CASE Gone \notin during[m]
      <3>1. m = n /\ Scanned(n) /\ Gone = (IF file = Gone THEN Gone ELSE file.target)
        BY <1>4, <2>3, AltersFacts
      <3>2. file = Gone
        <4>1. file \in EntryFile => file.target # Gone
          BY DEF EntryFile
        <4>. QED
          BY <3>1, <4>1 DEF Alters
      <3>3. n \notin Control
        BY <3>1
      <3>4. changed'.root = clock + 1
        BY <3>2, <3>3 DEF Alters
      <3>5. ~ScanAt("prune")
        BY <3>1 DEF Scanned
      <3>. QED
        BY <2>1, <3>4, <3>5
    <2>. QED
      BY <2>2, <2>3
  <1>. QED
    BY <1>1, <1>2, <1>3, <1>4

LEMMA AltersControl ==
    ASSUME ScanInv, NEW n \in Name, NEW file, Alters(n, file)
    PROVE  ControlOK'
  <1>1. UNCHANGED scan
    BY AltersFacts
  <1> DEFINE Good(m) ==
        /\ BeforeControls => scan.files[m] = Gone
        /\ InControls =>
              /\ Now(m)' \in during'[m]
              /\ Gone \in during'[m] =>
                    \/ changed'.git > scan.directory.git
                    \/ /\ scan.files[m] = Gone
                       /\ \/ m \notin scan.todo
                          \/ ~Exists(m)' /\ ~(scan.pc \in ExaminePoints /\ scan.entry = m)
        /\ scan.files[m] \notin {Gone, NoTarget} => scan.files[m] \in during'[m]
        /\ InControls /\ scan.files[m] = Gone => Gone \in during'[m] \/ m \in scan.todo
        /\ AfterControls => (scan.files[m] = Gone <=> Gone \in during'[m])
  <1> SUFFICES ASSUME Scanning, NEW m \in Control PROVE Good(m)
    BY <1>1 DEF ControlOK, Scanning, BeforeControls, InControls, InEntries, AfterControls
  <1>2. /\ BeforeControls => scan.files[m] = Gone
        /\ InControls =>
              /\ Now(m) \in during[m]
              /\ Gone \in during[m] =>
                    \/ changed.git > scan.directory.git
                    \/ /\ scan.files[m] = Gone
                       /\ \/ m \notin scan.todo
                          \/ ~Exists(m) /\ ~(scan.pc \in ExaminePoints /\ scan.entry = m)
        /\ scan.files[m] \notin {Gone, NoTarget} => scan.files[m] \in during[m]
        /\ InControls /\ scan.files[m] = Gone => Gone \in during[m] \/ m \in scan.todo
        /\ AfterControls => (scan.files[m] = Gone <=> Gone \in during[m])
    BY DEF ScanInv, ControlOK
  <1>3. /\ changed.git \in 0 .. clock /\ scan.directory.git \in 0 .. clock /\ clock \in Nat
        /\ changed'.git \in {changed.git, clock + 1}
    BY DEF ScanInv, TimesOK, TypesOK, Times, Alters
  <1>4. CASE m # n
    <2>1. UNCHANGED <<disk[m], during[m]>>
      BY <1>4, AltersFacts
    <2>. QED
      BY <1>2, <1>3, <2>1 DEF Now
  <1>5. CASE m = n
    <2>1. CASE InControls
      <3>1. Scanned(n) /\ ~AfterControls /\ ~BeforeControls
        BY <1>5, <2>1 DEF InControls, Scanned, AfterControls, BeforeControls, InEntries
      <3>2. during'[n] = during[n] \cup {Now(n)'}
        BY <3>1, AltersFacts DEF Now
      <3>3. changed'.git > scan.directory.git \/ (Exists(n) /\ file # Gone)
        BY <1>3, <1>5 DEF Alters
      <3>4. ASSUME Gone \in during'[n], ~(changed'.git > scan.directory.git)
            PROVE  scan.files[n] = Gone /\ n \notin scan.todo
        <4>1. Exists(n) /\ file # Gone /\ file \in EntryFile
          BY <3>3, <3>4 DEF Alters
        <4>2. Now(n)' # Gone
          BY <4>1, AltersFacts DEF Now, EntryFile
        <4>3. Gone \in during[n] /\ ~(changed.git > scan.directory.git)
          BY <1>3, <3>2, <3>4, <4>2
        <4>. QED
          BY <1>2, <1>5, <2>1, <4>1, <4>3
      <3>. QED
        BY <1>2, <1>5, <2>1, <3>1, <3>2, <3>4
    <2>2. CASE ~InControls
      <3>1. during[n] \subseteq during'[n]
        BY AltersFacts
      <3>2. CASE AfterControls
        <4>1. ~Scanned(n)
          BY <1>5, <3>2 DEF AfterControls, Scanned
        <4>2. during'[n] = during[n]
          BY <4>1, AltersFacts
        <4>. QED
          BY <1>2, <1>5, <2>2, <4>2
      <3>3. CASE ~AfterControls
        BY <1>2, <1>5, <2>2, <3>1, <3>3
      <3>. QED
        BY <3>2, <3>3
    <2>. QED
      BY <2>1, <2>2
  <1>. QED
    BY <1>4, <1>5

(* What happens to the open file: nothing, if it is another entry's or has no name; *)
(* otherwise it changes, or loses its name, at the new time.                        *)
OpenedAlters(n, file) ==
    \/ UNCHANGED opened /\ ~(opened.name = n /\ opened.linked)
          /\ (file # Gone => file.node = clock + 1 \/ (Exists(n) /\ file.node = disk[n].node))
    \/ /\ opened.name = n /\ opened.linked /\ opened' = [opened EXCEPT !.file = file]
       /\ file # Gone /\ file.kind = "file"
    \/ /\ opened.name = n /\ opened.linked
       /\ opened' = [opened EXCEPT !.linked = FALSE, !.file.time = clock + 1]
       /\ file # Gone => file.node = clock + 1

LEMMA ScanningEntry ==
    ASSUME ScanInv, scan.pc \in ExaminePoints
    PROVE  /\ scan.entry \in Name /\ scan.entry \in scan.todo /\ Scanning /\ Scanned(scan.entry)
           /\ scan \in ActiveScan /\ scan.signature \in Signatures /\ scan.signature[4] \in Times
           /\ Now(scan.entry) \in during[scan.entry]
  <1>1. scan.entry \in Name /\ Scanning
    BY DEF ScanInv, PhaseOK, Scanning
  <1>2. scan.entry \in scan.todo /\ scan.signature \in Signatures /\ scan.signature[4] \in Times
    BY DEF ScanInv, ExamineOK
  <1>3. Scanned(scan.entry)
    BY DEF Scanned
  <1>4. scan \in ActiveScan
    BY DEF ScanInv, TypesOK
  <1>5. Now(scan.entry) \in during[scan.entry]
    BY <1>1 DEF ScanInv, ListedOK, ControlOK, InControls
  <1>. QED
    BY <1>1, <1>2, <1>3, <1>4, <1>5

LEMMA AltersOpened ==
    ASSUME ScanInv, NEW n \in Name, NEW file, Alters(n, file), OpenedAlters(n, file)
    PROVE  /\ opened' \in [name : Name \cup {Gone}, file : EntryFile \cup {Gone}, linked : BOOLEAN]
           /\ OpenedOK' /\ ExamineOK'
  <1> DEFINE e == scan.entry
  <1>1. /\ clock \in Nat /\ clock' = clock + 1 /\ UNCHANGED <<fingerprints, scan>>
        /\ opened \in [name : Name \cup {Gone}, file : EntryFile \cup {Gone}, linked : BOOLEAN]
        /\ file \in EntryFile \cup {Gone}
    BY AltersFacts DEF ScanInv, TypesOK, Alters
  <1>2. CASE scan.pc \notin OpenedPoints
    <2>1. opened = NoFile /\ ~opened.linked
      BY <1>2 DEF ScanInv, OpenedOK, NoFile
    <2>2. UNCHANGED opened
      BY <2>1 DEF OpenedAlters
    <2>3. ExamineOK'
      BY <1>1, <1>2, ScanningEntry DEF ExamineOK, Times
    <2>. QED
      BY <1>1, <1>2, <2>1, <2>2, <2>3 DEF OpenedOK, NoFile
  <1>3. CASE scan.pc \in OpenedPoints
    <2>1. /\ e \in Name /\ e \in scan.todo /\ Scanned(e)
          /\ scan.signature \in Signatures /\ scan.signature[4] \in 0 .. clock
      BY <1>3, ScanningEntry DEF Times
    <2>2. /\ opened.name = e /\ opened.file \in EntryFile /\ opened.file.kind = "file"
          /\ opened.file.node \in 0 .. clock /\ opened.file.time \in 0 .. clock
          /\ opened.file.target \in during[e]
          /\ opened.linked => disk[e] = opened.file
          /\ ~opened.linked => /\ Exists(e) => disk[e].node # opened.file.node
                               /\ ~Hit(e, Signature(opened.file))
      BY <1>3 DEF ScanInv, OpenedOK, Times
    <2>3. during[e] \subseteq during'[e] /\ (Scanned(n) /\ file # Gone => file.target \in during'[n])
      BY <2>1, AltersFacts
    <2>4. fingerprints[e] # Gone => fingerprints[e].signature[4] \in 0 .. clock
      BY <2>1 DEF ScanInv, TimesOK, Times
    <2>5. CASE UNCHANGED opened /\ ~(opened.name = n /\ opened.linked)
               /\ (file # Gone => file.node = clock + 1 \/ (Exists(n) /\ file.node = disk[n].node))
      <3>1. opened.linked => disk'[e] = opened.file
        BY <2>1, <2>2, <2>5, AltersFacts
      <3>2. ASSUME ~opened.linked, Exists(e)' PROVE disk'[e].node # opened.file.node
        <4>1. CASE e = n
          BY <1>1, <2>2, <2>5, <3>2, <4>1, AltersFacts
        <4>2. CASE e # n
          BY <2>1, <2>2, <3>2, <4>2, AltersFacts
        <4>. QED
          BY <4>1, <4>2
      <3>3. OpenedOK'
        BY <1>1, <1>3, <2>1, <2>2, <2>3, <2>5, <3>1, <3>2 DEF OpenedOK, Times, Hit, Signature
      <3>4. ExamineOK'
        BY <1>1, <1>3, <2>1, <2>5 DEF ScanInv, ExamineOK, Times, Signature
      <3>. QED
        BY <1>1, <2>5, <3>3, <3>4
    <2>6. CASE /\ opened.name = n /\ opened.linked /\ opened' = [opened EXCEPT !.file = file]
               /\ file # Gone /\ file.kind = "file"
      <3>1. /\ opened'.name = e /\ opened'.file = file /\ opened'.linked
            /\ opened' \in [name : Name \cup {Gone}, file : EntryFile \cup {Gone}, linked : BOOLEAN]
        BY <1>1, <2>2, <2>6
      <3>2. /\ file.time = clock + 1 /\ file.node \in 0 .. clock + 1 /\ file \in EntryFile
            /\ disk'[e] = file
        BY <1>1, <2>2, <2>6, AltersFacts DEF Alters
      <3>3. OpenedOK'
        BY <1>1, <1>3, <2>1, <2>2, <2>3, <2>6, <3>1, <3>2 DEF OpenedOK, Times
      <3>4. Signature(opened.file)' # scan.signature
        BY <1>1, <2>1, <3>1, <3>2 DEF Signature
      <3>5. ExamineOK'
        BY <1>1, <1>3, <2>1, <3>4 DEF ExamineOK, Times
      <3>. QED
        BY <3>1, <3>3, <3>5
    <2>7. CASE /\ opened.name = n /\ opened.linked
               /\ opened' = [opened EXCEPT !.linked = FALSE, !.file.time = clock + 1]
               /\ file # Gone => file.node = clock + 1
      <3> DEFINE x == [opened.file EXCEPT !.time = clock + 1]
      <3>1. /\ x \in EntryFile /\ x.time = clock + 1 /\ x.node = opened.file.node
            /\ x.kind = "file" /\ x.target = opened.file.target
        BY <1>1, <2>2 DEF EntryFile
      <3>2. opened'.name = e /\ opened'.file = x /\ opened'.linked = FALSE
        BY <1>1, <2>2, <2>7
      <3>3. opened' \in [name : Name \cup {Gone}, file : EntryFile \cup {Gone}, linked : BOOLEAN]
        <4>1. opened' = [[opened EXCEPT !.linked = FALSE] EXCEPT !.file = x]
          BY <1>1, <2>7
        <4>. HIDE DEF x
        <4>. QED
          BY <1>1, <3>1, <4>1
      <3>. HIDE DEF x
      <3>4. ~Hit(e, Signature(opened.file))'
        BY <1>1, <2>4, <3>1, <3>2 DEF Hit, Signature
      <3>5. Exists(e)' => disk'[e].node # x.node
        BY <1>1, <2>2, <2>7, <3>1, AltersFacts
      <3>6. OpenedOK'
        BY <1>1, <1>3, <2>1, <2>2, <2>3, <3>1, <3>2, <3>4, <3>5 DEF OpenedOK, Times
      <3>7. Signature(opened.file)' # scan.signature
        BY <1>1, <2>1, <3>1, <3>2 DEF Signature
      <3>8. ExamineOK'
        BY <1>1, <1>3, <2>1, <3>7 DEF ExamineOK, Times
      <3>. QED
        BY <3>3, <3>6, <3>8
    <2>. QED
      BY <2>5, <2>6, <2>7 DEF OpenedAlters
  <1>. QED
    BY <1>2, <1>3

LEMMA AltersKeep ==
    ASSUME ScanInv, NEW n \in Name, NEW file, Alters(n, file), OpenedAlters(n, file)
    PROVE  ScanInv'
  <1>1. /\ UNCHANGED <<fingerprints, scan>> /\ clock' \in Nat
        /\ changed' \in [root : Nat, git : Nat]
    BY AltersFacts DEF ScanInv, TypesOK, Alters
  <1>2. TypesOK'
    BY <1>1, AltersFacts, AltersOpened DEF ScanInv, TypesOK
  <1>3. PhaseOK'
    BY <1>1 DEF ScanInv, PhaseOK, InEntries, InControls
  <1>4. ScanIsTrue'
    <2> SUFFICES ASSUME ScanAt("done"), NEW m \in Name
                 PROVE  /\ scan.files[m] \notin {Gone, NoTarget} => scan.files[m] \in during'[m]
                        /\ scan.files[m] = Gone => Gone \in during'[m]
                        /\ scan.files[m] # Gone /\ ~scan.unreadable => Gone \notin during'[m]
      BY <1>1 DEF ScanIsTrue
    <2>1. ~Scanned(n)
      BY DEF Scanned
    <2>2. during'[m] = during[m]
      BY <2>1, AltersFacts
    <2>. QED
      BY <2>2 DEF ScanInv, ScanIsTrue
  <1>. QED
    BY <1>2, <1>3, <1>4, AltersTimes, AltersCache, AltersListed, AltersControl, AltersOpened
       DEF ScanInv

(* A file is written in place, or gets other permissions. *)
LEMMA ChangeFileKeeps ==
    ASSUME ScanInv, NEW n \in Name, NEW target \in Target, NEW readable \in BOOLEAN,
           ChangeFile(n, target, readable)
    PROVE  ScanInv'
  <1> DEFINE file == [disk[n] EXCEPT !.target = target, !.readable = readable, !.time = clock + 1]
  <1>1. /\ IsFile(n) /\ Become(n, file) /\ UNCHANGED changed
        /\ opened' = IF opened.name = n /\ opened.linked THEN [opened EXCEPT !.file = file]
                     ELSE opened
    BY DEF ChangeFile
  <1>2. disk[n] \in EntryFile /\ clock \in Nat /\ disk[n].node \in 0 .. clock
    BY <1>1 DEF ScanInv, TypesOK, TimesOK, Times
  <1>3. /\ file \in EntryFile /\ file.time = clock + 1 /\ file.node = disk[n].node
        /\ file.kind = "file"
    <2>1. disk[n].kind = "file" /\ clock + 1 \in Nat
      BY <1>1, <1>2
    <2>2. file \in EntryFile
      BY ONLY <2>1, <1>2, target \in Target, readable \in BOOLEAN DEF EntryFile
    <2>3. file.time = clock + 1 /\ file.node = disk[n].node /\ file.kind = disk[n].kind
      BY ONLY <1>2 DEF EntryFile
    <2>. QED
      BY <2>1, <2>2, <2>3
  <1>. HIDE DEF file
  <1>4. Alters(n, file)
    BY <1>1, <1>2, <1>3 DEF Alters, ScanInv, TypesOK
  <1>5. OpenedAlters(n, file)
    BY <1>1, <1>3, GoneAssumption DEF OpenedAlters
  <1>. QED
    BY <1>4, <1>5, AltersKeep

(* An entry is created or replaced, or removed. *)
LEMMA NamesKeep ==
    ASSUME ScanInv, NEW n \in Name, NEW file \in EntryFile \cup {Gone},
           file # Gone => file.time = clock + 1 /\ file.node = clock + 1,
           Become(n, file), opened' = Unlinked(n),
           changed' = [changed EXCEPT ![Directory(n)] = clock + 1]
    PROVE  ScanInv'
  <1>1. clock \in Nat /\ changed \in [root : Nat, git : Nat]
    BY DEF ScanInv, TypesOK
  <1>2. /\ changed' \in [root : Nat, git : Nat]
        /\ changed'.root = IF n \in Control THEN changed.root ELSE clock + 1
        /\ changed'.git = IF n \in Control THEN clock + 1 ELSE changed.git
    BY <1>1 DEF Directory
  <1>3. Alters(n, file)
    BY <1>1, <1>2 DEF Alters
  <1>4. OpenedAlters(n, file)
    BY DEF OpenedAlters, Unlinked
  <1>. QED
    BY <1>3, <1>4, AltersKeep

LEMMA OthersKeep ==
    ASSUME ScanInv, NEW n \in Name,
           \/ RemoveEntry(n)
           \/ \E target \in Target, kind \in {"file", "link"} : PutEntry(n, kind, target)
           \/ \E target \in Target, readable \in BOOLEAN : ChangeFile(n, target, readable)
    PROVE  ScanInv'
  <1>1. CASE RemoveEntry(n)
    BY <1>1, NamesKeep DEF RemoveEntry
  <1>2. ASSUME NEW target \in Target, NEW kind \in {"file", "link"}, PutEntry(n, kind, target)
        PROVE  ScanInv'
    <2>1. clock + 1 \in Nat
      BY DEF ScanInv, TypesOK
    <2>2. /\ NewEntry(kind, target, clock + 1) \in EntryFile
          /\ NewEntry(kind, target, clock + 1).time = clock + 1
          /\ NewEntry(kind, target, clock + 1).node = clock + 1
      BY <2>1 DEF NewEntry, EntryFile
    <2>. QED
      BY <1>2, <2>2, NamesKeep DEF PutEntry
  <1>. QED
    BY <1>1, <1>2, ChangeFileKeeps

(* The files stay as they are in a step of the scan. *)
Still == UNCHANGED <<disk, changed, clock>>

LEMMA StepTypes ==
    ASSUME ScanInv, Still, scan' \in ActiveScan, scan'.directory \in [root : Times, git : Times],
           fingerprints' \in [Name -> Cached \cup {Gone}],
           \A n \in Name : fingerprints'[n] # Gone => fingerprints'[n].signature[4] \in Times,
           during' \in [Name -> SUBSET (Target \cup {Gone})],
           opened' = NoFile \/ opened' = opened \/
               \E n \in Name : opened' = [name |-> n, file |-> disk[n], linked |-> TRUE]
    PROVE  TypesOK' /\ TimesOK' /\ ScanIsTrue'
  <1>1. /\ disk' = disk /\ changed' = changed /\ clock' = clock
        /\ scan'.pc \in ScanPoints
    BY DEF Still, ActiveScan
  <1>2. opened' \in [name : Name \cup {Gone}, file : EntryFile \cup {Gone}, linked : BOOLEAN]
    <2>1. /\ opened \in [name : Name \cup {Gone}, file : EntryFile \cup {Gone}, linked : BOOLEAN]
          /\ disk \in [Name -> EntryFile \cup {Gone}]
      BY DEF ScanInv, TypesOK
    <2>2. NoFile \in [name : Name \cup {Gone}, file : EntryFile \cup {Gone}, linked : BOOLEAN]
      BY DEF NoFile
    <2>3. ASSUME NEW n \in Name
          PROVE  [name |-> n, file |-> disk[n], linked |-> TRUE]
                   \in [name : Name \cup {Gone}, file : EntryFile \cup {Gone}, linked : BOOLEAN]
      <3>1. disk[n] \in EntryFile \cup {Gone}
        BY <2>1
      <3>. QED
        BY ONLY <3>1, n \in Name DEF Name
    <2>. QED
      BY ONLY <2>1, <2>2, <2>3,
         opened' = NoFile \/ opened' = opened \/
             \E n \in Name : opened' = [name |-> n, file |-> disk[n], linked |-> TRUE]
  <1>3. TypesOK'
    BY <1>1, <1>2 DEF ScanInv, TypesOK
  <1>4. TimesOK'
    BY <1>1 DEF ScanInv, TimesOK, Times, Scanning
  <1>5. ScanIsTrue'
    BY <1>1 DEF ScanIsTrue
  <1>. QED
    BY <1>3, <1>4, <1>5

(* A scan under way has the types of its fields. *)
LEMMA ActiveFacts ==
    ASSUME ScanInv, Scanning
    PROVE  /\ scan \in ActiveScan /\ scan.directory \in [root : Times, git : Times]
           /\ fingerprints \in [Name -> Cached \cup {Gone}]
           /\ \A n \in Name : fingerprints[n] # Gone => fingerprints[n].signature[4] \in Times
           /\ during \in [Name -> SUBSET (Target \cup {Gone})]
           /\ disk \in [Name -> EntryFile \cup {Gone}]
  <1>1. scan \in ActiveScan
    BY DEF ScanInv, TypesOK, Scanning
  <1>2. scan.directory \in [root : Times, git : Times]
    <2>1. scan.directory \in [root : Nat, git : Nat]
      BY <1>1 DEF ActiveScan
    <2>2. scan.directory.root \in Times /\ scan.directory.git \in Times
      BY DEF ScanInv, TimesOK
    <2>. QED
      BY ONLY <2>1, <2>2
  <1>. QED
    BY <1>1, <1>2 DEF ScanInv, TypesOK, TimesOK

(* A scan that an entry leaves is one of its new fields. *)
LEMMA ScanOfFields ==
    ASSUME NEW s \in ActiveScan, NEW pc \in ScanPoints, NEW todo, todo \in SUBSET Name,
           NEW files, files \in [Name -> Target \cup {Gone, NoTarget}],
           NEW unread, unread \in BOOLEAN, NEW cached, cached \in SUBSET Name
    PROVE  [s EXCEPT !.pc = pc, !.todo = todo, !.files = files, !.unreadable = unread,
                     !.cached = cached] \in ActiveScan
  <1> HIDE DEF ScanPoints, Name
  <1> DEFINE Files == [Name -> Target \cup {Gone, NoTarget}]
             Directories == [root : Nat, git : Nat]
             Entries == Name \cup {Gone, "git", "prune"}
             Signed == Signatures \cup {Gone}
             Parts == Target \cup {Gone, Torn}
             Scans == [pc : ScanPoints, todo : SUBSET Name, files : Files, unreadable : BOOLEAN,
                       cached : SUBSET Name, directory : Directories, entry : Entries,
                       signature : Signed, part : Parts]
  <1>1. ActiveScan = Scans
    BY DEF ActiveScan
  <1>2. files \in Files
    OBVIOUS
  <1> HIDE DEF Files, Directories, Entries, Signed, Parts
  <1>3. s \in Scans
    BY ONLY <1>1, s \in ActiveScan
  <1>4. [s EXCEPT !.pc = pc, !.todo = todo, !.files = files, !.unreadable = unread,
                  !.cached = cached] \in Scans
    BY ONLY <1>2, <1>3, pc \in ScanPoints, todo \in SUBSET Name, unread \in BOOLEAN,
            cached \in SUBSET Name
  <1>. QED
    BY ONLY <1>1, <1>4

(* An entry is done with: its value is one that it had, or unreadable. *)
LEMMA EnterFacts ==
    ASSUME ScanInv, Scanning, NEW n \in Name, NEW value \in Target \cup {NoTarget},
           NEW unreadable \in BOOLEAN, NEW cachedRegular \in BOOLEAN,
           Enter(n, value, unreadable, cachedRegular)
    PROVE  /\ scan' \in ActiveScan
           /\ scan'.pc = IF n \in Control THEN "controls" ELSE "entries"
           /\ scan'.todo = scan.todo \ {n}
           /\ scan'.files[n] = value /\ \A m \in Name \ {n} : scan'.files[m] = scan.files[m]
           /\ scan'.directory = scan.directory
  <1> DEFINE pc == IF n \in Control THEN "controls" ELSE "entries"
             todo == scan.todo \ {n}
             files == [scan.files EXCEPT ![n] = value]
             unread == scan.unreadable \/ (unreadable /\ n \in Listed)
             cached == IF cachedRegular /\ n \in Listed THEN scan.cached \cup {n} ELSE scan.cached
  <1>1. scan \in ActiveScan
    BY ActiveFacts
  <1>2. scan' = [scan EXCEPT !.pc = pc, !.todo = todo, !.files = files, !.unreadable = unread,
                             !.cached = cached]
    BY <1>1 DEF Enter, ActiveScan
  <1>3. pc \in ScanPoints
    OBVIOUS
  <1>4. todo \in SUBSET Name /\ unread \in BOOLEAN
    BY <1>1 DEF ActiveScan
  <1>5. /\ files \in [Name -> Target \cup {Gone, NoTarget}]
        /\ files[n] = value /\ \A m \in Name \ {n} : files[m] = scan.files[m]
    BY <1>1 DEF ActiveScan
  <1>6. cached \in SUBSET Name
    BY <1>1 DEF ActiveScan
  <1>7. /\ scan'.pc = pc /\ scan'.todo = todo /\ scan'.files = files
        /\ scan'.directory = scan.directory
    BY <1>1, <1>2 DEF ActiveScan
  <1>. HIDE DEF pc, todo, files, unread, cached
  <1>8. scan' \in ActiveScan
    <2>1. files \in [Name -> Target \cup {Gone, NoTarget}]
      BY <1>5
    <2>. QED
      BY ONLY <1>1, <1>2, <1>3, <1>4, <1>6, <2>1, ScanOfFields
  <1>. QED
    BY <1>5, <1>7, <1>8 DEF pc, todo

(* What is left of the scan once an entry is done with. *)
LEMMA EnterKeeps ==
    ASSUME ScanInv, Still, UNCHANGED during, opened' = NoFile,
           NEW n \in Name, NEW value \in Target \cup {NoTarget},
           NEW unreadable \in BOOLEAN, NEW cachedRegular \in BOOLEAN,
           Enter(n, value, unreadable, cachedRegular),
           n \in scan.todo, n \in Listed => InEntries, n \in Control => InControls,
           scan.pc \in ExaminePoints => scan.entry = n,
           n \in Control => Exists(n) \/ scan.pc \in ExaminePoints,
           value # NoTarget => value \in during[n],
           fingerprints' \in [Name -> Cached \cup {Gone}],
           \A m \in Name : fingerprints'[m] # Gone => fingerprints'[m].signature[4] \in Times,
           CacheOK'
    PROVE  ScanInv'
  <1>1. Scanning /\ (scan.pc \in {"entries", "controls"} \/ scan.pc \in ExaminePoints)
    BY DEF InEntries, InControls, Scanning
  <1>2. /\ scan' \in ActiveScan
        /\ scan'.pc = IF n \in Control THEN "controls" ELSE "entries"
        /\ scan'.todo = scan.todo \ {n}
        /\ scan'.files[n] = value /\ \A m \in Name \ {n} : scan'.files[m] = scan.files[m]
        /\ scan'.directory = scan.directory
    BY <1>1, EnterFacts
  <1>3. /\ scan.directory \in [root : Times, git : Times]
        /\ during \in [Name -> SUBSET (Target \cup {Gone})]
    BY <1>1, ActiveFacts
  <1>4. TypesOK' /\ TimesOK' /\ ScanIsTrue'
    BY <1>2, <1>3, StepTypes
  <1>5. OpenedOK' /\ ExamineOK'
    BY <1>2 DEF OpenedOK, ExamineOK, NoFile
  <1>6. PhaseOK'
    BY <1>1, <1>2 DEF ScanInv, PhaseOK, InEntries, InControls
  <1>7. (n \in Control => InControls /\ ~InEntries) /\ (n \in Listed => InEntries /\ ~InControls)
    BY DEF InEntries, InControls
  <1>8. ListedOK'
    <2> SUFFICES ASSUME NEW m \in Listed
                 PROVE  /\ Now(m) \in during[m]
                        /\ scan'.files[m] \notin {Gone, NoTarget} => scan'.files[m] \in during[m]
                        /\ scan'.files[m] = Gone => Gone \in during[m] \/ (InEntries' /\ m \in scan'.todo)
                        /\ Gone \in during[m] =>
                              \/ scan'.files[m] = Gone /\ (InEntries' => m \notin scan'.todo)
                              \/ changed.root > scan.directory.root
      BY <1>2 DEF ListedOK, Still, Now
    <2>1. InEntries' <=> n \in Listed
      BY <1>2 DEF InEntries
    <2>2. /\ Now(m) \in during[m]
          /\ scan.files[m] \notin {Gone, NoTarget} => scan.files[m] \in during[m]
          /\ scan.files[m] = Gone => Gone \in during[m] \/ (InEntries /\ m \in scan.todo)
          /\ Gone \in during[m] =>
                \/ scan.files[m] = Gone /\ (InEntries => m \notin scan.todo)
                \/ changed.root > scan.directory.root
      BY <1>1 DEF ScanInv, ListedOK
    <2>3. CASE m = n
      BY <1>2, <1>7, <2>1, <2>2, <2>3
    <2>4. CASE m # n
      BY <1>2, <1>7, <2>1, <2>2, <2>4
    <2>. QED
      BY <2>3, <2>4
  <1>9. ControlOK'
    <2> SUFFICES ASSUME NEW m \in Control
                 PROVE  /\ BeforeControls' => scan'.files[m] = Gone
                        /\ InControls' =>
                              /\ Now(m) \in during[m]
                              /\ Gone \in during[m] =>
                                    \/ changed.git > scan.directory.git
                                    \/ /\ scan'.files[m] = Gone
                                       /\ m \notin scan'.todo \/ ~Exists(m)
                        /\ scan'.files[m] \notin {Gone, NoTarget} => scan'.files[m] \in during[m]
                        /\ InControls' /\ scan'.files[m] = Gone => Gone \in during[m] \/ m \in scan'.todo
      BY <1>2 DEF ControlOK, Still, Now, AfterControls
    <2>1. /\ InControls' <=> n \in Control
          /\ BeforeControls' <=> n \in Listed
      BY <1>2 DEF InControls, BeforeControls, InEntries
    <2>2. /\ BeforeControls => scan.files[m] = Gone
          /\ InControls =>
                /\ Now(m) \in during[m]
                /\ Gone \in during[m] =>
                      \/ changed.git > scan.directory.git
                      \/ /\ scan.files[m] = Gone
                         /\ \/ m \notin scan.todo
                            \/ ~Exists(m) /\ ~(scan.pc \in ExaminePoints /\ scan.entry = m)
          /\ scan.files[m] \notin {Gone, NoTarget} => scan.files[m] \in during[m]
          /\ InControls /\ scan.files[m] = Gone => Gone \in during[m] \/ m \in scan.todo
      BY <1>1 DEF ScanInv, ControlOK
    <2>3. CASE m = n
      BY <1>2, <1>7, <2>1, <2>2, <2>3
    <2>4. CASE m # n
      BY <1>2, <1>7, <2>1, <2>2, <2>4 DEF BeforeControls
    <2>. QED
      BY <2>3, <2>4
  <1>. QED
    BY <1>4, <1>5, <1>6, <1>8, <1>9 DEF ScanInv

(* A value that was found for the signature is put into the cache. *)
LEMMA StoreKeeps ==
    ASSUME ScanInv, Still, UNCHANGED during, opened' = NoFile, scan.pc \in ExaminePoints,
           NEW value \in Target \cup {NoTarget}, NEW unreadable \in BOOLEAN,
           Store(scan.entry, scan.signature, value, unreadable),
           value # NoTarget =>
              /\ value \in during[scan.entry]
              /\ Exists(scan.entry) /\ scan.signature = Signature(disk[scan.entry]) =>
                    value = disk[scan.entry].target
    PROVE  ScanInv'
  <1>0. PICK n \in Name : n = scan.entry
    BY ScanningEntry
  <1> DEFINE kept == [signature |-> scan.signature, value |-> value]
  <1>1. /\ n \in Name /\ n \in scan.todo /\ Scanning /\ scan \in ActiveScan
        /\ scan.signature \in Signatures /\ scan.signature[4] \in Times
    BY <1>0, ScanningEntry
  <1>2. /\ fingerprints \in [Name -> Cached \cup {Gone}]
        /\ \A m \in Name : fingerprints[m] # Gone => fingerprints[m].signature[4] \in Times
    BY <1>1, ActiveFacts
  <1>3. kept \in Cached /\ kept.signature = scan.signature /\ kept.value = value
    BY <1>1 DEF Cached
  <1>4. fingerprints' = [fingerprints EXCEPT ![n] = kept] /\ Enter(n, value, unreadable, FALSE)
    BY <1>0 DEF Store
  <1>. HIDE DEF kept
  <1>5. /\ fingerprints' \in [Name -> Cached \cup {Gone}]
        /\ fingerprints'[n] = kept /\ \A m \in Name \ {n} : fingerprints'[m] = fingerprints[m]
    BY <1>1, <1>2, <1>3, <1>4
  <1>6. \A m \in Name : fingerprints'[m] # Gone => fingerprints'[m].signature[4] \in Times
    BY <1>1, <1>2, <1>3, <1>5
  <1>7. CacheOK'
    <2> SUFFICES ASSUME NEW m \in Name, Exists(m)', Hit(m, Signature(disk[m]))'
                 PROVE  fingerprints'[m].value \in {disk'[m].target, NoTarget}
      BY DEF CacheOK
    <2>1. disk' = disk
      BY DEF Still
    <2>2. CASE m = n
      BY <1>0, <1>3, <1>5, <2>1, <2>2 DEF Hit
    <2>3. CASE m # n
      BY <1>5, <2>1, <2>3 DEF Hit, ScanInv, CacheOK
    <2>. QED
      BY <2>2, <2>3
  <1>8. (n \in Listed => InEntries) /\ (n \in Control => InControls)
    BY <1>0, <1>1 DEF InEntries, InControls
  <1>9. /\ scan.pc \in ExaminePoints => scan.entry = n
        /\ n \in Control => Exists(n) \/ scan.pc \in ExaminePoints
        /\ value # NoTarget => value \in during[n]
    BY <1>0
  <1>10. FALSE \in BOOLEAN
    OBVIOUS
  <1>. QED
    <2>1. /\ Enter(n, value, unreadable, FALSE) /\ n \in scan.todo
          /\ n \in Listed => InEntries
          /\ n \in Control => InControls
      BY <1>1, <1>4, <1>8
    <2>2. /\ fingerprints' \in [Name -> Cached \cup {Gone}]
          /\ CacheOK'
      BY <1>5, <1>7
    <2>. HIDE DEF Exists, Name
    <2>. QED
      BY <1>6, <1>9, <1>10, <2>1, <2>2, EnterKeeps

LEMMA ReadLinkKeeps == ASSUME ScanInv, ReadLink PROVE ScanInv'
  <1> DEFINE n == scan.entry
             value == IF IsLink(n) THEN disk[n].target ELSE NoTarget
  <1>1. /\ scan.pc \in ExaminePoints \ OpenedPoints /\ Still /\ UNCHANGED <<during, opened>>
        /\ Store(n, scan.signature, value, ~IsLink(n))
    BY DEF ReadLink, Still
  <1>2. n \in Name /\ Now(n) \in during[n]
    BY <1>1, ScanningEntry
  <1>3. opened' = NoFile
    BY <1>1 DEF ScanInv, OpenedOK
  <1>4. disk[n] \in EntryFile \cup {Gone}
    BY <1>2 DEF ScanInv, TypesOK
  <1>5. value \in Target \cup {NoTarget} /\ (value # NoTarget => value = disk[n].target /\ Exists(n))
    BY <1>4 DEF EntryFile
  <1>6. value # NoTarget => value \in during[n]
    BY <1>2, <1>5 DEF Now
  <1>. HIDE DEF value
  <1>. QED
    BY <1>1, <1>3, <1>5, <1>6, StoreKeeps

LEMMA AbortKeeps ==
    ASSUME ScanInv, Still, UNCHANGED <<fingerprints, during>>, AbortScan
    PROVE  ScanInv'
  <1>1. scan'.pc = "aborted" /\ opened' = NoFile
    BY DEF AbortScan
  <1>2. TypesOK'
    BY <1>1 DEF ScanInv, TypesOK, Still, NoFile
  <1>3. TimesOK' /\ CacheOK'
    BY <1>1 DEF ScanInv, TimesOK, CacheOK, Still, Scanning, Hit, Times
  <1>. QED
    BY <1>1, <1>2, <1>3
       DEF ScanInv, OpenedOK, ExamineOK, PhaseOK, ListedOK, ControlOK, ScanIsTrue, Scanning,
           InEntries, InControls

LEMMA StatEntryKeeps == ASSUME ScanInv, NEW n \in Name, StatEntry(n) PROVE ScanInv'
  <1>1. /\ scan.pc \in {"entries", "controls"} /\ n \in scan.todo /\ Still
        /\ UNCHANGED <<fingerprints, opened, during>>
    BY DEF StatEntry, Still
  <1>2. Scanning
    BY <1>1 DEF Scanning
  <1>3. /\ n \in Listed => InEntries /\ scan.pc = "entries"
        /\ n \in Control => InControls /\ scan.pc = "controls"
    BY <1>1 DEF ScanInv, PhaseOK, InEntries, InControls
  <1>4. opened = NoFile
    BY <1>1 DEF ScanInv, OpenedOK
  <1>5. /\ scan \in ActiveScan /\ scan.directory \in [root : Times, git : Times]
        /\ fingerprints \in [Name -> Cached \cup {Gone}]
        /\ \A m \in Name : fingerprints[m] # Gone => fingerprints[m].signature[4] \in Times
        /\ during \in [Name -> SUBSET (Target \cup {Gone})]
        /\ disk \in [Name -> EntryFile \cup {Gone}]
    BY <1>2, ActiveFacts
  <1>6. CacheOK'
    BY <1>1 DEF ScanInv, CacheOK, Still, Hit
  <1>7. Now(n) \in during[n]
    BY <1>2, <1>3 DEF ScanInv, ListedOK, ControlOK
  <1>8. CASE n \in Listed /\ ~Exists(n) /\ Enter(n, NoTarget, TRUE, FALSE)
    BY <1>1, <1>3, <1>4, <1>5, <1>6, <1>8, EnterKeeps
  <1>9. CASE Exists(n) /\ Hit(n, Signature(disk[n])) /\ Enter(n, fingerprints[n].value, FALSE, IsFile(n))
    <2>1. fingerprints[n] \in Cached
      BY <1>5, <1>9 DEF Hit
    <2>2. fingerprints[n].value \in Target \cup {NoTarget}
      BY <2>1 DEF Cached
    <2>3. fingerprints[n].value # NoTarget => fingerprints[n].value \in during[n]
      BY <1>7, <1>9 DEF ScanInv, CacheOK, Now
    <2>4. IsFile(n) \in BOOLEAN
      BY <1>5, <1>9 DEF EntryFile
    <2>. QED
      BY <1>1, <1>3, <1>4, <1>5, <1>6, <1>9, <2>2, <2>3, <2>4, EnterKeeps
  <1>10. CASE n \in Control /\ ~Exists(n) /\ scan' = [scan EXCEPT !.todo = @ \ {n}]
    <2>1. /\ scan' \in ActiveScan /\ scan'.pc = "controls" /\ scan'.todo = scan.todo \ {n}
          /\ scan'.files = scan.files /\ scan'.directory = scan.directory
      BY <1>3, <1>5, <1>10 DEF ActiveScan
    <2>2. TypesOK' /\ TimesOK' /\ ScanIsTrue'
      BY <1>1, <1>5, <2>1, StepTypes
    <2>3. OpenedOK' /\ ExamineOK' /\ PhaseOK'
      BY <1>1, <1>3, <1>4, <1>10, <2>1
         DEF ScanInv, OpenedOK, ExamineOK, PhaseOK, NoFile, InEntries, InControls
    <2>4. ListedOK'
      BY <1>1, <1>2, <1>3, <1>10, <2>1 DEF ScanInv, ListedOK, Still, Now, Scanning, InEntries
    <2>5. ControlOK'
      <3> SUFFICES ASSUME NEW m \in Control
                   PROVE  /\ Now(m) \in during[m]
                          /\ Gone \in during[m] =>
                                \/ changed.git > scan.directory.git
                                \/ scan.files[m] = Gone /\ (m \notin scan.todo \ {n} \/ ~Exists(m))
                          /\ scan.files[m] \notin {Gone, NoTarget} => scan.files[m] \in during[m]
                          /\ scan.files[m] = Gone => Gone \in during[m] \/ m \in scan.todo \ {n}
        BY <1>1, <2>1
           DEF ControlOK, Still, Now, AfterControls, BeforeControls, InControls, InEntries
      <3>1. /\ Now(m) \in during[m]
            /\ Gone \in during[m] =>
                  \/ changed.git > scan.directory.git
                  \/ scan.files[m] = Gone /\ (m \notin scan.todo \/ ~Exists(m))
            /\ scan.files[m] \notin {Gone, NoTarget} => scan.files[m] \in during[m]
            /\ scan.files[m] = Gone => Gone \in during[m] \/ m \in scan.todo
        BY <1>2, <1>3, <1>10 DEF ScanInv, ControlOK
      <3>2. m = n => Gone \in during[m]
        BY <1>7, <1>10 DEF Now
      <3>. QED
        BY <3>1, <3>2
    <2>. QED
      BY <1>6, <2>2, <2>3, <2>4, <2>5 DEF ScanInv
  <1>11. ASSUME Exists(n), NEW pc \in {"readlink", "open"}, Examine(n, pc, Signature(disk[n]))
         PROVE  ScanInv'
    <2> DEFINE signature == Signature(disk[n])
    <2>1. disk[n] \in EntryFile /\ disk[n].time \in Times
      BY <1>5, <1>11 DEF ScanInv, TimesOK
    <2>2. signature \in Signatures /\ signature[4] \in Times
      BY <2>1 DEF EntryFile, Signature, Signatures
    <2>3. scan' = [scan EXCEPT !.pc = pc, !.entry = n, !.signature = signature]
      BY <1>11 DEF Examine
    <2>. HIDE DEF signature
    <2>4. pc \in ScanPoints /\ pc \in ExaminePoints /\ pc \notin OpenedPoints
      OBVIOUS
    <2>5. /\ scan'.pc = pc /\ scan'.todo = scan.todo
          /\ scan'.files = scan.files /\ scan'.directory = scan.directory
          /\ scan'.entry = n /\ scan'.signature = signature
      BY <1>5, <2>3 DEF ActiveScan
    <2>6. scan' \in ActiveScan
      BY <1>5, <2>2, <2>3, <2>4 DEF ActiveScan
    <2>7. TypesOK' /\ TimesOK' /\ ScanIsTrue'
      BY <1>1, <1>5, <2>5, <2>6, StepTypes
    <2>8. OpenedOK' /\ ExamineOK'
      BY <1>1, <1>4, <2>2, <2>4, <2>5 DEF OpenedOK, ExamineOK, NoFile, Still, Times
    <2>9. (InEntries' <=> InEntries) /\ (InControls' <=> InControls) /\ (InEntries <=> n \in Listed)
          /\ (InControls <=> n \in Control)
      BY <1>1, <1>3, <2>4, <2>5 DEF InEntries, InControls
    <2>10. PhaseOK'
      BY <2>4, <2>5, <2>9 DEF ScanInv, PhaseOK
    <2>11. ListedOK'
      BY <1>1, <1>2, <2>4, <2>5, <2>9 DEF ScanInv, ListedOK, Still, Now
    <2>12. ControlOK'
      <3> SUFFICES ASSUME NEW m \in Control
                   PROVE  /\ InEntries => scan.files[m] = Gone
                          /\ InControls =>
                                /\ Now(m) \in during[m]
                                /\ Gone \in during[m] =>
                                      \/ changed.git > scan.directory.git
                                      \/ /\ scan.files[m] = Gone
                                         /\ m \notin scan.todo \/ (~Exists(m) /\ n # m)
                          /\ scan.files[m] \notin {Gone, NoTarget} => scan.files[m] \in during[m]
                          /\ InControls /\ scan.files[m] = Gone => Gone \in during[m] \/ m \in scan.todo
        BY <1>1, <2>4, <2>5, <2>9 DEF ControlOK, Still, Now, AfterControls, BeforeControls
      <3>. QED
        BY <1>1, <1>2, <1>11 DEF ScanInv, ControlOK, BeforeControls
    <2>. QED
      BY <1>6, <2>7, <2>8, <2>10, <2>11, <2>12 DEF ScanInv
  <1>. QED
    BY <1>8, <1>9, <1>10, <1>11 DEF StatEntry

(* The same entry, examined further. *)
LEMMA MoveKeeps ==
    ASSUME ScanInv, Still, UNCHANGED <<fingerprints, during>>, scan.pc \in ExaminePoints,
           scan' \in ActiveScan, scan'.pc \in ExaminePoints, scan'.entry = scan.entry,
           scan'.todo = scan.todo, scan'.files = scan.files, scan'.directory = scan.directory,
           opened' = opened \/
               \E n \in Name : opened' = [name |-> n, file |-> disk[n], linked |-> TRUE],
           OpenedOK', ExamineOK'
    PROVE  ScanInv'
  <1>1. Scanning
    BY ScanningEntry
  <1>2. TypesOK' /\ TimesOK' /\ ScanIsTrue'
    <2>1. /\ scan.directory \in [root : Times, git : Times]
          /\ fingerprints \in [Name -> Cached \cup {Gone}]
          /\ \A n \in Name : fingerprints[n] # Gone => fingerprints[n].signature[4] \in Times
          /\ during \in [Name -> SUBSET (Target \cup {Gone})]
      BY <1>1, ActiveFacts
    <2>. QED
      BY <2>1, StepTypes
  <1>3. CacheOK'
    BY DEF ScanInv, CacheOK, Still, Hit
  <1>4. (InEntries' <=> InEntries) /\ (InControls' <=> InControls)
    BY DEF InEntries, InControls
  <1>5. PhaseOK'
    BY <1>4 DEF ScanInv, PhaseOK
  <1>6. ListedOK'
    BY <1>1, <1>4 DEF ScanInv, ListedOK, Still, Now
  <1>7. ControlOK'
    BY <1>1, <1>4 DEF ScanInv, ControlOK, Still, Now, BeforeControls, AfterControls
  <1>. QED
    BY <1>2, <1>3, <1>5, <1>6, <1>7 DEF ScanInv

(* What is known of the entry whose file is open. *)
LEMMA OpenedFacts ==
    ASSUME ScanInv, scan.pc \in OpenedPoints
    PROVE  /\ opened.name = scan.entry /\ opened.file \in EntryFile
           /\ Signature(opened.file) \in Signatures /\ Signature(opened.file)[4] \in Times
           /\ opened.file.target \in during[scan.entry] /\ opened.file.target \in Target
           /\ Exists(scan.entry) /\ disk[scan.entry].node = opened.file.node =>
                 opened.linked /\ disk[scan.entry] = opened.file
           /\ Hit(scan.entry, Signature(opened.file)) =>
                 fingerprints[scan.entry].value \in {opened.file.target, NoTarget}
  <1>1. scan.entry \in Name
    BY ScanningEntry
  <1>2. /\ opened.name = scan.entry /\ opened.file \in EntryFile /\ opened.file.time \in Times
        /\ opened.file.target \in during[scan.entry]
        /\ opened.linked => disk[scan.entry] = opened.file
        /\ ~opened.linked => /\ Exists(scan.entry) => disk[scan.entry].node # opened.file.node
                             /\ ~Hit(scan.entry, Signature(opened.file))
    BY DEF ScanInv, OpenedOK
  <1>3. /\ Signature(opened.file) \in Signatures /\ Signature(opened.file)[4] \in Times
        /\ opened.file.target \in Target
    BY <1>2 DEF EntryFile, Signature, Signatures
  <1>4. ASSUME Hit(scan.entry, Signature(opened.file))
        PROVE  fingerprints[scan.entry].value \in {opened.file.target, NoTarget}
    <2>1. disk[scan.entry] = opened.file /\ Exists(scan.entry)
      BY <1>2, <1>4
    <2>. QED
      BY <1>1, <1>4, <2>1 DEF ScanInv, CacheOK
  <1>. QED
    BY <1>2, <1>3, <1>4

LEMMA OpenEntryKeeps == ASSUME ScanInv, NEW fails \in BOOLEAN, OpenEntry(fails) PROVE ScanInv'
  <1>1. PICK n \in Name : n = scan.entry
    BY ScanningEntry DEF OpenEntry
  <1>2. /\ ScanAt("open") /\ Still /\ UNCHANGED during
        /\ \/ AbortScan /\ UNCHANGED fingerprints
           \/ Store(n, scan.signature, NoTarget, TRUE) /\ UNCHANGED opened
           \/ /\ CanOpen(n) /\ opened' = [name |-> n, file |-> disk[n], linked |-> TRUE]
              /\ scan' = [scan EXCEPT !.pc = "fstat"] /\ UNCHANGED fingerprints
    BY <1>1 DEF OpenEntry, Still
  <1>3. CASE AbortScan /\ UNCHANGED fingerprints
    BY <1>2, <1>3, AbortKeeps
  <1>4. CASE Store(n, scan.signature, NoTarget, TRUE) /\ UNCHANGED opened
    <2>1. opened' = NoFile
      BY <1>2, <1>4 DEF ScanInv, OpenedOK
    <2>. QED
      BY <1>1, <1>2, <1>4, <2>1, StoreKeeps
  <1>5. CASE /\ CanOpen(n) /\ opened' = [name |-> n, file |-> disk[n], linked |-> TRUE]
             /\ scan' = [scan EXCEPT !.pc = "fstat"] /\ UNCHANGED fingerprints
    <2>1. /\ scan \in ActiveScan /\ scan.signature \in Signatures /\ scan.signature[4] \in Times
          /\ scan.entry \in scan.todo /\ Now(n) \in during[n]
      BY <1>1, <1>2, ScanningEntry
    <2>2. /\ scan' \in ActiveScan /\ scan'.pc = "fstat" /\ scan'.entry = scan.entry
          /\ scan'.todo = scan.todo /\ scan'.files = scan.files /\ scan'.directory = scan.directory
          /\ scan'.signature = scan.signature
      BY <1>5, <2>1 DEF ActiveScan
    <2>3. opened'.name = n /\ opened'.file = disk[n] /\ opened'.linked
      BY <1>5
    <2>4. /\ disk[n] \in EntryFile /\ disk[n].kind = "file" /\ disk[n].target \in during[n]
          /\ disk[n].node \in Times /\ disk[n].time \in Times
      BY <1>5, <2>1 DEF CanOpen, Now, ScanInv, TypesOK, TimesOK
    <2>5. OpenedOK'
      BY <1>1, <1>2, <2>2, <2>3, <2>4 DEF OpenedOK, Still, Times
    <2>6. ExamineOK'
      BY <1>2, <2>1, <2>2 DEF ExamineOK, Still, Times
    <2>. QED
      BY <1>2, <1>5, <2>2, <2>5, <2>6, MoveKeeps
  <1>. QED
    BY <1>2, <1>3, <1>4, <1>5

LEMMA StatOpenedKeeps == ASSUME ScanInv, StatOpened PROVE ScanInv'
  <1>1. PICK n \in Name : n = scan.entry
    BY ScanningEntry DEF StatOpened
  <1>2. scan.pc = "fstat" /\ Still /\ UNCHANGED <<fingerprints, during>>
    BY DEF StatOpened, Still
  <1>3. /\ opened.name = n /\ opened.file \in EntryFile
        /\ Signature(opened.file) \in Signatures /\ Signature(opened.file)[4] \in Times
        /\ opened.file.target \in during[n] /\ opened.file.target \in Target
        /\ Hit(n, Signature(opened.file)) => fingerprints[n].value \in {opened.file.target, NoTarget}
    BY <1>1, <1>2, OpenedFacts
  <1>4. /\ scan \in ActiveScan /\ n \in scan.todo /\ Scanning
    BY <1>1, <1>2, ScanningEntry
  <1>5. CASE Enter(n, fingerprints[n].value, FALSE, FALSE) /\ opened' = NoFile
              /\ Hit(n, Signature(opened.file))
    <2>1. /\ fingerprints[n].value \in Target \cup {NoTarget}
          /\ fingerprints[n].value # NoTarget => fingerprints[n].value \in during[n]
      BY <1>3, <1>5
    <2>2. /\ fingerprints \in [Name -> Cached \cup {Gone}]
          /\ \A m \in Name : fingerprints[m] # Gone => fingerprints[m].signature[4] \in Times
      BY <1>4, ActiveFacts
    <2>3. CacheOK'
      BY <1>2 DEF ScanInv, CacheOK, Still, Hit
    <2>4. (n \in Listed => InEntries) /\ (n \in Control => InControls) /\ scan.pc \in ExaminePoints
      BY <1>1, <1>2 DEF InEntries, InControls
    <2>5. fingerprints' = fingerprints /\ during' = during
      BY <1>2
    <2>. HIDE DEF Exists, Name
    <2>. QED
      BY <1>1, <1>2, <1>4, <1>5, <2>1, <2>2, <2>3, <2>4, <2>5, EnterKeeps
  <1>6. CASE Examine(n, "read", Signature(opened.file)) /\ UNCHANGED opened
    <2> DEFINE signature == Signature(opened.file)
    <2>1. scan' = [scan EXCEPT !.pc = "read", !.entry = n, !.signature = signature]
      BY <1>6 DEF Examine
    <2>2. signature \in Signatures /\ signature[4] \in Times
      BY <1>3
    <2>. HIDE DEF signature
    <2>3. /\ scan'.pc = "read" /\ scan'.entry = scan.entry
          /\ scan'.todo = scan.todo /\ scan'.files = scan.files /\ scan'.directory = scan.directory
          /\ scan'.signature = signature
      BY <1>1, <1>4, <2>1 DEF ActiveScan
    <2>4. scan' \in ActiveScan
      BY <1>4, <2>1, <2>2 DEF ActiveScan
    <2>5. OpenedOK'
      BY <1>2, <1>6, <2>3 DEF ScanInv, OpenedOK, Still, Times, Hit, Signature
    <2>6. ExamineOK'
      BY <1>1, <1>2, <1>4, <2>2, <2>3 DEF ExamineOK, Still, Times
    <2>. QED
      BY <1>2, <1>6, <2>3, <2>4, <2>5, <2>6, MoveKeeps
  <1>. QED
    BY <1>1, <1>5, <1>6 DEF StatOpened

LEMMA ReadsKeep == ASSUME ScanInv, ReadPart \/ Hash PROVE ScanInv'
  <1> DEFINE part == IF ScanAt("read") THEN opened.file.target
                     ELSE IF opened.file.target = scan.part THEN scan.part ELSE Torn
             pc == IF ScanAt("read") THEN "hash" ELSE "hashed"
  <1>1. /\ scan.pc \in {"read", "hash"} /\ Still /\ UNCHANGED <<fingerprints, during, opened>>
        /\ scan' = [scan EXCEPT !.pc = pc, !.part = part]
    BY DEF ReadPart, Hash, Still
  <1>2. /\ scan \in ActiveScan /\ scan.signature \in Signatures /\ scan.signature[4] \in Times
        /\ scan.entry \in scan.todo /\ opened.file.target \in Target
    BY <1>1, ScanningEntry, OpenedFacts
  <1>3. part \in Target \cup {Gone, Torn} /\ pc \in ScanPoints /\ pc \in {"hash", "hashed"}
    BY <1>1, <1>2 DEF ActiveScan
  <1>4. Signature(opened.file) = scan.signature => part = opened.file.target
    BY <1>1 DEF ScanInv, ExamineOK
  <1>. HIDE DEF part, pc
  <1>5. /\ scan'.pc = pc /\ scan'.entry = scan.entry
        /\ scan'.todo = scan.todo /\ scan'.files = scan.files /\ scan'.directory = scan.directory
        /\ scan'.signature = scan.signature /\ scan'.part = part
    BY <1>1, <1>2 DEF ActiveScan
  <1>6. scan' \in ActiveScan
    BY <1>1, <1>2, <1>3 DEF ActiveScan
  <1>7. OpenedOK'
    BY <1>1, <1>3, <1>5 DEF ScanInv, OpenedOK, Still, Times, Hit, Signature
  <1>8. ExamineOK'
    BY <1>1, <1>2, <1>3, <1>4, <1>5 DEF ExamineOK, Still, Times, Signature
  <1>. QED
    BY <1>1, <1>3, <1>5, <1>6, <1>7, <1>8, MoveKeeps

LEMMA StoreFileKeeps == ASSUME ScanInv, StoreFile \/ HashFails PROVE ScanInv'
  <1>1. /\ scan.pc \in {"read", "hashed"} /\ opened' = NoFile /\ Still /\ UNCHANGED during
    BY DEF StoreFile, HashFails, Still
  <1>2. CASE Store(scan.entry, scan.signature, NoTarget, TRUE)
    BY <1>1, <1>2, StoreKeeps
  <1>3. CASE AbortScan /\ UNCHANGED fingerprints
    BY <1>1, <1>3, AbortKeeps
  <1>4. CASE /\ ScanAt("hashed") /\ Signature(opened.file) = scan.signature
             /\ Store(scan.entry, scan.signature, scan.part, FALSE)
    <2>1. scan.part = opened.file.target
      BY <1>4 DEF ScanInv, ExamineOK
    <2>2. /\ opened.file.target \in during[scan.entry] /\ opened.file.target \in Target
          /\ opened.file \in EntryFile
          /\ Exists(scan.entry) /\ disk[scan.entry].node = opened.file.node =>
                disk[scan.entry] = opened.file
      BY <1>1, OpenedFacts
    <2>3. /\ scan.part \in Target \cup {NoTarget} /\ scan.part \in during[scan.entry]
          /\ Exists(scan.entry) /\ scan.signature = Signature(disk[scan.entry]) =>
                scan.part = disk[scan.entry].target
      BY <1>4, <2>1, <2>2 DEF Signature
    <2>. QED
      BY <1>1, <1>4, <2>3, StoreKeeps
  <1>. QED
    BY <1>2, <1>3, <1>4 DEF StoreFile, HashFails, Unchanged

(* A step from one part of the scan to another, with no file open. *)
LEMMA TurnKeeps ==
    ASSUME ScanInv, Still, UNCHANGED <<fingerprints, during, opened>>, Scanning,
           scan.pc \notin ExaminePoints,
           scan' \in ActiveScan, scan'.pc \notin ExaminePoints,
           scan'.files = scan.files, scan'.directory = scan.directory,
           PhaseOK', ListedOK', ControlOK'
    PROVE  ScanInv'
  <1>1. TypesOK' /\ TimesOK' /\ ScanIsTrue'
    <2>1. /\ scan.directory \in [root : Times, git : Times]
          /\ fingerprints \in [Name -> Cached \cup {Gone}]
          /\ \A n \in Name : fingerprints[n] # Gone => fingerprints[n].signature[4] \in Times
          /\ during \in [Name -> SUBSET (Target \cup {Gone})]
      BY ActiveFacts
    <2>. QED
      BY <2>1, StepTypes
  <1>2. CacheOK'
    BY DEF ScanInv, CacheOK, Still, Hit
  <1>3. OpenedOK' /\ ExamineOK'
    BY DEF ScanInv, OpenedOK, ExamineOK, NoFile
  <1>. QED
    BY <1>1, <1>2, <1>3 DEF ScanInv

LEMMA EndDirectoryKeeps ==
    ASSUME ScanInv, NEW pc, NEW next, <<pc, next>> \in {<<"entries", "git">>, <<"root", "prune">>},
           EndDirectory(pc, next)
    PROVE  ScanInv'
  <1>1. /\ scan.pc = pc /\ scan.todo = {} /\ Still /\ UNCHANGED <<fingerprints, during>>
        /\ \/ pc = "entries" /\ next = "git"
           \/ pc = "root" /\ next = "prune"
    BY DEF EndDirectory, Still
  <1>2. Scanning /\ scan.pc \notin ExaminePoints
    BY <1>1 DEF Scanning
  <1>3. /\ scan \in ActiveScan /\ scan.directory \in [root : Times, git : Times]
        /\ changed.root \in Times
    BY <1>2, ActiveFacts DEF ScanInv, TimesOK
  <1>4. \A n \in Listed :
           /\ Now(n) \in during[n]
           /\ scan.files[n] \notin {Gone, NoTarget} => scan.files[n] \in during[n]
           /\ scan.files[n] = Gone => Gone \in during[n]
           /\ Gone \in during[n] => scan.files[n] = Gone \/ changed.root > scan.directory.root
    BY <1>1, <1>2 DEF ScanInv, ListedOK
  <1>5. \A n \in Control :
           /\ pc = "entries" => scan.files[n] = Gone
           /\ scan.files[n] \notin {Gone, NoTarget} => scan.files[n] \in during[n]
           /\ pc = "root" => (scan.files[n] = Gone <=> Gone \in during[n])
    BY <1>1, <1>2 DEF ScanInv, ControlOK, BeforeControls, AfterControls, InEntries
  <1>6. CASE AbortScan
    BY <1>1, <1>6, AbortKeeps
  <1>7. CASE /\ changed.root # scan.directory.root /\ scan.unreadable /\ UNCHANGED opened
             /\ scan' = [scan EXCEPT !.pc = "revalidate", !.todo = scan.cached, !.entry = next]
    <2>1. /\ scan'.pc = "revalidate" /\ scan'.todo = scan.cached /\ scan'.entry = next
          /\ scan'.files = scan.files /\ scan'.directory = scan.directory
          /\ scan'.unreadable /\ scan.cached \in SUBSET Name
      BY <1>3, <1>7 DEF ActiveScan
    <2>2. next \in {"git", "prune"} /\ "revalidate" \in ScanPoints
      BY <1>1
    <2>3. scan' \in ActiveScan
      BY <1>3, <1>7, <2>1, <2>2 DEF ActiveScan
    <2>4. ~InEntries' /\ ~InControls'
      BY <2>1 DEF InEntries, InControls
    <2>5. PhaseOK'
      BY <2>1, <2>2, <2>4 DEF PhaseOK
    <2>6. ListedOK'
      BY <1>1, <1>4, <2>1, <2>4 DEF ListedOK, Still, Now
    <2>7. ControlOK'
      <3>1. (BeforeControls' <=> pc = "entries") /\ (AfterControls' <=> pc = "root")
        BY <1>1, <2>1, <2>4 DEF BeforeControls, AfterControls
      <3>. QED
        BY <1>1, <1>5, <2>1, <2>4, <3>1 DEF ControlOK
    <2>. QED
      BY <1>1, <1>2, <1>7, <2>1, <2>3, <2>5, <2>6, <2>7, TurnKeeps
  <1>8. CASE /\ changed.root = scan.directory.root /\ UNCHANGED opened
             /\ scan' = [scan EXCEPT !.pc = next]
    <2>1. /\ scan'.pc = next /\ scan'.todo = scan.todo /\ scan'.entry = scan.entry
          /\ scan'.files = scan.files /\ scan'.directory = scan.directory
      BY <1>3, <1>8 DEF ActiveScan
    <2>2. next \in {"git", "prune"} /\ next \in ScanPoints
      BY <1>1
    <2>3. scan' \in ActiveScan
      BY <1>3, <1>8, <2>2 DEF ActiveScan
    <2>4. ~InEntries' /\ ~InControls'
      BY <2>1, <2>2 DEF InEntries, InControls
    <2>5. PhaseOK'
      BY <2>1, <2>2, <2>4 DEF PhaseOK
    <2>6. ListedOK'
      <3>1. ~(changed.root > scan.directory.root)
        BY <1>3, <1>8 DEF Times
      <3>. QED
        BY <1>1, <1>4, <2>1, <2>4, <3>1 DEF ListedOK, Still, Now
    <2>7. ControlOK'
      <3>1. (BeforeControls' <=> pc = "entries") /\ (AfterControls' <=> pc = "root")
        BY <1>1, <2>1, <2>4 DEF BeforeControls, AfterControls
      <3>. QED
        BY <1>1, <1>5, <2>1, <2>4, <3>1 DEF ControlOK
    <2>. QED
      BY <1>1, <1>2, <1>8, <2>1, <2>2, <2>3, <2>5, <2>6, <2>7, TurnKeeps
  <1>. QED
    BY <1>1, <1>6, <1>7, <1>8 DEF EndDirectory

LEMMA RevalidationKeeps ==
    ASSUME ScanInv, EndRevalidation \/ \E n \in Name : Revalidate(n)
    PROVE  ScanInv'
  <1>1. scan.pc = "revalidate" /\ Still /\ UNCHANGED <<fingerprints, during>>
    BY DEF EndRevalidation, Revalidate, Still
  <1>2. Scanning /\ scan.pc \notin ExaminePoints
    BY <1>1 DEF Scanning
  <1>3. scan \in ActiveScan /\ scan.entry \in {"git", "prune"} /\ scan.unreadable
    BY <1>1, <1>2, ActiveFacts DEF ScanInv, PhaseOK
  <1>4. ~InEntries /\ ~InControls
    BY <1>1 DEF InEntries, InControls
  <1>5. CASE AbortScan
    BY <1>1, <1>5, AbortKeeps
  <1>6. ASSUME NEW n \in Name, scan' = [scan EXCEPT !.todo = @ \ {n}], UNCHANGED opened
        PROVE  ScanInv'
    <2>1. /\ scan'.pc = "revalidate" /\ scan'.entry = scan.entry /\ scan'.unreadable
          /\ scan'.files = scan.files /\ scan'.directory = scan.directory
      BY <1>1, <1>3, <1>6 DEF ActiveScan
    <2>2. scan' \in ActiveScan
      BY <1>3, <1>6 DEF ActiveScan
    <2>3. ~InEntries' /\ ~InControls'
      BY <2>1 DEF InEntries, InControls
    <2>4. PhaseOK'
      BY <1>3, <2>1, <2>3 DEF PhaseOK
    <2>5. ListedOK'
      BY <1>1, <1>2, <1>4, <2>1, <2>3 DEF ScanInv, ListedOK, Still, Now
    <2>6. ControlOK'
      BY <1>1, <1>2, <1>4, <2>1, <2>3
         DEF ScanInv, ControlOK, Still, Now, BeforeControls, AfterControls
    <2>. QED
      BY <1>1, <1>2, <1>6, <2>1, <2>2, <2>4, <2>5, <2>6, TurnKeeps
  <1>7. CASE scan' = [scan EXCEPT !.pc = scan.entry] /\ UNCHANGED opened
    <2>1. /\ scan'.pc = scan.entry /\ scan'.entry = scan.entry /\ scan'.unreadable
          /\ scan'.files = scan.files /\ scan'.directory = scan.directory
      BY <1>3, <1>7 DEF ActiveScan
    <2>2. scan' \in ActiveScan
      BY <1>3, <1>7 DEF ActiveScan
    <2>3. ~InEntries' /\ ~InControls'
      BY <1>3, <2>1 DEF InEntries, InControls
    <2>4. PhaseOK'
      BY <1>3, <2>1, <2>3 DEF PhaseOK
    <2>5. ListedOK'
      BY <1>1, <1>2, <1>3, <1>4, <2>1, <2>3 DEF ScanInv, ListedOK, Still, Now
    <2>6. ControlOK'
      <3>1. (BeforeControls' <=> BeforeControls) /\ (AfterControls' <=> AfterControls)
        BY <1>1, <1>3, <1>4, <2>1, <2>3 DEF BeforeControls, AfterControls
      <3>. QED
        BY <1>1, <1>2, <1>4, <2>1, <2>3, <3>1 DEF ScanInv, ControlOK, Still, Now
    <2>. QED
      BY <1>1, <1>2, <1>3, <1>7, <2>1, <2>2, <2>4, <2>5, <2>6, TurnKeeps
  <1>. QED
    BY <1>5, <1>6, <1>7 DEF EndRevalidation, Revalidate

LEMMA StartControlsKeeps == ASSUME ScanInv, StartControls PROVE ScanInv'
  <1>1. /\ scan.pc = "git" /\ Still /\ UNCHANGED <<fingerprints, opened>>
        /\ scan' = [scan EXCEPT !.pc = "controls", !.todo = Control, !.directory.git = changed.git]
        /\ during' = [n \in Name |-> IF n \in Control THEN {Now(n)} ELSE during[n]]
    BY DEF StartControls, Still
  <1>2. Scanning /\ ~InEntries /\ ~InControls
    BY <1>1 DEF Scanning, InEntries, InControls
  <1>3. /\ scan \in ActiveScan /\ scan.directory \in [root : Times, git : Times]
        /\ fingerprints \in [Name -> Cached \cup {Gone}]
        /\ \A n \in Name : fingerprints[n] # Gone => fingerprints[n].signature[4] \in Times
        /\ during \in [Name -> SUBSET (Target \cup {Gone})]
        /\ disk \in [Name -> EntryFile \cup {Gone}]
    BY <1>2, ActiveFacts
  <1> DEFINE directory == [scan.directory EXCEPT !.git = changed.git]
  <1>4. /\ directory \in [root : Times, git : Times] /\ directory \in [root : Nat, git : Nat]
        /\ directory.root = scan.directory.root /\ directory.git = changed.git
    <2>1. changed.git \in Times /\ changed.git \in Nat
      BY DEF ScanInv, TimesOK, TypesOK
    <2>2. scan.directory \in [root : Nat, git : Nat]
      BY <1>3 DEF ActiveScan
    <2>. QED
      BY ONLY <1>3, <2>1, <2>2
  <1>5. scan' = [scan EXCEPT !.pc = "controls", !.todo = Control, !.directory = directory]
    BY <1>1, <1>3 DEF ActiveScan
  <1>. HIDE DEF directory
  <1>6. /\ scan'.pc = "controls" /\ scan'.todo = Control /\ scan'.files = scan.files
        /\ scan'.directory = directory
    BY <1>3, <1>5 DEF ActiveScan
  <1>7. scan' \in ActiveScan
    <2>1. Control \in SUBSET Name /\ "controls" \in ScanPoints
      OBVIOUS
    <2>. QED
      BY <1>3, <1>4, <1>5, <2>1 DEF ActiveScan
  <1>8. \A n \in Name : Now(n) \in Target \cup {Gone} /\ (Now(n) = Gone => ~Exists(n))
    BY <1>3 DEF Now, EntryFile
  <1>9. /\ during' \in [Name -> SUBSET (Target \cup {Gone})]
        /\ \A n \in Control : during'[n] = {Now(n)}
        /\ \A n \in Listed : during'[n] = during[n]
    BY <1>1, <1>3, <1>8
  <1>10. TypesOK' /\ TimesOK' /\ ScanIsTrue'
    BY <1>1, <1>3, <1>4, <1>6, <1>7, <1>9, StepTypes
  <1>11. CacheOK' /\ OpenedOK' /\ ExamineOK'
    BY <1>1, <1>6 DEF ScanInv, CacheOK, OpenedOK, ExamineOK, Still, Hit, NoFile
  <1>12. InControls' /\ ~InEntries' /\ ~BeforeControls' /\ ~AfterControls'
    BY <1>6 DEF InControls, InEntries, BeforeControls, AfterControls
  <1>13. PhaseOK'
    BY <1>6, <1>12 DEF PhaseOK
  <1>14. ListedOK'
    BY <1>1, <1>2, <1>4, <1>6, <1>9, <1>12 DEF ScanInv, ListedOK, Still, Now
  <1>15. ControlOK'
    <2>1. \A n \in Control : scan.files[n] = Gone
      BY <1>1, <1>2 DEF ScanInv, ControlOK, BeforeControls
    <2>. QED
      BY <1>1, <1>6, <1>8, <1>9, <1>12, <2>1 DEF ControlOK, Still, Now
  <1>. QED
    BY <1>10, <1>11, <1>13, <1>14, <1>15 DEF ScanInv

LEMMA EndControlsKeeps == ASSUME ScanInv, EndControls PROVE ScanInv'
  <1>1. scan.pc = "controls" /\ scan.todo = {} /\ Still /\ UNCHANGED <<fingerprints, during>>
    BY DEF EndControls, Still
  <1>2. Scanning /\ InControls /\ ~InEntries
    BY <1>1 DEF Scanning, InControls, InEntries
  <1>3. scan \in ActiveScan /\ scan.directory \in [root : Times, git : Times] /\ changed.git \in Times
    BY <1>2, ActiveFacts DEF ScanInv, TimesOK
  <1>4. CASE AbortScan
    BY <1>1, <1>4, AbortKeeps
  <1>5. CASE /\ changed.git = scan.directory.git /\ scan' = [scan EXCEPT !.pc = "root"]
             /\ UNCHANGED opened
    <2>1. /\ scan'.pc = "root" /\ scan'.todo = scan.todo
          /\ scan'.files = scan.files /\ scan'.directory = scan.directory
      BY <1>3, <1>5 DEF ActiveScan
    <2>2. scan' \in ActiveScan
      BY <1>3, <1>5 DEF ActiveScan
    <2>3. ~InControls' /\ ~InEntries' /\ ~BeforeControls'
      BY <2>1 DEF InControls, InEntries, BeforeControls
    <2>4. PhaseOK'
      BY <2>1, <2>3 DEF PhaseOK
    <2>5. ListedOK'
      BY <1>1, <1>2, <2>1, <2>3 DEF ScanInv, ListedOK, Still, Now
    <2>6. ControlOK'
      <3>1. ~(changed.git > scan.directory.git)
        BY <1>3, <1>5 DEF Times
      <3>2. \A n \in Control : /\ scan.files[n] \notin {Gone, NoTarget} => scan.files[n] \in during[n]
                               /\ scan.files[n] = Gone <=> Gone \in during[n]
        BY <1>1, <1>2, <3>1 DEF ScanInv, ControlOK
      <3>. QED
        BY <1>1, <2>1, <2>3, <3>2 DEF ControlOK
    <2>. QED
      BY <1>1, <1>2, <1>5, <2>1, <2>2, <2>4, <2>5, <2>6, TurnKeeps
  <1>. QED
    BY <1>4, <1>5 DEF EndControls

LEMMA StartScanKeeps == ASSUME ScanInv, StartScan PROVE ScanInv'
  <1>1. /\ scan.pc \in {"idle", "done", "aborted"} /\ Still /\ UNCHANGED <<fingerprints, opened>>
        /\ during' = [n \in Name |-> {Now(n)}]
    BY DEF StartScan, Still
  <1>2. /\ fingerprints \in [Name -> Cached \cup {Gone}] /\ disk \in [Name -> EntryFile \cup {Gone}]
        /\ changed \in [root : Nat, git : Nat] /\ changed.root \in Times /\ changed.git \in Times
        /\ \A n \in Name : fingerprints[n] # Gone => fingerprints[n].signature[4] \in Times
    BY DEF ScanInv, TypesOK, TimesOK
  <1>3. \A n \in Name : Now(n) \in Target \cup {Gone} /\ (Now(n) = Gone <=> ~Exists(n))
    BY <1>2 DEF Now, EntryFile
  <1>4. /\ scan'.pc = "entries" /\ scan'.todo = {n \in Listed : Exists(n)}
        /\ scan'.files = [n \in Name |-> Gone] /\ scan'.directory = changed
    BY DEF StartScan
  <1>5. scan' \in ActiveScan
    BY <1>2 DEF StartScan, ActiveScan
  <1>6. changed \in [root : Times, git : Times]
    BY <1>2
  <1>7. during' \in [Name -> SUBSET (Target \cup {Gone})] /\ \A n \in Name : during'[n] = {Now(n)}
    BY <1>1, <1>3
  <1>8. TypesOK' /\ TimesOK' /\ ScanIsTrue'
    BY <1>1, <1>2, <1>4, <1>5, <1>6, <1>7, StepTypes
  <1>9. CacheOK' /\ OpenedOK' /\ ExamineOK'
    BY <1>1, <1>4 DEF ScanInv, CacheOK, OpenedOK, ExamineOK, Still, Hit, NoFile
  <1>10. InEntries' /\ ~InControls' /\ ~AfterControls'
    BY <1>4 DEF InEntries, InControls, AfterControls
  <1>11. PhaseOK'
    BY <1>4, <1>10 DEF PhaseOK
  <1>12. ListedOK'
    BY <1>1, <1>3, <1>4, <1>7, <1>10 DEF ListedOK, Still, Now
  <1>13. ControlOK'
    BY <1>1, <1>4, <1>7, <1>10 DEF ControlOK
  <1>. QED
    BY <1>8, <1>9, <1>11, <1>12, <1>13 DEF ScanInv

LEMMA FinishScanKeeps == ASSUME ScanInv, FinishScan PROVE ScanInv'
  <1>1. /\ scan.pc = "prune" /\ Still /\ UNCHANGED <<opened, during>>
        /\ fingerprints' = [n \in Name |-> IF scan.files[n] = Gone THEN Gone ELSE fingerprints[n]]
        /\ scan'.pc = "done" /\ scan'.files = scan.files /\ scan'.unreadable = scan.unreadable
    BY DEF FinishScan, Still
  <1>2. Scanning /\ AfterControls /\ ~InEntries
    BY <1>1 DEF Scanning, AfterControls, InEntries
  <1>3. fingerprints' \in [Name -> Cached \cup {Gone}]
    BY <1>1, <1>2, ActiveFacts
  <1>4. \A n \in Name : fingerprints'[n] # Gone => fingerprints'[n] = fingerprints[n]
    BY <1>1
  <1>5. TypesOK' /\ TimesOK'
    BY <1>1, <1>3, <1>4 DEF ScanInv, TypesOK, TimesOK, Still, Scanning, Times
  <1>6. CacheOK'
    BY <1>1, <1>4 DEF ScanInv, CacheOK, Still, Hit
  <1>7. OpenedOK' /\ ExamineOK' /\ PhaseOK' /\ ListedOK' /\ ControlOK'
    BY <1>1 DEF ScanInv, OpenedOK, ExamineOK, PhaseOK, ListedOK, ControlOK, Scanning, NoFile,
                InEntries, InControls
  <1>8. ScanIsTrue'
    <2>1. \A n \in Listed :
             /\ scan.files[n] \notin {Gone, NoTarget} => scan.files[n] \in during[n]
             /\ scan.files[n] = Gone => Gone \in during[n]
             /\ Gone \in during[n] => scan.files[n] = Gone \/ scan.unreadable
      BY <1>1, <1>2 DEF ScanInv, ListedOK
    <2>2. \A n \in Control :
             /\ scan.files[n] \notin {Gone, NoTarget} => scan.files[n] \in during[n]
             /\ scan.files[n] = Gone <=> Gone \in during[n]
      BY <1>1, <1>2 DEF ScanInv, ControlOK
    <2>. QED
      BY <1>1, <2>1, <2>2 DEF ScanIsTrue
  <1>. QED
    BY <1>5, <1>6, <1>7, <1>8 DEF ScanInv

(* A scan that succeeds tells the truth, for any number of entries, of changes *)
(* by other processes and of scans before it                                   *)
(* (WorkspaceFingerprinter.capture, _scan_directory, _store_regular_file).      *)
THEOREM ScansAreTrue == InitScan /\ [][NextScan]_scanVars => []ScanIsTrue
  <1>1. InitScan => ScanInv
    <2> SUFFICES ASSUME InitScan PROVE ScanInv
      OBVIOUS
    <2>1. PICK there \in SUBSET Name, target \in Target :
             disk = [n \in Name |-> IF n \in there THEN NewEntry("file", target, 0) ELSE Gone]
      BY DEF InitScan
    <2>2. /\ changed = [root |-> 0, git |-> 0] /\ clock = 0
          /\ fingerprints = [n \in Name |-> Gone]
          /\ scan.pc = "idle" /\ opened = NoFile /\ during = [n \in Name |-> {}]
      BY DEF InitScan
    <2>3. /\ NewEntry("file", target, 0) \in EntryFile
          /\ NewEntry("file", target, 0).node = 0 /\ NewEntry("file", target, 0).time = 0
      BY DEF NewEntry, EntryFile
    <2>4. /\ disk \in [Name -> EntryFile \cup {Gone}]
          /\ \A n \in Name : Exists(n) => disk[n].node = 0 /\ disk[n].time = 0
      BY <2>1, <2>3
    <2>5. TypesOK
      BY <2>2, <2>4 DEF TypesOK, NoFile
    <2>6. TimesOK /\ CacheOK
      BY <2>2, <2>4 DEF TimesOK, CacheOK, Times, Scanning, Hit
    <2>. QED
      BY <2>2, <2>5, <2>6
         DEF ScanInv, OpenedOK, ExamineOK, PhaseOK, ListedOK, ControlOK, ScanIsTrue, Scanning,
             InEntries, InControls
  <1>2. ScanInv /\ [NextScan]_scanVars => ScanInv'
    <2> SUFFICES ASSUME ScanInv, [NextScan]_scanVars PROVE ScanInv'
      OBVIOUS
    <2>1. CASE UNCHANGED scanVars
      <3>1. UNCHANGED <<disk, changed, clock, fingerprints, scan, opened, during>>
        BY <2>1 DEF scanVars
      <3>2. TypesOK' /\ TimesOK'
        BY <3>1 DEF ScanInv, TypesOK, TimesOK, Times, Scanning
      <3>3. CacheOK'
        BY <3>1 DEF ScanInv, CacheOK, Hit
      <3>4. OpenedOK' /\ ExamineOK'
        BY <3>1 DEF ScanInv, OpenedOK, ExamineOK, Times, Hit
      <3>5. PhaseOK'
        BY <3>1 DEF ScanInv, PhaseOK, InEntries, InControls
      <3>6. ListedOK'
        BY <3>1 DEF ScanInv, ListedOK, Scanning, InEntries, Now
      <3>7. ControlOK'
        BY <3>1 DEF ScanInv, ControlOK, Scanning, InEntries, InControls, BeforeControls,
                    AfterControls, Now
      <3>8. ScanIsTrue'
        BY <3>1 DEF ScanInv, ScanIsTrue
      <3>. QED
        BY <3>2, <3>3, <3>4, <3>5, <3>6, <3>7, <3>8 DEF ScanInv
    <2>2. CASE \E n \in Name, target \in Target :
                  \/ \E readable \in BOOLEAN : ChangeFile(n, target, readable)
                  \/ \E kind \in {"file", "link"} : PutEntry(n, kind, target)
      BY <2>2, OthersKeep
    <2>3. CASE \E n \in Name : RemoveEntry(n) \/ StatEntry(n) \/ Revalidate(n)
      BY <2>3, OthersKeep, StatEntryKeeps, RevalidationKeeps
    <2>4. CASE \E fails \in BOOLEAN : OpenEntry(fails)
      BY <2>4, OpenEntryKeeps
    <2>5. CASE EndDirectory("entries", "git") \/ EndDirectory("root", "prune")
      BY <2>5, EndDirectoryKeeps
    <2>6. CASE \/ StartScan \/ ReadLink \/ StatOpened \/ ReadPart \/ HashFails \/ Hash \/ StoreFile
               \/ StartControls \/ EndControls \/ EndRevalidation \/ FinishScan
      BY <2>6, StartScanKeeps, ReadLinkKeeps, StatOpenedKeeps, ReadsKeep, StoreFileKeeps,
         StartControlsKeeps, EndControlsKeeps, RevalidationKeeps, FinishScanKeeps
    <2>. QED
      BY <2>1, <2>2, <2>3, <2>4, <2>5, <2>6 DEF NextScan
  <1>3. ScanInv => ScanIsTrue
    BY DEF ScanInv
  <1>. QED
    BY <1>1, <1>2, <1>3, PTL
=============================================================================
