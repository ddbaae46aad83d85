----------------------------- MODULE SignedLog -----------------------------
(***************************************************************************)
(* conversation_ledger.py: a log whose rows are chained and signed with a   *)
(* key of this host, appended to by several processes under a lock, and the *)
(* making of the key, which no lock protects.  receipt.py, trajectory.py and *)
(* memory_store.py make keys of their own in two other ways.  A process may *)
(* be killed and a write may fail at any step.                              *)
(***************************************************************************)
EXTENDS Integers, Sequences

CONSTANTS
    Writer,         \* processes
    Protocol,       \* ways to make a key: "ledger", "store", "poll"
    Missing,        \* there is no key file
    MaxPolls,       \* how often an empty key file is looked at again
    MaxTexts,       \* bound on the texts that are appended
    MaxFaults       \* bound on kills and failing writes

ASSUME SignedLogAssumption ==
    /\ MaxPolls \in Nat /\ MaxTexts \in Nat /\ MaxFaults \in Nat
    /\ Missing \notin Nat \cup Writer

VARIABLES
    protocol,
    keyFile,        \* Missing, 0 while it is empty, or a key
    keys,           \* number of keys made
    log,            \* the rows
    lastLine,       \* what the last line ends with
    holder,         \* who holds the ledger's lock
    writer,         \* what each process is doing
    texts,          \* number of texts so far
    appended,       \* the texts whose append has returned
    faults

logVars == <<protocol, keyFile, keys, log, lastLine, holder, writer, texts, appended, faults>>

Off == [pc |-> "off", key |-> Missing, polls |-> 0, row |-> Missing]

WriterAt(p, pc) == writer[p].pc = pc
WriterGoes(p, pc) == writer' = [writer EXCEPT ![p].pc = pc]

(* An exception ends the process, and the lock with it. *)
Raise(p) ==
    /\ writer' = [writer EXCEPT ![p] = Off]
    /\ holder' = IF holder = p THEN Missing ELSE holder

HoldsKey(p, key) == writer' = [writer EXCEPT ![p] = [Off EXCEPT !.pc = "migrate", !.key = key]]

----------------------------------------------------------------------------
(* The key *)

(* _load_or_create_key: the ledger looks for the file first, the others create it. *)
StartWriter(p) ==
    /\ WriterAt(p, "off")
    /\ WriterGoes(p, IF protocol = "ledger" THEN "look" ELSE "create")
    /\ UNCHANGED <<protocol, keyFile, keys, log, lastLine, holder, texts, appended, faults>>

(* The key of the file, if it has one: an empty file is an error. *)
TakeKey(p) ==
    IF keyFile \in 1 .. keys
    THEN HoldsKey(p, keyFile) /\ UNCHANGED holder
    ELSE Raise(p)

LookForKey(p) ==
    /\ WriterAt(p, "look")
    /\ IF keyFile = Missing THEN WriterGoes(p, "create") /\ UNCHANGED holder ELSE TakeKey(p)
    /\ UNCHANGED <<protocol, keyFile, keys, log, lastLine, texts, appended, faults>>

(* os.open with O_CREAT and O_EXCL *)
CreateKeyFile(p) ==
    /\ WriterAt(p, "create")
    /\ \/ /\ keyFile = Missing /\ keyFile' = 0
          /\ WriterGoes(p, "write")
       \/ /\ keyFile # Missing /\ UNCHANGED keyFile
          /\ WriterGoes(p, IF protocol = "poll" THEN "poll" ELSE "load")
    /\ UNCHANGED <<protocol, keys, log, lastLine, holder, texts, appended, faults>>

WriteKey(p) ==
    /\ WriterAt(p, "write")
    /\ keys' = keys + 1 /\ keyFile' = keys + 1
    /\ HoldsKey(p, keys + 1)
    /\ UNCHANGED <<protocol, log, lastLine, holder, texts, appended, faults>>

(* _load_existing_key *)
LoadKey(p) ==
    /\ WriterAt(p, "load") /\ TakeKey(p)
    /\ UNCHANGED <<protocol, keyFile, keys, log, lastLine, texts, appended, faults>>

(* The receipts and the undo journal wait a while for the file to be written. *)
PollKey(p) ==
    /\ WriterAt(p, "poll")
    /\ IF keyFile = 0 /\ writer[p].polls < MaxPolls
       THEN writer' = [writer EXCEPT ![p].polls = @ + 1] /\ UNCHANGED holder
       ELSE TakeKey(p)
    /\ UNCHANGED <<protocol, keyFile, keys, log, lastLine, texts, appended, faults>>

----------------------------------------------------------------------------
(* The log *)

(* The last line ends with its newline; it is a part of a row; it is a row    *)
(* without its newline; it is more than one row, or a row and a part of one.  *)
LastLines == {"ended", "torn", "unended", "glued"}

(* A line is parsed as one row, and the last needs no newline for that. *)
Readable == lastLine \in {"ended", "unended"}

(* _envelope: a text is its own digest, so a row's HMAC is its key and text. *)
Envelope(key, sequence, previous, text) ==
    [key |-> key, sequence |-> sequence, previous |-> previous, text |-> text]

(* A row of the first version has neither number nor HMAC. *)
Legacy(text) == Envelope(Missing, 0, 0, text)

(* _verify_envelope *)
Authentic(row, key) == row.key = key

TextBefore(rows, i) == IF i = 1 THEN 0 ELSE rows[i - 1].text

(* read: numbers without a gap, each row chained to the one before. *)
Verifies(rows, key) ==
    \A i \in 1 .. Len(rows) :
        rows[i] = Envelope(key, i - 1, TextBefore(rows, i), rows[i].text)

Signed(rows, key) ==
    [i \in 1 .. Len(rows) |-> Envelope(key, i - 1, TextBefore(rows, i), rows[i].text)]

\* Nobody waits.
LockUnheeded(p) == holder' = p

Lock(p) == holder = Missing /\ holder' = p

Unlock(p) == holder' = IF holder = p THEN Missing ELSE holder

(* migrate_legacy: every process begins with it.  The file is replaced at once. *)
LockToMigrate(p) ==
    /\ WriterAt(p, "migrate") /\ protocol = "ledger" /\ Lock(p)
    /\ WriterGoes(p, "migrating")
    /\ UNCHANGED <<protocol, keyFile, keys, log, lastLine, texts, appended, faults>>

MigrateLegacy(p) ==
    /\ WriterAt(p, "migrating")
    /\ LET key == writer[p].key
           old == log # <<>> /\ log[1].key = Missing
       IN  IF ~Readable \/ (~old /\ ~Verifies(log, key))
           THEN Raise(p) /\ UNCHANGED <<log, lastLine>>
           ELSE /\ log' = IF old THEN Signed(log, key) ELSE log
                /\ lastLine' = IF old THEN "ended" ELSE lastLine
                /\ WriterGoes(p, "ready") /\ Unlock(p)
    /\ UNCHANGED <<protocol, keyFile, keys, texts, appended, faults>>

(* append *)
LockToAppend(p) ==
    /\ WriterAt(p, "ready") /\ texts < MaxTexts /\ Lock(p)
    /\ WriterGoes(p, "append")
    /\ UNCHANGED <<protocol, keyFile, keys, log, lastLine, texts, appended, faults>>

(* _read_last_raw_row: the row to append follows from the last one. *)
ReadLast(p) ==
    /\ WriterAt(p, "append")
    /\ LET key == writer[p].key
           n == Len(log)
       IN  IF ~Readable \/ (n > 0 /\ ~Authentic(log[n], key))
           THEN Raise(p) /\ UNCHANGED texts
           ELSE /\ texts' = texts + 1
                /\ writer' = [writer EXCEPT ![p].pc = "begin", ![p].row =
                       IF n = 0 THEN Envelope(key, 0, 0, texts + 1)
                       ELSE Envelope(key, log[n].sequence + 1, log[n].text, texts + 1)]
                /\ UNCHANGED holder
    /\ UNCHANGED <<protocol, keyFile, keys, log, lastLine, appended, faults>>

(* _append_raw_row, at the end of the file: os.write may stop after a part of *)
(* the row and after the row without its newline, and is called again for the *)
(* rest.  After a row without a newline the next one goes onto the same line. *)
BeginRow(p) ==
    /\ WriterAt(p, "begin")
    /\ lastLine' = IF lastLine = "ended" THEN "torn" ELSE "glued"
    /\ WriterGoes(p, "rest")
    /\ UNCHANGED <<protocol, keyFile, keys, log, holder, texts, appended, faults>>

FinishRow(p) ==
    /\ WriterAt(p, "rest")
    /\ log' = Append(log, writer[p].row)
    /\ lastLine' = IF lastLine = "glued" THEN "glued" ELSE "unended"
    /\ WriterGoes(p, "newline")
    /\ UNCHANGED <<protocol, keyFile, keys, holder, texts, appended, faults>>

EndLine(p) ==
    /\ WriterAt(p, "newline")
    /\ lastLine' = IF lastLine = "glued" THEN "glued" ELSE "ended"
    /\ WriterGoes(p, "sync")
    /\ UNCHANGED <<protocol, keyFile, keys, log, holder, texts, appended, faults>>

(* fsync, and append returns. *)
AppendReturns(p) ==
    /\ WriterAt(p, "sync") /\ Unlock(p)
    /\ appended' = appended \cup {writer[p].row.text}
    /\ writer' = [writer EXCEPT ![p].pc = "ready", ![p].row = Missing]
    /\ UNCHANGED <<protocol, keyFile, keys, log, lastLine, texts, faults>>

(* The process ends; a write that fails and a kill leave the same behind. *)
Fault(p) ==
    /\ ~WriterAt(p, "off") /\ faults < MaxFaults /\ faults' = faults + 1
    /\ Raise(p)
    /\ UNCHANGED <<protocol, keyFile, keys, log, lastLine, texts, appended>>

ExitWriter(p) ==
    /\ writer[p].pc \in {"ready", "migrate"} /\ Raise(p)
    /\ UNCHANGED <<protocol, keyFile, keys, log, lastLine, texts, appended, faults>>

----------------------------------------------------------------------------
(* At first there is no key, and no log or one of the first version. *)
InitLog ==
    /\ protocol \in Protocol
    /\ keyFile = Missing /\ keys = 0
    /\ log \in {<<>>} \cup IF protocol = "ledger" /\ MaxTexts > 0 THEN {<<Legacy(1)>>} ELSE {}
    /\ texts = Len(log) /\ appended = {log[i].text : i \in 1 .. Len(log)}
    /\ lastLine = "ended" /\ holder = Missing /\ faults = 0
    /\ writer = [p \in Writer |-> Off]

NextLog ==
    \E p \in Writer :
        \/ StartWriter(p) \/ LookForKey(p) \/ CreateKeyFile(p) \/ WriteKey(p) \/ LoadKey(p) \/ PollKey(p)
        \/ LockToMigrate(p) \/ MigrateLegacy(p) \/ LockToAppend(p) \/ ReadLast(p)
        \/ BeginRow(p) \/ FinishRow(p) \/ EndLine(p) \/ AppendReturns(p)
        \/ Fault(p) \/ ExitWriter(p)

LogSpec == InitLog /\ [][NextLog]_logVars

LogTypeOK ==
    /\ keyFile \in {Missing} \cup 0 .. keys /\ texts \in 0 .. MaxTexts
    /\ lastLine \in LastLines /\ appended \subseteq 1 .. texts /\ faults \in 0 .. MaxFaults

Writing(p) == WriterAt(p, "rest") \/ WriterAt(p, "newline")

(* Whatever processes start at once, and whichever of them die on the way:     *)
(* all sign with the one key that the file holds, every text whose append has *)
(* returned is in a row, and the rows, once a process has begun to use the    *)
(* log, are numbered and chained under that key (_load_or_create_key, append, *)
(* _append_raw_row, migrate_legacy).  All of its lines are whole unless a     *)
(* write is under way or was cut short, and no two rows are on one line       *)
(* unless a write was cut short: no process appends to what another writes.   *)
RowsAreKept ==
    /\ \A p \in Writer : writer[p].key # Missing => writer[p].key = keyFile
    /\ appended \subseteq {log[i].text : i \in 1 .. Len(log)}
    /\ Verifies(log, keyFile) \/ (\A i \in 1 .. Len(log) : log[i] = Legacy(i))
    /\ lastLine # "ended" => faults > 0 \/ \E p \in Writer : Writing(p)
    /\ lastLine = "glued" => faults > 0

(* A row whose append has returned is on a line of its own, so that read, and  *)
(* append after it, can go on with the log ("Append and verify per-file hash  *)
(* chains", AuthenticatedConversationLedger).                                 *)
AppendLeavesReadable == lastLine = "glued" => log[Len(log)].text \notin appended
=============================================================================
