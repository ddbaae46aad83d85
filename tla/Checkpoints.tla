---------------------------- MODULE Checkpoints ----------------------------
(***************************************************************************)
(* Summaries of a host's chat, as memory_core keeps them: a saved chat is  *)
(* imported as events, old events are summed up in batches, and each       *)
(* summary is a checkpoint bound to the revisions of the events it is of.  *)
(* Messages are edited and deleted later; a checkpoint whose sources       *)
(* changed is passed over in favour of an ancestor.                        *)
(* A digest is what it is of: a message's record for an event, the         *)
(* checkpoint itself for a checkpoint id.                                  *)
(***************************************************************************)
EXTENDS Naturals, Sequences, FiniteSets

CONSTANTS None,               \* no value
          HostId,             \* message ids that the host may give
          MessageInterval,    \* FormationPolicy.message_interval
          CharacterInterval,  \* FormationPolicy.character_interval
          ProtectRecent,      \* FormationPolicy.protect_recent_messages
          MaxBatch,           \* FormationPolicy.max_messages_per_batch
          Mode,               \* FormationPolicy.mode
          MaxMessages,        \* bound on the messages ever written
          MaxEdits,           \* bound on edits and deletions
          MaxCheckpoints      \* bound on the ledger

ASSUME FormationPolicyAssumption ==
    /\ {MessageInterval, CharacterInterval, ProtectRecent, MaxBatch} \subseteq Nat
    /\ MessageInterval > 0 \/ CharacterInterval > 0
    /\ MaxBatch >= 1
    /\ Mode \in {"blocking", "background", "manual"}
    /\ {MaxMessages, MaxEdits, MaxCheckpoints} \subseteq Nat

VARIABLES
    chat,      \* the host's messages, in order
    written,   \* counter against MaxMessages: tells messages apart, as send_date does
    edits,     \* counter against MaxEdits
    nodes,     \* CheckpointLedger._checkpoints
    active     \* CheckpointLedger._active_id

chatVars == <<chat, written, edits>>
ledgerVars == <<nodes, active>>

(* A message has one character for each time it was edited, and one more. *)
Message == [host : HostId \cup {None}, number : 1 .. MaxMessages,
            revision : 0 .. MaxEdits, memory : BOOLEAN]

----------------------------------------------------------------------------
(* Import *)

HasHostId(c, i) ==
    c[i].host # None /\ \A j \in 1 .. i - 1 : c[j].host # c[i].host

(* The host's id, or the position where there is none or it is taken. *)
SourceRef(c, i) ==
    IF HasHostId(c, i) THEN <<"host-message", c[i].host>> ELSE <<"message", i>>

Event(c, i) == <<SourceRef(c, i), c[i]>>

Events(c) == [i \in 1 .. Len(c) |-> Event(c, i)]

Checkpoint(sources, parent, producer) ==
    [sources |-> sources, parent |-> parent, producer |-> producer]

Summarised(c) == {i \in 1 .. Len(c) : c[i].memory}

Earlier(c, i) == {j \in Summarised(c) : j < i}
Latest(S) == CHOOSE i \in S : \A j \in S : j <= i

(* The checkpoint of each message that carries a summary: its sources are   *)
(* the messages since the one before, and that one is its parent.           *)
Imported(c) ==
    LET made[i \in Summarised(c)] ==
            IF Earlier(c, i) = {}
            THEN Checkpoint(SubSeq(Events(c), 1, i), None, "import")
            ELSE Checkpoint(SubSeq(Events(c), Latest(Earlier(c, i)) + 1, i),
                            made[Latest(Earlier(c, i))], "import")
    IN made

----------------------------------------------------------------------------
(* The checkpoint ledger *)

(* append refuses a second root and a parent it does not have. *)
MayAppend(checkpoint) ==
    \/ checkpoint \in nodes
    \/ checkpoint.parent \in nodes
    \/ checkpoint.parent = None /\ nodes = {}

(* A checkpoint and its ancestors, the root first. *)
Lineage(checkpoint) ==
    LET line[n \in nodes] == IF n.parent = None THEN <<n>> ELSE Append(line[n.parent], n)
    IN line[checkpoint]

SourcesCurrent(checkpoint) ==
    \A k \in 1 .. Len(checkpoint.sources) :
        \E i \in 1 .. Len(chat) : Event(chat, i) = checkpoint.sources[k]

LineageIsValidAtTip(checkpoint) == SourcesCurrent(checkpoint)       \* mutant
LineageIsValid(checkpoint) ==
    \A k \in 1 .. Len(Lineage(checkpoint)) : SourcesCurrent(Lineage(checkpoint)[k])

(* The active checkpoint, or the newest of its ancestors whose lineage is valid. *)
LatestValid ==
    LET line == IF active = None THEN <<>> ELSE Lineage(active)
        valid == {k \in 1 .. Len(line) : LineageIsValid(line[k])}
    IN IF valid = {} THEN None ELSE line[Latest(valid)]

----------------------------------------------------------------------------
(* Planning *)

(* The position of the last event that is summed up: what formation starts after. *)
Cursor(checkpoint) ==
    IF checkpoint = None THEN 0
    ELSE CHOOSE i \in 1 .. Len(chat) :
             Event(chat, i) = checkpoint.sources[Len(checkpoint.sources)]

Characters(pending) ==
    LET total[k \in 0 .. Len(pending)] ==
            IF k = 0 THEN 0 ELSE total[k - 1] + 1 + pending[k][2].revision
    IN total[Len(pending)]

Pending(from) == SubSeq(Events(chat), from + 1, Len(chat) - ProtectRecent)

Due(pending, force) ==
    \/ force
    \/ /\ Mode # "manual"
       /\ \/ MessageInterval > 0 /\ Len(pending) >= MessageInterval
          \/ CharacterInterval > 0 /\ Characters(pending) >= CharacterInterval

Selected(from, force) ==
    LET pending == Pending(from)
    IN IF Due(pending, force)
       THEN SubSeq(pending, 1, IF Len(pending) < MaxBatch THEN Len(pending) ELSE MaxBatch)
       ELSE <<>>

----------------------------------------------------------------------------
(* Actions *)

InitCheckpoints ==
    chat = <<>> /\ written = 0 /\ edits = 0 /\ nodes = {} /\ active = None

(* The host writes a message, maybe with a summary of what came before. *)
Say(host, memory) ==
    /\ written < MaxMessages
    /\ written' = written + 1
    /\ chat' = Append(chat, [host |-> host, number |-> written + 1, revision |-> 0,
                             memory |-> memory])
    /\ UNCHANGED <<edits, ledgerVars>>

(* The user edits or swipes a message: its slot stays. *)
Edit(i) ==
    /\ edits < MaxEdits
    /\ edits' = edits + 1
    /\ chat' = [chat EXCEPT ![i].revision = @ + 1]
    /\ UNCHANGED <<written, ledgerVars>>

Delete(i) ==
    /\ edits < MaxEdits
    /\ edits' = edits + 1
    /\ chat' = SubSeq(chat, 1, i - 1) \o SubSeq(chat, i + 1, Len(chat))
    /\ UNCHANGED <<written, ledgerVars>>

(* The host sums up the next batch after the newest valid checkpoint. *)
Form(force) ==
    LET parent == LatestValid
        batch == Selected(Cursor(parent), force)
        checkpoint == Checkpoint(batch, parent, "host")
    IN /\ batch # <<>>
       /\ MayAppend(checkpoint)
       /\ Cardinality(nodes \cup {checkpoint}) <= MaxCheckpoints
       /\ nodes' = nodes \cup {checkpoint}
       /\ active' = checkpoint
       /\ UNCHANGED chatVars

(* The host imports the saved chat and appends its checkpoints in order: *)
(* each is the parent of the next, so the first decides for all.         *)
Import ==
    LET made == Imported(chat)
        all == {made[i] : i \in Summarised(chat)}
    IN /\ all # {}
       /\ \A n \in all : n.parent = None => MayAppend(n)
       /\ Cardinality(nodes \cup all) <= MaxCheckpoints
       /\ nodes' = nodes \cup all
       /\ active' = made[Latest(Summarised(chat))]
       /\ UNCHANGED chatVars

Rollback(checkpoint) ==
    /\ active' = checkpoint
    /\ UNCHANGED <<chatVars, nodes>>

NextCheckpoints ==
    \/ \E host \in HostId \cup {None}, memory \in BOOLEAN : Say(host, memory)
    \/ \E i \in 1 .. Len(chat) : Edit(i) \/ Delete(i)
    \/ \E force \in BOOLEAN : Form(force)
    \/ Import
    \/ \E n \in nodes : Rollback(n)

CheckpointsSpec == InitCheckpoints /\ [][NextCheckpoints]_<<chatVars, ledgerVars>>

----------------------------------------------------------------------------
(* Properties *)

CheckpointsTypeOK ==
    /\ chat \in Seq(Message)
    /\ written \in 0 .. MaxMessages /\ edits \in 0 .. MaxEdits
    /\ \A n \in nodes : n.parent \in nodes \cup {None} /\ n.sources # <<>>
    /\ active \in nodes \cup {None}

(* What is summed up is a beginning of the chat as it is now, each message  *)
(* once and none left out: the sources along the lineage of the newest      *)
(* valid checkpoint (latest_valid) are the first events of the chat.        *)
CoversThePrefix ==
    LatestValid # None =>
        LET line == Lineage(LatestValid)
            covered[k \in 0 .. Len(line)] ==
                IF k = 0 THEN <<>> ELSE covered[k - 1] \o line[k].sources
        IN covered[Len(line)] = SubSeq(Events(chat), 1, Cursor(LatestValid))
=============================================================================
