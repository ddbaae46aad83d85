---------------------------- MODULE Conversation ----------------------------
(***************************************************************************)
(* conversation_memory.py and conversation_ledger.py: the event logs of     *)
(* chats, the log of memory candidates that all chats share, and the        *)
(* commands that turn an event into a memory card, driven by chat_command   *)
(* and memory_command of cli.py.  Appends hold the ledger's lock and are    *)
(* one step; a command is several steps, and other chats come between them. *)
(***************************************************************************)
EXTENDS MemoryStore

CONSTANTS
    Chat,       \* processes: mca chat, mca memory
    Log,        \* conversations; a log is a session path, mca memory has its own
    Candidates, \* candidates.jsonl
    MaxRows,    \* bound on the events of a log for which a chat starts a turn
    NoEvent

ASSUME ConversationAssumption == MaxRows \in Nat

VARIABLES
    events,     \* Log -> the sequence numbers of its rows
    decisions,  \* candidates.jsonl: candidates and decisions, in order
    torn,       \* logs whose last row is incomplete: nothing is read or appended any more
    session     \* Chat -> what it is doing

conversationVars == <<events, decisions, torn, session>>

(* A candidate is known by the event it quotes. *)
Candidate(e) == [type |-> "candidate", event |-> e, card |-> Nobody]
Decision(e, kind, c) == [type |-> kind, event |-> e, card |-> c]

Rows == 1 .. Len(decisions)

CandidatesIn(rows) == {rows[i].event : i \in {j \in 1 .. Len(rows) : rows[j].type = "candidate"}}
DecidedIn(rows) == {rows[i].event : i \in {j \in 1 .. Len(rows) : rows[j].type # "candidate"}}

(* pending_candidates *)
PendingCandidates == CandidatesIn(decisions) \ DecidedIn(decisions)

Closed == [pc |-> "closed", log |-> NoEvent, next |-> 0, event |-> NoEvent,
           card |-> Nobody, chosen |-> NoEvent]

ChatAt(p, pc) == session[p].pc = pc

Goes(p, pc) == session' = [session EXCEPT ![p].pc = pc]

Durable(log, e) == e[1] \in Log /\ \E i \in 1 .. Len(log[e[1]]) : log[e[1]][i] = e[2]

----------------------------------------------------------------------------
(* LocalConversationMemory.__init__: both logs are read and verified. *)
Open(p, l) ==
    /\ ChatAt(p, "closed") /\ torn \cap {l, Candidates} = {}
    /\ session' = [session EXCEPT ![p] = [Closed EXCEPT !.pc = "prompt", !.log = l,
                                                  !.next = Len(events[l])]]
    /\ UNCHANGED <<storeVars, events, decisions, torn>>

\* The number this process had in mind.
RememberedSequence(p) == session[p].next

(* The number of the next row: the last row's and one, read under the lock. *)
NextSequence(p) ==
    LET l == session[p].log
    IN  IF events[l] = <<>> THEN 0 ELSE events[l][Len(events[l])] + 1

(* record_event, when the log can be read and was not truncated. *)
MayRecord(p) == session[p].log \notin torn /\ NextSequence(p) >= session[p].next

Recorded(p) ==
    /\ MayRecord(p)
    /\ events' = [events EXCEPT ![session[p].log] = Append(@, NextSequence(p))]

(* A text of the user: it is recorded before anything is done about it. *)
Utter(p) ==
    /\ ChatAt(p, "prompt") /\ Len(events[session[p].log]) < MaxRows
    /\ Recorded(p)
    /\ session' = [session EXCEPT ![p].pc = "handle", ![p].next = NextSequence(p) + 1,
                            ![p].event = <<session[p].log, NextSequence(p)>>]
    /\ UNCHANGED <<storeVars, decisions, torn>>

----------------------------------------------------------------------------
(* _handle_chat_memory_command; an error is the command's answer. *)

Text(p) == CardDraft("explicit", CHOOSE a \in Anchor : TRUE, now, 1)

(* /remember TEXT *)
Remember(p) ==
    /\ ChatAt(p, "handle")
    /\ store' = OnceFor(store, Text(p), "event", session[p].event).store
    /\ Goes(p, "reply")
    /\ UNCHANGED <<now, events, decisions, torn>>

(* /remember @ID, /memory dismiss ID and mca memory candidates: the candidate *)
(* is looked up without the lock.                                             *)
Choose(p, e, pc) ==
    /\ session[p].pc \in {"handle", "prompt"}
    /\ Candidates \notin torn /\ e \in PendingCandidates
    /\ session' = [session EXCEPT ![p].pc = pc, ![p].chosen = e]
    /\ UNCHANGED <<storeVars, events, decisions, torn>>

\* The evidence is the event of the approval, not the candidate's.
ApproveByCommand(p) ==
    LET added == OnceFor(store, Text(p), "event", session[p].event)
    IN  /\ ChatAt(p, "approve") /\ session[p].event # NoEvent
        /\ store' = added.store
        /\ session' = [session EXCEPT ![p].pc = "decide", ![p].card = added.card]
        /\ UNCHANGED <<now, events, decisions, torn>>

(* remember_candidate *)
Approve(p) ==
    LET added == OnceFor(store, Text(p), "event", session[p].chosen)
    IN  /\ ChatAt(p, "approve")
        /\ store' = added.store
        /\ session' = [session EXCEPT ![p].pc = "decide", ![p].card = added.card]
        /\ UNCHANGED <<now, events, decisions, torn>>

AppendDecision(p, from, kind, c) ==
    /\ ChatAt(p, from) /\ Candidates \notin torn
    /\ decisions' = Append(decisions, Decision(session[p].chosen, kind, c))
    /\ Goes(p, "reply")
    /\ UNCHANGED <<storeVars, events, torn>>

(* /forget and /correct find an active card without the lock. *)
Select(p, c, pc) ==
    /\ ChatAt(p, "handle") /\ c \in ActiveCards(store)
    /\ session' = [session EXCEPT ![p].pc = pc, ![p].card = c]
    /\ UNCHANGED <<storeVars, events, decisions, torn>>

(* forget: the evidence first, then the tombstone. *)
Testify(p) ==
    /\ ChatAt(p, "testify")
    /\ store' = WithSource(store, session[p].card, "forget", session[p].event)
    /\ Goes(p, "tombstone")
    /\ UNCHANGED <<now, events, decisions, torn>>

Tombstone(p) ==
    /\ ChatAt(p, "tombstone")
    /\ store' = WithEvent(store, session[p].card, "tombstoned")
    /\ Goes(p, "reply")
    /\ UNCHANGED <<now, events, decisions, torn>>

Correct(p) ==
    /\ ChatAt(p, "correct")
    /\ store' = Replaced(store, session[p].card, [Text(p) EXCEPT !.kind = store.cards[session[p].card].kind],
                         "event", session[p].event)
    /\ Goes(p, "reply")
    /\ UNCHANGED <<now, events, decisions, torn>>

(* A command that finds nothing, or meets a torn candidate log; the others   *)
(* that only print.                                                          *)
Answer(p) ==
    /\ ChatAt(p, "handle") \/ (session[p].pc \in {"decide", "dismiss"} /\ Candidates \in torn)
    /\ Goes(p, "reply")
    /\ UNCHANGED <<storeVars, events, decisions, torn>>

(* The answer is recorded as a system event; mca memory has none and ends. *)
Reply(p) ==
    /\ ChatAt(p, "reply")
    /\ \/ /\ Recorded(p)
          /\ session' = [session EXCEPT ![p] = [Closed EXCEPT !.pc = "prompt", !.log = session[p].log,
                                                        !.next = NextSequence(p) + 1]]
       \/ session' = [session EXCEPT ![p] = Closed] /\ UNCHANGED events
    /\ UNCHANGED <<storeVars, decisions, torn>>

----------------------------------------------------------------------------
(* A text for the model: its answer is recorded, and the user's text is      *)
(* staged as a candidate when it looks like one (stage_candidate).           *)
Respond(p) ==
    /\ ChatAt(p, "handle")
    /\ Recorded(p)
    /\ session' = [session EXCEPT ![p].pc = "stage", ![p].next = NextSequence(p) + 1]
    /\ UNCHANGED <<storeVars, decisions, torn>>

Stage(p) ==
    /\ ChatAt(p, "stage") /\ Candidates \notin torn
    /\ decisions' = IF session[p].event \in CandidatesIn(decisions) THEN decisions
                    ELSE Append(decisions, Candidate(session[p].event))
    /\ session' = [session EXCEPT ![p] = [Closed EXCEPT !.pc = "prompt", !.log = session[p].log,
                                                  !.next = session[p].next]]
    /\ UNCHANGED <<storeVars, events, torn>>
----------------------------------------------------------------------------
(* /exit, an error that no command catches, a kill. *)
Leave(p) ==
    /\ ~ChatAt(p, "closed")
    /\ session' = [session EXCEPT ![p] = Closed]
    /\ UNCHANGED <<storeVars, events, decisions, torn>>

(* The disk is full, or the machine stops, in the middle of an append. *)
Tear(p, l) ==
    /\ l = IF session[p].pc \in {"decide", "dismiss", "stage"} THEN Candidates ELSE session[p].log
    /\ session[p].pc \in {"prompt", "handle", "reply", "decide", "dismiss", "stage"}
    /\ l \notin torn /\ torn' = torn \cup {l}
    /\ session' = [session EXCEPT ![p] = Closed]
    /\ UNCHANGED <<storeVars, events, decisions>>

InitConversation ==
    /\ events = [l \in Log |-> <<>>] /\ decisions = <<>> /\ torn = {}
    /\ session = [p \in Chat |-> Closed]

ChatStep(p) ==
    \/ Utter(p) \/ Remember(p) \/ Approve(p) \/ Testify(p) \/ Tombstone(p) \/ Correct(p)
    \/ AppendDecision(p, "decide", "approved", session[p].card) \/ AppendDecision(p, "dismiss", "dismissed", Nobody)
    \/ \E e \in PendingCandidates : Choose(p, e, "approve") \/ Choose(p, e, "dismiss")
    \/ \E c \in CardOf(store) : Select(p, c, "testify") \/ Select(p, c, "correct")
    \/ Answer(p) \/ Reply(p) \/ Respond(p) \/ Stage(p) \/ Leave(p)
    \/ \E l \in Log \cup {Candidates} : Tear(p, l)

ConversationTypeOK ==
    /\ \A l \in Log : \A i \in 1 .. Len(events[l]) : events[l][i] \in Nat
    /\ \A i \in Rows : decisions[i].type \in {"candidate", "approved", "dismissed"}
    /\ torn \subseteq Log \cup {Candidates}
    /\ \A p \in Chat :
          /\ session[p].pc \in {"closed", "prompt", "handle", "approve", "decide", "dismiss",
                            "testify", "tombstone", "correct", "reply", "stage"}
          /\ session[p].log \in Log \cup {NoEvent}

----------------------------------------------------------------------------
(* What verify_conversation_memory accepts *)

EventSources(s) == {x \in s.sources : x.type \in {"event", "forget"}}

OnceDecided(rows) ==
    \A i, j \in 1 .. Len(rows) :
        rows[i].type # "candidate" /\ rows[j].type # "candidate" /\ rows[i].event = rows[j].event
        => i = j

Backed(s, row) ==
    /\ row.card \in CardOf(s)
    /\ \E x \in SourcesOf(s, row.card) : x.ref = row.event

Genuine(log, rows) ==
    /\ \A l \in Log : \A i \in 1 .. Len(log[l]) : log[l][i] = i - 1
    /\ \A e \in CandidatesIn(rows) : Durable(log, e)
    /\ DecidedIn(rows) \subseteq CandidatesIn(rows)
    /\ OnceDecided(rows)

\* Does not look at the evidence of the cards.
VerifiesLogs(log, rows, broken, s) == broken = {} /\ Genuine(log, rows)

Verifies(log, rows, broken, s) ==
    /\ broken = {} /\ Genuine(log, rows)
    /\ \A x \in EventSources(s) : Durable(log, x.ref)
    /\ \A i \in 1 .. Len(rows) : rows[i].type = "approved" => Backed(s, rows[i])

----------------------------------------------------------------------------
(* Properties *)

(* The number of an event is its place in the log, although several processes  *)
(* write one log and each keeps a number of its own (record_event); a source   *)
(* reference names one event.                                                  *)
SequenceIsPlace ==
    \A l \in Log : \A i \in 1 .. Len(events[l]) : events[l][i] = i - 1

(* What a card or a candidate quotes is on disk: the event was appended before *)
(* the card was written, whoever was killed, and a restored backup has both.   *)
EvidenceIsDurable ==
    /\ \A x \in EventSources(store) : Durable(events, x.ref)
    /\ \A e \in CandidatesIn(decisions) : Durable(events, e)

(* An approval names a card that has the candidate's event among its evidence, *)
(* though the approval is a write to another file than the card.               *)
ApprovedIsBacked ==
    \A i \in Rows : decisions[i].type = "approved" => Backed(store, decisions[i])

(* verify_conversation_memory (conversation_memory.py:222) takes a candidate   *)
(* with two terminal decisions for damage, so the commands must not write two. *)
DecidedOnce == OnceDecided(decisions)
=============================================================================
