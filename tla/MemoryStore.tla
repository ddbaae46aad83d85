---------------------------- MODULE MemoryStore ----------------------------
(***************************************************************************)
(* memory_store.py: the local store of memory cards, the evidence each card *)
(* is bound to and the events that retire cards.  A write holds the store's *)
(* lock and a BEGIN IMMEDIATE transaction from its first read to its last   *)
(* write, so it is one step: an operator from a store to a store.           *)
(* Cards have the numbers 1, 2, ... in the order they were recorded; one    *)
(* workspace and its user are modelled, so scopes are left out.             *)
(***************************************************************************)
EXTENDS Integers, Sequences, FiniteSetsExt

CONSTANTS
    Anchor,     \* identity anchors, and texts of cards that have none
    Nobody,     \* no card
    MaxNow      \* bound on the ticks of the clock

ASSUME StoreAssumption == MaxNow \in Nat

VARIABLES
    store,      \* the database: cards, card_events, sources and edges
    now         \* time.time_ns(), which may stand still between two writes

storeVars == <<store, now>>

CardKind == {"workflow", "repair", "explicit"}
Retired == {"superseded", "stale", "tombstoned"}

(* What a caller passes to the store: kind and subtype, the anchor, the    *)
(* moment it is valid from, and the length of its value.                    *)
CardDraft(kind, anchor, from, chars) ==
    [kind |-> kind, anchor |-> anchor, from |-> from, chars |-> chars]

CardOf(s) == 1 .. Len(s.cards)

NextCard(s) == Len(s.cards) + 1

----------------------------------------------------------------------------
(* Reads *)

(* The order of card_events: by time, and by row where the time is the same. *)
NoLaterThan(s, i, j) ==
    \/ s.events[i].at < s.events[j].at
    \/ s.events[i].at = s.events[j].at /\ i <= j

(* A status is the last of the card's events, in that order. *)
Status(s, c) ==
    LET mine == {i \in 1 .. Len(s.events) : s.events[i].card = c}
        last == CHOOSE i \in mine : \A j \in mine : NoLaterThan(s, j, i)
    IN  s.events[last].status

(* list_cards *)
ActiveCards(s) == {c \in CardOf(s) : Status(s, c) = "active"}

CharsOf(s, cards) == MapThenSumSet(LAMBDA c : s.cards[c].chars, cards)

SourcesOf(s, c) == {x \in s.sources : x.card = c}

(* The newest by valid_from, the one recorded last where they are the same. *)
NewestOf(s, cards) ==
    CHOOSE c \in cards : \A d \in cards :
        \/ s.cards[d].from < s.cards[c].from
        \/ s.cards[d].from = s.cards[c].from /\ d <= c

----------------------------------------------------------------------------
(* Writes; evidence that is there already is not added again *)

WithEvent(s, c, status) ==
    [s EXCEPT !.events = Append(@, [card |-> c, status |-> status, at |-> now])]

WithSource(s, c, type, ref) ==
    [s EXCEPT !.sources = @ \cup {[card |-> c, type |-> type, ref |-> ref]}]

WithCard(s, draft) ==
    WithEvent([s EXCEPT !.cards = Append(@, draft)], NextCard(s), "active")

Superseded(s, new, old) ==
    WithEvent([s EXCEPT !.edges = @ \cup {<<new, old>>}], old, "superseded")

AllSuperseded(s, new, olds) ==
    FoldSet(LAMBDA old, t : Superseded(t, new, old), s, olds)

(* add_card_once_for_source: the card of this kind with this evidence, of any *)
(* status, or none.                                                           *)
CardFor(s, kind, type, ref) ==
    {c \in CardOf(s) : s.cards[c].kind = kind /\ [card |-> c, type |-> type, ref |-> ref] \in s.sources}

\* Brings the card back.
OnceRevived(s, draft, type, ref) ==
    LET there == CardFor(s, draft.kind, type, ref)
    IN  IF there = {}
        THEN [store |-> WithSource(WithCard(s, draft), NextCard(s), type, ref),
              card |-> NextCard(s)]
        ELSE [store |-> WithEvent(s, Min(there), "active"), card |-> Min(there)]

OnceFor(s, draft, type, ref) ==
    LET there == CardFor(s, draft.kind, type, ref)
    IN  IF there = {}
        THEN [store |-> WithSource(WithCard(s, draft), NextCard(s), type, ref),
              card |-> NextCard(s)]
        ELSE [store |-> s, card |-> Min(there)]

(* upsert_scoped_singleton.  An observation older than the newest active card *)
(* of another identity is history: it joins the last retired card of its own  *)
(* identity, or is recorded as superseded.                                    *)
\* Leaves the late observation active.
LateArrival(s, draft, type, ref, active) ==
    WithSource(WithCard(s, draft), NextCard(s), type, ref)

StaleArrival(s, draft, type, ref, active) ==
    LET newest == NewestOf(s, active)
        t == AllSuperseded(s, newest, active \ {newest})
        past == {c \in CardOf(s) : s.cards[c].kind = draft.kind /\ s.cards[c].anchor = draft.anchor
                                   /\ c \notin active}
        added == WithSource(WithCard(t, draft), NextCard(t), type, ref)
    IN  IF past # {}
        THEN WithSource(t, Max(past), type, ref)
        ELSE Superseded(added, newest, NextCard(t))

(* One that an active card states joins the newest such card, which is left  *)
(* as it is but for its evidence; the other active cards are superseded.     *)
Merged(s, type, ref, active, stated) ==
    LET canonical == NewestOf(s, stated)
    IN  AllSuperseded(WithSource(s, canonical, type, ref), canonical, active \ {canonical})

(* One that no active card states is a new revision. *)
Revised(s, draft, type, ref, active) ==
    AllSuperseded(WithSource(WithCard(s, draft), NextCard(s), type, ref), NextCard(s), active)

IsStale(s, draft, active) ==
    /\ active # {}
    /\ draft.from < s.cards[NewestOf(s, active)].from
    /\ draft.anchor # s.cards[NewestOf(s, active)].anchor

Upserted(s, draft, type, ref) ==
    LET active == {c \in ActiveCards(s) : s.cards[c].kind = draft.kind}
        stated == {c \in active : s.cards[c].anchor = draft.anchor}
    IN  IF IsStale(s, draft, active) THEN StaleArrival(s, draft, type, ref, active)
        ELSE IF stated # {} THEN Merged(s, type, ref, active, stated)
        ELSE Revised(s, draft, type, ref, active)

(* supersede: the status of the old card is not looked at. *)
Replaced(s, old, draft, type, ref) ==
    Superseded(WithSource(WithCard(s, draft), NextCard(s), type, ref), NextCard(s), old)

----------------------------------------------------------------------------
EmptyStore == [cards |-> <<>>, events |-> <<>>, sources |-> {}, edges |-> {}]

InitStore == store = EmptyStore /\ now = 0

Tick == now < MaxNow /\ now' = now + 1 /\ UNCHANGED store

----------------------------------------------------------------------------
StoreTypeOK ==
    /\ now \in 0 .. MaxNow
    /\ \A c \in CardOf(store) :
          /\ store.cards[c].kind \in CardKind /\ store.cards[c].anchor \in Anchor
          /\ \E i \in 1 .. Len(store.events) :
                store.events[i].card = c /\ store.events[i].status = "active"
    /\ \A i \in 1 .. Len(store.events) :
          /\ store.events[i].card \in CardOf(store)
          /\ store.events[i].status \in Retired \cup {"active"}
    /\ \A x \in store.sources : x.card \in CardOf(store)
    /\ store.edges \subseteq CardOf(store) \X CardOf(store)

(* A card that was superseded, retired as stale or tombstoned is never active *)
(* again, whatever is admitted, replayed or corrected later, and at the same  *)
(* clock reading too: no write of memory_store.py brings it back.  (A purge   *)
(* leaves no card, and a restore starts from none.)                           *)
RetiredStaysRetired ==
    [][CardOf(store) \subseteq CardOf(store') =>
          \A c \in CardOf(store) :
              Status(store, c) # "active" => Status(store', c) # "active"]_storeVars
=============================================================================
