---------------------------- MODULE StoreProofs ----------------------------
(* Proofs about the local memory store, for any number of cards, texts and *)
(* writes: what its writes keep; recalls; the admission of receipts, for    *)
(* any number of processes and receipts and any capacity; the chats, their  *)
(* logs, candidates and backups, for any number of each; and about the      *)
(* retention of memory_core, for any policy and kinds of memories.          *)
EXTENDS Admission, Recall, Retention, MemoryBackup, FiniteSetTheorems, SequenceTheorems, TLAPS

----------------------------------------------------------------------------
(* Numbers: an induction is an argument about the smallest of a set. *)

LEMMA SmallestIsThere ==
    ASSUME NEW S \in SUBSET Nat, S # {} PROVE Min(S) \in S /\ \A y \in S : Min(S) <= y
  <1>1. PICK x \in S : \A y \in S : ~(<<y, x>> \in OpToRel(<, Nat))
    BY NatLessThanWellFounded, WFMin
  <1>2. ASSUME NEW y \in S PROVE x <= y
    <2>1. x \in Nat /\ y \in Nat
      OBVIOUS
    <2>2. y < x => <<y, x>> \in OpToRel(<, Nat)
      BY <2>1 DEF OpToRel
    <2>3. ~(<<y, x>> \in OpToRel(<, Nat))
      BY <1>1
    <2>4. ~(y < x)
      BY <2>2, <2>3
    <2>. QED
      BY ONLY <2>1, <2>4
  <1>. QED
    BY <1>2 DEF Min

LEMMA LargestIsThere ==
    ASSUME NEW n \in Nat, NEW S \in SUBSET (0 .. n), S # {}
    PROVE  Max(S) \in S /\ \A y \in S : y <= Max(S)
  <1> DEFINE T == {n - y : y \in S}
  <1>1. T \in SUBSET Nat /\ T # {}
    <2>1. \A y \in 0 .. n : n - y \in Nat
      OBVIOUS
    <2>. QED
      BY <2>1
  <1>2. Min(T) \in T /\ \A z \in T : Min(T) <= z
    BY <1>1, SmallestIsThere
  <1>3. PICK x \in S : Min(T) = n - x
    BY <1>2
  <1>4. ASSUME NEW y \in S PROVE x >= y
    <2>1. n - y \in T /\ x \in 0 .. n /\ y \in 0 .. n
      OBVIOUS
    <2>2. n - x <= n - y
      BY <1>2, <1>3, <2>1
    <2>. QED
      BY <2>1, <2>2
  <1>5. Max(S) \in S /\ \A y \in S : Max(S) >= y
    BY <1>4 DEF Max
  <1>6. ASSUME NEW y \in S PROVE y <= Max(S)
    BY <1>5
  <1>. QED
    BY <1>5, <1>6

----------------------------------------------------------------------------
(* The store, and what writes keep *)

Card == [kind : CardKind, anchor : Anchor, from : Nat, chars : Nat]
StateEvent == [card : Nat, status : Retired \cup {"active"}, at : Nat]

(* Sources are of the given set, which has a field for the card. *)
Store(Source) ==
    [cards : Seq(Card), events : Seq(StateEvent), sources : SUBSET Source,
     edges : SUBSET (Nat \X Nat)]

(* The clock never goes back. *)
Timed(s) ==
    /\ \A i, j \in 1 .. Len(s.events) : i <= j => s.events[i].at <= s.events[j].at
    /\ \A i \in 1 .. Len(s.events) : s.events[i].at <= now

(* Every card became active once. *)
Born(s) ==
    \A c \in CardOf(s) : \E i \in 1 .. Len(s.events) :
        s.events[i].card = c /\ s.events[i].status = "active"

(* What writes make of a store: rows are added, and a card that was there is *)
(* only retired.                                                             *)
Later(s, t) ==
    /\ Len(s.cards) <= Len(t.cards) /\ \A c \in CardOf(s) : t.cards[c] = s.cards[c]
    /\ Len(s.events) <= Len(t.events) /\ \A i \in 1 .. Len(s.events) : t.events[i] = s.events[i]
    /\ \A i \in Len(s.events) + 1 .. Len(t.events) :
          /\ t.events[i].at = now
          /\ t.events[i].card \in CardOf(s) => t.events[i].status # "active"
    /\ s.sources \subseteq t.sources /\ s.edges \subseteq t.edges

StaysRetired(s, t) == \A c \in CardOf(s) : Status(s, c) # "active" => Status(t, c) # "active"

IsLast(s, c, i) ==
    /\ i \in 1 .. Len(s.events) /\ s.events[i].card = c
    /\ \A j \in 1 .. Len(s.events) : s.events[j].card = c => j <= i

LEMMA StoreNumbers ==
    ASSUME NEW Source, NEW s \in Store(Source)
    PROVE  /\ Len(s.cards) \in Nat /\ Len(s.events) \in Nat /\ NextCard(s) \in Nat \ {0}
           /\ CardOf(s) \subseteq Nat
           /\ \A c \in CardOf(s) : s.cards[c] \in Card
           /\ \A i \in 1 .. Len(s.events) : s.events[i] \in StateEvent /\ s.events[i].at \in Nat
  <1>1. s.cards \in Seq(Card) /\ s.events \in Seq(StateEvent)
    BY DEF Store
  <1>2. \A i \in 1 .. Len(s.events) : s.events[i] \in StateEvent
    BY <1>1
  <1>3. \A e \in StateEvent : e.at \in Nat
    BY DEF StateEvent
  <1>. QED
    BY <1>1, <1>2, <1>3 DEF NextCard, CardOf

LEMMA LastIsThere ==
    ASSUME NEW Source, NEW s \in Store(Source), NEW c, NEW i \in 1 .. Len(s.events),
           s.events[i].card = c
    PROVE  \E k : IsLast(s, c, k)
  <1> DEFINE mine == {k \in 1 .. Len(s.events) : s.events[k].card = c}
  <1>1. Len(s.events) \in Nat
    BY StoreNumbers
  <1>2. mine \in SUBSET (0 .. Len(s.events)) /\ mine # {}
    BY <1>1
  <1>3. Max(mine) \in mine /\ \A y \in mine : y <= Max(mine)
    BY <1>1, <1>2, LargestIsThere
  <1>4. IsLast(s, c, Max(mine))
    BY <1>3 DEF IsLast
  <1>. QED
    BY <1>4

LEMMA LastIsStatus ==
    ASSUME NEW Source, NEW s \in Store(Source), Timed(s), NEW c, NEW i, IsLast(s, c, i)
    PROVE  Status(s, c) = s.events[i].status
  <1> DEFINE mine == {k \in 1 .. Len(s.events) : s.events[k].card = c}
             last == CHOOSE k \in mine : \A j \in mine : NoLaterThan(s, j, k)
  <1>1. Len(s.events) \in Nat /\ \A k \in mine : s.events[k].at \in Nat
    BY StoreNumbers
  <1>2. i \in mine /\ \A j \in mine : j <= i
    BY DEF IsLast
  <1>3. \A j \in mine : NoLaterThan(s, j, i)
    <2> SUFFICES ASSUME NEW j \in mine PROVE NoLaterThan(s, j, i)
      OBVIOUS
    <2>1. j <= i /\ s.events[j].at <= s.events[i].at
      BY <1>2 DEF Timed
    <2>. QED
      BY <1>1, <1>2, <2>1 DEF NoLaterThan
  <1>4. last \in mine /\ NoLaterThan(s, i, last)
    BY <1>2, <1>3
  <1>. HIDE DEF last
  <1>5. last <= i /\ s.events[last].at <= s.events[i].at
    BY <1>2, <1>4 DEF Timed
  <1>6. last = i
    BY <1>1, <1>2, <1>4, <1>5 DEF NoLaterThan
  <1>. QED
    BY <1>6 DEF Status, last

LEMMA LaterIsReflexive ==
    ASSUME NEW Source, NEW s \in Store(Source) PROVE Later(s, s)
  BY StoreNumbers DEF Later

LEMMA LaterIsTransitive ==
    ASSUME NEW Source, NEW s \in Store(Source), NEW t \in Store(Source), NEW u \in Store(Source),
           Later(s, t), Later(t, u)
    PROVE  Later(s, u)
  <1>1. /\ Len(s.cards) \in Nat /\ Len(t.cards) \in Nat /\ Len(u.cards) \in Nat
        /\ Len(s.events) \in Nat /\ Len(t.events) \in Nat /\ Len(u.events) \in Nat
    BY StoreNumbers
  <1>2. CardOf(s) \subseteq CardOf(t)
    BY <1>1 DEF Later, CardOf
  <1>3. /\ Len(s.cards) <= Len(u.cards) /\ Len(s.events) <= Len(u.events)
        /\ \A c \in CardOf(s) : u.cards[c] = s.cards[c]
    BY <1>1, <1>2 DEF Later
  <1>4. \A i \in 1 .. Len(s.events) : u.events[i] = s.events[i]
    BY <1>1 DEF Later
  <1>5. ASSUME NEW i \in Len(s.events) + 1 .. Len(u.events)
        PROVE  u.events[i].at = now /\ (u.events[i].card \in CardOf(s) => u.events[i].status # "active")
    <2>1. CASE i \in Len(s.events) + 1 .. Len(t.events)
      <3>1. i \in 1 .. Len(t.events)
        BY <1>1, <2>1
      <3>. QED
        BY <2>1, <3>1 DEF Later
    <2>2. CASE i \in Len(t.events) + 1 .. Len(u.events)
      BY <1>2, <2>2 DEF Later
    <2>. QED
      BY <1>1, <2>1, <2>2
  <1>. QED
    BY <1>3, <1>4, <1>5 DEF Later

(* No write brings a retired card back. *)
LEMMA LaterKeeps ==
    ASSUME NEW Source, NEW s \in Store(Source), NEW t \in Store(Source), now \in Nat,
           Timed(s), Born(s), Later(s, t)
    PROVE  Timed(t) /\ CardOf(s) \subseteq CardOf(t) /\ StaysRetired(s, t)
  <1>1. /\ Len(s.cards) \in Nat /\ Len(t.cards) \in Nat
        /\ Len(s.events) \in Nat /\ Len(t.events) \in Nat
        /\ \A i \in 1 .. Len(s.events) : s.events[i].at \in Nat
        /\ \A i \in 1 .. Len(t.events) : t.events[i].at \in Nat
    BY StoreNumbers
  <1>2. CardOf(s) \subseteq CardOf(t)
    BY <1>1 DEF Later, CardOf
  <1>3. /\ Len(s.events) <= Len(t.events)
        /\ \A i \in 1 .. Len(s.events) : t.events[i] = s.events[i]
        /\ \A i \in Len(s.events) + 1 .. Len(t.events) : t.events[i].at = now
    BY DEF Later
  <1>4. Timed(t)
    <2>1. ASSUME NEW i \in 1 .. Len(t.events) PROVE t.events[i].at <= now
      <3>1. CASE i \in 1 .. Len(s.events)
        <4>1. s.events[i].at <= now
          BY ONLY Timed(s), <3>1 DEF Timed
        <4>. QED
          BY ONLY <1>3, <3>1, <4>1
      <3>2. CASE i \in Len(s.events) + 1 .. Len(t.events)
        <4>1. t.events[i].at = now
          BY ONLY <1>3, <3>2
        <4>. QED
          BY ONLY now \in Nat, <4>1
      <3>. QED
        BY ONLY <1>1, <2>1, <3>1, <3>2
    <2>2. ASSUME NEW i \in 1 .. Len(t.events), NEW j \in 1 .. Len(t.events), i <= j
          PROVE  t.events[i].at <= t.events[j].at
      <3>1. CASE j \in 1 .. Len(s.events)
        <4>1. i \in 1 .. Len(s.events)
          BY <1>1, <2>2, <3>1
        <4>. QED
          BY <1>3, <2>2, <3>1, <4>1 DEF Timed
      <3>2. CASE j \in Len(s.events) + 1 .. Len(t.events)
        BY <1>3, <2>1, <3>2
      <3>. QED
        BY <1>1, <3>1, <3>2
    <2>. QED
      BY <2>1, <2>2 DEF Timed
  <1>5. ASSUME NEW c \in CardOf(s), Status(s, c) # "active" PROVE Status(t, c) # "active"
    <2>1. PICK b \in 1 .. Len(s.events) : s.events[b].card = c
      BY DEF Born
    <2>2. PICK i : IsLast(s, c, i)
      BY <2>1, LastIsThere
    <2>3. s.events[i].status # "active" /\ i \in 1 .. Len(s.events)
      BY <1>5, <2>2, LastIsStatus DEF IsLast
    <2>4. b \in 1 .. Len(t.events) /\ t.events[b].card = c
      BY <1>1, <1>3, <2>1
    <2>5. PICK k : IsLast(t, c, k)
      BY <2>4, LastIsThere
    <2>6. Status(t, c) = t.events[k].status /\ k \in 1 .. Len(t.events) /\ t.events[k].card = c
      BY <1>4, <2>5, LastIsStatus DEF IsLast
    <2>7. CASE k \in 1 .. Len(s.events)
      <3>1. s.events[k].card = c /\ k <= i
        BY <1>3, <2>2, <2>6, <2>7 DEF IsLast
      <3>2. i \in 1 .. Len(t.events) /\ t.events[i].card = c
        BY <1>1, <1>3, <2>2, <2>3 DEF IsLast
      <3>3. i <= k
        BY <2>5, <3>2 DEF IsLast
      <3>4. i = k
        BY <1>1, <2>3, <2>7, <3>1, <3>3
      <3>. QED
        BY <1>3, <2>3, <2>6, <3>4
    <2>8. CASE k \in Len(s.events) + 1 .. Len(t.events)
      BY <2>6, <2>8 DEF Later
    <2>. QED
      BY <1>1, <2>6, <2>7, <2>8
  <1>. QED
    BY <1>2, <1>4, <1>5 DEF StaysRetired

----------------------------------------------------------------------------
(* The parts of a write *)

LEMMA EventWrites ==
    ASSUME NEW Source, NEW s \in Store(Source), NEW c \in Nat,
           NEW status \in Retired \cup {"active"}, now \in Nat
    PROVE  LET t == WithEvent(s, c, status)
           IN  /\ t \in Store(Source) /\ t.cards = s.cards /\ t.sources = s.sources
               /\ t.edges = s.edges
               /\ t.events = Append(s.events, [card |-> c, status |-> status, at |-> now])
  <1> DEFINE rows == Append(s.events, [card |-> c, status |-> status, at |-> now])
  <1>1. rows \in Seq(StateEvent)
    <2>1. [card |-> c, status |-> status, at |-> now] \in StateEvent /\ s.events \in Seq(StateEvent)
      BY DEF StateEvent, Store
    <2>. QED
      BY <2>1
  <1>2. WithEvent(s, c, status) = [s EXCEPT !.events = rows]
    BY DEF WithEvent, Store
  <1>. HIDE DEF rows
  <1>3. LET t == WithEvent(s, c, status)
        IN  /\ t \in Store(Source) /\ t.cards = s.cards /\ t.sources = s.sources
            /\ t.edges = s.edges /\ t.events = rows
    BY <1>1, <1>2 DEF Store
  <1>. QED
    BY <1>3 DEF rows

LEMMA SourceWrites ==
    ASSUME NEW Source, NEW s \in Store(Source), NEW c, NEW type, NEW ref,
           [card |-> c, type |-> type, ref |-> ref] \in Source
    PROVE  LET t == WithSource(s, c, type, ref)
           IN  /\ t \in Store(Source) /\ t.cards = s.cards /\ t.events = s.events
               /\ t.edges = s.edges
               /\ t.sources = s.sources \cup {[card |-> c, type |-> type, ref |-> ref]}
  <1> DEFINE found == s.sources \cup {[card |-> c, type |-> type, ref |-> ref]}
  <1>1. found \in SUBSET Source
    BY DEF Store
  <1>2. WithSource(s, c, type, ref) = [s EXCEPT !.sources = found]
    BY DEF WithSource, Store
  <1>. HIDE DEF found
  <1>3. LET t == WithSource(s, c, type, ref)
        IN  /\ t \in Store(Source) /\ t.cards = s.cards /\ t.events = s.events
            /\ t.edges = s.edges /\ t.sources = found
    BY <1>1, <1>2 DEF Store
  <1>. QED
    BY <1>3 DEF found

LEMMA EdgeWrites ==
    ASSUME NEW Source, NEW s \in Store(Source), NEW c \in Nat, NEW d \in Nat
    PROVE  LET t == [s EXCEPT !.edges = s.edges \cup {<<c, d>>}]
           IN  /\ t \in Store(Source) /\ t.cards = s.cards /\ t.events = s.events
               /\ t.sources = s.sources /\ t.edges = s.edges \cup {<<c, d>>}
  <1> DEFINE more == s.edges \cup {<<c, d>>}
  <1>1. more \in SUBSET (Nat \X Nat)
    BY DEF Store
  <1>. HIDE DEF more
  <1>2. LET t == [s EXCEPT !.edges = more]
        IN  /\ t \in Store(Source) /\ t.cards = s.cards /\ t.events = s.events
            /\ t.sources = s.sources /\ t.edges = more
    BY <1>1 DEF Store
  <1>. QED
    BY <1>2 DEF more

LEMMA CardWrites ==
    ASSUME NEW Source, NEW s \in Store(Source), NEW draft \in Card, now \in Nat
    PROVE  LET t == WithCard(s, draft)
           IN  /\ t \in Store(Source) /\ t.cards = Append(s.cards, draft)
               /\ t.sources = s.sources /\ t.edges = s.edges
               /\ t.events = Append(s.events, [card |-> NextCard(s), status |-> "active", at |-> now])
  <1> DEFINE longer == Append(s.cards, draft)
             u == [s EXCEPT !.cards = longer]
  <1>1. longer \in Seq(Card) /\ NextCard(s) \in Nat
    <2>1. s.cards \in Seq(Card)
      BY DEF Store
    <2>. QED
      BY <2>1, StoreNumbers
  <1>2. WithCard(s, draft) = WithEvent(u, NextCard(s), "active")
    BY DEF WithCard, Store
  <1>. HIDE DEF longer
  <1>3. /\ u \in Store(Source) /\ u.cards = longer /\ u.sources = s.sources /\ u.edges = s.edges
        /\ u.events = s.events
    BY <1>1 DEF Store
  <1>. HIDE DEF u
  <1>4. LET t == WithEvent(u, NextCard(s), "active")
        IN  /\ t \in Store(Source) /\ t.cards = u.cards /\ t.sources = u.sources /\ t.edges = u.edges
            /\ t.events = Append(u.events, [card |-> NextCard(s), status |-> "active", at |-> now])
    <2>1. u \in Store(Source) /\ NextCard(s) \in Nat /\ "active" \in Retired \cup {"active"}
      BY <1>1, <1>3
    <2>. QED
      BY ONLY <2>1, now \in Nat, EventWrites
  <1>. QED
    BY <1>2, <1>3, <1>4 DEF longer

LEMMA SupersededWrites ==
    ASSUME NEW Source, NEW s \in Store(Source), NEW new \in Nat, NEW old \in Nat, now \in Nat
    PROVE  LET t == Superseded(s, new, old)
           IN  /\ t \in Store(Source) /\ t.cards = s.cards /\ t.sources = s.sources
               /\ t.edges = s.edges \cup {<<new, old>>}
               /\ t.events = Append(s.events, [card |-> old, status |-> "superseded", at |-> now])
  <1> DEFINE u == [s EXCEPT !.edges = s.edges \cup {<<new, old>>}]
  <1>1. /\ u \in Store(Source) /\ u.cards = s.cards /\ u.events = s.events
        /\ u.sources = s.sources /\ u.edges = s.edges \cup {<<new, old>>}
    BY EdgeWrites
  <1>2. Superseded(s, new, old) = WithEvent(u, old, "superseded")
    BY DEF Superseded, Store
  <1>. HIDE DEF u
  <1>3. "superseded" \in Retired \cup {"active"}
    BY DEF Retired
  <1>4. u \in Store(Source) /\ old \in Nat /\ now \in Nat
    BY <1>1
  <1>5. LET t == WithEvent(u, old, "superseded")
        IN  /\ t \in Store(Source) /\ t.cards = u.cards /\ t.sources = u.sources /\ t.edges = u.edges
            /\ t.events = Append(u.events, [card |-> old, status |-> "superseded", at |-> now])
    BY ONLY <1>3, <1>4, EventWrites
  <1>. QED
    BY <1>1, <1>2, <1>5

----------------------------------------------------------------------------
(* A write, as the rows it adds *)

(* A card with its evidence. *)
LEMMA NewCardLater ==
    ASSUME NEW Source, NEW s \in Store(Source), NEW draft \in Card, NEW type, NEW ref, now \in Nat,
           [card |-> NextCard(s), type |-> type, ref |-> ref] \in Source, Born(s)
    PROVE  LET t == WithSource(WithCard(s, draft), NextCard(s), type, ref)
           IN  /\ t \in Store(Source) /\ Later(s, t) /\ Born(t)
               /\ t.cards = Append(s.cards, draft) /\ t.edges = s.edges
               /\ t.events = Append(s.events, [card |-> NextCard(s), status |-> "active", at |-> now])
               /\ t.sources = s.sources \cup {[card |-> NextCard(s), type |-> type, ref |-> ref]}
  <1> DEFINE u == WithCard(s, draft)
             t == WithSource(u, NextCard(s), type, ref)
             e == [card |-> NextCard(s), status |-> "active", at |-> now]
  <1>1. /\ u \in Store(Source) /\ u.cards = Append(s.cards, draft)
        /\ u.sources = s.sources /\ u.edges = s.edges /\ u.events = Append(s.events, e)
    BY CardWrites
  <1>. HIDE DEF u
  <1>2. /\ t \in Store(Source) /\ t.cards = Append(s.cards, draft) /\ t.edges = s.edges
        /\ t.events = Append(s.events, e)
        /\ t.sources = s.sources \cup {[card |-> NextCard(s), type |-> type, ref |-> ref]}
    BY <1>1, SourceWrites
  <1>. HIDE DEF t
  <1>3. e.card = NextCard(s) /\ e.status = "active" /\ e.at = now
    OBVIOUS
  <1>4. /\ s.cards \in Seq(Card) /\ s.events \in Seq(StateEvent) /\ e \in StateEvent
        /\ Len(s.cards) \in Nat /\ Len(s.events) \in Nat /\ NextCard(s) = Len(s.cards) + 1
    BY StoreNumbers DEF Store, StateEvent, NextCard
  <1>. HIDE DEF e
  <1>5. /\ Len(t.cards) = Len(s.cards) + 1 /\ Len(t.events) = Len(s.events) + 1
        /\ t.events[Len(s.events) + 1] = e
        /\ \A i \in 1 .. Len(s.events) : t.events[i] = s.events[i]
        /\ \A c \in 1 .. Len(s.cards) : t.cards[c] = s.cards[c]
    BY <1>2, <1>4
  <1>6. Later(s, t)
    BY <1>2, <1>3, <1>4, <1>5 DEF Later, CardOf
  <1>7. Born(t)
    <2> SUFFICES ASSUME NEW c \in CardOf(t)
                 PROVE  \E i \in 1 .. Len(t.events) : t.events[i].card = c /\ t.events[i].status = "active"
      BY DEF Born
    <2>1. CASE c = Len(s.cards) + 1
      BY <1>3, <1>4, <1>5, <2>1
    <2>2. CASE c \in 1 .. Len(s.cards)
      <3>1. PICK i \in 1 .. Len(s.events) : s.events[i].card = c /\ s.events[i].status = "active"
        BY <2>2 DEF Born, CardOf
      <3>. QED
        BY <1>4, <1>5, <3>1
    <2>. QED
      BY <1>4, <1>5, <2>1, <2>2 DEF CardOf
  <1>. QED
    BY <1>2, <1>6, <1>7 DEF t, u, e

(* A row of card_events that retires a card. *)
LEMMA RetiredLater ==
    ASSUME NEW Source, NEW s \in Store(Source), NEW t \in Store(Source), now \in Nat, Born(s),
           NEW c, NEW status, status # "active",
           t.cards = s.cards, s.sources \subseteq t.sources, s.edges \subseteq t.edges,
           t.events = Append(s.events, [card |-> c, status |-> status, at |-> now])
    PROVE  Later(s, t) /\ Born(t)
  <1> DEFINE e == [card |-> c, status |-> status, at |-> now]
  <1>1. e.card = c /\ e.status = status /\ e.at = now
    OBVIOUS
  <1>2. Len(s.cards) \in Nat /\ Len(s.events) \in Nat /\ t.events = Append(s.events, e)
        /\ s.events \in Seq(StateEvent)
    BY StoreNumbers DEF Store
  <1>. HIDE DEF e
  <1>3. /\ Len(t.events) = Len(s.events) + 1 /\ t.events[Len(s.events) + 1] = e
        /\ \A i \in 1 .. Len(s.events) : t.events[i] = s.events[i]
    BY <1>2
  <1>4. Later(s, t)
    BY <1>1, <1>2, <1>3 DEF Later, CardOf
  <1>5. Born(t)
    BY <1>2, <1>3 DEF Born, CardOf
  <1>. QED
    BY <1>4, <1>5

(* One that leaves cards and events as they are. *)
LEMMA SameLater ==
    ASSUME NEW Source, NEW s \in Store(Source), NEW t \in Store(Source), Born(s),
           t.cards = s.cards, t.events = s.events, s.sources \subseteq t.sources,
           s.edges \subseteq t.edges
    PROVE  Later(s, t) /\ Born(t)
  <1>1. Len(s.cards) \in Nat /\ Len(s.events) \in Nat
    BY StoreNumbers
  <1>2. Later(s, t)
    BY <1>1 DEF Later, CardOf
  <1>3. Born(t)
    BY DEF Born, CardOf
  <1>. QED
    BY <1>2, <1>3

(* supersede *)
LEMMA ReplacedLater ==
    ASSUME NEW Source, NEW s \in Store(Source), NEW old \in CardOf(s), NEW draft \in Card,
           NEW type, NEW ref, now \in Nat, Born(s),
           [card |-> NextCard(s), type |-> type, ref |-> ref] \in Source
    PROVE  LET t == Replaced(s, old, draft, type, ref)
               e == [card |-> NextCard(s), status |-> "active", at |-> now]
               f == [card |-> old, status |-> "superseded", at |-> now]
           IN  /\ t \in Store(Source) /\ Later(s, t) /\ Born(t)
               /\ t.cards = Append(s.cards, draft)
               /\ t.events = Append(Append(s.events, e), f)
               /\ t.sources = s.sources \cup {[card |-> NextCard(s), type |-> type, ref |-> ref]}
               /\ t.edges = s.edges \cup {<<NextCard(s), old>>}
  <1> DEFINE u == WithSource(WithCard(s, draft), NextCard(s), type, ref)
             t == Superseded(u, NextCard(s), old)
             e == [card |-> NextCard(s), status |-> "active", at |-> now]
             f == [card |-> old, status |-> "superseded", at |-> now]
  <1>1. /\ u \in Store(Source) /\ Later(s, u) /\ Born(u)
        /\ u.cards = Append(s.cards, draft) /\ u.edges = s.edges /\ u.events = Append(s.events, e)
        /\ u.sources = s.sources \cup {[card |-> NextCard(s), type |-> type, ref |-> ref]}
    BY NewCardLater
  <1>. HIDE DEF u
  <1>2. /\ old \in Nat /\ NextCard(s) \in Nat /\ now \in Nat
        /\ u \in Store(Source) /\ Born(u) /\ "superseded" # "active"
    BY <1>1, StoreNumbers
  <1>3. /\ t \in Store(Source) /\ t.cards = u.cards /\ t.sources = u.sources
        /\ t.edges = u.edges \cup {<<NextCard(s), old>>} /\ t.events = Append(u.events, f)
    BY ONLY <1>2, SupersededWrites DEF t
  <1>. HIDE DEF t
  <1>4. u.sources \subseteq t.sources /\ u.edges \subseteq t.edges
    BY <1>3
  <1>5. Later(u, t) /\ Born(t)
    BY ONLY <1>2, <1>3, <1>4, RetiredLater
  <1>6. Later(s, t)
    BY <1>1, <1>3, <1>5, LaterIsTransitive
  <1>. QED
    BY <1>1, <1>3, <1>5, <1>6 DEF Replaced, t, u

(* add_card_once_for_source: the card that is there, or a new one. *)
LEMMA OnceForLater ==
    ASSUME NEW Source, NEW s \in Store(Source), NEW draft \in Card,
           NEW type, NEW ref, now \in Nat, Born(s),
           [card |-> NextCard(s), type |-> type, ref |-> ref] \in Source
    PROVE  LET added == OnceFor(s, draft, type, ref)
               new == WithSource(WithCard(s, draft), NextCard(s), type, ref)
           IN  \/ /\ added.store = new /\ added.card = NextCard(s)
                  /\ CardFor(s, draft.kind, type, ref) = {}
               \/ /\ added.store = s /\ added.card \in CardFor(s, draft.kind, type, ref)
  <1> DEFINE there == CardFor(s, draft.kind, type, ref)
  <1>1. CASE there = {}
    BY <1>1 DEF OnceFor
  <1>2. CASE there # {}
    <2>1. there \in SUBSET Nat
      BY StoreNumbers DEF CardFor
    <2>2. Min(there) \in there
      BY <1>2, <2>1, SmallestIsThere
    <2>. QED
      BY <1>2, <2>2 DEF OnceFor
  <1>. QED
    BY <1>1, <1>2

----------------------------------------------------------------------------
(* Rows refer to cards (Intact of Recall) *)

LEMMA NewCardIntact ==
    ASSUME NEW Source, NEW s \in Store(Source), NEW t \in Store(Source), Intact(s), Born(t),
           NEW draft, NEW type, NEW ref, t.cards = Append(s.cards, draft), t.edges = s.edges,
           t.events = Append(s.events, [card |-> NextCard(s), status |-> "active", at |-> now]),
           t.sources = s.sources \cup {[card |-> NextCard(s), type |-> type, ref |-> ref]}
    PROVE  Intact(t)
  <1> DEFINE e == [card |-> NextCard(s), status |-> "active", at |-> now]
             x == [card |-> NextCard(s), type |-> type, ref |-> ref]
  <1>1. /\ Len(s.cards) \in Nat /\ Len(s.events) \in Nat /\ s.cards \in Seq(Card)
        /\ s.events \in Seq(StateEvent) /\ NextCard(s) = Len(s.cards) + 1
    BY StoreNumbers DEF Store, NextCard
  <1>2. e.card = NextCard(s) /\ x.card = NextCard(s)
    OBVIOUS
  <1>. HIDE DEF e, x
  <1>3. /\ Len(t.cards) = Len(s.cards) + 1 /\ Len(t.events) = Len(s.events) + 1
        /\ t.events[Len(s.events) + 1] = e
        /\ \A i \in 1 .. Len(s.events) : t.events[i] = s.events[i]
    BY <1>1 DEF e
  <1>4. CardOf(s) \subseteq CardOf(t) /\ NextCard(s) \in CardOf(t)
        /\ \A c \in CardOf(t) : c \in CardOf(s) \/ c = NextCard(s)
    BY <1>1, <1>3 DEF CardOf
  <1>5. \A i \in 1 .. Len(t.events) : t.events[i].card \in CardOf(t)
    BY <1>1, <1>2, <1>3, <1>4 DEF Intact
  <1>6. t.sources = s.sources \cup {x}
    BY DEF x
  <1>7. \A y \in t.sources : y.card \in CardOf(t)
    BY <1>2, <1>4, <1>6 DEF Intact
  <1>8. t.edges \subseteq CardOf(t) \X CardOf(t)
    BY <1>4 DEF Intact
  <1>9. \A c \in CardOf(t) : SourcesOf(t, c) # {}
    <2> SUFFICES ASSUME NEW c \in CardOf(t) PROVE \E y \in t.sources : y.card = c
      BY DEF SourcesOf
    <2>1. c \in CardOf(s) => \E y \in s.sources : y.card = c
      BY DEF Intact, SourcesOf
    <2>. QED
      BY <1>2, <1>4, <1>6, <2>1
  <1>. QED
    BY <1>5, <1>7, <1>8, <1>9 DEF Intact, Born

LEMMA RetiredIntact ==
    ASSUME NEW Source, NEW s \in Store(Source), NEW t \in Store(Source), Intact(s),
           NEW c \in CardOf(s), NEW status, NEW at,
           t.cards = s.cards, t.sources = s.sources, t.edges \subseteq CardOf(s) \X CardOf(s),
           t.events = s.events \/ t.events = Append(s.events, [card |-> c, status |-> status, at |-> at])
    PROVE  Intact(t)
  <1> DEFINE e == [card |-> c, status |-> status, at |-> at]
  <1>1. Len(s.events) \in Nat /\ s.events \in Seq(StateEvent) /\ CardOf(t) = CardOf(s)
    BY StoreNumbers DEF Store, CardOf
  <1>2. e.card = c /\ (t.events = s.events \/ t.events = Append(s.events, e))
    OBVIOUS
  <1>. HIDE DEF e
  <1>3. /\ \A i \in 1 .. Len(s.events) : i \in 1 .. Len(t.events) /\ t.events[i] = s.events[i]
        /\ \A i \in 1 .. Len(t.events) : i \in 1 .. Len(s.events) \/ t.events[i] = e
    BY <1>1, <1>2
  <1>4. \A i \in 1 .. Len(t.events) : t.events[i].card \in CardOf(t)
    BY <1>1, <1>2, <1>3 DEF Intact
  <1>5. \A d \in CardOf(t) : SourcesOf(t, d) # {} /\ \E i \in 1 .. Len(t.events) : t.events[i].card = d
    BY <1>1, <1>3 DEF Intact, SourcesOf
  <1>6. /\ \A x \in t.sources : x.card \in CardOf(t)
        /\ t.edges \subseteq CardOf(t) \X CardOf(t)
    BY <1>1 DEF Intact
  <1>. QED
    BY <1>4, <1>5, <1>6 DEF Intact

----------------------------------------------------------------------------
(* Recalls *)

RecallSource == [card : Nat, type : {"note"}, ref : Nat]

RecallPc == {"idle", "verify", "decisions", "rows", "statuses", "sources", "embed", "cache",
             "relations", "render", "done", "failed"}

RecallType ==
    [pc : RecallPc, ids : SUBSET Nat, rows : SUBSET Nat, active : SUBSET Nat, rest : SUBSET Nat,
     moment : Nat, scoped : SUBSET Nat, eligible : SUBSET Nat, near : SUBSET Nat,
     wanted : SUBSET Anchor, graph : SUBSET Nat, items : SUBSET Nat, shown : SUBSET Nat]

RecallSpec == InitStore /\ InitRecall /\ [][NextRecall]_<<storeVars, recallVars>>

(* What no write of another process changes. *)
StoreOK ==
    /\ now \in 0 .. MaxNow /\ store \in Store(RecallSource)
    /\ Timed(store) /\ Born(store) /\ Intact(store)

GoneOK == gone \subseteq CardOf(store) /\ \A c \in gone : Status(store, c) # "active"

(* What the recall may use. *)
UsableOf(r) == r.active \cup r.eligible \cup r.near \cup r.graph \cup r.items \cup r.shown

(* Nothing that is gone fits better than all that is not, by more than the margin. *)
NotOutdone ==
    \A c \in gone : Similar[TextOf(c)] >= MinExcluded =>
        \E d \in CardOf(store) \ gone : Similar[TextOf(c)] <= Similar[TextOf(d)] + MinMargin

NewDecision(r) == \E cards \in selected : Max(cards) > Max(r.ids)

(* What a recall has read: the cards that were gone when it began are among its  *)
(* rows, and it never uses one.                                                  *)
RecallOK(r) ==
    /\ r \in RecallType
    /\ r.rows \cup r.rest \cup r.scoped \cup UsableOf(r) \subseteq CardOf(store)
    /\ UsableOf(r) \cap gone = {}
    /\ r.eligible \subseteq r.scoped /\ r.near \cup r.graph \subseteq r.eligible
    /\ r.pc = "verify" => CardOf(store) # {}
    /\ r.pc \in {"decisions", "failed"} => \E n \in Nat \ {0} : r.ids = 1 .. n
    /\ r.pc = "failed" => NewDecision(r)
    /\ r.pc = "statuses" => gone \subseteq r.rows
    /\ r.pc = "sources" => gone \subseteq r.scoped \cup r.rest
    /\ r.pc \in {"embed", "cache", "relations"} => gone \subseteq r.scoped
    /\ r.items \cup r.shown # {} => NotOutdone

RecallInv ==
    /\ StoreOK /\ GoneOK /\ RecallOK(recall)
    /\ \A cards \in selected : cards \subseteq CardOf(store)
    /\ vectors \subseteq Anchor /\ changes \in 0 .. MaxChanges

LEMMA NoRecallOK ==
    /\ NoRecall \in RecallType /\ UsableOf(NoRecall) = {} /\ NoRecall.pc = "idle"
    /\ NoRecall.rows = {} /\ NoRecall.rest = {} /\ NoRecall.scoped = {} /\ NoRecall.eligible = {}
    /\ NoRecall.near = {} /\ NoRecall.graph = {} /\ NoRecall.items = {} /\ NoRecall.shown = {}
    /\ NoRecall.ids = {} /\ NoRecall.active = {}
  BY DEF NoRecall, RecallType, RecallPc, UsableOf

LEMMA RecallStarts == InitStore /\ InitRecall => RecallInv
  <1> SUFFICES ASSUME InitStore, InitRecall PROVE RecallInv
    OBVIOUS
  <1>1. store = EmptyStore /\ now = 0 /\ recall = NoRecall /\ selected = {} /\ vectors = {}
        /\ gone = {} /\ changes = 0
    BY DEF InitStore, InitRecall
  <1>2. EmptyStore \in Store(RecallSource)
    BY DEF EmptyStore, Store
  <1>3. EmptyStore.cards = <<>> /\ EmptyStore.events = <<>> /\ EmptyStore.sources = {}
        /\ EmptyStore.edges = {}
    BY DEF EmptyStore
  <1>4. StoreOK
    <2>1. now \in 0 .. MaxNow
      BY <1>1, StoreAssumption
    <2>2. CardOf(store) = {} /\ 1 .. Len(store.events) = {} /\ store.sources = {} /\ store.edges = {}
      BY <1>1, <1>3 DEF CardOf
    <2>3. Timed(store) /\ Born(store)
      BY <2>2 DEF Timed, Born
    <2>4. Intact(store)
      BY <2>2 DEF Intact
    <2>. QED
      BY <1>1, <1>2, <2>1, <2>3, <2>4 DEF StoreOK
  <1>5. RecallOK(recall)
    BY <1>1, NoRecallOK DEF RecallOK
  <1>6. changes \in 0 .. MaxChanges
    BY <1>1, RecallAssumption
  <1>. QED
    BY <1>1, <1>4, <1>5, <1>6 DEF RecallInv, GoneOK

(* Only the recall takes a step. *)
LEMMA RecallMoves ==
    ASSUME RecallInv, NEW r, RecallOK(r), recall' = r, Reads, vectors' \subseteq Anchor
    PROVE  RecallInv'
  <1>1. UNCHANGED <<store, now, selected, gone, changes>>
    BY DEF Reads, storeVars
  <1>2. RecallOK(recall)'
    BY <1>1 DEF RecallOK, NotOutdone, NewDecision, TextOf
  <1>3. StoreOK' /\ GoneOK'
    BY <1>1 DEF RecallInv, StoreOK, GoneOK, Timed
  <1>. QED
    BY <1>1, <1>2, <1>3 DEF RecallInv

LEMMA GoesKeeps == ASSUME RecallInv, NEW r, RecallOK(r), RecallGoes(r) PROVE RecallInv'
  BY RecallMoves DEF RecallGoes, RecallInv

LEMMA StartKeepsRecall ==
    ASSUME RecallInv, NEW p \in {"verify", "rows"}, StartRecall(p) PROVE RecallInv'
  <1> DEFINE r == [NoRecall EXCEPT !.pc = p]
  <1>1. /\ store # EmptyStore /\ recall' = r /\ gone' = CardOf(store) \ ActiveCards(store)
        /\ UNCHANGED <<store, now, selected, vectors, changes>>
    BY DEF StartRecall, storeVars
  <1>2. /\ r \in RecallType /\ r.pc = p /\ UsableOf(r) = {} /\ r.rows = {} /\ r.rest = {}
        /\ r.scoped = {} /\ r.eligible = {} /\ r.near = {} /\ r.graph = {} /\ r.items = {} /\ r.shown = {}
    BY DEF NoRecall, RecallType, RecallPc, UsableOf
  <1>. HIDE DEF r
  <1>3. CardOf(store) # {}
    <2> SUFFICES ASSUME CardOf(store) = {} PROVE FALSE
      OBVIOUS
    <2>1. /\ store \in Store(RecallSource) /\ store.edges = {} /\ store.sources = {}
          /\ 1 .. Len(store.events) = {}
      BY DEF RecallInv, StoreOK, Intact
    <2>2. Len(store.cards) = 0 /\ Len(store.events) = 0
      BY <2>1, StoreNumbers DEF CardOf
    <2>3. store.cards = <<>> /\ store.events = <<>>
      BY <2>1, <2>2 DEF Store
    <2>4. store = EmptyStore
      BY <2>1, <2>3 DEF Store, EmptyStore
    <2>. QED
      BY <1>1, <2>4
  <1>4. RecallOK(r)'
    BY <1>1, <1>2, <1>3 DEF RecallOK
  <1>5. StoreOK' /\ GoneOK'
    BY <1>1 DEF RecallInv, StoreOK, GoneOK, Timed, ActiveCards
  <1>. QED
    BY <1>1, <1>4, <1>5 DEF RecallInv

LEMMA ListIdsKeeps == ASSUME RecallInv, ListIds PROVE RecallInv'
  <1> DEFINE r == [recall EXCEPT !.pc = "decisions", !.ids = CardOf(store)]
  <1>1. recall.pc = "verify" /\ RecallOK(recall) /\ Intact(store) /\ CardOf(store) # {}
    BY DEF ListIds, RecallAt, RecallInv, StoreOK, RecallOK
  <1>2. RecallGoes(r)
    BY <1>1 DEF ListIds
  <1>3. CardOf(store) \in SUBSET Nat /\ \E n \in Nat \ {0} : CardOf(store) = 1 .. n
    <2>1. Len(store.cards) \in Nat
      BY StoreNumbers DEF RecallInv, StoreOK
    <2>. QED
      BY <1>1, <2>1 DEF CardOf
  <1>4. /\ r \in RecallType /\ r.pc = "decisions" /\ r.ids = CardOf(store) /\ UsableOf(r) = UsableOf(recall)
        /\ r.rows = recall.rows /\ r.rest = recall.rest /\ r.scoped = recall.scoped
        /\ r.eligible = recall.eligible /\ r.near = recall.near /\ r.graph = recall.graph
        /\ r.items = recall.items /\ r.shown = recall.shown
    BY <1>1, <1>3 DEF RecallOK, RecallType, RecallPc, UsableOf
  <1>. HIDE DEF r
  <1>5. RecallOK(r)
    BY <1>1, <1>3, <1>4 DEF RecallOK
  <1>. QED
    BY <1>2, <1>5, GoesKeeps

LEMMA CheckDecisionsKeeps == ASSUME RecallInv, CheckDecisions PROVE RecallInv'
  <1>1. /\ recall.pc = "decisions" /\ RecallOK(recall)
        /\ \A cards \in selected : cards \subseteq CardOf(store)
    BY DEF CheckDecisions, RecallAt, RecallInv
  <1>2. PICK n \in Nat \ {0} : recall.ids = 1 .. n
    BY <1>1 DEF RecallOK
  <1>3. PICK p \in {"rows", "failed"} :
            /\ RecallGoes([recall EXCEPT !.pc = p])
            /\ p = "failed" => \E cards \in selected : ~(cards \subseteq recall.ids)
    BY DEF CheckDecisions
  <1> DEFINE r == [recall EXCEPT !.pc = p]
  <1>4. /\ r \in RecallType /\ r.pc = p /\ r.ids = recall.ids /\ UsableOf(r) = UsableOf(recall)
        /\ r.rows = recall.rows /\ r.rest = recall.rest /\ r.scoped = recall.scoped
        /\ r.eligible = recall.eligible /\ r.near = recall.near /\ r.graph = recall.graph
        /\ r.items = recall.items /\ r.shown = recall.shown
    BY <1>1 DEF RecallOK, RecallType, RecallPc, UsableOf
  <1>5. RecallGoes(r)
    BY <1>3
  <1>. HIDE DEF r
  <1>6. ASSUME p = "failed" PROVE NewDecision(r)
    <2>1. PICK cards \in selected : ~(cards \subseteq recall.ids)
      BY <1>3, <1>6
    <2>2. PICK x \in cards : x \notin recall.ids
      BY <2>1
    <2>3. Len(store.cards) \in Nat /\ cards \subseteq 1 .. Len(store.cards)
      BY <1>1, StoreNumbers DEF RecallInv, StoreOK, CardOf
    <2>4. cards \in SUBSET (0 .. Len(store.cards)) /\ cards # {}
      BY <2>2, <2>3
    <2>5. Max(cards) \in cards /\ x <= Max(cards)
      BY <2>2, <2>3, <2>4, LargestIsThere
    <2>6. recall.ids \in SUBSET (0 .. n) /\ recall.ids # {} /\ n \in Nat
      <3>1. n \in Nat \ {0}
        OBVIOUS
      <3>2. 1 \in 1 .. n /\ 1 .. n \in SUBSET (0 .. n) /\ n \in Nat
        BY ONLY <3>1
      <3> QED
        BY ONLY <1>2, <3>2
    <2>7. Max(recall.ids) \in recall.ids
      BY <2>6, LargestIsThere
    <2>8. x > n
      BY <1>2, <2>2, <2>3
    <2>9. Max(recall.ids) <= n /\ Max(recall.ids) \in Nat /\ Max(cards) \in Nat /\ x \in Nat
      <3>1. Max(recall.ids) \in 1 .. n
        BY <1>2, <2>7
      <3>2. Max(cards) \in 1 .. Len(store.cards) /\ x \in 1 .. Len(store.cards)
        BY <2>2, <2>3, <2>5
      <3>. QED
        BY <3>1, <3>2
    <2>10. Max(cards) > Max(recall.ids)
      BY ONLY <2>5, <2>6, <2>8, <2>9
    <2>. QED
      BY <1>4, <2>10 DEF NewDecision
  <1>7. RecallOK(r)
    BY <1>1, <1>2, <1>3, <1>4, <1>6 DEF RecallOK
  <1>. QED
    BY <1>5, <1>7, GoesKeeps

LEMMA ListRowsKeeps == ASSUME RecallInv, ListRows PROVE RecallInv'
  <1> DEFINE r == [recall EXCEPT !.pc = "statuses", !.rows = CardOf(store)]
  <1>1. recall.pc = "rows" /\ RecallOK(recall) /\ RecallGoes(r) /\ gone \subseteq CardOf(store)
    BY DEF ListRows, RecallAt, RecallInv, GoneOK
  <1>2. CardOf(store) \in SUBSET Nat
    BY StoreNumbers DEF RecallInv, StoreOK
  <1>3. /\ r \in RecallType /\ r.pc = "statuses" /\ r.rows = CardOf(store) /\ UsableOf(r) = UsableOf(recall)
        /\ r.rest = recall.rest /\ r.scoped = recall.scoped
        /\ r.eligible = recall.eligible /\ r.near = recall.near /\ r.graph = recall.graph
        /\ r.items = recall.items /\ r.shown = recall.shown
    BY <1>1, <1>2 DEF RecallOK, RecallType, RecallPc, UsableOf
  <1>4. RecallGoes(r)
    BY <1>1
  <1>. HIDE DEF r
  <1>5. RecallOK(r)
    BY <1>1, <1>3 DEF RecallOK
  <1>. QED
    BY <1>4, <1>5, GoesKeeps

LEMMA ListStatusesKeeps == ASSUME RecallInv, ListStatuses PROVE RecallInv'
  <1> DEFINE live == recall.rows \cap ActiveCards(store)
             r == [recall EXCEPT !.pc = "sources", !.rest = recall.rows, !.moment = now,
                                 !.active = live]
  <1>1. recall.pc = "statuses" /\ RecallOK(recall) /\ RecallGoes(r) /\ GoneOK /\ now \in Nat
    BY DEF ListStatuses, RecallAt, RecallInv, StoreOK
  <1>2. /\ live \in SUBSET Nat /\ recall.rows \in SUBSET Nat /\ live \cap gone = {}
        /\ live \subseteq recall.rows
    BY <1>1 DEF RecallOK, RecallType, GoneOK, ActiveCards
  <1>3. RecallGoes(r)
    BY <1>1
  <1>. HIDE DEF live
  <1>4. /\ r \in RecallType /\ r.pc = "sources" /\ r.rows = recall.rows /\ r.rest = recall.rows
        /\ r.active = live /\ r.scoped = recall.scoped
        /\ r.eligible = recall.eligible /\ r.near = recall.near /\ r.graph = recall.graph
        /\ r.items = recall.items /\ r.shown = recall.shown
    BY <1>1, <1>2 DEF RecallOK, RecallType, RecallPc
  <1>. HIDE DEF r
  <1>5. RecallOK(r)
    BY <1>1, <1>2, <1>4 DEF RecallOK, UsableOf
  <1>. QED
    BY <1>3, <1>5, GoesKeeps

LEMMA LookKeeps == ASSUME RecallInv, LookAtSources PROVE RecallInv'
  <1> DEFINE c == Max(recall.rest)
             backed == IF SourcesOf(store, c) # {} THEN {c} ELSE {}
             fit == {d \in backed : d \in recall.active /\ ValidAt(d)}
             r == [recall EXCEPT !.rest = recall.rest \ {c}, !.scoped = recall.scoped \cup backed,
                                 !.eligible = recall.eligible \cup fit]
  <1>1. recall.pc = "sources" /\ recall.rest # {} /\ RecallOK(recall) /\ RecallGoes(r)
    BY DEF LookAtSources, RecallAt, RecallInv
  <1>2. c \in recall.rest /\ c \in CardOf(store) /\ c \in Nat
    <2>1. Len(store.cards) \in Nat
      BY StoreNumbers DEF RecallInv, StoreOK
    <2>2. recall.rest \in SUBSET (0 .. Len(store.cards))
      BY <1>1, <2>1 DEF RecallOK, CardOf
    <2>. QED
      BY <1>1, <2>1, <2>2, LargestIsThere DEF RecallOK, CardOf
  <1>3. backed = {c}
    BY <1>2 DEF RecallInv, StoreOK, Intact
  <1>4. fit \subseteq {c} /\ fit \subseteq recall.active
    BY <1>3
  <1>5. RecallGoes(r)
    BY <1>1
  <1>. HIDE DEF c, backed, fit
  <1>6. /\ recall.rest \ {c} \in SUBSET Nat /\ recall.scoped \cup backed \in SUBSET Nat
        /\ recall.eligible \cup fit \in SUBSET Nat
    BY <1>1, <1>2, <1>3, <1>4 DEF RecallOK, RecallType
  <1>7. /\ r \in RecallType /\ r.pc = "sources" /\ r.rows = recall.rows /\ r.rest = recall.rest \ {c}
        /\ r.active = recall.active /\ r.scoped = recall.scoped \cup {c}
        /\ r.eligible = recall.eligible \cup fit /\ r.near = recall.near /\ r.graph = recall.graph
        /\ r.items = recall.items /\ r.shown = recall.shown
    BY <1>1, <1>3, <1>6 DEF RecallOK, RecallType, RecallPc
  <1>. HIDE DEF r
  <1>8. RecallOK(r)
    BY <1>1, <1>2, <1>4, <1>7 DEF RecallOK, UsableOf
  <1>. QED
    BY <1>5, <1>8, GoesKeeps

LEMMA MatchKeeps ==
    ASSUME RecallInv, NEW semantic \in BOOLEAN, Match(semantic) PROVE RecallInv'
  <1> DEFINE hits == {c \in recall.eligible : Similar[TextOf(c)] > 0}
  <1>1. /\ recall.pc = "sources" /\ recall.rest = {} /\ RecallOK(recall)
        /\ hits \subseteq recall.eligible
    BY DEF Match, RecallAt, RecallInv
  <1>2. PICK p \in {"embed", "relations"} :
            RecallGoes([recall EXCEPT !.pc = p, !.ids = {}, !.rows = {}, !.active = {},
                                      !.near = hits, !.rest = hits])
    BY DEF Match
  <1> DEFINE r == [recall EXCEPT !.pc = p, !.ids = {}, !.rows = {}, !.active = {},
                                 !.near = hits, !.rest = hits]
  <1>. HIDE DEF hits
  <1>3. hits \in SUBSET Nat
    BY <1>1 DEF RecallOK, RecallType
  <1>4. /\ r \in RecallType /\ r.pc = p /\ r.rows = {} /\ r.rest = hits
        /\ r.active = {} /\ r.scoped = recall.scoped
        /\ r.eligible = recall.eligible /\ r.near = hits /\ r.graph = recall.graph
        /\ r.items = recall.items /\ r.shown = recall.shown
    BY <1>1, <1>3 DEF RecallOK, RecallType, RecallPc
  <1>5. RecallGoes(r)
    BY <1>2
  <1>. HIDE DEF r
  <1>6. RecallOK(r)
    BY <1>1, <1>2, <1>4 DEF RecallOK, UsableOf
  <1>. QED
    BY <1>5, <1>6, GoesKeeps

(* The semantic route adds eligible memories, or nothing. *)
LEMMA SemanticMoves ==
    ASSUME RecallInv, recall.pc \in {"embed", "cache"}, NEW p \in {"cache", "relations"},
           NEW wanted \in SUBSET Anchor, NEW close \in SUBSET recall.eligible,
           recall' = [recall EXCEPT !.pc = p, !.wanted = wanted,
                                    !.near = recall.near \cup close,
                                    !.rest = recall.rest \cup close],
           Reads, vectors' \subseteq Anchor
    PROVE  RecallInv'
  <1>1. /\ RecallOK(recall) /\ recall \in RecallType /\ recall.eligible \subseteq CardOf(store)
    BY DEF RecallInv, RecallOK, UsableOf
  <1> DEFINE r == [recall EXCEPT !.pc = p, !.wanted = wanted, !.near = recall.near \cup close,
                                 !.rest = recall.rest \cup close]
  <1>4. recall.near \cup close \in SUBSET Nat /\ recall.rest \cup close \in SUBSET Nat
    BY <1>1 DEF RecallType
  <1>5. /\ r \in RecallType /\ r.pc = p /\ r.rows = recall.rows /\ r.rest = recall.rest \cup close
        /\ r.active = recall.active /\ r.scoped = recall.scoped
        /\ r.eligible = recall.eligible /\ r.near = recall.near \cup close /\ r.graph = recall.graph
        /\ r.items = recall.items /\ r.shown = recall.shown
    BY <1>1, <1>4 DEF RecallType, RecallPc
  <1>6. recall' = r /\ Reads /\ vectors' \subseteq Anchor
    OBVIOUS
  <1>. HIDE DEF r
  <1>7. RecallOK(r)
    BY <1>1, <1>5 DEF RecallOK, UsableOf
  <1>. QED
    BY <1>6, <1>7, RecallMoves

LEMMA SemanticKeeps ==
    ASSUME RecallInv, AskEndpoint \/ CacheVector \/ RankByMeaning \/ FailOpen PROVE RecallInv'
  <1> USE DEF RecallAt
  <1>1. /\ recall.pc \in {"embed", "cache"} /\ vectors \subseteq Anchor
        /\ recall \in RecallType /\ recall.eligible \subseteq CardOf(store)
        /\ recall.near \cup {} = recall.near /\ recall.rest \cup {} = recall.rest
    BY DEF AskEndpoint, CacheVector, RankByMeaning, FailOpen, RecallInv, RecallOK, UsableOf
  <1>2. \A c \in CardOf(store) : TextOf(c) \in Anchor
    <2>1. \A c \in CardOf(store) : store.cards[c] \in Card
      BY StoreNumbers DEF RecallInv, StoreOK
    <2>. QED
      BY <2>1 DEF TextOf, Card
  <1>3. /\ {} \in SUBSET recall.eligible /\ {} \in SUBSET Anchor
        /\ "cache" \in {"cache", "relations"} /\ "relations" \in {"cache", "relations"}
    OBVIOUS
  <1>4. CASE AskEndpoint
    <2> DEFINE missing == {TextOf(c) : c \in recall.eligible} \ vectors
    <2>1. recall' = [recall EXCEPT !.pc = "cache", !.wanted = missing] /\ Reads /\ UNCHANGED vectors
      BY <1>4 DEF AskEndpoint, RecallGoes
    <2>2. missing \in SUBSET Anchor
      BY <1>1, <1>2
    <2>. HIDE DEF missing
    <2>3. recall' = [recall EXCEPT !.pc = "cache", !.wanted = missing,
                                   !.near = recall.near \cup {}, !.rest = recall.rest \cup {}]
      BY <1>1, <2>1 DEF RecallType
    <2>4. vectors' \subseteq Anchor
      BY <1>1, <2>1
    <2>. QED
      BY <1>1, <1>3, <2>1, <2>2, <2>3, <2>4, SemanticMoves
  <1>5. CASE CacheVector
    <2>1. PICK text \in recall.wanted :
              /\ vectors' = vectors \cup {text}
              /\ recall' = [recall EXCEPT !.wanted = recall.wanted \ {text}]
      BY <1>5 DEF CacheVector
    <2> DEFINE left == recall.wanted \ {text}
    <2>2. /\ text \in Anchor /\ left \in SUBSET Anchor /\ recall.pc = "cache" /\ Reads
          /\ recall' = [recall EXCEPT !.wanted = left]
      BY <1>1, <1>5, <2>1 DEF RecallType, CacheVector
    <2>. HIDE DEF left
    <2>3. recall' = [recall EXCEPT !.pc = "cache", !.wanted = left,
                                   !.near = recall.near \cup {}, !.rest = recall.rest \cup {}]
      BY <1>1, <2>2 DEF RecallType
    <2>4. vectors' \subseteq Anchor
      BY <1>1, <2>1, <2>2
    <2>. QED
      BY <1>1, <1>3, <2>2, <2>3, <2>4, SemanticMoves
  <1>6. CASE RankByMeaning
    <2> DEFINE close == {c \in recall.eligible : Meaning[TextOf(c)] >= MinMeaning}
    <2>1. /\ recall' = [recall EXCEPT !.pc = "relations", !.near = recall.near \cup close,
                                      !.rest = recall.rest \cup close]
          /\ Reads /\ UNCHANGED vectors /\ recall.wanted = {}
      BY <1>6 DEF RankByMeaning, RecallGoes
    <2>2. close \in SUBSET recall.eligible
      OBVIOUS
    <2>. HIDE DEF close
    <2>3. recall' = [recall EXCEPT !.pc = "relations", !.wanted = {},
                                   !.near = recall.near \cup close, !.rest = recall.rest \cup close]
      BY <1>1, <2>1 DEF RecallType
    <2>4. vectors' \subseteq Anchor
      BY <1>1, <2>1
    <2>. QED
      BY <1>1, <1>3, <2>1, <2>2, <2>3, <2>4, SemanticMoves
  <1>7. CASE FailOpen
    <2>1. recall' = [recall EXCEPT !.pc = "relations", !.wanted = {}] /\ Reads /\ UNCHANGED vectors
      BY <1>7 DEF FailOpen, RecallGoes
    <2>2. recall' = [recall EXCEPT !.pc = "relations", !.wanted = {},
                                   !.near = recall.near \cup {}, !.rest = recall.rest \cup {}]
      BY <1>1, <2>1 DEF RecallType
    <2>3. vectors' \subseteq Anchor
      BY <1>1, <2>1
    <2>. QED
      BY <1>1, <1>3, <2>1, <2>2, <2>3, SemanticMoves
  <1>. QED
    BY <1>4, <1>5, <1>6, <1>7

LEMMA ExpandKeeps == ASSUME RecallInv, Expand PROVE RecallInv'
  <1> DEFINE c == Max(recall.rest)
             more == Neighbour(c) \ recall.near
             r == [recall EXCEPT !.rest = recall.rest \ {c}, !.graph = recall.graph \cup more]
  <1>1. recall.pc = "relations" /\ RecallOK(recall) /\ RecallGoes(r)
    BY DEF Expand, RecallAt, RecallInv
  <1>2. more \subseteq recall.eligible
    BY DEF Neighbour
  <1>3. RecallGoes(r)
    BY <1>1
  <1>. HIDE DEF c, more
  <1>4. recall.rest \ {c} \in SUBSET Nat /\ recall.graph \cup more \in SUBSET Nat
    BY <1>1, <1>2 DEF RecallOK, RecallType
  <1>5. /\ r \in RecallType /\ r.pc = "relations" /\ r.rows = recall.rows /\ r.rest = recall.rest \ {c}
        /\ r.active = recall.active /\ r.scoped = recall.scoped
        /\ r.eligible = recall.eligible /\ r.near = recall.near /\ r.graph = recall.graph \cup more
        /\ r.items = recall.items /\ r.shown = recall.shown
    BY <1>1, <1>4 DEF RecallOK, RecallType, RecallPc
  <1>. HIDE DEF r
  <1>6. RecallOK(r)
    BY <1>1, <1>2, <1>5 DEF RecallOK, UsableOf
  <1>. QED
    BY <1>3, <1>6, GoesKeeps

LEMMA NothingOK == RecallInv => RecallOK([NoRecall EXCEPT !.pc = "done"]) /\ RecallOK(NoRecall)
  <1> SUFFICES ASSUME RecallInv PROVE RecallOK([NoRecall EXCEPT !.pc = "done"]) /\ RecallOK(NoRecall)
    OBVIOUS
  <1> DEFINE r == [NoRecall EXCEPT !.pc = "done"]
  <1>1. /\ r \in RecallType /\ r.pc = "done" /\ UsableOf(r) = {} /\ r.rows = {} /\ r.rest = {}
        /\ r.scoped = {} /\ r.eligible = {} /\ r.near = {} /\ r.graph = {} /\ r.items = {} /\ r.shown = {}
    BY DEF NoRecall, RecallType, RecallPc, UsableOf
  <1>. HIDE DEF r
  <1>2. RecallOK(r)
    BY <1>1 DEF RecallOK
  <1>3. RecallOK(NoRecall)
    BY NoRecallOK DEF RecallOK
  <1>. QED
    BY <1>2, <1>3 DEF r

LEMMA TextsAreKnown ==
    RecallInv => \A c \in CardOf(store) : TextOf(c) \in Anchor /\ Similar[TextOf(c)] \in 0 .. 100
  <1> SUFFICES ASSUME RecallInv, NEW c \in CardOf(store)
               PROVE  TextOf(c) \in Anchor /\ Similar[TextOf(c)] \in 0 .. 100
    OBVIOUS
  <1>1. store.cards[c] \in Card
    BY StoreNumbers DEF RecallInv, StoreOK
  <1>2. TextOf(c) \in Anchor
    BY <1>1 DEF TextOf, Card
  <1>. QED
    BY <1>2, RecallAssumption

(* The likeness of some of the cards, or none. *)
LEMMA LikenessIsThere ==
    ASSUME RecallInv, NEW cards \in SUBSET CardOf(store)
    PROVE  /\ Likeness(cards) \in 0 .. 100
           /\ \A c \in cards : Similar[TextOf(c)] <= Likeness(cards)
           /\ cards # {} => \E d \in cards : Likeness(cards) <= Similar[TextOf(d)]
  <1> DEFINE S == {0} \cup {Similar[TextOf(c)] : c \in cards}
  <1>1. \A c \in cards : Similar[TextOf(c)] \in 0 .. 100
    BY TextsAreKnown
  <1>2. S \in SUBSET (0 .. 100) /\ S # {} /\ 100 \in Nat
    BY <1>1
  <1>3. Max(S) \in S /\ \A y \in S : y <= Max(S)
    BY <1>2, LargestIsThere
  <1>4. Likeness(cards) = Max(S)
    BY DEF Likeness
  <1>5. ASSUME cards # {} PROVE \E d \in cards : Max(S) <= Similar[TextOf(d)]
    <2>1. CASE Max(S) = 0
      BY <1>1, <1>5, <2>1
    <2>2. CASE Max(S) # 0
      <3>1. PICK d \in cards : Max(S) = Similar[TextOf(d)]
        BY <1>3, <2>2
      <3>2. Max(S) <= Similar[TextOf(d)]
        BY <1>1, <3>1
      <3>. QED
        BY <3>2
    <2>. QED
      BY <2>1, <2>2
  <1>6. Max(S) \in 0 .. 100 /\ \A c \in cards : Similar[TextOf(c)] \in S
    BY <1>2, <1>3
  <1>. HIDE DEF S
  <1>. QED
    BY <1>3, <1>4, <1>5, <1>6

LEMMA PickKeeps == ASSUME RecallInv, Pick PROVE RecallInv'
  <1>1. recall.pc = "relations" /\ ~Outdone /\ RecallOK(recall) /\ gone \subseteq CardOf(store)
    BY DEF Pick, RecallAt, RecallInv, GoneOK
  <1>2. PICK items \in SUBSET (recall.near \cup recall.graph) :
            items # {} /\ RecallGoes([NoRecall EXCEPT !.pc = "render", !.items = items])
    BY DEF Pick
  <1> DEFINE r == [NoRecall EXCEPT !.pc = "render", !.items = items]
  <1>3. /\ items \subseteq recall.eligible /\ recall.eligible \subseteq CardOf(store)
        /\ recall.eligible \cap gone = {} /\ gone \subseteq recall.scoped
        /\ recall.scoped \subseteq CardOf(store) /\ items \in SUBSET Nat
    BY <1>1 DEF RecallOK, RecallType, UsableOf
  <1>4. NotOutdone
    <2> SUFFICES ASSUME NEW c \in gone, Similar[TextOf(c)] >= MinExcluded
                 PROVE  \E d \in CardOf(store) \ gone : Similar[TextOf(c)] <= Similar[TextOf(d)] + MinMargin
      BY DEF NotOutdone
    <2> DEFINE others == recall.scoped \ recall.eligible
    <2>1. others \in SUBSET CardOf(store) /\ c \in others
          /\ recall.eligible \in SUBSET CardOf(store) /\ recall.eligible # {}
      BY <1>2, <1>3
    <2>2. /\ Likeness(others) \in 0 .. 100 /\ Similar[TextOf(c)] <= Likeness(others)
          /\ Likeness(recall.eligible) \in 0 .. 100
      BY <2>1, LikenessIsThere
    <2>3. PICK d \in recall.eligible : Likeness(recall.eligible) <= Similar[TextOf(d)]
      BY <2>1, LikenessIsThere
    <2>4. /\ Similar[TextOf(c)] \in 0 .. 100 /\ Similar[TextOf(d)] \in 0 .. 100
          /\ MinExcluded \in 0 .. 100 /\ MinMargin \in 0 .. 100
      BY <2>1, TextsAreKnown, RecallAssumption
    <2>5. ~(Likeness(others) >= MinExcluded /\ Likeness(others) > Likeness(recall.eligible) + MinMargin)
      BY <1>1 DEF Outdone
    <2>. HIDE DEF others
    <2>6. Likeness(others) <= Likeness(recall.eligible) + MinMargin
      BY <2>2, <2>4, <2>5
    <2>7. Similar[TextOf(c)] <= Similar[TextOf(d)] + MinMargin
      <3> DEFINE x == Similar[TextOf(c)]
                 y == Similar[TextOf(d)]
                 worst == Likeness(others)
                 best == Likeness(recall.eligible)
      <3>1. /\ x \in 0 .. 100 /\ y \in 0 .. 100 /\ worst \in 0 .. 100 /\ best \in 0 .. 100
            /\ MinMargin \in 0 .. 100 /\ x <= worst /\ worst <= best + MinMargin /\ best <= y
        BY <2>2, <2>3, <2>4, <2>6
      <3>. HIDE DEF x, y, worst, best
      <3>2. x <= y + MinMargin
        BY ONLY <3>1
      <3>. QED
        BY <3>2 DEF x, y
    <2>. QED
      BY <1>3, <2>7
  <1>5. RecallGoes(r)
    BY <1>2
  <1>6. /\ r \in RecallType /\ r.pc = "render" /\ UsableOf(r) = items /\ r.rows = {} /\ r.rest = {}
        /\ r.scoped = {} /\ r.eligible = {} /\ r.near = {} /\ r.graph = {} /\ r.items = items /\ r.shown = {}
    BY <1>3 DEF NoRecall, RecallType, RecallPc, UsableOf
  <1>. HIDE DEF r
  <1>7. RecallOK(r)
    BY <1>3, <1>4, <1>6 DEF RecallOK
  <1>. QED
    BY <1>5, <1>7, GoesKeeps

LEMMA RenderKeeps == ASSUME RecallInv, Render PROVE RecallInv'
  <1>1. recall.pc = "render" /\ RecallOK(recall)
    BY DEF Render, RecallAt, RecallInv
  <1>2. PICK shown \in SUBSET recall.items : RecallGoes([NoRecall EXCEPT !.pc = "done", !.shown = shown])
    BY DEF Render
  <1> DEFINE r == [NoRecall EXCEPT !.pc = "done", !.shown = shown]
  <1>3. /\ shown \in SUBSET Nat /\ shown \subseteq CardOf(store) /\ shown \cap gone = {}
        /\ shown # {} => NotOutdone
    BY <1>1 DEF RecallOK, RecallType, UsableOf
  <1>4. RecallGoes(r)
    BY <1>2
  <1>5. /\ r \in RecallType /\ r.pc = "done" /\ UsableOf(r) = shown /\ r.rows = {} /\ r.rest = {}
        /\ r.scoped = {} /\ r.eligible = {} /\ r.near = {} /\ r.graph = {} /\ r.items = {} /\ r.shown = shown
    BY <1>3 DEF NoRecall, RecallType, RecallPc, UsableOf
  <1>. HIDE DEF r
  <1>6. RecallOK(r)
    BY <1>3, <1>5 DEF RecallOK
  <1>. QED
    BY <1>4, <1>6, GoesKeeps

(* Other processes write, and the recall keeps what it read. *)
LEMMA ChangesKeep ==
    ASSUME RecallInv, NEW t \in Store(RecallSource), Later(store, t), Born(t), Intact(t),
           NEW cards, \A names \in cards : names \subseteq CardOf(store), Changes(t, cards)
    PROVE  RecallInv' /\ StaysRetired(store, store')
  <1>1. /\ store' = t /\ selected' = selected \cup cards /\ UNCHANGED <<now, recall, vectors, gone>>
        /\ changes' = changes + 1 /\ changes < MaxChanges
    BY DEF Changes
  <1>2. /\ now \in 0 .. MaxNow /\ store \in Store(RecallSource) /\ Timed(store) /\ Born(store)
        /\ now \in Nat
    BY StoreAssumption DEF RecallInv, StoreOK
  <1>3. Timed(t) /\ CardOf(store) \subseteq CardOf(t) /\ StaysRetired(store, t)
    BY <1>2, LaterKeeps
  <1>4. StoreOK'
    BY <1>1, <1>2, <1>3 DEF StoreOK, Timed
  <1>5. GoneOK'
    BY <1>1, <1>3 DEF RecallInv, GoneOK, StaysRetired
  <1>6. NotOutdone => NotOutdone'
    <2>1. \A c \in CardOf(store) : TextOf(c)' = TextOf(c)
      BY <1>1 DEF TextOf, Later
    <2>2. gone \subseteq CardOf(store)
      BY DEF RecallInv, GoneOK
    <2>. QED
      BY <1>1, <1>3, <2>1, <2>2 DEF NotOutdone
  <1>7. NewDecision(recall) => NewDecision(recall)'
    BY <1>1 DEF NewDecision
  <1>8. RecallOK(recall)'
    <2>1. RecallOK(recall)
      BY DEF RecallInv
    <2>. QED
      BY <1>1, <1>3, <1>6, <1>7, <2>1 DEF RecallOK
  <1>9. changes' \in 0 .. MaxChanges
    BY <1>1, RecallAssumption DEF RecallInv
  <1>10. \A names \in selected' : names \subseteq CardOf(t)
    BY <1>1, <1>3 DEF RecallInv
  <1>. QED
    BY <1>1, <1>3, <1>4, <1>5, <1>8, <1>9, <1>10 DEF RecallInv

LEMMA ElsewhereKeeps == ASSUME RecallInv, Elsewhere PROVE RecallInv' /\ StaysRetired(store, store')
  <1>1. /\ store \in Store(RecallSource) /\ Born(store) /\ Intact(store) /\ now \in Nat
        /\ CardOf(store) \subseteq Nat /\ NextCard(store) \in Nat /\ MaxNow \in Nat
    BY StoreNumbers, StoreAssumption DEF RecallInv, StoreOK
  <1>2. [card |-> NextCard(store), type |-> "note", ref |-> NextCard(store)] \in RecallSource
    BY <1>1 DEF RecallSource
  <1>3. \A text \in Anchor, from \in Nat : NewDraft(text, from) \in Card
    BY DEF NewDraft, CardDraft, Card, CardKind
  <1>4. /\ \A names \in {} : names \subseteq CardOf(store)
        /\ Later(store, store)
    BY <1>1, LaterIsReflexive
  <1>5. ASSUME NEW text \in Anchor, NEW from \in {0, MaxNow},
               Changes(OnceFor(store, NewDraft(text, from), "note", NextCard(store)).store, {})
        PROVE  RecallInv' /\ StaysRetired(store, store')
    <2> DEFINE draft == NewDraft(text, from)
               new == WithSource(WithCard(store, draft), NextCard(store), "note", NextCard(store))
               t == OnceFor(store, draft, "note", NextCard(store)).store
    <2>1. draft \in Card
      BY <1>1, <1>3
    <2>. HIDE DEF draft
    <2>2. t = store \/ t = new
      BY ONLY <1>1, <1>2, <2>1, OnceForLater
    <2>3. /\ new \in Store(RecallSource) /\ Later(store, new) /\ Born(new)
          /\ new.cards = Append(store.cards, draft) /\ new.edges = store.edges
          /\ new.events = Append(store.events, [card |-> NextCard(store), status |-> "active", at |-> now])
          /\ new.sources = store.sources \cup
                 {[card |-> NextCard(store), type |-> "note", ref |-> NextCard(store)]}
      BY ONLY <1>1, <1>2, <2>1, NewCardLater
    <2>4. Changes(t, {})
      BY <1>5 DEF draft
    <2>. HIDE DEF new, t
    <2>5. Intact(new)
      BY ONLY <1>1, <2>3, NewCardIntact
    <2>. QED
      BY <1>1, <1>4, <2>2, <2>3, <2>4, <2>5, ChangesKeep
  <1>6. ASSUME NEW c \in CardOf(store), Changes(WithEvent(store, c, "tombstoned"), {})
        PROVE  RecallInv' /\ StaysRetired(store, store')
    <2> DEFINE t == WithEvent(store, c, "tombstoned")
    <2>1. c \in Nat /\ "tombstoned" \in Retired \cup {"active"} /\ "tombstoned" # "active"
      BY <1>1 DEF Retired
    <2>2. /\ t \in Store(RecallSource) /\ t.cards = store.cards /\ t.sources = store.sources
          /\ t.edges = store.edges
          /\ t.events = Append(store.events, [card |-> c, status |-> "tombstoned", at |-> now])
      BY ONLY <1>1, <2>1, EventWrites
    <2>. HIDE DEF t
    <2>3. store.sources \subseteq t.sources /\ store.edges \subseteq t.edges
          /\ t.edges \subseteq CardOf(store) \X CardOf(store)
      BY <1>1, <2>2 DEF Intact
    <2>4. Later(store, t) /\ Born(t)
      BY ONLY <1>1, <2>1, <2>2, <2>3, RetiredLater
    <2>5. Intact(t)
      BY ONLY <1>1, c \in CardOf(store), <2>2, <2>3, RetiredIntact
    <2>. QED
      BY <1>4, <1>6, <2>2, <2>4, <2>5, ChangesKeep DEF t
  <1>7. ASSUME NEW c \in CardOf(store), NEW text \in Anchor,
               Changes(Replaced(store, c, NewDraft(text, now), "note", NextCard(store)), {})
        PROVE  RecallInv' /\ StaysRetired(store, store')
    <2> DEFINE draft == NewDraft(text, now)
               u == WithSource(WithCard(store, draft), NextCard(store), "note", NextCard(store))
               t == Replaced(store, c, draft, "note", NextCard(store))
               e == [card |-> NextCard(store), status |-> "active", at |-> now]
               f == [card |-> c, status |-> "superseded", at |-> now]
    <2>1. draft \in Card /\ c \in CardOf(store) /\ c \in Nat
      BY <1>1, <1>3
    <2>. HIDE DEF draft
    <2>2. /\ t \in Store(RecallSource) /\ Later(store, t) /\ Born(t)
          /\ t.cards = Append(store.cards, draft)
          /\ t.events = Append(Append(store.events, e), f)
          /\ t.sources = store.sources \cup
                 {[card |-> NextCard(store), type |-> "note", ref |-> NextCard(store)]}
          /\ t.edges = store.edges \cup {<<NextCard(store), c>>}
      BY ONLY <1>1, <1>2, <2>1, ReplacedLater
    <2>3. /\ u \in Store(RecallSource) /\ Born(u)
          /\ u.cards = Append(store.cards, draft) /\ u.edges = store.edges
          /\ u.events = Append(store.events, e)
          /\ u.sources = store.sources \cup
                 {[card |-> NextCard(store), type |-> "note", ref |-> NextCard(store)]}
      BY ONLY <1>1, <1>2, <2>1, NewCardLater
    <2>4. Changes(t, {})
      BY <1>7 DEF draft
    <2>. HIDE DEF t, u
    <2>5. Intact(u)
      BY ONLY <1>1, <2>3, NewCardIntact DEF e
    <2>6. /\ c \in CardOf(u) /\ NextCard(store) \in CardOf(u)
          /\ t.cards = u.cards /\ t.sources = u.sources
          /\ t.edges \subseteq CardOf(u) \X CardOf(u)
          /\ t.events = Append(u.events, f)
      <3>1. Len(u.cards) = Len(store.cards) + 1 /\ Len(store.cards) \in Nat
        BY <1>1, <2>1, <2>3 DEF Store
      <3>2. c \in CardOf(u) /\ NextCard(store) \in CardOf(u)
        BY <2>1, <3>1 DEF CardOf, NextCard
      <3>3. u.edges \subseteq CardOf(u) \X CardOf(u)
        BY <2>5 DEF Intact
      <3>. QED
        BY <2>2, <2>3, <3>2, <3>3
    <2>7. Intact(t)
      BY ONLY <2>2, <2>3, <2>5, <2>6, RetiredIntact DEF f
    <2>. QED
      BY <1>4, <2>2, <2>4, <2>7, ChangesKeep
  <1>8. ASSUME NEW c \in CardOf(store), NEW d \in CardOf(store),
               Changes([store EXCEPT !.edges = store.edges \cup {<<c, d>>}], {})
        PROVE  RecallInv' /\ StaysRetired(store, store')
    <2> DEFINE t == [store EXCEPT !.edges = store.edges \cup {<<c, d>>}]
    <2>1. c \in Nat /\ d \in Nat
      BY <1>1
    <2>2. /\ t \in Store(RecallSource) /\ t.cards = store.cards /\ t.events = store.events
          /\ t.sources = store.sources /\ t.edges = store.edges \cup {<<c, d>>}
      BY ONLY <1>1, <2>1, EdgeWrites
    <2>. HIDE DEF t
    <2>3. store.sources \subseteq t.sources /\ store.edges \subseteq t.edges
          /\ t.edges \subseteq CardOf(store) \X CardOf(store)
      BY <1>1, <2>2 DEF Intact
    <2>4. Later(store, t) /\ Born(t)
      BY ONLY <1>1, <2>2, <2>3, SameLater
    <2>5. Intact(t)
      BY ONLY <1>1, c \in CardOf(store), <2>2, <2>3, RetiredIntact
    <2>. QED
      BY <1>4, <1>8, <2>2, <2>4, <2>5, ChangesKeep DEF t
  <1>9. ASSUME NEW cards \in (SUBSET CardOf(store)) \ {{}}, Changes(store, {cards})
        PROVE  RecallInv' /\ StaysRetired(store, store')
    BY <1>1, <1>4, <1>9, ChangesKeep
  <1>. QED
    BY <1>5, <1>6, <1>7, <1>8, <1>9 DEF Elsewhere

LEMMA TickKeeps == ASSUME RecallInv, Tick, UNCHANGED recallVars PROVE RecallInv'
  <1>1. UNCHANGED <<store, recall, selected, vectors, gone, changes>> /\ now' = now + 1 /\ now < MaxNow
    BY DEF Tick, recallVars
  <1>2. /\ now \in 0 .. MaxNow /\ MaxNow \in Nat
        /\ \A i \in 1 .. Len(store.events) : store.events[i].at \in Nat
    BY StoreNumbers, StoreAssumption DEF RecallInv, StoreOK
  <1>3. Timed(store)'
    BY <1>1, <1>2 DEF RecallInv, StoreOK, Timed
  <1>4. StoreOK' /\ GoneOK'
    BY <1>1, <1>2, <1>3 DEF RecallInv, StoreOK, GoneOK
  <1>5. RecallOK(recall)'
    BY <1>1 DEF RecallInv, RecallOK, NotOutdone, NewDecision, TextOf
  <1>. QED
    BY <1>1, <1>4, <1>5 DEF RecallInv

LEMMA RecallStep == RecallInv /\ [NextRecall]_<<storeVars, recallVars>> => RecallInv'
  <1> SUFFICES ASSUME RecallInv, [NextRecall]_<<storeVars, recallVars>> PROVE RecallInv'
    OBVIOUS
  <1>1. CASE UNCHANGED <<storeVars, recallVars>>
    <2>1. Reads /\ recall' = recall /\ vectors' = vectors
      BY <1>1 DEF storeVars, recallVars, Reads
    <2>. QED
      BY <2>1, RecallMoves DEF RecallInv
  <1>2. ASSUME Abstain \/ Forsake PROVE RecallInv'
    BY <1>2, NothingOK, GoesKeeps DEF Abstain, Forsake
  <1>. QED
    BY <1>1, <1>2, StartKeepsRecall, ListIdsKeeps, CheckDecisionsKeeps, ListRowsKeeps,
       ListStatusesKeeps, LookKeeps, MatchKeeps, SemanticKeeps, ExpandKeeps, PickKeeps,
       RenderKeeps, ElsewhereKeeps, TickKeeps DEF NextRecall

(* A recall brings back nothing that was retired before it began, nor anything *)
(* in the place of a better retired memory, whatever other processes write     *)
(* between its reads, and for any number of cards                              *)
(* (EvidenceTemporalRetriever.retrieve, render_context, verify).               *)
THEOREM RecallsAreTrue == RecallSpec => []RecallIsTrue
  <1>1. RecallInv => RecallIsTrue
    BY DEF RecallInv, RecallOK, RecallIsTrue, UsableOf, RecallAt, NotOutdone, NewDecision
  <1>. QED
    BY <1>1, RecallStarts, RecallStep, PTL DEF RecallSpec

(* Every variable of a recall has its type. *)
THEOREM RecallTypeCorrect == RecallSpec => [](RecallTypeOK /\ StoreTypeOK)
  <1>1. RecallInv => RecallTypeOK
    BY DEF RecallInv, RecallOK, RecallType, RecallPc, RecallTypeOK
  <1>2. RecallInv => StoreTypeOK
    <2> SUFFICES ASSUME RecallInv PROVE StoreTypeOK
      OBVIOUS
    <2>1. /\ \A c \in CardOf(store) : store.cards[c] \in Card
          /\ \A i \in 1 .. Len(store.events) : store.events[i] \in StateEvent
      BY StoreNumbers DEF RecallInv, StoreOK
    <2>2. /\ \A c \in CardOf(store) : store.cards[c].kind \in CardKind /\ store.cards[c].anchor \in Anchor
          /\ \A i \in 1 .. Len(store.events) : store.events[i].status \in Retired \cup {"active"}
      BY <2>1 DEF Card, StateEvent
    <2>. QED
      BY <2>2 DEF RecallInv, StoreOK, Born, Intact, StoreTypeOK
  <1>. QED
    BY <1>1, <1>2, RecallStarts, RecallStep, PTL DEF RecallSpec

(* No card that was retired is active again, whatever other processes record,  *)
(* correct and forget while memories are recalled (WithEvent, supersede).      *)
THEOREM RecallRevivesNothing == RecallSpec => RetiredStaysRetired
  <1>1. RecallInv /\ [NextRecall]_<<storeVars, recallVars>> =>
        [CardOf(store) \subseteq CardOf(store') => StaysRetired(store, store')]_storeVars
    <2> SUFFICES ASSUME RecallInv, NextRecall, store' # store PROVE StaysRetired(store, store')
      BY DEF storeVars, StaysRetired
    <2>1. Elsewhere
      BY DEF NextRecall, StartRecall, ListIds, CheckDecisions, ListRows, ListStatuses, LookAtSources,
             Match, AskEndpoint, CacheVector, RankByMeaning, FailOpen, Expand, Abstain, Pick, Render,
             Forsake, Tick, RecallGoes, Reads, storeVars
    <2>. QED
      BY <2>1, ElsewhereKeeps
  <1>. QED
    BY <1>1, RecallStarts, RecallStep, PTL DEF RecallSpec, RetiredStaysRetired, StaysRetired

----------------------------------------------------------------------------
(* Folds over a finite set *)

Pick1(t) == CHOOSE x \in t : TRUE

LEMMA PickIsThere == ASSUME NEW t, t # {} PROVE Pick1(t) \in t
  BY DEF Pick1

LEMMA LessOne ==
    ASSUME NEW t, IsFiniteSet(t), NEW x \in t
    PROVE  /\ IsFiniteSet(t \ {x}) /\ Cardinality(t \ {x}) \in Nat /\ Cardinality(t) \in Nat
           /\ Cardinality(t \ {x}) = Cardinality(t) - 1
  BY FS_RemoveElement, FS_CardinalityType

(* A property that an element less passes on is one of every subset. *)
LEMMA RemoveInduction ==
    ASSUME NEW S, IsFiniteSet(S), NEW T \in SUBSET (SUBSET S),
           \A t \in SUBSET S : (\A x \in t : t \ {x} \in T) => t \in T
    PROVE  T = SUBSET S
  <1> DEFINE sizes == {Cardinality(t) : t \in (SUBSET S) \ T}
  <1> SUFFICES ASSUME (SUBSET S) \ T # {} PROVE FALSE
    OBVIOUS
  <1>1. \A t \in SUBSET S : IsFiniteSet(t) /\ Cardinality(t) \in Nat
    BY FS_Subset, FS_CardinalityType
  <1>2. sizes \in SUBSET Nat /\ sizes # {}
    BY <1>1
  <1>3. Min(sizes) \in sizes /\ \A y \in sizes : Min(sizes) <= y
    BY <1>2, SmallestIsThere
  <1>4. PICK t \in (SUBSET S) \ T : Cardinality(t) = Min(sizes)
    BY <1>3
  <1>5. PICK x \in t : t \ {x} \notin T
    BY <1>4
  <1>6. t \ {x} \in (SUBSET S) \ T
    BY <1>4, <1>5
  <1>7. Cardinality(t \ {x}) = Cardinality(t) - 1 /\ Cardinality(t) \in Nat
    BY <1>1, <1>4, <1>5, LessOne
  <1>8. Cardinality(t \ {x}) \in sizes
    BY <1>6
  <1> HIDE DEF sizes
  <1> QED
    BY <1>3, <1>4, <1>7, <1>8

LEMMA SubsetInduction ==
    ASSUME NEW S, IsFiniteSet(S), NEW T \in SUBSET (SUBSET S), {} \in T,
           \A t \in SUBSET S : t # {} /\ t \ {Pick1(t)} \in T => t \in T
    PROVE  T = SUBSET S
  <1>1. ASSUME NEW t \in SUBSET S, \A x \in t : t \ {x} \in T PROVE t \in T
    BY <1>1, PickIsThere
  <1> QED
    BY <1>1, RemoveInduction

(* What a fold gives for each subset, from what it gives for one with an element less. *)
Folds1(S, base, op, g) ==
    g = [t \in SUBSET S |-> IF t = {} THEN base ELSE op[<<Pick1(t), g[t \ {Pick1(t)}]>>]]

LEMMA FoldExists ==
    ASSUME NEW S, IsFiniteSet(S), NEW base, NEW V, base \in V, NEW op \in [S \X V -> V]
    PROVE  \E g \in [SUBSET S -> V] : Folds1(S, base, op, g)
  <1> DEFINE Small(n) == {t \in SUBSET S : Cardinality(t) <= n}
             Step(g, t) == IF t = {} THEN base ELSE op[<<Pick1(t), g[t \ {Pick1(t)}]>>]
             Good(n) == \E g \in [Small(n) -> V] : \A t \in Small(n) : g[t] = Step(g, t)
             bad == {n \in Nat : ~Good(n)}
  <1>1. \A t \in SUBSET S : IsFiniteSet(t) /\ Cardinality(t) \in Nat
                               /\ Cardinality(t) <= Cardinality(S) /\ Cardinality(S) \in Nat
    BY FS_Subset, FS_CardinalityType
  <1>2. \A t \in SUBSET S : t # {} =>
            /\ Pick1(t) \in t /\ Pick1(t) \in S /\ t \ {Pick1(t)} \in SUBSET S
            /\ Cardinality(t \ {Pick1(t)}) = Cardinality(t) - 1
    BY <1>1, PickIsThere, LessOne
  <1>3. \A t \in SUBSET S : Cardinality(t) = 0 <=> t = {}
    BY <1>1, FS_EmptySet
  <1>4. Good(0)
    <2> DEFINE g == [t \in Small(0) |-> base]
    <2>1. g \in [Small(0) -> V]
      OBVIOUS
    <2>2. \A t \in Small(0) : g[t] = Step(g, t)
      BY <1>1, <1>3
    <2> HIDE DEF g
    <2> QED
      BY <2>1, <2>2
  <1>5. ASSUME NEW n \in Nat, Good(n) PROVE Good(n + 1)
    <2>1. PICK g \in [Small(n) -> V] : \A t \in Small(n) : g[t] = Step(g, t)
      BY <1>5
    <2> DEFINE h == [t \in Small(n + 1) |-> Step(g, t)]
    <2>2. \A t \in Small(n + 1) : t # {} => t \ {Pick1(t)} \in Small(n)
      BY <1>1, <1>2
    <2>3. \A t \in Small(n + 1) : Step(g, t) \in V
      BY <1>2, <2>2
    <2>4. h \in [Small(n + 1) -> V]
      BY <2>3
    <2>5. \A t \in Small(n) : t \in Small(n + 1) /\ h[t] = g[t]
      BY <1>1, <2>1
    <2>6. \A t \in Small(n + 1) : h[t] = Step(g, t)
      OBVIOUS
    <2> HIDE DEF h, Small
    <2>7. \A t \in Small(n + 1) : h[t] = Step(h, t)
      BY <2>2, <2>5, <2>6
    <2> QED
      BY <2>4, <2>7
  <1> HIDE DEF Good
  <1>6. bad = {}
    <2> SUFFICES ASSUME bad # {} PROVE FALSE
      OBVIOUS
    <2>1. Min(bad) \in bad /\ \A y \in bad : Min(bad) <= y
      BY SmallestIsThere
    <2> DEFINE m == Min(bad)
    <2>2. m \in Nat /\ ~Good(m) /\ m # 0
      BY <1>4, <2>1
    <2>3. m - 1 \in Nat /\ m - 1 \notin bad /\ (m - 1) + 1 = m
      <3> HIDE DEF bad
      <3> QED
        BY <2>1, <2>2
    <2> QED
      BY <1>5, <2>2, <2>3
  <1>7. Good(Cardinality(S))
    BY <1>6, FS_CardinalityType
  <1>8. Small(Cardinality(S)) = SUBSET S
    BY <1>1
  <1>9. PICK g \in [SUBSET S -> V] : \A t \in SUBSET S : g[t] = Step(g, t)
    BY <1>7, <1>8 DEF Good
  <1>10. g = [t \in SUBSET S |-> Step(g, t)]
    BY <1>9
  <1> QED
    BY <1>9, <1>10 DEF Folds1

----------------------------------------------------------------------------
(* Sums *)

Adds(w, S, g) ==
    g = [t \in SUBSET S |-> IF t = {} THEN 0 ELSE w[Pick1(t)] + g[t \ {Pick1(t)}]]

Total(w, S) == (CHOOSE g : Adds(w, S, g))[S]

LEMMA AddsExists ==
    ASSUME NEW S, IsFiniteSet(S), NEW w, \A x \in S : w[x] \in Nat
    PROVE  \E g \in [SUBSET S -> Nat] : Adds(w, S, g)
  <1> DEFINE op == [e \in S \X Nat |-> w[e[1]] + e[2]]
  <1>1. op \in [S \X Nat -> Nat]
    OBVIOUS
  <1>2. PICK g \in [SUBSET S -> Nat] : Folds1(S, 0, op, g)
    <2> HIDE DEF op
    <2> QED
      BY <1>1, FoldExists
  <1>3. \A t \in SUBSET S : t # {} =>
            op[<<Pick1(t), g[t \ {Pick1(t)}]>>] = w[Pick1(t)] + g[t \ {Pick1(t)}]
    <2> SUFFICES ASSUME NEW t \in SUBSET S, t # {}
                 PROVE  op[<<Pick1(t), g[t \ {Pick1(t)}]>>] = w[Pick1(t)] + g[t \ {Pick1(t)}]
      OBVIOUS
    <2>1. Pick1(t) \in S /\ g[t \ {Pick1(t)}] \in Nat
      BY PickIsThere
    <2> QED
      BY <2>1
  <1>4. \A t \in SUBSET S : g[t] = IF t = {} THEN 0 ELSE op[<<Pick1(t), g[t \ {Pick1(t)}]>>]
    <2> HIDE DEF op
    <2> QED
      BY <1>2 DEF Folds1
  <1>5. \A t \in SUBSET S : g[t] = IF t = {} THEN 0 ELSE w[Pick1(t)] + g[t \ {Pick1(t)}]
    <2> HIDE DEF op
    <2> QED
      BY <1>3, <1>4
  <1>6. g = [t \in SUBSET S |-> IF t = {} THEN 0 ELSE w[Pick1(t)] + g[t \ {Pick1(t)}]]
    BY <1>5
  <1> QED
    BY <1>6 DEF Adds

(* Sums over the same weights are the same, whatever set they are made for. *)
LEMMA AddsAgree ==
    ASSUME NEW S, IsFiniteSet(S), NEW U, NEW w, NEW v, NEW g, NEW h, S \subseteq U,
           Adds(w, S, g), Adds(v, U, h), \A x \in S : w[x] = v[x]
    PROVE  \A t \in SUBSET S : g[t] = h[t]
  <1> DEFINE T == {t \in SUBSET S : g[t] = h[t]}
  <1>1. /\ \A t \in SUBSET S : g[t] = IF t = {} THEN 0 ELSE w[Pick1(t)] + g[t \ {Pick1(t)}]
        /\ \A t \in SUBSET U : h[t] = IF t = {} THEN 0 ELSE v[Pick1(t)] + h[t \ {Pick1(t)}]
    BY DEF Adds
  <1>2. {} \in T
    BY <1>1
  <1>3. ASSUME NEW t \in SUBSET S, t # {}, t \ {Pick1(t)} \in T PROVE t \in T
    <2>1. Pick1(t) \in S /\ t \in SUBSET U
      BY <1>3, PickIsThere
    <2> QED
      BY <1>1, <1>3, <2>1
  <1>4. T = SUBSET S
    <2> HIDE DEF T
    <2>1. T \in SUBSET (SUBSET S)
      BY DEF T
    <2> QED
      BY <1>2, <1>3, <2>1, SubsetInduction
  <1> QED
    BY <1>4

LEMMA TotalIs ==
    ASSUME NEW S, IsFiniteSet(S), NEW w, \A x \in S : w[x] \in Nat
    PROVE  /\ Total(w, S) \in Nat
           /\ \A U, g, v : S \subseteq U /\ Adds(v, U, g) /\ (\A x \in S : w[x] = v[x])
                            => g[S] = Total(w, S)
  <1> DEFINE f == CHOOSE g : Adds(w, S, g)
  <1>1. PICK n \in [SUBSET S -> Nat] : Adds(w, S, n)
    BY AddsExists
  <1>2. Adds(w, S, f)
    BY <1>1
  <1>3. Total(w, S) = f[S]
    BY DEF Total
  <1> HIDE DEF f
  <1>4. f[S] = n[S]
    BY <1>1, <1>2, AddsAgree
  <1>5. ASSUME NEW U, NEW g, NEW v, S \subseteq U, Adds(v, U, g), \A x \in S : w[x] = v[x]
        PROVE  g[S] = f[S]
    BY <1>2, <1>5, AddsAgree
  <1> QED
    BY <1>1, <1>3, <1>4, <1>5

LEMMA TotalUnfolds ==
    ASSUME NEW S, IsFiniteSet(S), NEW w, \A x \in S : w[x] \in Nat
    PROVE  /\ Total(w, S) \in Nat
           /\ Total(w, S) = IF S = {} THEN 0 ELSE w[Pick1(S)] + Total(w, S \ {Pick1(S)})
  <1>1. PICK g \in [SUBSET S -> Nat] : Adds(w, S, g)
    BY AddsExists
  <1>2. g[S] = Total(w, S) /\ Total(w, S) \in Nat
    BY <1>1, TotalIs
  <1>3. g[S] = IF S = {} THEN 0 ELSE w[Pick1(S)] + g[S \ {Pick1(S)}]
    BY <1>1 DEF Adds
  <1>4. IsFiniteSet(S \ {Pick1(S)})
    BY FS_Subset
  <1>5. g[S \ {Pick1(S)}] = Total(w, S \ {Pick1(S)})
    BY <1>1, <1>4, TotalIs
  <1> QED
    BY <1>2, <1>3, <1>5

LEMMA TotalSame ==
    ASSUME NEW S, IsFiniteSet(S), NEW w, NEW v, \A x \in S : w[x] \in Nat /\ w[x] = v[x]
    PROVE  Total(w, S) = Total(v, S)
  <1>1. PICK g \in [SUBSET S -> Nat] : Adds(v, S, g)
    BY AddsExists
  <1> QED
    BY <1>1, TotalIs

(* The order of the elements does not matter. *)
LEMMA TotalWithout ==
    ASSUME NEW S, IsFiniteSet(S), NEW w, \A x \in S : w[x] \in Nat
    PROVE  \A x \in S : Total(w, S) = w[x] + Total(w, S \ {x})
  <1> DEFINE T == {t \in SUBSET S : \A x \in t : Total(w, t) = w[x] + Total(w, t \ {x})}
  <1>1. \A t \in SUBSET S : IsFiniteSet(t) /\ \A x \in t : w[x] \in Nat
    BY FS_Subset
  <1>2. ASSUME NEW t \in SUBSET S, \A x \in t : t \ {x} \in T PROVE t \in T
    <2> DEFINE y == Pick1(t)
    <2> SUFFICES ASSUME t # {} PROVE t \in T
      OBVIOUS
    <2>1. y \in t /\ w[y] \in Nat
      BY <1>1, PickIsThere
    <2>2. Total(w, t) = w[y] + Total(w, t \ {y})
      BY <1>1, TotalUnfolds
    <2>3. ASSUME NEW x \in t, x # y PROVE Total(w, t) = w[x] + Total(w, t \ {x})
      <3>0. w[x] \in Nat /\ Total(w, (t \ {x}) \ {y}) \in Nat
        <4>1. IsFiniteSet((t \ {x}) \ {y}) /\ \A z \in (t \ {x}) \ {y} : w[z] \in Nat
          BY <1>1
        <4> QED
          BY <1>1, <4>1, TotalUnfolds
      <3>1. Total(w, t \ {y}) = w[x] + Total(w, (t \ {y}) \ {x})
        <4>1. t \ {y} \in T /\ x \in t \ {y}
          BY <1>2, <2>1, <2>3
        <4> QED
          BY ONLY <4>1
      <3>2. (t \ {y}) \ {x} = (t \ {x}) \ {y}
        OBVIOUS
      <3>3. Total(w, t \ {x}) = w[y] + Total(w, (t \ {x}) \ {y})
        BY <1>2, <2>1, <2>3
      <3> QED
        BY <2>1, <2>2, <3>0, <3>1, <3>2, <3>3
    <2> QED
      BY <2>2, <2>3
  <1> HIDE DEF T
  <1>3. T \in SUBSET (SUBSET S)
    BY DEF T
  <1>4. \A t \in SUBSET S : (\A x \in t : t \ {x} \in T) => t \in T
    BY <1>2
  <1>5. T = SUBSET S
    BY ONLY <1>3, <1>4, IsFiniteSet(S), RemoveInduction
  <1>6. S \in T
    BY <1>5
  <1> QED
    BY <1>6 DEF T

(* A part is not more than the whole. *)
LEMMA TotalOfPart ==
    ASSUME NEW S, IsFiniteSet(S), NEW w, \A x \in S : w[x] \in Nat
    PROVE  \A A \in SUBSET S : Total(w, A) \in Nat /\ Total(w, A) <= Total(w, S)
  <1> DEFINE T == {t \in SUBSET S : \A A \in SUBSET t : Total(w, A) <= Total(w, t)}
  <1>1. \A t \in SUBSET S : IsFiniteSet(t) /\ (\A x \in t : w[x] \in Nat) /\ Total(w, t) \in Nat
    <2> SUFFICES ASSUME NEW t \in SUBSET S
                 PROVE  IsFiniteSet(t) /\ (\A x \in t : w[x] \in Nat) /\ Total(w, t) \in Nat
      OBVIOUS
    <2>1. IsFiniteSet(t) /\ (\A x \in t : w[x] \in Nat)
      BY FS_Subset
    <2> QED
      BY <2>1, TotalUnfolds
  <1>2. ASSUME NEW t \in SUBSET S, \A x \in t : t \ {x} \in T PROVE t \in T
    <2> SUFFICES ASSUME NEW A \in SUBSET t, A # t PROVE Total(w, A) <= Total(w, t)
      BY <1>1
    <2>1. PICK x \in t : x \notin A
      OBVIOUS
    <2>2. A \in SUBSET (t \ {x})
      BY <2>1
    <2>3. Total(w, A) <= Total(w, t \ {x})
      BY <1>2, <2>1, <2>2
    <2>4. Total(w, t) = w[x] + Total(w, t \ {x}) /\ w[x] \in Nat
      BY <1>1, <2>1, TotalWithout
    <2>5. /\ Total(w, t \ {x}) \in Nat /\ Total(w, A) \in Nat
      <3>1. t \ {x} \in SUBSET S /\ A \in SUBSET S
        OBVIOUS
      <3> QED
        BY <1>1, <3>1
    <2> QED
      BY <2>3, <2>4, <2>5
  <1> HIDE DEF T
  <1>3. T \in SUBSET (SUBSET S)
    BY DEF T
  <1>4. \A t \in SUBSET S : (\A x \in t : t \ {x} \in T) => t \in T
    BY <1>2
  <1>5. T = SUBSET S
    BY ONLY <1>3, <1>4, IsFiniteSet(S), RemoveInduction
  <1>6. S \in T
    BY <1>5
  <1> QED
    BY <1>1, <1>6 DEF T

(* The total of the lengths of cards *)
LEMMA CharsAreTotal ==
    ASSUME NEW s, NEW cards, IsFiniteSet(cards), \A c \in cards : s.cards[c].chars \in Nat
    PROVE  CharsOf(s, cards) = Total([c \in cards |-> s.cards[c].chars], cards)
  <1> DEFINE w == [c \in cards |-> s.cards[c].chars]
             G(g) == g = [t \in SUBSET cards |->
                            IF t = {} THEN 0
                            ELSE s.cards[CHOOSE x \in t : TRUE].chars + g[t \ {CHOOSE x \in t : TRUE}]]
             f == CHOOSE g : G(g)
  <1>1. CharsOf(s, cards) = f[cards]
    BY DEF CharsOf, MapThenSumSet, MapThenFoldSet
  <1>2. \A g : G(g) <=> Adds(w, cards, g)
    <2> SUFFICES ASSUME NEW g PROVE G(g) <=> Adds(w, cards, g)
      OBVIOUS
    <2>1. \A t \in SUBSET cards : t # {} =>
             w[Pick1(t)] = s.cards[CHOOSE x \in t : TRUE].chars /\ Pick1(t) = CHOOSE x \in t : TRUE
      BY PickIsThere DEF Pick1
    <2> DEFINE Mine == [t \in SUBSET cards |->
                          IF t = {} THEN 0
                          ELSE s.cards[CHOOSE x \in t : TRUE].chars + g[t \ {CHOOSE x \in t : TRUE}]]
               Other == [t \in SUBSET cards |->
                          IF t = {} THEN 0 ELSE w[Pick1(t)] + g[t \ {Pick1(t)}]]
    <2> HIDE DEF w
    <2>2. Mine = Other
      <3> DEFINE mine(t) == IF t = {} THEN 0
                            ELSE s.cards[CHOOSE x \in t : TRUE].chars + g[t \ {CHOOSE x \in t : TRUE}]
                 other(t) == IF t = {} THEN 0 ELSE w[Pick1(t)] + g[t \ {Pick1(t)}]
      <3>1. ASSUME NEW t \in SUBSET cards PROVE mine(t) = other(t)
        <4>1. CASE t = {}
          BY ONLY <4>1
        <4>2. CASE t # {}
          <5> DEFINE c == CHOOSE x \in t : TRUE
          <5>1. w[Pick1(t)] = s.cards[c].chars /\ Pick1(t) = c
            BY ONLY <2>1, <4>2
          <5>2. mine(t) = s.cards[c].chars + g[t \ {c}] /\ other(t) = w[Pick1(t)] + g[t \ {Pick1(t)}]
            BY ONLY <4>2
          <5> HIDE DEF c, mine, other
          <5> QED
            BY ONLY <5>1, <5>2
        <4> QED
          BY ONLY <4>1, <4>2
      <3> HIDE DEF mine, other
      <3>2. [t \in SUBSET cards |-> mine(t)] = [t \in SUBSET cards |-> other(t)]
        BY ONLY <3>1
      <3> QED
        BY ONLY <3>2 DEF mine, other
    <2>3. (G(g) <=> g = Mine) /\ (Adds(w, cards, g) <=> g = Other)
      BY DEF Adds
    <2> HIDE DEF Mine, Other, G
    <2> QED
      BY ONLY <2>2, <2>3
  <1>3. \A c \in cards : w[c] \in Nat
    OBVIOUS
  <1> HIDE DEF w, G
  <1>4. \E g : G(g)
    BY <1>2, <1>3, AddsExists
  <1>5. G(f)
    BY <1>4
  <1>6. Adds(w, cards, f)
    BY <1>2, <1>5
  <1> HIDE DEF f
  <1>7. f[cards] = Total(w, cards)
    BY <1>3, <1>6, TotalIs
  <1> QED
    BY <1>1, <1>7 DEF w

----------------------------------------------------------------------------
(* What writes do to the statuses *)

(* Rows are of cards that there are. *)
Bound(s) ==
    /\ \A i \in 1 .. Len(s.events) : s.events[i].card \in CardOf(s)
    /\ \A x \in s.sources : x.card \in CardOf(s)
    /\ s.edges \subseteq CardOf(s) \X CardOf(s)

SoundStore(s, Source) == s \in Store(Source) /\ Timed(s) /\ Born(s) /\ Bound(s)

(* The cards of D now have the status, the others the one they had. *)
Marked(s, t, D, status) ==
    \A d \in CardOf(s) : Status(t, d) = IF d \in D THEN status ELSE Status(s, d)

LEMMA LastEventCounts ==
    ASSUME NEW Source, NEW s \in Store(Source), NEW t \in Store(Source), Timed(s), Timed(t),
           Born(s), NEW c, NEW status, NEW at,
           t.events = Append(s.events, [card |-> c, status |-> status, at |-> at])
    PROVE  /\ Marked(s, t, {c}, status)
           /\ Status(t, c) = status
  <1> DEFINE e == [card |-> c, status |-> status, at |-> at]
             n == Len(s.events) + 1
  <1>1. Len(s.events) \in Nat /\ s.events \in Seq(StateEvent) /\ t.events = Append(s.events, e)
        /\ e.card = c /\ e.status = status
    BY StoreNumbers DEF Store
  <1> HIDE DEF e
  <1>2. /\ Len(t.events) = n /\ t.events[n] = e /\ n \in 1 .. Len(t.events)
        /\ \A i \in 1 .. Len(s.events) : t.events[i] = s.events[i] /\ i \in 1 .. Len(t.events)
        /\ \A i \in 1 .. Len(t.events) : i \in 1 .. Len(s.events) \/ i = n
    BY <1>1
  <1>3. IsLast(t, c, n)
    BY <1>1, <1>2 DEF IsLast
  <1>4. Status(t, c) = status
    BY <1>1, <1>2, <1>3, LastIsStatus
  <1>5. ASSUME NEW d \in CardOf(s), d # c PROVE Status(t, d) = Status(s, d)
    <2>1. PICK i : IsLast(s, d, i)
      BY LastIsThere DEF Born
    <2>2. i \in 1 .. Len(s.events) /\ IsLast(t, d, i)
      BY <1>1, <1>2, <1>5, <2>1 DEF IsLast
    <2>3. Status(s, d) = s.events[i].status /\ Status(t, d) = t.events[i].status
      BY <2>1, <2>2, LastIsStatus
    <2> QED
      BY <1>2, <2>2, <2>3
  <1> QED
    BY <1>4, <1>5 DEF Marked

LEMMA SameEventsSameStatus ==
    ASSUME NEW s, NEW t, t.events = s.events PROVE \A d : Status(t, d) = Status(s, d)
  BY DEF Status, NoLaterThan

LEMMA RetireMarks ==
    ASSUME NEW Source, NEW s, SoundStore(s, Source), now \in Nat, NEW c \in CardOf(s), NEW status \in Retired
    PROVE  LET t == WithEvent(s, c, status)
           IN  /\ SoundStore(t, Source) /\ Later(s, t) /\ t.cards = s.cards /\ t.sources = s.sources
               /\ Marked(s, t, {c}, status)
  <1> DEFINE t == WithEvent(s, c, status)
             e == [card |-> c, status |-> status, at |-> now]
  <1>1. s \in Store(Source) /\ Timed(s) /\ Born(s) /\ Bound(s) /\ c \in Nat /\ status # "active"
    BY StoreNumbers DEF SoundStore, Retired
  <1>2. /\ t \in Store(Source) /\ t.cards = s.cards /\ t.sources = s.sources /\ t.edges = s.edges
        /\ t.events = Append(s.events, e)
    BY <1>1, EventWrites
  <1> HIDE DEF t
  <1>3. Later(s, t) /\ Born(t)
    BY <1>1, <1>2, RetiredLater
  <1>4. Timed(t)
    BY <1>1, <1>2, <1>3, LaterKeeps
  <1>5. Bound(t)
    <2>1. CardOf(t) = CardOf(s) /\ Len(s.events) \in Nat /\ s.events \in Seq(StateEvent)
          /\ e.card = c
      BY <1>1, <1>2, StoreNumbers DEF CardOf, Store
    <2> HIDE DEF e
    <2>2. \A i \in 1 .. Len(t.events) : t.events[i].card \in CardOf(s)
      BY <1>1, <1>2, <2>1 DEF Bound
    <2> QED
      BY <1>1, <1>2, <2>1, <2>2 DEF Bound
  <1>6. Marked(s, t, {c}, status)
    BY <1>1, <1>2, <1>4, LastEventCounts
  <1> QED
    BY <1>2, <1>3, <1>4, <1>5, <1>6 DEF SoundStore, t

LEMMA SupersededMarks ==
    ASSUME NEW Source, NEW s, SoundStore(s, Source), now \in Nat, NEW new \in CardOf(s),
           NEW old \in CardOf(s)
    PROVE  LET t == Superseded(s, new, old)
           IN  /\ SoundStore(t, Source) /\ Later(s, t) /\ t.cards = s.cards /\ t.sources = s.sources
               /\ Marked(s, t, {old}, "superseded")
  <1> DEFINE t == Superseded(s, new, old)
             e == [card |-> old, status |-> "superseded", at |-> now]
  <1>1. s \in Store(Source) /\ Timed(s) /\ Born(s) /\ Bound(s) /\ new \in Nat /\ old \in Nat
    BY StoreNumbers DEF SoundStore
  <1>2. /\ t \in Store(Source) /\ t.cards = s.cards /\ t.sources = s.sources
        /\ t.edges = s.edges \cup {<<new, old>>} /\ t.events = Append(s.events, e)
    BY <1>1, SupersededWrites
  <1> HIDE DEF t
  <1>3. Later(s, t) /\ Born(t)
    BY <1>1, <1>2, RetiredLater
  <1>4. Timed(t)
    BY <1>1, <1>2, <1>3, LaterKeeps
  <1>5. Bound(t)
    <2>1. CardOf(t) = CardOf(s) /\ Len(s.events) \in Nat /\ s.events \in Seq(StateEvent)
          /\ e.card = old
      BY <1>1, <1>2, StoreNumbers DEF CardOf, Store
    <2> HIDE DEF e
    <2>2. \A i \in 1 .. Len(t.events) : t.events[i].card \in CardOf(s)
      BY <1>1, <1>2, <2>1 DEF Bound
    <2> QED
      BY <1>1, <1>2, <2>1, <2>2 DEF Bound
  <1>6. Marked(s, t, {old}, "superseded")
    BY <1>1, <1>2, <1>4, LastEventCounts
  <1> QED
    BY <1>2, <1>3, <1>4, <1>5, <1>6 DEF SoundStore, t

LEMMA SourceMarks ==
    ASSUME NEW Source, NEW s, SoundStore(s, Source), NEW c \in CardOf(s), NEW type, NEW ref,
           [card |-> c, type |-> type, ref |-> ref] \in Source
    PROVE  LET t == WithSource(s, c, type, ref)
           IN  /\ SoundStore(t, Source) /\ Later(s, t) /\ t.cards = s.cards
               /\ t.sources = s.sources \cup {[card |-> c, type |-> type, ref |-> ref]}
               /\ \A d : Status(t, d) = Status(s, d)
  <1> DEFINE t == WithSource(s, c, type, ref)
             x == [card |-> c, type |-> type, ref |-> ref]
  <1>1. s \in Store(Source) /\ Timed(s) /\ Born(s) /\ Bound(s)
    BY DEF SoundStore
  <1>2. /\ t \in Store(Source) /\ t.cards = s.cards /\ t.events = s.events /\ t.edges = s.edges
        /\ t.sources = s.sources \cup {x}
    BY <1>1, SourceWrites
  <1> HIDE DEF t
  <1>3. Later(s, t) /\ Born(t)
    BY <1>1, <1>2, SameLater
  <1>4. Timed(t)
    BY <1>1, <1>2 DEF Timed
  <1>5. Bound(t)
    <2>1. x.card = c /\ CardOf(t) = CardOf(s)
      BY <1>2 DEF CardOf
    <2> HIDE DEF x
    <2> QED
      BY <1>1, <1>2, <2>1 DEF Bound
  <1>6. \A d : Status(t, d) = Status(s, d)
    BY <1>2, SameEventsSameStatus
  <1> QED
    BY <1>2, <1>3, <1>4, <1>5, <1>6 DEF SoundStore, t

LEMMA NewCardMarks ==
    ASSUME NEW Source, NEW s, SoundStore(s, Source), now \in Nat, NEW draft \in Card, NEW type, NEW ref,
           [card |-> NextCard(s), type |-> type, ref |-> ref] \in Source
    PROVE  LET t == WithSource(WithCard(s, draft), NextCard(s), type, ref)
           IN  /\ SoundStore(t, Source) /\ Later(s, t) /\ t.cards = Append(s.cards, draft)
               /\ CardOf(t) = CardOf(s) \cup {NextCard(s)} /\ NextCard(s) \notin CardOf(s)
               /\ t.sources = s.sources \cup {[card |-> NextCard(s), type |-> type, ref |-> ref]}
               /\ \A d \in CardOf(s) : Status(t, d) = Status(s, d)
               /\ Status(t, NextCard(s)) = "active"
  <1> DEFINE t == WithSource(WithCard(s, draft), NextCard(s), type, ref)
             n == NextCard(s)
             x == [card |-> n, type |-> type, ref |-> ref]
             e == [card |-> n, status |-> "active", at |-> now]
  <1>1. s \in Store(Source) /\ Timed(s) /\ Born(s) /\ Bound(s)
    BY DEF SoundStore
  <1>2. /\ t \in Store(Source) /\ Later(s, t) /\ Born(t) /\ t.cards = Append(s.cards, draft)
        /\ t.edges = s.edges /\ t.events = Append(s.events, e)
        /\ t.sources = s.sources \cup {x}
    BY <1>1, NewCardLater
  <1> HIDE DEF t
  <1>3. Timed(t)
    BY <1>1, <1>2, LaterKeeps
  <1>4. /\ Len(s.events) \in Nat /\ s.events \in Seq(StateEvent) /\ e.card = n /\ x.card = n
        /\ Len(s.cards) \in Nat /\ s.cards \in Seq(Card) /\ n = Len(s.cards) + 1
    BY <1>1, StoreNumbers DEF Store, NextCard
  <1> HIDE DEF e, x, n
  <1>5. CardOf(t) = CardOf(s) \cup {n} /\ n \notin CardOf(s)
    BY <1>2, <1>4 DEF CardOf
  <1>6. Bound(t)
    <2>1. \A i \in 1 .. Len(t.events) : t.events[i].card \in CardOf(t)
      BY <1>1, <1>2, <1>4, <1>5 DEF Bound
    <2> QED
      BY <1>1, <1>2, <1>4, <1>5, <2>1 DEF Bound
  <1>7. Marked(s, t, {n}, "active") /\ Status(t, n) = "active"
    BY <1>1, <1>2, <1>3, LastEventCounts DEF e
  <1>8. \A d \in CardOf(s) : Status(t, d) = Status(s, d)
    BY <1>5, <1>7 DEF Marked
  <1> QED
    BY <1>2, <1>3, <1>5, <1>6, <1>7, <1>8 DEF SoundStore, t, n, x

(* The loop over what is superseded, one after the other in any order *)
LEMMA AllSupersededMarks ==
    ASSUME NEW Source, NEW s, SoundStore(s, Source), now \in Nat, NEW new \in CardOf(s),
           NEW olds \in SUBSET CardOf(s)
    PROVE  LET t == AllSuperseded(s, new, olds)
           IN  /\ SoundStore(t, Source) /\ Later(s, t) /\ t.cards = s.cards /\ t.sources = s.sources
               /\ Marked(s, t, olds, "superseded")
  <1> DEFINE V == Store(Source)
             op == [e \in olds \X V |-> Superseded(e[2], new, e[1])]
             G(g) == g = [t \in SUBSET olds |->
                            IF t = {} THEN s
                            ELSE Superseded(g[t \ {CHOOSE x \in t : TRUE}], new, CHOOSE x \in t : TRUE)]
             f == CHOOSE g : G(g)
             Right(t, r) == /\ SoundStore(r, Source) /\ Later(s, r) /\ r.cards = s.cards
                            /\ r.sources = s.sources /\ Marked(s, r, t, "superseded")
  <1>1. s \in V /\ Len(s.cards) \in Nat /\ new \in Nat /\ olds \subseteq Nat
    BY StoreNumbers DEF SoundStore
  <1>2. IsFiniteSet(olds)
    <2>1. IsFiniteSet(CardOf(s))
      BY <1>1, FS_Interval DEF CardOf
    <2> QED
      BY <2>1, FS_Subset
  <1>3. AllSuperseded(s, new, olds) = f[olds]
    BY DEF AllSuperseded, FoldSet, MapThenFoldSet
  <1>4. op \in [olds \X V -> V]
    <2>1. \A r \in V : \A c \in olds : Superseded(r, new, c) \in V
      BY <1>1, SupersededWrites
    <2> HIDE DEF V
    <2> QED
      BY <2>1
  <1>5. PICK h \in [SUBSET olds -> V] : Folds1(olds, s, op, h)
    <2> HIDE DEF op, V
    <2> QED
      BY <1>1, <1>2, <1>4, FoldExists
  <1>6. G(h)
    <2>1. \A t \in SUBSET olds : h[t] = IF t = {} THEN s ELSE op[<<Pick1(t), h[t \ {Pick1(t)}]>>]
      <3> HIDE DEF op, V
      <3> QED
        BY <1>5 DEF Folds1
    <2>2. ASSUME NEW t \in SUBSET olds, t # {}
          PROVE  h[t] = Superseded(h[t \ {Pick1(t)}], new, Pick1(t))
      <3>1. Pick1(t) \in olds /\ h[t \ {Pick1(t)}] \in V
        BY <2>2, PickIsThere
      <3>2. op[<<Pick1(t), h[t \ {Pick1(t)}]>>] = Superseded(h[t \ {Pick1(t)}], new, Pick1(t))
        <4> HIDE DEF V
        <4> QED
          BY <3>1
      <3> QED
        BY <2>1, <2>2, <3>2
    <2>3. \A t \in SUBSET olds :
             h[t] = IF t = {} THEN s ELSE Superseded(h[t \ {Pick1(t)}], new, Pick1(t))
      BY <2>1, <2>2
    <2>4. h = [t \in SUBSET olds |-> h[t]]
      OBVIOUS
    <2> HIDE DEF op, V
    <2> QED
      BY <2>3, <2>4 DEF Pick1
  <1>7. G(f)
    <2> HIDE DEF G
    <2> QED
      BY <1>6
  <1> HIDE DEF f, op, V
  <1>8. \A t \in SUBSET olds :
           f[t] = IF t = {} THEN s ELSE Superseded(f[t \ {Pick1(t)}], new, Pick1(t))
    BY <1>7 DEF Pick1
  <1> HIDE DEF G
  <1> DEFINE T == {t \in SUBSET olds : Right(t, f[t])}
  <1>9. {} \in T
    <2>1. Later(s, s)
      BY LaterIsReflexive DEF SoundStore
    <2> QED
      BY <1>8, <2>1 DEF Marked
  <1>10. ASSUME NEW t \in SUBSET olds, t # {}, t \ {Pick1(t)} \in T PROVE t \in T
    <2> DEFINE c == Pick1(t)
               r == f[t \ {c}]
    <2>1. c \in t /\ c \in CardOf(s) /\ f[t] = Superseded(r, new, c)
      BY <1>8, <1>10, PickIsThere
    <2>2. Right(t \ {c}, r)
      BY <1>10
    <2>3. CardOf(r) = CardOf(s)
      BY <2>2 DEF CardOf
    <2> HIDE DEF c, r
    <2>4. /\ SoundStore(f[t], Source) /\ Later(r, f[t]) /\ f[t].cards = r.cards
          /\ f[t].sources = r.sources /\ Marked(r, f[t], {c}, "superseded")
      BY <2>1, <2>2, <2>3, SupersededMarks
    <2>5. Later(s, f[t])
      BY <1>1, <2>2, <2>4, LaterIsTransitive DEF SoundStore, V
    <2>6. Marked(s, f[t], t, "superseded")
      BY <2>1, <2>2, <2>3, <2>4 DEF Marked
    <2>7. f[t].cards = s.cards /\ f[t].sources = s.sources
      BY <2>2, <2>4
    <2> QED
      BY <2>4, <2>5, <2>6, <2>7
  <1>11. T = SUBSET olds
    <2> HIDE DEF T
    <2>1. T \in SUBSET (SUBSET olds)
      BY DEF T
    <2> QED
      BY <1>2, <1>9, <1>10, <2>1, SubsetInduction
  <1>12. Right(olds, f[olds])
    BY <1>11
  <1> QED
    BY <1>3, <1>12

(* The newest card by valid_from, the one recorded last of those. *)
LEMMA NewestIsThere ==
    ASSUME NEW Source, NEW s \in Store(Source), NEW cards \in SUBSET CardOf(s), cards # {}
    PROVE  NewestOf(s, cards) \in cards
  <1>1. Len(s.cards) \in Nat /\ cards \subseteq Nat /\ \A c \in cards : s.cards[c].from \in Nat
    BY StoreNumbers DEF Card
  <1> DEFINE AtMost(c) == \A d \in cards : s.cards[d].from <= s.cards[c].from
  <1>2. \E c \in cards : AtMost(c)
    <2>1. IsFiniteSet(cards)
      <3>1. IsFiniteSet(CardOf(s))
        BY <1>1, FS_Interval DEF CardOf
      <3> QED
        BY <3>1, FS_Subset
    <2> DEFINE U == {t \in SUBSET cards : t = {} \/
                        \E c \in t : \A d \in t : s.cards[d].from <= s.cards[c].from}
    <2>2. ASSUME NEW t \in SUBSET cards, t # {}, t \ {Pick1(t)} \in U PROVE t \in U
      <3>1. Pick1(t) \in t
        BY <2>2, PickIsThere
      <3>2. CASE t \ {Pick1(t)} = {}
        <4>1. t = {Pick1(t)}
          BY <3>1, <3>2
        <4>2. \A d \in t : s.cards[d].from <= s.cards[Pick1(t)].from
          BY <1>1, <3>1, <4>1
        <4> QED
          BY <3>1, <4>2
      <3>3. CASE t \ {Pick1(t)} # {}
        <4>1. PICK c \in t \ {Pick1(t)} :
                 \A d \in t \ {Pick1(t)} : s.cards[d].from <= s.cards[c].from
          BY <2>2, <3>3
        <4>2. CASE s.cards[Pick1(t)].from <= s.cards[c].from
          BY <4>1, <4>2
        <4>3. CASE ~(s.cards[Pick1(t)].from <= s.cards[c].from)
          <5>1. ASSUME NEW d \in t PROVE s.cards[d].from <= s.cards[Pick1(t)].from
            <6>1. s.cards[d].from \in Nat /\ s.cards[Pick1(t)].from \in Nat /\ s.cards[c].from \in Nat
              BY <1>1, <3>1
            <6>2. CASE d = Pick1(t)
              BY <6>1, <6>2
            <6>3. CASE d # Pick1(t)
              <7>1. s.cards[d].from <= s.cards[c].from
                BY <4>1, <6>3
              <7> QED
                BY <4>3, <6>1, <7>1
            <6> QED
              BY <6>2, <6>3
          <5> QED
            BY <3>1, <5>1
        <4> QED
          BY <4>2, <4>3
      <3> QED
        BY <3>2, <3>3
    <2>3. {} \in U
      OBVIOUS
    <2>4. U = SUBSET cards
      <3> HIDE DEF U
      <3>1. U \in SUBSET (SUBSET cards)
        BY DEF U
      <3> QED
        BY <2>1, <2>2, <2>3, <3>1, SubsetInduction
    <2> QED
      BY <2>4
  <1> DEFINE tops == {c \in cards : AtMost(c)}
  <1>3. tops \in SUBSET (0 .. Len(s.cards)) /\ tops # {}
    <2>1. cards \subseteq 0 .. Len(s.cards)
      BY <1>1 DEF CardOf
    <2> HIDE DEF AtMost
    <2> QED
      BY <1>2, <2>1
  <1>4. Max(tops) \in tops /\ \A y \in tops : y <= Max(tops)
    BY <1>1, <1>3, LargestIsThere
  <1>5. \A d \in cards : \/ s.cards[d].from < s.cards[Max(tops)].from
                         \/ s.cards[d].from = s.cards[Max(tops)].from /\ d <= Max(tops)
    <2> DEFINE m == Max(tops)
    <2>0. m \in tops /\ \A y \in tops : y <= m
      BY <1>4
    <2> HIDE DEF m
    <2>1. ASSUME NEW d \in cards
          PROVE  \/ s.cards[d].from < s.cards[m].from
                 \/ s.cards[d].from = s.cards[m].from /\ d <= m
      <3>1. s.cards[d].from \in Nat /\ s.cards[m].from \in Nat /\ s.cards[d].from <= s.cards[m].from
        BY <1>1, <2>0
      <3>2. CASE s.cards[d].from = s.cards[m].from
        <4>1. d \in tops
          BY <2>0, <3>2
        <4> QED
          BY <2>0, <3>2, <4>1
      <3> QED
        BY <3>1, <3>2
    <2>2. \A d \in cards : \/ s.cards[d].from < s.cards[m].from
                           \/ s.cards[d].from = s.cards[m].from /\ d <= m
      BY <2>1
    <2> HIDE DEF tops
    <2> QED
      BY <2>2 DEF m
  <1>6. Max(tops) \in cards
    BY <1>4
  <1> HIDE DEF tops
  <1> QED
    BY <1>5, <1>6 DEF NewestOf

----------------------------------------------------------------------------
(* Admissions *)

AdmissionSpec == InitStore /\ InitAdmission /\ [][NextAdmission]_<<storeVars, admissionVars>>

ReceiptSource == [card : Nat, type : {"receipt"}, ref : Receipt]

AdmissionType ==
    [pc : {"idle", "repair", "list", "retire"}, receipt : Receipt \cup {NoReceipt},
     card : Nat \cup {Nobody}, retire : SUBSET Nat, listed : SUBSET Nat]

OfKind(s, kind) == {c \in ActiveCards(s) : s.cards[c].kind = kind}

OneWorkflow(s) == \A c, d \in OfKind(s, "workflow") : c = d

OneRepair(s) ==
    \A x, y \in s.sources :
        x.ref = y.ref /\ s.cards[x.card].kind = "repair" /\ s.cards[y.card].kind = "repair"
        => x.card = y.card

(* No repair card is larger than the capacity. *)
RepairsAreSmall(s) ==
    \A c \in CardOf(s) : s.cards[c].kind = "repair" => s.cards[c].chars <= MaxRepairChars

FitTogether(s, cards) == Cardinality(cards) <= MaxRepairs /\ CharsOf(s, cards) <= MaxRepairChars

(* When its list is made an admission has only to retire what is on its list *)
(* for the rest to fit.                                                      *)
AdmissionOK(s, a) ==
    /\ a.pc # "idle" => a.receipt \in Receipt
    /\ a.pc \in {"list", "retire"} => a.card \in CardOf(s) /\ s.cards[a.card].kind = "repair"
    /\ a.card \in CardOf(s) \cup {Nobody}
    /\ a.retire \subseteq a.listed /\ a.listed \subseteq CardOf(s)
    /\ a.pc = "retire" => FitTogether(s, (a.listed \cap ActiveCards(s)) \ a.retire)

AdmissionInv ==
    /\ now \in 0 .. MaxNow /\ SoundStore(store, ReceiptSource)
    /\ admission \in [Admitter -> AdmissionType] /\ admitted \subseteq Receipt
    /\ OneWorkflow(store) /\ OneRepair(store) /\ RepairsAreSmall(store)
    /\ \A p \in Admitter : AdmissionOK(store, admission[p])
    /\ \A cards \in settled :
          cards \subseteq CardOf(store) /\ FitTogether(store, cards \cap ActiveCards(store))

----------------------------------------------------------------------------
(* upsert_scoped_singleton *)

(* What it makes of a store, and of the cards of its own kind. *)
UpsertedWell(s, t, draft, type, ref, Source) ==
    /\ SoundStore(t, Source) /\ Later(s, t)
    /\ \A c \in CardOf(t) : c \in CardOf(s) \/ t.cards[c] = draft
    /\ \A x \in t.sources :
          x \in s.sources \/ (x.card \in CardOf(t) /\ t.cards[x.card].kind = draft.kind)
    /\ \A c, d \in OfKind(t, draft.kind) : c = d

LEMMA StaleArrivalKeeps ==
    ASSUME NEW Source, NEW s, SoundStore(s, Source), now \in Nat, NEW draft \in Card, NEW type, NEW ref,
           \A c \in Nat : [card |-> c, type |-> type, ref |-> ref] \in Source,
           OfKind(s, draft.kind) # {}
    PROVE  UpsertedWell(s, StaleArrival(s, draft, type, ref, OfKind(s, draft.kind)),
                        draft, type, ref, Source)
  <1> DEFINE active == OfKind(s, draft.kind)
             newest == NewestOf(s, active)
             t == AllSuperseded(s, newest, active \ {newest})
             past == {c \in CardOf(s) : s.cards[c].kind = draft.kind /\ s.cards[c].anchor = draft.anchor
                                        /\ c \notin active}
             n == NextCard(t)
             added == WithSource(WithCard(t, draft), n, type, ref)
             result == StaleArrival(s, draft, type, ref, active)
  <1>0. s \in Store(Source) /\ CardOf(s) \subseteq Nat /\ Len(s.cards) \in Nat
    BY StoreNumbers DEF SoundStore
  <1>1. /\ active \subseteq CardOf(s) /\ active # {}
        /\ \A c \in active : s.cards[c].kind = draft.kind
        /\ \A c \in CardOf(s) : c \in active <=> Status(s, c) = "active" /\ s.cards[c].kind = draft.kind
    BY DEF OfKind, ActiveCards
  <1> HIDE DEF active
  <1>2. newest \in active /\ newest \in CardOf(s)
    BY <1>0, <1>1, NewestIsThere
  <1> HIDE DEF newest
  <1>3. active \ {newest} \in SUBSET CardOf(s)
    BY <1>1
  <1>4. /\ SoundStore(t, Source) /\ Later(s, t) /\ t.cards = s.cards /\ t.sources = s.sources
        /\ Marked(s, t, active \ {newest}, "superseded")
    BY <1>2, <1>3, AllSupersededMarks
  <1>5. result = IF past # {} THEN WithSource(t, Max(past), type, ref)
                 ELSE Superseded(added, newest, n)
    BY DEF StaleArrival, newest, active
  <1> HIDE DEF t, result
  <1>6. CardOf(t) = CardOf(s)
    BY <1>4 DEF CardOf
  <1>7. \A c \in CardOf(s) : Status(t, c) = "active" /\ s.cards[c].kind = draft.kind => c = newest
    BY <1>1, <1>4 DEF Marked
  <1>8. CASE past # {}
    <2>1. past \in SUBSET (0 .. Len(s.cards))
      BY <1>0 DEF CardOf
    <2>2. Max(past) \in past
      BY <1>0, <1>8, <2>1, LargestIsThere
    <2> DEFINE m == Max(past)
    <2>3. m \in CardOf(t) /\ s.cards[m].kind = draft.kind /\ m \in Nat
      BY <1>0, <1>6, <2>2
    <2> HIDE DEF m, past
    <2>a. [card |-> m, type |-> type, ref |-> ref] \in Source
      BY <2>3
    <2>4. /\ SoundStore(result, Source) /\ Later(t, result) /\ result.cards = t.cards
          /\ result.sources = t.sources \cup {[card |-> m, type |-> type, ref |-> ref]}
          /\ \A d : Status(result, d) = Status(t, d)
      BY <1>4, <1>5, <1>8, <2>3, <2>a, SourceMarks DEF m
    <2>5. Later(s, result)
      BY <1>0, <1>4, <2>4, LaterIsTransitive DEF SoundStore
    <2>6. CardOf(result) = CardOf(s)
      BY <1>6, <2>4 DEF CardOf
    <2>7. \A c, d \in OfKind(result, draft.kind) : c = d
      BY <1>4, <1>7, <2>4, <2>6 DEF OfKind, ActiveCards
    <2>8. \A x \in result.sources :
              x \in s.sources \/ (x.card \in CardOf(result) /\ result.cards[x.card].kind = draft.kind)
      BY <1>4, <1>6, <2>3, <2>4, <2>6
    <2> QED
      BY <2>4, <2>5, <2>6, <2>7, <2>8 DEF UpsertedWell, result, active
  <1>9. CASE past = {}
    <2>0. n \in Nat /\ t \in Store(Source)
      BY <1>4, StoreNumbers DEF SoundStore
    <2>a. [card |-> n, type |-> type, ref |-> ref] \in Source
      BY <2>0
    <2>1. /\ SoundStore(added, Source) /\ Later(t, added) /\ added.cards = Append(t.cards, draft)
          /\ CardOf(added) = CardOf(t) \cup {n} /\ n \notin CardOf(t)
          /\ added.sources = t.sources \cup {[card |-> n, type |-> type, ref |-> ref]}
          /\ \A d \in CardOf(t) : Status(added, d) = Status(t, d)
      BY <1>4, <2>a, NewCardMarks
    <2> HIDE DEF added, past
    <2>2. newest \in CardOf(added) /\ n \in CardOf(added)
      BY <1>2, <1>6, <2>1
    <2>3. /\ SoundStore(result, Source) /\ Later(added, result) /\ result.cards = added.cards
          /\ result.sources = added.sources /\ Marked(added, result, {n}, "superseded")
      <3>1. result = Superseded(added, newest, n)
        BY <1>5, <1>9
      <3>2. now \in Nat /\ SoundStore(added, Source)
        BY <2>1
      <3>3. /\ SoundStore(Superseded(added, newest, n), Source)
            /\ Later(added, Superseded(added, newest, n))
            /\ Superseded(added, newest, n).cards = added.cards
            /\ Superseded(added, newest, n).sources = added.sources
            /\ Marked(added, Superseded(added, newest, n), {n}, "superseded")
        BY ONLY <2>2, <3>2, SupersededMarks
      <3> QED
        BY ONLY <3>1, <3>3
    <2>4. Later(s, result)
      <3>1. Later(s, added)
        BY <1>0, <1>4, <2>1, LaterIsTransitive DEF SoundStore
      <3> QED
        BY <1>0, <2>1, <2>3, <3>1, LaterIsTransitive DEF SoundStore
    <2>5. CardOf(result) = CardOf(s) \cup {n}
      BY <1>6, <2>1, <2>3 DEF CardOf
    <2>6. /\ result.cards[n] = draft
          /\ \A c \in CardOf(s) : result.cards[c] = s.cards[c]
      <3>1. t.cards \in Seq(Card) /\ n = Len(t.cards) + 1
        BY <2>0 DEF Store, NextCard
      <3> HIDE DEF n
      <3> QED
        BY <1>4, <2>1, <2>3, <3>1 DEF CardOf
    <2>7. \A c, d \in OfKind(result, draft.kind) : c = d
      <3>1. \A c \in OfKind(result, draft.kind) : c \in CardOf(s)
        BY <2>1, <2>3, <2>5 DEF OfKind, ActiveCards, Marked
      <3>2. \A c \in OfKind(result, draft.kind) : c = newest
        BY <1>6, <1>7, <2>1, <2>3, <2>5, <2>6, <3>1 DEF OfKind, ActiveCards, Marked
      <3> QED
        BY <3>2
    <2>8. \A x \in result.sources :
              x \in s.sources \/ (x.card \in CardOf(result) /\ result.cards[x.card].kind = draft.kind)
      <3>1. [card |-> n, type |-> type, ref |-> ref].card = n
        OBVIOUS
      <3>2. n \in CardOf(result) /\ result.cards[n].kind = draft.kind
        BY <2>5, <2>6
      <3> HIDE DEF n
      <3> QED
        BY ONLY <1>4, <2>1, <2>3, <3>1, <3>2
    <2>9. \A c \in CardOf(result) : c \in CardOf(s) \/ result.cards[c] = draft
      BY <2>5, <2>6
    <2> QED
      BY <2>3, <2>4, <2>7, <2>8, <2>9 DEF UpsertedWell, result, active
  <1> QED
    BY <1>8, <1>9

LEMMA MergedKeeps ==
    ASSUME NEW Source, NEW s, SoundStore(s, Source), now \in Nat, NEW draft \in Card, NEW type, NEW ref,
           \A c \in Nat : [card |-> c, type |-> type, ref |-> ref] \in Source,
           NEW stated \in SUBSET OfKind(s, draft.kind), stated # {}
    PROVE  UpsertedWell(s, Merged(s, type, ref, OfKind(s, draft.kind), stated),
                        draft, type, ref, Source)
  <1> DEFINE active == OfKind(s, draft.kind)
             m == NewestOf(s, stated)
             t == WithSource(s, m, type, ref)
             result == Merged(s, type, ref, active, stated)
  <1>0. s \in Store(Source) /\ CardOf(s) \subseteq Nat
    BY StoreNumbers DEF SoundStore
  <1>1. active \subseteq CardOf(s)
        /\ \A c \in CardOf(s) : c \in active <=> Status(s, c) = "active" /\ s.cards[c].kind = draft.kind
    BY DEF OfKind, ActiveCards
  <1>2. m \in stated /\ stated \subseteq CardOf(s)
    BY <1>0, <1>1, NewestIsThere
  <1>3. m \in active /\ m \in CardOf(s) /\ m \in Nat
    BY <1>0, <1>1, <1>2
  <1>4. result = AllSuperseded(t, m, active \ {m})
    BY DEF Merged
  <1> HIDE DEF m, active
  <1>a. [card |-> m, type |-> type, ref |-> ref] \in Source
    BY <1>3
  <1>5. /\ SoundStore(t, Source) /\ Later(s, t) /\ t.cards = s.cards
        /\ t.sources = s.sources \cup {[card |-> m, type |-> type, ref |-> ref]}
        /\ \A d : Status(t, d) = Status(s, d)
    BY <1>3, <1>a, SourceMarks
  <1> HIDE DEF t, result
  <1>6. CardOf(t) = CardOf(s)
    BY <1>5 DEF CardOf
  <1>7. active \ {m} \in SUBSET CardOf(t) /\ m \in CardOf(t)
    BY <1>1, <1>3, <1>6
  <1>8. /\ SoundStore(result, Source) /\ Later(t, result) /\ result.cards = t.cards
        /\ result.sources = t.sources /\ Marked(t, result, active \ {m}, "superseded")
    BY <1>4, <1>5, <1>7, AllSupersededMarks
  <1>9. Later(s, result)
    BY <1>0, <1>5, <1>8, LaterIsTransitive DEF SoundStore
  <1>10. CardOf(result) = CardOf(s)
    BY <1>6, <1>8 DEF CardOf
  <1>11. \A c \in OfKind(result, draft.kind) : c = m
    BY <1>1, <1>5, <1>6, <1>8, <1>10 DEF OfKind, ActiveCards, Marked
  <1>12. \A x \in result.sources :
            x \in s.sources \/ (x.card \in CardOf(result) /\ result.cards[x.card].kind = draft.kind)
    BY <1>1, <1>3, <1>5, <1>8, <1>10
  <1> QED
    BY <1>8, <1>9, <1>10, <1>11, <1>12 DEF UpsertedWell, result, active

LEMMA RevisedKeeps ==
    ASSUME NEW Source, NEW s, SoundStore(s, Source), now \in Nat, NEW draft \in Card, NEW type, NEW ref,
           \A c \in Nat : [card |-> c, type |-> type, ref |-> ref] \in Source
    PROVE  UpsertedWell(s, Revised(s, draft, type, ref, OfKind(s, draft.kind)),
                        draft, type, ref, Source)
  <1> DEFINE active == OfKind(s, draft.kind)
             n == NextCard(s)
             t == WithSource(WithCard(s, draft), n, type, ref)
             result == Revised(s, draft, type, ref, active)
  <1>0. s \in Store(Source) /\ CardOf(s) \subseteq Nat /\ n \in Nat
        /\ s.cards \in Seq(Card) /\ n = Len(s.cards) + 1
    BY StoreNumbers DEF SoundStore, Store, NextCard
  <1>1. active \subseteq CardOf(s)
        /\ \A c \in CardOf(s) : c \in active <=> Status(s, c) = "active" /\ s.cards[c].kind = draft.kind
    BY DEF OfKind, ActiveCards
  <1>2. result = AllSuperseded(t, n, active)
    BY DEF Revised
  <1> HIDE DEF active
  <1>a. [card |-> n, type |-> type, ref |-> ref] \in Source
    BY <1>0
  <1>3. /\ SoundStore(t, Source) /\ Later(s, t) /\ t.cards = Append(s.cards, draft)
        /\ CardOf(t) = CardOf(s) \cup {n} /\ n \notin CardOf(s)
        /\ t.sources = s.sources \cup {[card |-> n, type |-> type, ref |-> ref]}
        /\ \A d \in CardOf(s) : Status(t, d) = Status(s, d)
    BY <1>a, NewCardMarks
  <1> HIDE DEF t, result, n
  <1>4. active \in SUBSET CardOf(t) /\ n \in CardOf(t)
    BY <1>1, <1>3
  <1>5. /\ SoundStore(result, Source) /\ Later(t, result) /\ result.cards = t.cards
        /\ result.sources = t.sources /\ Marked(t, result, active, "superseded")
    BY <1>2, <1>3, <1>4, AllSupersededMarks
  <1>6. Later(s, result)
    BY <1>0, <1>3, <1>5, LaterIsTransitive DEF SoundStore
  <1>7. CardOf(result) = CardOf(s) \cup {n}
    BY <1>3, <1>5 DEF CardOf
  <1>8. result.cards[n] = draft /\ \A c \in CardOf(s) : result.cards[c] = s.cards[c]
    BY <1>0, <1>3, <1>5 DEF CardOf
  <1>9. \A c \in OfKind(result, draft.kind) : c = n
    BY <1>1, <1>3, <1>5, <1>7, <1>8 DEF OfKind, ActiveCards, Marked
  <1>10. \A x \in result.sources :
            x \in s.sources \/ (x.card \in CardOf(result) /\ result.cards[x.card].kind = draft.kind)
    <2>1. [card |-> n, type |-> type, ref |-> ref].card = n
      OBVIOUS
    <2>2. n \in CardOf(result) /\ result.cards[n].kind = draft.kind
      BY <1>7, <1>8
    <2> QED
      BY ONLY <1>3, <1>5, <2>1, <2>2
  <1>11. \A c \in CardOf(result) : c \in CardOf(s) \/ result.cards[c] = draft
    BY <1>7, <1>8
  <1> QED
    BY <1>5, <1>6, <1>9, <1>10, <1>11 DEF UpsertedWell, result, active

LEMMA UpsertKeeps ==
    ASSUME NEW Source, NEW s, SoundStore(s, Source), now \in Nat, NEW draft \in Card, NEW type, NEW ref,
           \A c \in Nat : [card |-> c, type |-> type, ref |-> ref] \in Source
    PROVE  UpsertedWell(s, Upserted(s, draft, type, ref), draft, type, ref, Source)
  <1> DEFINE active == {c \in ActiveCards(s) : s.cards[c].kind = draft.kind}
             stated == {c \in active : s.cards[c].anchor = draft.anchor}
  <1>1. active = OfKind(s, draft.kind)
    BY DEF OfKind
  <1>2. Upserted(s, draft, type, ref) =
            IF IsStale(s, draft, active) THEN StaleArrival(s, draft, type, ref, active)
            ELSE IF stated # {} THEN Merged(s, type, ref, active, stated)
            ELSE Revised(s, draft, type, ref, active)
    BY DEF Upserted
  <1>3. IsStale(s, draft, active) => active # {}
    BY DEF IsStale
  <1>4. stated \in SUBSET active
    OBVIOUS
  <1> HIDE DEF active, stated
  <1> QED
    BY <1>1, <1>2, <1>3, <1>4, StaleArrivalKeeps, MergedKeeps, RevisedKeeps

----------------------------------------------------------------------------
(* Capacity *)

LEMMA SomeCards ==
    ASSUME NEW Source, NEW s \in Store(Source), NEW A \in SUBSET CardOf(s)
    PROVE  /\ IsFiniteSet(A) /\ Cardinality(A) \in Nat
           /\ \A c \in A : s.cards[c].chars \in Nat
           /\ CharsOf(s, A) = Total([c \in CardOf(s) |-> s.cards[c].chars], A)
           /\ CharsOf(s, A) \in Nat
  <1> DEFINE w == [c \in CardOf(s) |-> s.cards[c].chars]
             v == [c \in A |-> s.cards[c].chars]
  <1>1. Len(s.cards) \in Nat /\ \A c \in CardOf(s) : s.cards[c].chars \in Nat
    BY StoreNumbers DEF Card
  <1>2. IsFiniteSet(CardOf(s))
    <2>1. IsFiniteSet(1 .. Len(s.cards))
      BY ONLY <1>1, FS_Interval, 1 \in Int
    <2>. QED
      BY <2>1 DEF CardOf
  <1>3. IsFiniteSet(A) /\ Cardinality(A) \in Nat
    BY <1>2, FS_Subset, FS_CardinalityType
  <1>4. \A c \in A : s.cards[c].chars \in Nat
    BY <1>1
  <1>5. CharsOf(s, A) = Total(v, A)
    BY <1>3, <1>4, CharsAreTotal
  <1>6. \A x \in A : v[x] \in Nat /\ v[x] = w[x]
    BY <1>4
  <1> HIDE DEF v, w
  <1>7. Total(v, A) = Total(w, A) /\ Total(v, A) \in Nat
    BY <1>3, <1>6, TotalSame, TotalUnfolds
  <1> QED
    BY <1>3, <1>4, <1>5, <1>7 DEF w

(* What fits goes on to fit when the store grows and some of it is retired. *)
LEMMA FitShrinks ==
    ASSUME NEW Source, NEW s \in Store(Source), NEW t \in Store(Source), Later(s, t),
           NEW A \in SUBSET CardOf(s), FitTogether(s, A), NEW B \in SUBSET A
    PROVE  FitTogether(t, B)
  <1> DEFINE w == [c \in CardOf(s) |-> s.cards[c].chars]
             v == [c \in CardOf(t) |-> t.cards[c].chars]
  <1>1. CardOf(s) \subseteq CardOf(t) /\ \A c \in CardOf(s) : t.cards[c] = s.cards[c]
    BY StoreNumbers DEF Later, CardOf
  <1>2. B \in SUBSET CardOf(t) /\ B \in SUBSET CardOf(s)
    BY <1>1
  <1>3. /\ IsFiniteSet(A) /\ Cardinality(A) \in Nat /\ CharsOf(s, A) = Total(w, A)
        /\ CharsOf(s, A) \in Nat /\ \A c \in A : s.cards[c].chars \in Nat
    BY SomeCards
  <1>4. /\ IsFiniteSet(B) /\ Cardinality(B) \in Nat /\ CharsOf(t, B) = Total(v, B)
        /\ CharsOf(t, B) \in Nat
    BY <1>2, SomeCards
  <1>5. Cardinality(B) <= Cardinality(A)
    BY <1>3, FS_Subset
  <1>6. (\A x \in A : w[x] \in Nat) /\ \A x \in B : w[x] \in Nat /\ w[x] = v[x]
    BY <1>1, <1>2, <1>3
  <1> HIDE DEF v, w
  <1>7. Total(w, B) = Total(v, B)
    BY <1>4, <1>6, TotalSame
  <1>8. Total(w, B) <= Total(w, A) /\ Total(w, B) \in Nat
    BY <1>3, <1>6, TotalOfPart
  <1>9. MaxRepairs \in Nat /\ MaxRepairChars \in Nat
    BY AdmissionAssumption
  <1> QED
    BY <1>3, <1>4, <1>5, <1>7, <1>8, <1>9 DEF FitTogether

(* select_retirements leaves what fits beside the incoming record. *)
LEMMA RetirementsSuffice ==
    ASSUME NEW Source, NEW s \in Store(Source), NEW mine \in CardOf(s),
           s.cards[mine].chars <= MaxRepairChars,
           NEW others \in SUBSET CardOf(s), mine \notin others
    PROVE  /\ Retirements(s, others, mine) \subseteq others
           /\ FitTogether(s, (others \cup {mine}) \ Retirements(s, others, mine))
  <1> DEFINE n == Cardinality(others)
             K == {k \in 0 .. n : FitBeside(s, NewerThan(others, k), mine)}
             kept == Max({0} \cup K)
             N == NewerThan(others, kept)
             w == [c \in CardOf(s) |-> s.cards[c].chars]
  <1>1. n \in Nat /\ IsFiniteSet(others)
    BY SomeCards
  <1>2. Retirements(s, others, mine) = others \ N
    BY DEF Retirements
  <1>3. kept \in {0} \cup K
    <2>1. {0} \cup K \in SUBSET (0 .. n)
      BY <1>1
    <2> HIDE DEF K, n
    <2> QED
      BY <1>1, <2>1, LargestIsThere
  <1>4. N \subseteq others /\ mine \notin N /\ N \in SUBSET CardOf(s)
        /\ N \cup {mine} \in SUBSET CardOf(s)
    BY DEF NewerThan
  <1>5. MaxRepairs \in Nat \ {0} /\ MaxRepairChars \in Nat
    BY AdmissionAssumption
  <1>6. s.cards[mine].chars \in Nat
    BY StoreNumbers DEF Card
  <1>7. FitBeside(s, N, mine)
    <2>1. CASE kept \in K
      BY <2>1
    <2>2. CASE kept = 0
      <3>1. \A c \in others : Cardinality({d \in others : d > c}) \in Nat
        <4> SUFFICES ASSUME NEW c \in others PROVE Cardinality({d \in others : d > c}) \in Nat
          OBVIOUS
        <4>1. {d \in others : d > c} \in SUBSET others
          OBVIOUS
        <4> QED
          BY <1>1, <4>1, FS_Subset, FS_CardinalityType
      <3>a. \A k \in Nat : ~(k < 0)
        OBVIOUS
      <3>b. NewerThan(others, 0) = {}
        BY <3>1, <3>a DEF NewerThan
      <3> HIDE DEF kept
      <3>2. N = {}
        BY <2>2, <3>b
      <3>3. Cardinality({}) = 0 /\ IsFiniteSet({})
        BY FS_EmptySet
      <3>4. CharsOf(s, {}) = Total(w, {}) /\ Total(w, {}) = 0
        <4>1. {} \in SUBSET CardOf(s) /\ \A x \in {} : w[x] \in Nat
          OBVIOUS
        <4> HIDE DEF w
        <4>2. Total(w, {}) = 0
          BY <3>3, <4>1, TotalUnfolds
        <4> QED
          BY <4>1, <4>2, SomeCards DEF w
      <3> QED
        <4> HIDE DEF w, N
        <4>1. Cardinality(N) + 1 <= MaxRepairs
          BY <1>5, <3>2, <3>3
        <4>2. CharsOf(s, N) + s.cards[mine].chars <= MaxRepairChars
          BY <1>5, <1>6, <3>2, <3>4
        <4> QED
          BY <4>1, <4>2 DEF FitBeside
    <2> QED
      BY <1>3, <2>1, <2>2
  <1> HIDE DEF N
  <1>8. (others \cup {mine}) \ Retirements(s, others, mine) = N \cup {mine}
    BY <1>2, <1>4
  <1>9. Cardinality(N \cup {mine}) = Cardinality(N) + 1
    BY <1>4, SomeCards, FS_AddElement
  <1>10. CharsOf(s, N \cup {mine}) = CharsOf(s, N) + s.cards[mine].chars
    <2>1. CharsOf(s, N) = Total(w, N) /\ CharsOf(s, N \cup {mine}) = Total(w, N \cup {mine})
          /\ IsFiniteSet(N \cup {mine}) /\ CharsOf(s, N) \in Nat
      BY <1>4, SomeCards
    <2>2. w[mine] = s.cards[mine].chars /\ \A x \in N \cup {mine} : w[x] \in Nat
      <3>1. \A x \in N \cup {mine} : s.cards[x].chars \in Nat
        BY <1>4, SomeCards
      <3> QED
        BY <1>4, <3>1
    <2> HIDE DEF w
    <2>3. (N \cup {mine}) \ {mine} = N
      BY <1>4
    <2>4. Total(w, N \cup {mine}) = w[mine] + Total(w, (N \cup {mine}) \ {mine})
      BY <2>1, <2>2, TotalWithout
    <2> QED
      BY <1>6, <2>1, <2>2, <2>3, <2>4
  <1>11. FitTogether(s, N \cup {mine})
    BY <1>7, <1>9, <1>10 DEF FitTogether, FitBeside
  <1> QED
    BY <1>2, <1>8, <1>11

----------------------------------------------------------------------------
(* Each step keeps the invariant. *)

(* A store that grew keeps what an admission has made of its list. *)
LEMMA AdmissionLater ==
    ASSUME NEW Source, NEW s, SoundStore(s, Source), NEW t \in Store(Source), now \in Nat, Later(s, t),
           NEW a, AdmissionOK(s, a)
    PROVE  AdmissionOK(t, a)
  <1>1. /\ CardOf(s) \subseteq CardOf(t) /\ StaysRetired(s, t) /\ s \in Store(Source)
        /\ \A c \in CardOf(s) : t.cards[c] = s.cards[c]
    BY LaterKeeps DEF SoundStore, Later
  <1>2. ASSUME a.pc = "retire" PROVE FitTogether(t, (a.listed \cap ActiveCards(t)) \ a.retire)
    <2> DEFINE A == (a.listed \cap ActiveCards(s)) \ a.retire
               B == (a.listed \cap ActiveCards(t)) \ a.retire
    <2>1. A \in SUBSET CardOf(s) /\ FitTogether(s, A)
      BY <1>2 DEF AdmissionOK
    <2>2. B \in SUBSET A
      BY <1>1 DEF AdmissionOK, ActiveCards, StaysRetired
    <2> HIDE DEF A, B
    <2>3. FitTogether(t, B)
      BY <1>1, <2>1, <2>2, FitShrinks
    <2> QED
      BY <2>3 DEF B
  <1> QED
    BY <1>1, <1>2 DEF AdmissionOK

LEMMA SettledLater ==
    ASSUME NEW Source, NEW s, SoundStore(s, Source), NEW t \in Store(Source), now \in Nat, Later(s, t),
           NEW cards \in SUBSET CardOf(s), FitTogether(s, cards \cap ActiveCards(s))
    PROVE  cards \subseteq CardOf(t) /\ FitTogether(t, cards \cap ActiveCards(t))
  <1>1. CardOf(s) \subseteq CardOf(t) /\ StaysRetired(s, t) /\ s \in Store(Source)
    BY LaterKeeps DEF SoundStore
  <1>2. cards \cap ActiveCards(t) \in SUBSET (cards \cap ActiveCards(s))
    BY <1>1 DEF ActiveCards, StaysRetired
  <1>3. cards \cap ActiveCards(s) \in SUBSET CardOf(s)
    OBVIOUS
  <1>4. FitTogether(t, cards \cap ActiveCards(t))
    BY <1>1, <1>2, <1>3, FitShrinks
  <1> QED
    BY <1>1, <1>4

LEMMA AdmissionMoves ==
    ASSUME AdmissionInv, NEW t, store' = t, now' = now,
           SoundStore(t, ReceiptSource), Later(store, t),
           OneWorkflow(t), OneRepair(t), RepairsAreSmall(t),
           admission' \in [Admitter -> AdmissionType], admitted' \subseteq Receipt,
           \A p \in Admitter : admission'[p] = admission[p] \/ AdmissionOK(t, admission'[p]),
           \A cards \in settled' :
              cards \in settled \/
              (cards \subseteq CardOf(t) /\ FitTogether(t, cards \cap ActiveCards(t)))
    PROVE  AdmissionInv'
  <1>1. /\ now \in 0 .. MaxNow /\ SoundStore(store, ReceiptSource)
        /\ \A p \in Admitter : AdmissionOK(store, admission[p])
        /\ \A cards \in settled :
              cards \subseteq CardOf(store) /\ FitTogether(store, cards \cap ActiveCards(store))
    BY DEF AdmissionInv
  <1>2. t \in Store(ReceiptSource) /\ now \in Nat
    BY <1>1, StoreAssumption DEF SoundStore
  <1>3. \A p \in Admitter : AdmissionOK(t, admission'[p])
    BY <1>1, <1>2, AdmissionLater
  <1>4. \A cards \in settled' :
           cards \subseteq CardOf(t) /\ FitTogether(t, cards \cap ActiveCards(t))
    <2> SUFFICES ASSUME NEW cards \in settled, cards \in settled'
                 PROVE  cards \subseteq CardOf(t) /\ FitTogether(t, cards \cap ActiveCards(t))
      OBVIOUS
    <2>1. cards \in SUBSET CardOf(store) /\ FitTogether(store, cards \cap ActiveCards(store))
      BY <1>1
    <2> QED
      BY <1>1, <1>2, <2>1, SettledLater
  <1>5. SoundStore(store, ReceiptSource)'
    BY DEF SoundStore, Timed, Born, Bound, CardOf, ReceiptSource, Store, Card, StateEvent
  <1>6. OneWorkflow(store)' /\ OneRepair(store)' /\ RepairsAreSmall(store)'
    BY DEF OneWorkflow, OneRepair, RepairsAreSmall
  <1>7. (now \in 0 .. MaxNow)'
    BY <1>1
  <1>8. (\A p \in Admitter : AdmissionOK(store, admission[p]))'
    BY <1>3
  <1>9. (\A cards \in settled :
           cards \subseteq CardOf(store) /\ FitTogether(store, cards \cap ActiveCards(store)))'
    BY <1>4
  <1>10. (admission \in [Admitter -> AdmissionType])'
    BY DEF AdmissionType
  <1> QED
    BY <1>5, <1>6, <1>7, <1>8, <1>9, <1>10 DEF AdmissionInv

LEMMA DraftsAreCards ==
    ASSUME NEW r \in Receipt
    PROVE  /\ WorkflowDraft(r) \in Card /\ WorkflowDraft(r).kind = "workflow"
           /\ RepairDraft(r) \in Card /\ RepairDraft(r).kind = "repair"
           /\ RepairDraft(r).chars = PatchChars[r]
           /\ \A c \in Nat : [card |-> c, type |-> "receipt", ref |-> r] \in ReceiptSource
  <1>1. Checks[r] \in Anchor /\ IssuedAt[r] \in Nat /\ PatchChars[r] \in Nat /\ 1 \in Nat
    BY AdmissionAssumption
  <1>2. {"workflow", "repair"} \subseteq CardKind
    BY DEF CardKind
  <1> QED
    BY <1>1, <1>2 DEF WorkflowDraft, RepairDraft, CardDraft, Card, ReceiptSource

LEMMA NothingAdmitted ==
    ASSUME NEW s
    PROVE  /\ NoAdmission \in AdmissionType /\ NoAdmission.pc = "idle"
           /\ AdmissionOK(s, NoAdmission)
  <1>1. /\ NoAdmission.pc = "idle" /\ NoAdmission.card = Nobody /\ NoAdmission.retire = {}
        /\ NoAdmission.listed = {} /\ NoAdmission \in AdmissionType
    BY DEF NoAdmission, AdmissionType
  <1> QED
    BY <1>1 DEF AdmissionOK

LEMMA AdmissionParts ==
    ASSUME AdmissionInv
    PROVE  /\ now \in Nat /\ SoundStore(store, ReceiptSource) /\ store \in Store(ReceiptSource)
           /\ Later(store, store) /\ CardOf(store) \subseteq Nat
           /\ OneWorkflow(store) /\ OneRepair(store) /\ RepairsAreSmall(store)
           /\ \A p \in Admitter : admission[p] \in AdmissionType /\ AdmissionOK(store, admission[p])
  <1>1. SoundStore(store, ReceiptSource) /\ store \in Store(ReceiptSource) /\ now \in Nat
    BY StoreAssumption DEF AdmissionInv, SoundStore
  <1>2. Later(store, store) /\ CardOf(store) \subseteq Nat
    BY <1>1, LaterIsReflexive, StoreNumbers
  <1> QED
    BY <1>1, <1>2 DEF AdmissionInv

LEMMA AdmissionStarts == InitStore /\ InitAdmission => AdmissionInv
  <1> SUFFICES ASSUME InitStore, InitAdmission PROVE AdmissionInv
    OBVIOUS
  <1>1. /\ store.cards = <<>> /\ store.events = <<>> /\ store.sources = {} /\ store.edges = {}
        /\ now = 0 /\ Len(store.cards) = 0 /\ Len(store.events) = 0
    BY DEF InitStore, EmptyStore
  <1>2. store \in Store(ReceiptSource)
    <2>1. <<>> \in Seq(Card) /\ <<>> \in Seq(StateEvent)
      OBVIOUS
    <2> QED
      BY <2>1 DEF InitStore, EmptyStore, Store
  <1>3. CardOf(store) = {}
    BY <1>1 DEF CardOf
  <1>4. SoundStore(store, ReceiptSource)
    BY <1>1, <1>2, <1>3 DEF SoundStore, Timed, Born, Bound
  <1>5. /\ admission = [p \in Admitter |-> NoAdmission] /\ admitted = {} /\ settled = {}
    BY DEF InitAdmission
  <1>6. admission \in [Admitter -> AdmissionType] /\ \A p \in Admitter : AdmissionOK(store, admission[p])
    BY <1>5, NothingAdmitted
  <1>7. OneWorkflow(store) /\ OneRepair(store) /\ RepairsAreSmall(store)
    BY <1>1, <1>3 DEF OneWorkflow, OneRepair, RepairsAreSmall, OfKind, ActiveCards
  <1> QED
    BY <1>1, <1>4, <1>5, <1>6, <1>7, StoreAssumption DEF AdmissionInv

LEMMA WorkflowKeeps ==
    ASSUME AdmissionInv, NEW p \in Admitter, NEW r \in Receipt, AdmitWorkflow(p, r)
    PROVE  AdmissionInv' /\ Later(store, store')
  <1> DEFINE t == Upserted(store, WorkflowDraft(r), "receipt", r)
             a == [NoAdmission EXCEPT !.pc = "repair", !.receipt = r]
  <1>1. /\ store' = t /\ now' = now /\ settled' = settled /\ admitted' = admitted \cup {r}
        /\ admission' = [admission EXCEPT ![p] = a]
    BY DEF AdmitWorkflow
  <1>2. UpsertedWell(store, t, WorkflowDraft(r), "receipt", r, ReceiptSource)
    BY AdmissionParts, DraftsAreCards, UpsertKeeps
  <1>3. WorkflowDraft(r).kind = "workflow"
    BY DraftsAreCards
  <1> HIDE DEF t
  <1>4. /\ SoundStore(t, ReceiptSource) /\ Later(store, t)
        /\ \A c \in CardOf(t) : c \in CardOf(store) \/ t.cards[c].kind = "workflow"
        /\ \A x \in t.sources : x \in store.sources \/ t.cards[x.card].kind = "workflow"
        /\ \A c, d \in OfKind(t, "workflow") : c = d
    BY <1>2, <1>3 DEF UpsertedWell
  <1>5. \A c \in CardOf(store) : t.cards[c] = store.cards[c]
    BY <1>4 DEF Later
  <1>6. OneWorkflow(t)
    BY <1>4 DEF OneWorkflow
  <1>7. OneRepair(t)
    <2>1. \A x \in store.sources : t.cards[x.card] = store.cards[x.card]
      BY <1>5, AdmissionParts DEF SoundStore, Bound
    <2> QED
      BY <1>4, <2>1, AdmissionParts DEF OneRepair
  <1>8. RepairsAreSmall(t)
    BY <1>4, <1>5, AdmissionParts DEF RepairsAreSmall
  <1>9. a \in AdmissionType /\ AdmissionOK(t, a)
    <2>1. /\ a.pc = "repair" /\ a.receipt = r /\ a.card = Nobody /\ a.retire = {} /\ a.listed = {}
          /\ a \in AdmissionType
      BY DEF NoAdmission, AdmissionType
    <2> QED
      BY <2>1 DEF AdmissionOK
  <1>10. admission \in [Admitter -> AdmissionType] /\ admitted \subseteq Receipt
    BY DEF AdmissionInv
  <1> HIDE DEF a
  <1>11. admission' \in [Admitter -> AdmissionType] /\ admitted' \subseteq Receipt
         /\ \A q \in Admitter : admission'[q] = admission[q] \/ AdmissionOK(t, admission'[q])
    BY <1>1, <1>9, <1>10
  <1> QED
    BY <1>1, <1>4, <1>6, <1>7, <1>8, <1>11, AdmissionMoves

LEMMA AddRepairKeeps ==
    ASSUME AdmissionInv, NEW p \in Admitter, AddRepair(p)
    PROVE  AdmissionInv' /\ Later(store, store')
  <1> DEFINE r == admission[p].receipt
             draft == RepairDraft(r)
             added == OnceFor(store, draft, "receipt", r)
             t == added.store
             new == WithSource(WithCard(store, draft), NextCard(store), "receipt", r)
             n == NextCard(store)
             a == [admission[p] EXCEPT !.pc = "list", !.card = added.card]
  <1>1. /\ store' = t /\ now' = now /\ settled' = settled /\ admitted' = admitted
        /\ admission[p].pc = "repair" /\ HasRepair(r)
        /\ admission' = [admission EXCEPT ![p].pc = "list", ![p].card = added.card]
    BY DEF AddRepair, AdmissionAt
  <1>2. admission \in [Admitter -> AdmissionType] /\ admission[p] \in AdmissionType
        /\ AdmissionOK(store, admission[p]) /\ admitted \subseteq Receipt
    BY AdmissionParts DEF AdmissionInv
  <1>3. admission' = [admission EXCEPT ![p] = a]
    BY <1>1, <1>2
  <1>4. r \in Receipt
    BY <1>1, <1>2 DEF AdmissionOK
  <1> HIDE DEF r
  <1>5. draft \in Card /\ draft.kind = "repair" /\ draft.chars <= MaxRepairChars
    BY <1>1, <1>4, DraftsAreCards DEF HasRepair
  <1>6. n \in Nat /\ [card |-> n, type |-> "receipt", ref |-> r] \in ReceiptSource
    BY <1>4, AdmissionParts, StoreNumbers, DraftsAreCards
  <1> HIDE DEF draft
  <1>7. \/ /\ t = new /\ added.card = n /\ CardFor(store, "repair", "receipt", r) = {}
        \/ t = store /\ added.card \in CardFor(store, "repair", "receipt", r)
    BY <1>5, <1>6, AdmissionParts, OnceForLater DEF SoundStore
  <1> HIDE DEF added
  <1>8. /\ SoundStore(t, ReceiptSource) /\ Later(store, t)
        /\ OneWorkflow(t) /\ OneRepair(t) /\ RepairsAreSmall(t)
        /\ added.card \in CardOf(t) /\ t.cards[added.card].kind = "repair"
    <2>1. CASE t = store /\ added.card \in CardFor(store, "repair", "receipt", r)
      BY <2>1, AdmissionParts DEF CardFor
    <2>2. CASE /\ t = new /\ added.card = n /\ CardFor(store, "repair", "receipt", r) = {}
      <3> DEFINE x0 == [card |-> n, type |-> "receipt", ref |-> r]
      <3>1. /\ SoundStore(t, ReceiptSource) /\ Later(store, t) /\ t.cards = Append(store.cards, draft)
            /\ CardOf(t) = CardOf(store) \cup {n} /\ n \notin CardOf(store)
            /\ t.sources = store.sources \cup {x0}
            /\ \A d \in CardOf(store) : Status(t, d) = Status(store, d)
        BY <1>5, <1>6, <2>2, AdmissionParts, NewCardMarks
      <3>2. store.cards \in Seq(Card) /\ n = Len(store.cards) + 1 /\ x0.card = n /\ x0.ref = r
        BY AdmissionParts DEF Store, NextCard
      <3>3. store.sources \subseteq ReceiptSource
        BY AdmissionParts DEF Store
      <3>x. \A x \in ReceiptSource : x = [card |-> x.card, type |-> "receipt", ref |-> x.ref]
        BY DEF ReceiptSource
      <3> HIDE DEF n, x0, t
      <3>4. t.cards[n] = draft /\ \A c \in CardOf(store) : t.cards[c] = store.cards[c]
        BY <3>1, <3>2 DEF CardOf
      <3>5. OneWorkflow(t)
        BY <1>5, <3>1, <3>4, AdmissionParts DEF OneWorkflow, OfKind, ActiveCards
      <3>6. RepairsAreSmall(t)
        BY <1>5, <3>1, <3>4, AdmissionParts DEF RepairsAreSmall
      <3>7. \A x \in store.sources : x.card \in CardOf(store) /\ t.cards[x.card] = store.cards[x.card]
        BY <3>4, AdmissionParts DEF SoundStore, Bound
      <3>8. ASSUME NEW x \in store.sources, x.ref = r PROVE store.cards[x.card].kind # "repair"
        <4>1. x = [card |-> x.card, type |-> "receipt", ref |-> r]
          BY <3>3, <3>x, <3>8
        <4>2. x.card \notin CardFor(store, "repair", "receipt", r)
          BY <2>2
        <4>3. [card |-> x.card, type |-> "receipt", ref |-> r] \in store.sources
          BY <4>1
        <4> QED
          BY <3>7, <4>2, <4>3 DEF CardFor
      <3>9. OneRepair(t)
        <4> SUFFICES ASSUME NEW x \in t.sources, NEW y \in t.sources, x.ref = y.ref,
                            t.cards[x.card].kind = "repair", t.cards[y.card].kind = "repair"
                     PROVE  x.card = y.card
          BY DEF OneRepair
        <4>1. CASE x \in store.sources /\ y \in store.sources
          BY <3>7, <4>1, AdmissionParts DEF OneRepair
        <4>2. CASE x = x0 /\ y \in store.sources
          BY <3>2, <3>7, <3>8, <4>2
        <4>3. CASE x \in store.sources /\ y = x0
          BY <3>2, <3>7, <3>8, <4>3
        <4>4. CASE x = x0 /\ y = x0
          BY <4>4
        <4> QED
          BY <3>1, <4>1, <4>2, <4>3, <4>4
      <3> QED
        BY <1>5, <2>2, <3>1, <3>4, <3>5, <3>6, <3>9
    <2> QED
      BY <1>7, <2>1, <2>2
  <1>9. a \in AdmissionType /\ AdmissionOK(t, a)
    <2>1. added.card \in Nat
      BY <1>8, StoreNumbers DEF SoundStore
    <2>2. /\ a.pc = "list" /\ a.receipt = r /\ a.card = added.card /\ a.retire = admission[p].retire
          /\ a.listed = admission[p].listed /\ a \in AdmissionType
      BY <1>2, <2>1 DEF AdmissionType, r
    <2>3. CardOf(store) \subseteq CardOf(t)
      BY <1>8, AdmissionParts, LaterKeeps DEF SoundStore
    <2> HIDE DEF a
    <2> QED
      BY <1>2, <1>4, <1>8, <2>2, <2>3 DEF AdmissionOK
  <1> HIDE DEF a, t
  <1>10. admission' \in [Admitter -> AdmissionType]
         /\ \A q \in Admitter : admission'[q] = admission[q] \/ AdmissionOK(t, admission'[q])
    BY <1>2, <1>3, <1>9
  <1> QED
    BY <1>1, <1>2, <1>8, <1>10, AdmissionMoves

(* An admission goes on, and the store stays as it is. *)
LEMMA OnlyAdmissionMoves ==
    ASSUME AdmissionInv, NEW p \in Admitter, NEW a \in AdmissionType, AdmissionOK(store, a),
           UNCHANGED <<storeVars, admitted>>, admission' = [admission EXCEPT ![p] = a],
           \A cards \in settled' :
              cards \in settled \/
              (cards \subseteq CardOf(store) /\ FitTogether(store, cards \cap ActiveCards(store)))
    PROVE  AdmissionInv' /\ Later(store, store')
  <1>1. store' = store /\ now' = now /\ admitted' = admitted
    BY DEF storeVars
  <1>2. admission \in [Admitter -> AdmissionType] /\ admitted \subseteq Receipt
    BY DEF AdmissionInv
  <1>3. admission' \in [Admitter -> AdmissionType]
        /\ \A q \in Admitter : admission'[q] = admission[q] \/ AdmissionOK(store, admission'[q])
    BY <1>2
  <1> QED
    BY <1>1, <1>2, <1>3, AdmissionParts, AdmissionMoves

LEMMA AdmissionEnds ==
    ASSUME AdmissionInv, NEW p \in Admitter, NoRepair(p) \/ Abandon(p)
    PROVE  AdmissionInv' /\ Later(store, store')
  <1>1. /\ UNCHANGED <<storeVars, admitted>> /\ settled' = settled
        /\ admission' = [admission EXCEPT ![p] = NoAdmission]
    BY DEF NoRepair, Abandon
  <1> QED
    BY <1>1, NothingAdmitted, OnlyAdmissionMoves

LEMMA SettleKeeps ==
    ASSUME AdmissionInv, NEW p \in Admitter, Settle(p)
    PROVE  AdmissionInv' /\ Later(store, store')
  <1>1. /\ admission[p].pc = "retire" /\ admission[p].retire = {}
        /\ UNCHANGED <<storeVars, admitted>> /\ settled' = settled \cup {admission[p].listed}
        /\ admission' = [admission EXCEPT ![p] = NoAdmission]
    BY DEF Settle, AdmissionAt
  <1>2. AdmissionOK(store, admission[p])
    BY AdmissionParts
  <1>3. (admission[p].listed \cap ActiveCards(store)) \ admission[p].retire
            = admission[p].listed \cap ActiveCards(store)
    BY <1>1
  <1>4. /\ admission[p].listed \subseteq CardOf(store)
        /\ FitTogether(store, admission[p].listed \cap ActiveCards(store))
    BY <1>1, <1>2, <1>3 DEF AdmissionOK
  <1> QED
    BY <1>1, <1>4, NothingAdmitted, OnlyAdmissionMoves

LEMMA ListRepairsKeeps ==
    ASSUME AdmissionInv, NEW p \in Admitter, ListRepairs(p)
    PROVE  AdmissionInv' /\ Later(store, store')
  <1> DEFINE mine == admission[p].card
             others == {c \in ActiveCards(store) : store.cards[c].kind = "repair"} \ {mine}
             retire == Retirements(store, others, mine)
             a == [admission[p] EXCEPT !.pc = "retire", !.listed = others \cup {mine},
                                       !.retire = retire]
  <1>1. /\ admission[p].pc = "list" /\ UNCHANGED <<storeVars, admitted, settled>>
        /\ admission' = [admission EXCEPT ![p].pc = "retire", ![p].listed = others \cup {mine},
                                          ![p].retire = retire]
    BY DEF ListRepairs, AdmissionAt
  <1>2. admission \in [Admitter -> AdmissionType] /\ admission[p] \in AdmissionType
        /\ AdmissionOK(store, admission[p])
    BY AdmissionParts DEF AdmissionInv
  <1>3. admission' = [admission EXCEPT ![p] = a]
    BY <1>1, <1>2
  <1>4. mine \in CardOf(store) /\ store.cards[mine].kind = "repair"
        /\ store.cards[mine].chars <= MaxRepairChars
    BY <1>1, <1>2, AdmissionParts DEF AdmissionOK, RepairsAreSmall
  <1>5. others \in SUBSET CardOf(store) /\ mine \notin others
    BY DEF ActiveCards
  <1> HIDE DEF mine, others
  <1>6. /\ retire \subseteq others
        /\ FitTogether(store, (others \cup {mine}) \ retire)
    BY <1>4, <1>5, AdmissionParts, RetirementsSuffice
  <1> HIDE DEF retire
  <1>7. FitTogether(store, ((others \cup {mine}) \cap ActiveCards(store)) \ retire)
    <2> DEFINE A == (others \cup {mine}) \ retire
               B == ((others \cup {mine}) \cap ActiveCards(store)) \ retire
    <2>1. A \in SUBSET CardOf(store) /\ B \in SUBSET A /\ FitTogether(store, A)
      BY <1>4, <1>5, <1>6
    <2> HIDE DEF A, B
    <2>2. FitTogether(store, B)
      BY <2>1, AdmissionParts, FitShrinks
    <2> QED
      BY <2>2 DEF B
  <1>8. /\ a.pc = "retire" /\ a.receipt = admission[p].receipt /\ a.card = mine
        /\ a.retire = retire /\ a.listed = others \cup {mine}
    BY <1>2 DEF AdmissionType, mine
  <1>9. a \in AdmissionType
    <2>1. retire \in SUBSET Nat /\ others \cup {mine} \in SUBSET Nat
      BY <1>4, <1>5, <1>6, AdmissionParts
    <2> QED
      BY <1>2, <2>1 DEF AdmissionType
  <1> HIDE DEF a
  <1>10. AdmissionOK(store, a)
    BY <1>1, <1>2, <1>4, <1>5, <1>6, <1>7, <1>8 DEF AdmissionOK
  <1> QED
    BY <1>1, <1>3, <1>9, <1>10, OnlyAdmissionMoves

(* A card is retired: no card becomes active and none is added. *)
LEMMA RetireCard ==
    ASSUME AdmissionInv, NEW c \in CardOf(store), NEW status \in Retired
    PROVE  LET t == WithEvent(store, c, status)
           IN  /\ SoundStore(t, ReceiptSource) /\ Later(store, t) /\ t.cards = store.cards
               /\ OneWorkflow(t) /\ OneRepair(t) /\ RepairsAreSmall(t)
               /\ ActiveCards(t) = ActiveCards(store) \ {c}
  <1> DEFINE t == WithEvent(store, c, status)
  <1>1. /\ SoundStore(t, ReceiptSource) /\ Later(store, t) /\ t.cards = store.cards
        /\ t.sources = store.sources /\ Marked(store, t, {c}, status)
    BY AdmissionParts, RetireMarks
  <1> HIDE DEF t
  <1>2. CardOf(t) = CardOf(store) /\ status # "active"
    BY <1>1 DEF CardOf, Retired
  <1>3. ActiveCards(t) = ActiveCards(store) \ {c}
    BY <1>1, <1>2 DEF ActiveCards, Marked
  <1>4. OneWorkflow(t)
    BY <1>1, <1>3, AdmissionParts DEF OneWorkflow, OfKind
  <1>5. OneRepair(t)
    BY <1>1, AdmissionParts DEF OneRepair
  <1>6. RepairsAreSmall(t)
    BY <1>1, <1>2, AdmissionParts DEF RepairsAreSmall
  <1> QED
    BY <1>1, <1>3, <1>4, <1>5, <1>6 DEF t

LEMMA RetireNextKeeps ==
    ASSUME AdmissionInv, NEW p \in Admitter, RetireNext(p)
    PROVE  AdmissionInv' /\ Later(store, store')
  <1> DEFINE c == Min(admission[p].retire)
             t == WithEvent(store, c, "stale")
             a == [admission[p] EXCEPT !.retire = admission[p].retire \ {c}]
  <1>1. /\ admission[p].pc = "retire" /\ admission[p].retire # {}
        /\ store' = t /\ now' = now /\ admitted' = admitted /\ settled' = settled
        /\ admission' = [admission EXCEPT ![p].retire = @ \ {c}]
    BY DEF RetireNext, AdmissionAt
  <1>2. admission \in [Admitter -> AdmissionType] /\ admission[p] \in AdmissionType
        /\ AdmissionOK(store, admission[p]) /\ admitted \subseteq Receipt
    BY AdmissionParts DEF AdmissionInv
  <1>3. admission' = [admission EXCEPT ![p] = a]
    BY <1>1, <1>2
  <1>4. c \in admission[p].retire /\ c \in CardOf(store)
    <2>1. admission[p].retire \in SUBSET Nat
      BY <1>2 DEF AdmissionType
    <2>2. c \in admission[p].retire
      BY <1>1, <2>1, SmallestIsThere
    <2> QED
      BY <1>2, <2>2 DEF AdmissionOK
  <1> HIDE DEF c
  <1>5. "stale" \in Retired
    BY DEF Retired
  <1>6. /\ SoundStore(t, ReceiptSource) /\ Later(store, t) /\ t.cards = store.cards
        /\ OneWorkflow(t) /\ OneRepair(t) /\ RepairsAreSmall(t)
        /\ ActiveCards(t) = ActiveCards(store) \ {c}
    BY <1>4, <1>5, RetireCard
  <1> HIDE DEF t
  <1>7. AdmissionOK(t, admission[p])
    BY <1>2, <1>6, AdmissionParts, AdmissionLater DEF SoundStore
  <1>8. a \in AdmissionType /\ AdmissionOK(t, a)
    <2>1. admission[p].retire \ {c} \in SUBSET Nat
      BY <1>2 DEF AdmissionType
    <2>2. /\ a.pc = admission[p].pc /\ a.receipt = admission[p].receipt
          /\ a.card = admission[p].card /\ a.listed = admission[p].listed
          /\ a.retire = admission[p].retire \ {c} /\ a \in AdmissionType
      BY <1>2, <2>1 DEF AdmissionType
    <2>3. (a.listed \cap ActiveCards(t)) \ a.retire
              = (admission[p].listed \cap ActiveCards(t)) \ admission[p].retire
      BY <1>6, <2>2
    <2> HIDE DEF a
    <2> QED
      BY <1>7, <2>2, <2>3 DEF AdmissionOK
  <1> HIDE DEF a
  <1>9. admission' \in [Admitter -> AdmissionType]
        /\ \A q \in Admitter : admission'[q] = admission[q] \/ AdmissionOK(t, admission'[q])
    BY <1>2, <1>3, <1>8
  <1> QED
    BY <1>1, <1>2, <1>6, <1>9, AdmissionMoves

LEMMA UserForgetsKeeps ==
    ASSUME AdmissionInv, NEW c \in CardOf(store), UserForgets(c)
    PROVE  AdmissionInv' /\ Later(store, store')
  <1> DEFINE t == WithEvent(store, c, "tombstoned")
  <1>1. store' = t /\ now' = now /\ UNCHANGED admissionVars
    BY DEF UserForgets
  <1>2. admission' = admission /\ admitted' = admitted /\ settled' = settled
    BY <1>1 DEF admissionVars
  <1>3. "tombstoned" \in Retired
    BY DEF Retired
  <1>4. /\ SoundStore(t, ReceiptSource) /\ Later(store, t)
        /\ OneWorkflow(t) /\ OneRepair(t) /\ RepairsAreSmall(t)
    BY <1>3, RetireCard
  <1> HIDE DEF t
  <1>5. admission \in [Admitter -> AdmissionType] /\ admitted \subseteq Receipt
    BY DEF AdmissionInv
  <1> QED
    BY <1>1, <1>2, <1>4, <1>5, AdmissionMoves

LEMMA AdmissionTickKeeps == ASSUME AdmissionInv, Tick, UNCHANGED admissionVars PROVE AdmissionInv'
  <1>1. /\ store' = store /\ now < MaxNow /\ now' = now + 1
        /\ admission' = admission /\ admitted' = admitted /\ settled' = settled
    BY DEF Tick, admissionVars
  <1>2. /\ now \in 0 .. MaxNow /\ SoundStore(store, ReceiptSource)
        /\ \A i \in 1 .. Len(store.events) : store.events[i].at \in Nat
    BY AdmissionParts, StoreNumbers DEF AdmissionInv
  <1>3. now' \in 0 .. MaxNow
    BY <1>1, <1>2, StoreAssumption
  <1>4. Timed(store)'
    <2>1. \A i \in 1 .. Len(store.events) : store.events[i].at <= now'
      <3> SUFFICES ASSUME NEW i \in 1 .. Len(store.events) PROVE store.events[i].at <= now'
        OBVIOUS
      <3>1. store.events[i].at <= now /\ store.events[i].at \in Nat
        BY <1>2 DEF SoundStore, Timed
      <3> QED
        BY <1>1, <1>2, <3>1
    <2> QED
      BY <1>1, <1>2, <2>1 DEF SoundStore, Timed
  <1>5. SoundStore(store, ReceiptSource)'
    BY <1>1, <1>2, <1>4 DEF SoundStore, Born, Bound, CardOf, ReceiptSource, Store, Card, StateEvent
  <1>6. AdmissionInv
    OBVIOUS
  <1>7. (\A p \in Admitter : AdmissionOK(store, admission[p]))'
        /\ (OneWorkflow(store) /\ OneRepair(store) /\ RepairsAreSmall(store))'
    <2>1. /\ \A p \in Admitter : AdmissionOK(store, admission[p])
          /\ OneWorkflow(store) /\ OneRepair(store) /\ RepairsAreSmall(store)
      BY DEF AdmissionInv
    <2> QED
      BY <1>1, <2>1
  <1>8. (\A cards \in settled :
           cards \subseteq CardOf(store) /\ FitTogether(store, cards \cap ActiveCards(store)))'
    <2>1. \A cards \in settled :
             cards \subseteq CardOf(store) /\ FitTogether(store, cards \cap ActiveCards(store))
      BY DEF AdmissionInv
    <2> QED
      BY <1>1, <2>1
  <1>9. (admission \in [Admitter -> AdmissionType])' /\ (admitted \subseteq Receipt)'
    BY <1>1 DEF AdmissionInv, AdmissionType
  <1> QED
    BY <1>3, <1>5, <1>7, <1>8, <1>9 DEF AdmissionInv

LEMMA AdmissionGoesOn ==
    ASSUME AdmissionInv, NextAdmission
    PROVE  AdmissionInv' /\ (store' # store => Later(store, store'))
  <1>1. ASSUME NEW p \in Admitter, AdmissionStep(p) PROVE AdmissionInv' /\ Later(store, store')
    BY <1>1, AdmissionEnds, AddRepairKeeps, ListRepairsKeeps, RetireNextKeeps, SettleKeeps
       DEF AdmissionStep
  <1>2. ASSUME Tick, UNCHANGED admissionVars PROVE AdmissionInv' /\ store' = store
    BY <1>2, AdmissionTickKeeps DEF Tick
  <1> QED
    BY <1>1, <1>2, WorkflowKeeps, UserForgetsKeeps DEF NextAdmission

LEMMA AdmissionStays ==
    AdmissionInv /\ [NextAdmission]_<<storeVars, admissionVars>> => AdmissionInv'
  <1> SUFFICES ASSUME AdmissionInv, UNCHANGED <<storeVars, admissionVars>> PROVE AdmissionInv'
    BY AdmissionGoesOn
  <1>1. /\ store' = store /\ now' = now
        /\ admission' = admission /\ admitted' = admitted /\ settled' = settled
    BY DEF storeVars, admissionVars
  <1>2. admission \in [Admitter -> AdmissionType] /\ admitted \subseteq Receipt
    BY DEF AdmissionInv
  <1> QED
    BY <1>1, <1>2, AdmissionParts, AdmissionMoves

(* A workspace has at most one active verified workflow, and a receipt one     *)
(* repair card, for any number of admissions and receipts and in whatever      *)
(* order they are issued, killed and run again (upsert_scoped_singleton,       *)
(* add_card_once_for_source).                                                  *)
THEOREM ReceiptsAreObservedOnce == AdmissionSpec => []ObservedOnce
  <1>1. AdmissionInv => ObservedOnce
    <2> SUFFICES ASSUME AdmissionInv PROVE ObservedOnce
      OBVIOUS
    <2>1. OneWorkflow(store) /\ OneRepair(store)
      BY DEF AdmissionInv
    <2>2. Cardinality(OfKind(store, "workflow")) <= 1
      <3>1. CASE OfKind(store, "workflow") = {}
        BY <3>1, FS_EmptySet
      <3>2. CASE OfKind(store, "workflow") # {}
        <4>1. PICK c : c \in OfKind(store, "workflow")
          BY <3>2
        <4>2. OfKind(store, "workflow") = {c}
          BY <2>1, <4>1 DEF OneWorkflow
        <4> QED
          BY <4>2, FS_Singleton
      <3> QED
        BY <3>1, <3>2
    <2> QED
      BY <2>1, <2>2 DEF ObservedOnce, OfKind, OneRepair
  <1> QED
    BY <1>1, AdmissionStarts, AdmissionStays, PTL DEF AdmissionSpec

(* What _enforce_repair_capacity has left of the repairs it listed and its own *)
(* fits the capacity from then on, whatever other admissions add and retire    *)
(* between its reading and its writes (select_retirements).                    *)
THEOREM RepairsSettleWithinCapacity == AdmissionSpec => []SettledRepairsFit
  <1>1. AdmissionInv => SettledRepairsFit
    BY DEF AdmissionInv, FitTogether, SettledRepairsFit
  <1> QED
    BY <1>1, AdmissionStarts, AdmissionStays, PTL DEF AdmissionSpec

(* Every variable of the store and of the admissions has its type. *)
THEOREM AdmissionTypeCorrect == AdmissionSpec => [](AdmissionTypeOK /\ StoreTypeOK)
  <1>1. AdmissionInv => AdmissionTypeOK
    <2> SUFFICES ASSUME AdmissionInv PROVE AdmissionTypeOK
      OBVIOUS
    <2>1. \A p \in Admitter : admission[p] \in AdmissionType /\ AdmissionOK(store, admission[p])
      BY AdmissionParts
    <2>2. admitted \subseteq Receipt /\ \A cards \in settled : cards \subseteq CardOf(store)
      BY DEF AdmissionInv
    <2> QED
      BY <2>1, <2>2 DEF AdmissionTypeOK, AdmissionType, AdmissionOK
  <1>2. AdmissionInv => StoreTypeOK
    <2> SUFFICES ASSUME AdmissionInv PROVE StoreTypeOK
      OBVIOUS
    <2>1. /\ \A c \in CardOf(store) : store.cards[c] \in Card
          /\ \A i \in 1 .. Len(store.events) : store.events[i] \in StateEvent
      BY AdmissionParts, StoreNumbers
    <2>2. /\ \A c \in CardOf(store) : store.cards[c].kind \in CardKind /\ store.cards[c].anchor \in Anchor
          /\ \A i \in 1 .. Len(store.events) : store.events[i].status \in Retired \cup {"active"}
      BY <2>1 DEF Card, StateEvent
    <2>3. now \in 0 .. MaxNow /\ Born(store) /\ Bound(store)
      BY DEF AdmissionInv, SoundStore
    <2> QED
      BY <2>2, <2>3 DEF Born, Bound, StoreTypeOK
  <1> QED
    BY <1>1, <1>2, AdmissionStarts, AdmissionStays, PTL DEF AdmissionSpec

(* No card that was retired is active again, however receipts repeat and cross *)
(* with what the user forgets (upsert_scoped_singleton,                        *)
(* add_card_once_for_source, transition_card).                                 *)
THEOREM AdmissionRevivesNothing == AdmissionSpec => RetiredStaysRetired
  <1>1. AdmissionInv /\ [NextAdmission]_<<storeVars, admissionVars>> =>
        [CardOf(store) \subseteq CardOf(store') => StaysRetired(store, store')]_storeVars
    <2> SUFFICES ASSUME AdmissionInv, NextAdmission, store' # store PROVE StaysRetired(store, store')
      BY DEF storeVars, StaysRetired
    <2>1. Later(store, store') /\ now \in Nat /\ SoundStore(store, ReceiptSource)
      BY AdmissionGoesOn, AdmissionParts
    <2>2. store' \in Store(ReceiptSource)
      <3>1. AdmissionInv'
        BY AdmissionGoesOn
      <3>2. SoundStore(store, ReceiptSource)'
        BY <3>1 DEF AdmissionInv
      <3> QED
        BY <3>2 DEF SoundStore, Store, Card, StateEvent, ReceiptSource
    <2> QED
      BY <2>1, <2>2, LaterKeeps DEF SoundStore
  <1> QED
    BY <1>1, AdmissionStarts, AdmissionStays, PTL DEF AdmissionSpec, RetiredStaysRetired, StaysRetired

----------------------------------------------------------------------------
(* Chats, memory commands and backups *)

Reference == Log \X Nat

CardType == [kind : CardKind, anchor : {CHOOSE a \in Anchor : TRUE}, from : Nat, chars : Nat]

StoreType ==
    [cards : Seq(CardType),
     events : Seq([card : Nat, status : Retired \cup {"active"}, at : Nat]),
     sources : SUBSET [card : Nat, type : {"event", "forget"}, ref : Reference],
     edges : SUBSET (Nat \X Nat)]

LogsType == [Log -> Seq(Nat)]

RowsType == Seq([type : {"candidate", "approved", "dismissed"}, event : Reference,
                 card : Nat \cup {Nobody}])

SessionType ==
    [pc : {"closed", "prompt", "handle", "approve", "decide", "dismiss", "testify", "tombstone",
           "correct", "reply", "stage"},
     log : Log \cup {NoEvent}, next : Nat, event : Reference \cup {NoEvent},
     card : Nat \cup {Nobody}, chosen : Reference \cup {NoEvent}]

CopyType == [events : LogsType, decisions : RowsType, torn : SUBSET (Log \cup {Candidates}),
             store : StoreType]

BackupType == [pc : {"none", "copying", "done", "restored"},
               left : SUBSET (Log \cup {Candidates, Database}), copy : CopyType, began : CopyType]

LocalTypes ==
    /\ now \in Nat /\ store \in StoreType /\ events \in LogsType /\ decisions \in RowsType
    /\ torn \subseteq Log \cup {Candidates} /\ session \in [Chat -> SessionType]
    /\ present \in BOOLEAN /\ backup \in BackupType

(* The files agree with each other. *)
Honest(log, rows, s) ==
    /\ \A l \in Log : \A i \in 1 .. Len(log[l]) : log[l][i] = i - 1
    /\ \A x \in EventSources(s) : Durable(log, x.ref)
    /\ \A e \in CandidatesIn(rows) : Durable(log, e)
    /\ \A i \in 1 .. Len(rows) : rows[i].type = "approved" => Backed(s, rows[i])

(* What a chat is about to write is true of the files. *)
Good(dialog, log, rows, s) ==
    /\ dialog.pc # "closed" => dialog.log \in Log
    /\ dialog.pc \in {"handle", "testify", "tombstone", "correct", "stage"} =>
          dialog.event \in Reference /\ Durable(log, dialog.event)
    /\ dialog.pc \in {"approve", "decide", "dismiss"} =>
          dialog.chosen \in Reference /\ Durable(log, dialog.chosen)
    /\ dialog.pc = "decide" => Backed(s, Decision(dialog.chosen, "approved", dialog.card))
    /\ dialog.pc \in {"testify", "tombstone", "correct"} => dialog.card \in CardOf(s)

(* The inductive invariant. *)
LocalInv ==
    /\ LocalTypes
    /\ Honest(events, decisions, store)
    /\ \A p \in Chat : Good(session[p], events, decisions, store)
    /\ ~present => \A p \in Chat : ChatAt(p, "closed")

----------------------------------------------------------------------------
(* Logs, candidates and the store only grow, but for a purge. *)

LogsGrow(log, more) ==
    \A l \in Log : /\ Len(log[l]) <= Len(more[l])
                   /\ \A i \in 1 .. Len(log[l]) : more[l][i] = log[l][i]

Richer(s, t) ==
    Len(s.cards) <= Len(t.cards) /\ s.sources \subseteq t.sources

LEMMA DurableStays ==
    ASSUME NEW log \in LogsType, NEW more \in LogsType, LogsGrow(log, more), NEW e, Durable(log, e)
    PROVE  Durable(more, e)
  <1>1. PICK i \in 1 .. Len(log[e[1]]) : log[e[1]][i] = e[2]
    BY DEF Durable
  <1>2. e[1] \in Log
    BY DEF Durable
  <1>3. Len(log[e[1]]) \in Nat /\ Len(more[e[1]]) \in Nat
    BY <1>2 DEF LogsType
  <1>4. i \in 1 .. Len(more[e[1]]) /\ more[e[1]][i] = e[2]
    BY <1>1, <1>2, <1>3 DEF LogsGrow
  <1>. QED
    BY <1>2, <1>4 DEF Durable

LEMMA BackedStays ==
    ASSUME NEW s \in StoreType, NEW t \in StoreType, Richer(s, t), NEW row, Backed(s, row)
    PROVE  Backed(t, row)
  <1>1. Len(s.cards) \in Nat /\ Len(t.cards) \in Nat
    BY DEF StoreType
  <1>. QED
    BY <1>1 DEF Backed, Richer, CardOf, SourcesOf

LEMMA GoodStays ==
    ASSUME NEW log \in LogsType, NEW more \in LogsType, LogsGrow(log, more),
           NEW s \in StoreType, NEW t \in StoreType, Richer(s, t),
           NEW rows, NEW longer, NEW dialog, Good(dialog, log, rows, s)
    PROVE  Good(dialog, more, longer, t)
  <1>1. CardOf(s) \subseteq CardOf(t)
    <2>1. Len(s.cards) \in Nat /\ Len(t.cards) \in Nat
      BY DEF StoreType
    <2>. QED
      BY <2>1 DEF CardOf, Richer
  <1>. QED
    BY <1>1, DurableStays, BackedStays DEF Good

LEMMA GrowthIsReflexive ==
    ASSUME LocalTypes PROVE LogsGrow(events, events) /\ Richer(store, store)
  <1>1. Len(store.cards) \in Nat /\ \A l \in Log : Len(events[l]) \in Nat
    BY DEF LocalTypes, StoreType, LogsType
  <1>. QED
    BY <1>1 DEF LogsGrow, Richer

(* One chat takes a step, and what it writes agrees with the files. *)
LEMMA ChatMoves ==
    ASSUME LocalInv, NEW p \in Chat, NEW dialog \in SessionType,
           session' = [session EXCEPT ![p] = dialog],
           now' = now, store' \in StoreType, events' \in LogsType, decisions' \in RowsType,
           torn' \subseteq Log \cup {Candidates}, UNCHANGED backup, present' = TRUE,
           LogsGrow(events, events'), Richer(store, store'),
           Honest(events', decisions', store'), Good(dialog, events', decisions', store')
    PROVE  LocalInv'
  <1>1. session \in [Chat -> SessionType] /\ store \in StoreType /\ events \in LogsType
        /\ now \in Nat /\ backup \in BackupType
    BY DEF LocalInv, LocalTypes
  <1>2. LocalTypes'
    BY <1>1 DEF LocalTypes
  <1>3. ASSUME NEW q \in Chat PROVE Good(session'[q], events', decisions', store')
    <2>1. CASE q = p
      BY <1>1, <2>1
    <2>2. CASE q # p
      <3>1. session'[q] = session[q]
        BY <1>1, <2>2
      <3>2. Good(session[q], events, decisions, store)
        BY DEF LocalInv
      <3>. QED
        BY <1>1, <3>1, <3>2, GoodStays
    <2>. QED
      BY <2>1, <2>2
  <1>. QED
    BY <1>2, <1>3 DEF LocalInv

(* A chat that changes no file. *)
LEMMA ChatThinks ==
    ASSUME LocalInv, NEW p \in Chat, NEW dialog \in SessionType,
           session' = [session EXCEPT ![p] = dialog],
           UNCHANGED <<storeVars, events, decisions>>,
           torn' \subseteq Log \cup {Candidates}, UNCHANGED backup, present' = TRUE,
           Good(dialog, events, decisions, store)
    PROVE  LocalInv'
  <1>1. UNCHANGED <<store, now, events, decisions>>
    BY DEF storeVars
  <1>2. /\ store \in StoreType /\ events \in LogsType /\ decisions \in RowsType
        /\ Honest(events, decisions, store) /\ LocalTypes
    BY DEF LocalInv, LocalTypes
  <1>3. LogsGrow(events, events) /\ Richer(store, store)
    BY <1>2, GrowthIsReflexive
  <1>. QED
    BY <1>1, <1>2, <1>3, ChatMoves

(* The row that record_event appends has the number of its place. *)
LEMMA RecordedGrows ==
    ASSUME LocalInv, NEW p \in Chat, session[p].log \in Log, Recorded(p)
    PROVE  /\ events' \in LogsType /\ LogsGrow(events, events')
           /\ NextSequence(p) \in Nat
           /\ \A l \in Log : \A i \in 1 .. Len(events'[l]) : events'[l][i] = i - 1
           /\ Durable(events', <<session[p].log, NextSequence(p)>>)
  <1> DEFINE l == session[p].log
             n == NextSequence(p)
  <1>1. events \in LogsType /\ l \in Log /\ events[l] \in Seq(Nat) /\ Len(events[l]) \in Nat
    BY DEF LocalInv, LocalTypes, LogsType
  <1>2. \A m \in Log : \A i \in 1 .. Len(events[m]) : events[m][i] = i - 1
    BY DEF LocalInv, Honest
  <1>3. n = Len(events[l])
    <2>1. CASE events[l] = <<>>
      BY <1>1, <2>1 DEF NextSequence
    <2>2. CASE events[l] # <<>>
      <3>1. Len(events[l]) \in 1 .. Len(events[l])
        BY <1>1, <2>2
      <3>2. events[l][Len(events[l])] = Len(events[l]) - 1
        BY <1>1, <1>2, <3>1
      <3>. QED
        BY <1>1, <2>2, <3>2 DEF NextSequence
    <2>. QED
      BY <2>1, <2>2
  <1>4. events' = [events EXCEPT ![l] = Append(events[l], n)]
    BY <1>1 DEF Recorded, LogsType
  <1>. HIDE DEF n, l
  <1>5. /\ events'[l] = Append(events[l], n) /\ \A m \in Log : m # l => events'[m] = events[m]
        /\ events' \in LogsType
    BY <1>1, <1>3, <1>4 DEF LogsType
  <1>6. /\ Len(events'[l]) = Len(events[l]) + 1 /\ events'[l][Len(events[l]) + 1] = n
        /\ \A i \in 1 .. Len(events[l]) : events'[l][i] = events[l][i]
    BY <1>1, <1>3, <1>5
  <1>7. LogsGrow(events, events')
    <2>1. \A m \in Log : Len(events[m]) \in Nat
      BY <1>1 DEF LogsType
    <2>. QED
      BY <1>5, <1>6, <2>1 DEF LogsGrow
  <1>8. ASSUME NEW m \in Log, NEW i \in 1 .. Len(events'[m]) PROVE events'[m][i] = i - 1
    <2>1. CASE m = l
      BY <1>1, <1>2, <1>3, <1>6, <2>1
    <2>2. CASE m # l
      BY <1>2, <1>5, <2>2
    <2>. QED
      BY <2>1, <2>2
  <1>9. Durable(events', <<l, n>>)
    <2>1. Len(events[l]) + 1 \in 1 .. Len(events'[l])
      BY <1>1, <1>6
    <2>. QED
      BY <1>1, <1>6, <2>1 DEF Durable
  <1>. QED
    BY <1>1, <1>3, <1>5, <1>7, <1>8, <1>9 DEF l, n

(* Files that agree still do when only the logs of the chats grow. *)
LEMMA LogsKeepHonest ==
    ASSUME NEW log \in LogsType, NEW more \in LogsType, LogsGrow(log, more),
           NEW rows, NEW s, Honest(log, rows, s),
           \A l \in Log : \A i \in 1 .. Len(more[l]) : more[l][i] = i - 1
    PROVE  Honest(more, rows, s)
  BY DurableStays DEF Honest

(* Evidence is only added, and only of one event. *)
AddsEvidence(s, t, e) ==
    t \in StoreType /\ Richer(s, t) /\ \A x \in t.sources : x \in s.sources \/ x.ref = e

LEMMA WithEventAdds ==
    ASSUME NEW s \in StoreType, NEW c \in Nat, NEW status \in Retired \cup {"active"}, now \in Nat
    PROVE  /\ WithEvent(s, c, status) \in StoreType /\ WithEvent(s, c, status).cards = s.cards
           /\ WithEvent(s, c, status).sources = s.sources
  <1> DEFINE rows == Append(s.events, [card |-> c, status |-> status, at |-> now])
  <1>1. rows \in Seq([card : Nat, status : Retired \cup {"active"}, at : Nat])
    BY DEF StoreType
  <1>2. WithEvent(s, c, status) = [s EXCEPT !.events = rows]
    BY DEF WithEvent, StoreType
  <1>. HIDE DEF rows
  <1>. QED
    BY <1>1, <1>2 DEF StoreType

LEMMA WithSourceAdds ==
    ASSUME NEW s \in StoreType, NEW c \in Nat, NEW type \in {"event", "forget"},
           NEW ref \in Reference
    PROVE  /\ WithSource(s, c, type, ref) \in StoreType
           /\ WithSource(s, c, type, ref).cards = s.cards
           /\ WithSource(s, c, type, ref).sources
                = s.sources \cup {[card |-> c, type |-> type, ref |-> ref]}
  <1> DEFINE found == s.sources \cup {[card |-> c, type |-> type, ref |-> ref]}
  <1>1. found \in SUBSET [card : Nat, type : {"event", "forget"}, ref : Reference]
    BY DEF StoreType
  <1>2. WithSource(s, c, type, ref) = [s EXCEPT !.sources = found]
    BY DEF WithSource, StoreType
  <1>. HIDE DEF found
  <1>3. /\ WithSource(s, c, type, ref) \in StoreType
        /\ WithSource(s, c, type, ref).cards = s.cards
        /\ WithSource(s, c, type, ref).sources = found
    BY <1>1, <1>2 DEF StoreType
  <1>. QED
    BY <1>3 DEF found

LEMMA WithCardAdds ==
    ASSUME NEW s \in StoreType, NEW draft \in CardType, now \in Nat
    PROVE  /\ WithCard(s, draft) \in StoreType /\ WithCard(s, draft).sources = s.sources
           /\ Len(WithCard(s, draft).cards) = NextCard(s) /\ NextCard(s) \in Nat \ {0}
           /\ Len(s.cards) \in Nat /\ Len(s.cards) < NextCard(s)
  <1> DEFINE longer == Append(s.cards, draft)
             t == [s EXCEPT !.cards = longer]
  <1>1. s.cards \in Seq(CardType)
    BY DEF StoreType
  <1>2. /\ longer \in Seq(CardType) /\ Len(longer) = NextCard(s) /\ NextCard(s) \in Nat \ {0}
        /\ Len(s.cards) \in Nat /\ Len(s.cards) < NextCard(s)
    BY <1>1 DEF NextCard
  <1>3. WithCard(s, draft) = WithEvent(t, NextCard(s), "active")
    BY DEF WithCard, StoreType
  <1>. HIDE DEF longer
  <1>4. t \in StoreType /\ t.cards = longer /\ t.sources = s.sources
    BY <1>2 DEF StoreType
  <1>. HIDE DEF t
  <1>5. /\ WithEvent(t, NextCard(s), "active") \in StoreType
        /\ WithEvent(t, NextCard(s), "active").cards = t.cards
        /\ WithEvent(t, NextCard(s), "active").sources = t.sources
    BY <1>2, <1>4, WithEventAdds
  <1>. QED
    BY <1>2, <1>3, <1>4, <1>5

(* A card with its evidence. *)
LEMMA NewCardAdds ==
    ASSUME NEW s \in StoreType, NEW draft \in CardType, NEW type \in {"event", "forget"},
           NEW ref \in Reference, now \in Nat
    PROVE  LET t == WithSource(WithCard(s, draft), NextCard(s), type, ref)
           IN  /\ AddsEvidence(s, t, ref) /\ NextCard(s) \in CardOf(t)
               /\ [card |-> NextCard(s), type |-> type, ref |-> ref] \in t.sources
  <1> DEFINE u == WithCard(s, draft)
             t == WithSource(u, NextCard(s), type, ref)
  <1>1. /\ u \in StoreType /\ u.sources = s.sources /\ Len(u.cards) = NextCard(s)
        /\ NextCard(s) \in Nat \ {0} /\ Len(s.cards) \in Nat /\ Len(s.cards) < NextCard(s)
    BY WithCardAdds
  <1>. HIDE DEF u
  <1>2. /\ t \in StoreType /\ t.cards = u.cards
        /\ t.sources = u.sources \cup {[card |-> NextCard(s), type |-> type, ref |-> ref]}
    BY <1>1, WithSourceAdds
  <1>. HIDE DEF t
  <1>3. NextCard(s) \in CardOf(t)
    BY <1>1, <1>2 DEF CardOf
  <1>4. AddsEvidence(s, t, ref)
    BY <1>1, <1>2 DEF AddsEvidence, Richer
  <1>. QED
    BY <1>1, <1>2, <1>3, <1>4 DEF t, u

LEMMA OnceForAdds ==
    ASSUME NEW s \in StoreType, NEW draft \in CardType, NEW ref \in Reference, now \in Nat
    PROVE  LET added == OnceFor(s, draft, "event", ref)
           IN  /\ AddsEvidence(s, added.store, ref) /\ added.card \in Nat
               /\ Backed(added.store, Decision(ref, "approved", added.card))
  <1> DEFINE there == CardFor(s, draft.kind, "event", ref)
             added == OnceFor(s, draft, "event", ref)
             new == WithSource(WithCard(s, draft), NextCard(s), "event", ref)
  <1>1. CASE there = {}
    <2>1. added.store = new /\ added.card = NextCard(s)
      BY <1>1 DEF OnceFor
    <2>2. /\ AddsEvidence(s, new, ref) /\ NextCard(s) \in CardOf(new)
          /\ [card |-> NextCard(s), type |-> "event", ref |-> ref] \in new.sources
      BY NewCardAdds
    <2>3. NextCard(s) \in Nat
      BY WithCardAdds
    <2>. HIDE DEF new, added
    <2>. QED
      BY <2>1, <2>2, <2>3 DEF Backed, Decision, SourcesOf, added
  <1>2. CASE there # {}
    <2>1. added.store = s /\ added.card = Min(there)
      BY <1>2 DEF OnceFor
    <2>2. there \in SUBSET Nat /\ Len(s.cards) \in Nat
      BY DEF CardFor, CardOf, StoreType
    <2>3. Min(there) \in there
      BY <1>2, <2>2, SmallestIsThere
    <2>4. /\ Min(there) \in CardOf(s) /\ Min(there) \in Nat
          /\ [card |-> Min(there), type |-> "event", ref |-> ref] \in s.sources
      BY <2>2, <2>3 DEF CardFor
    <2>5. AddsEvidence(s, s, ref)
      BY <2>2 DEF AddsEvidence, Richer
    <2>. HIDE DEF there, added
    <2>. QED
      BY <2>1, <2>4, <2>5 DEF Backed, Decision, SourcesOf, added
  <1>. QED
    BY <1>1, <1>2

LEMMA ReplacedAdds ==
    ASSUME NEW s \in StoreType, NEW old \in Nat, NEW draft \in CardType, NEW ref \in Reference,
           now \in Nat
    PROVE  AddsEvidence(s, Replaced(s, old, draft, "event", ref), ref)
  <1> DEFINE new == WithSource(WithCard(s, draft), NextCard(s), "event", ref)
             t == [new EXCEPT !.edges = @ \cup {<<NextCard(s), old>>}]
  <1>1. AddsEvidence(s, new, ref) /\ NextCard(s) \in Nat
    BY NewCardAdds, WithCardAdds
  <1>2. Replaced(s, old, draft, "event", ref) = WithEvent(t, old, "superseded")
    BY DEF Replaced, Superseded
  <1>. HIDE DEF new
  <1>3. t \in StoreType /\ t.cards = new.cards /\ t.sources = new.sources
    <2>1. new \in StoreType
      BY <1>1 DEF AddsEvidence
    <2>2. new.edges \cup {<<NextCard(s), old>>} \in SUBSET (Nat \X Nat)
      BY <1>1, <2>1 DEF StoreType
    <2>. QED
      BY <2>1, <2>2 DEF StoreType
  <1>. HIDE DEF t
  <1>4. "superseded" \in Retired \cup {"active"}
    BY DEF Retired
  <1>5. /\ WithEvent(t, old, "superseded") \in StoreType
        /\ WithEvent(t, old, "superseded").cards = t.cards
        /\ WithEvent(t, old, "superseded").sources = t.sources
    BY <1>3, <1>4, WithEventAdds
  <1>. QED
    BY <1>1, <1>2, <1>3, <1>5 DEF AddsEvidence, Richer

(* Files that agree still do when evidence of a recorded event is added. *)
LEMMA StoreKeepsHonest ==
    ASSUME NEW log \in LogsType, NEW rows, NEW s \in StoreType, NEW t, NEW e, AddsEvidence(s, t, e),
           Durable(log, e), Honest(log, rows, s)
    PROVE  Honest(log, rows, t)
  <1>1. \A x \in EventSources(t) : Durable(log, x.ref)
    BY DEF AddsEvidence, Honest, EventSources
  <1>2. t \in StoreType /\ Richer(s, t)
    BY DEF AddsEvidence
  <1>3. \A i \in 1 .. Len(rows) : rows[i].type = "approved" => Backed(t, rows[i])
    BY <1>2, BackedStays DEF Honest
  <1>. QED
    BY <1>1, <1>3 DEF Honest

(* A chat's state, with other values in some of its fields. *)
LEMMA ChatTypes ==
    ASSUME LocalInv, NEW p \in Chat
    PROVE  /\ session \in [Chat -> SessionType] /\ session[p] \in SessionType
           /\ Good(session[p], events, decisions, store)
           /\ ~ChatAt(p, "closed") => present = TRUE
           /\ Honest(events, decisions, store)
           /\ now \in Nat /\ store \in StoreType /\ events \in LogsType
           /\ decisions \in RowsType /\ torn \subseteq Log \cup {Candidates}
           /\ LogsGrow(events, events) /\ Richer(store, store)
  <1>1. LocalTypes
    BY DEF LocalInv
  <1>2. LogsGrow(events, events) /\ Richer(store, store)
    BY <1>1, GrowthIsReflexive
  <1>3. ~ChatAt(p, "closed") => present = TRUE
    BY <1>1 DEF LocalInv, LocalTypes
  <1>. QED
    BY <1>1, <1>2, <1>3 DEF LocalInv, LocalTypes

LEMMA ClosedIsGood ==
    /\ Closed \in SessionType
    /\ \A log, rows, s : Good(Closed, log, rows, s)
  BY DEF Closed, SessionType, Good

(* A chat that waits for the next text. *)
LEMMA PromptIsGood ==
    ASSUME NEW l \in Log, NEW n \in Nat
    PROVE  LET dialog == [Closed EXCEPT !.pc = "prompt", !.log = l, !.next = n]
           IN  /\ dialog \in SessionType
               /\ \A log, rows, s : Good(dialog, log, rows, s)
  BY DEF Closed, SessionType, Good

LEMMA OpenKeeps ==
    ASSUME LocalInv, NEW p \in Chat, NEW l \in Log, OpenChat(p, l)
    PROVE  LocalInv'
  <1> DEFINE dialog == [Closed EXCEPT !.pc = "prompt", !.log = l, !.next = Len(events[l])]
  <1>1. events \in LogsType /\ torn \subseteq Log \cup {Candidates}
    BY ChatTypes
  <1>2. Len(events[l]) \in Nat
    BY <1>1 DEF LogsType
  <1>3. dialog \in SessionType /\ Good(dialog, events, decisions, store)
    BY <1>2, PromptIsGood
  <1>4. /\ session' = [session EXCEPT ![p] = dialog] /\ present' = TRUE
        /\ UNCHANGED <<storeVars, events, decisions>> /\ UNCHANGED backup
        /\ torn' \subseteq Log \cup {Candidates}
    BY <1>1 DEF OpenChat, Open
  <1>. HIDE DEF dialog
  <1>. QED
    BY <1>3, <1>4, ChatThinks

LEMMA UtterKeeps ==
    ASSUME LocalInv, NEW p \in Chat, Utter(p), UNCHANGED backupVars
    PROVE  LocalInv'
  <1> DEFINE e == <<session[p].log, NextSequence(p)>>
             dialog == [session[p] EXCEPT !.pc = "handle", !.next = NextSequence(p) + 1,
                                        !.event = e]
  <1>1. /\ session \in [Chat -> SessionType] /\ session[p] \in SessionType
        /\ Good(session[p], events, decisions, store) /\ Honest(events, decisions, store)
        /\ store \in StoreType /\ events \in LogsType /\ decisions \in RowsType
        /\ torn \subseteq Log \cup {Candidates} /\ Richer(store, store)
    BY ChatTypes
  <1>2. session[p].pc = "prompt" /\ session[p].log \in Log /\ present = TRUE
    BY <1>1, ChatTypes DEF Utter, ChatAt, Good
  <1>3. /\ events' \in LogsType /\ LogsGrow(events, events') /\ NextSequence(p) \in Nat
        /\ \A l \in Log : \A i \in 1 .. Len(events'[l]) : events'[l][i] = i - 1
        /\ Durable(events', e)
    BY <1>2, RecordedGrows DEF Utter
  <1>4. Honest(events', decisions, store)
    BY <1>1, <1>3, LogsKeepHonest
  <1>5. e \in Reference /\ NextSequence(p) + 1 \in Nat
    BY <1>2, <1>3 DEF Reference
  <1>6. dialog \in SessionType
    BY <1>1, <1>5 DEF SessionType
  <1>7. Good(dialog, events', decisions, store)
    BY <1>1, <1>2, <1>3, <1>5 DEF Good, SessionType
  <1>8. /\ session' = [session EXCEPT ![p] = dialog]
        /\ UNCHANGED <<store, now, decisions, torn, backup, present>>
    BY DEF Utter, backupVars, storeVars
  <1>. HIDE DEF dialog, e
  <1>. QED
    BY <1>1, <1>2, <1>3, <1>4, <1>6, <1>7, <1>8, ChatMoves

LEMMA RespondKeeps ==
    ASSUME LocalInv, NEW p \in Chat, Respond(p), UNCHANGED backupVars
    PROVE  LocalInv'
  <1> DEFINE dialog == [session[p] EXCEPT !.pc = "stage", !.next = NextSequence(p) + 1]
  <1>1. /\ session \in [Chat -> SessionType] /\ session[p] \in SessionType
        /\ Good(session[p], events, decisions, store) /\ Honest(events, decisions, store)
        /\ store \in StoreType /\ events \in LogsType /\ decisions \in RowsType
        /\ torn \subseteq Log \cup {Candidates} /\ Richer(store, store)
    BY ChatTypes
  <1>2. session[p].pc = "handle" /\ session[p].log \in Log /\ present = TRUE
    BY <1>1, ChatTypes DEF Respond, ChatAt, Good
  <1>3. /\ events' \in LogsType /\ LogsGrow(events, events') /\ NextSequence(p) \in Nat
        /\ \A l \in Log : \A i \in 1 .. Len(events'[l]) : events'[l][i] = i - 1
    BY <1>2, RecordedGrows DEF Respond
  <1>4. Honest(events', decisions, store)
    BY <1>1, <1>3, LogsKeepHonest
  <1>5. Durable(events', session[p].event) /\ session[p].event \in Reference
    BY <1>1, <1>2, <1>3, DurableStays DEF Good
  <1>6. dialog \in SessionType
    <2>1. NextSequence(p) + 1 \in Nat
      BY <1>3
    <2>. QED
      BY <1>1, <2>1 DEF SessionType
  <1>7. Good(dialog, events', decisions, store)
    BY <1>1, <1>2, <1>5 DEF Good, SessionType
  <1>8. /\ session' = [session EXCEPT ![p] = dialog]
        /\ UNCHANGED <<store, now, decisions, torn, backup, present>>
    BY DEF Respond, backupVars, storeVars
  <1>. HIDE DEF dialog
  <1>. QED
    BY <1>1, <1>2, <1>3, <1>4, <1>6, <1>7, <1>8, ChatMoves

LEMMA ReplyKeeps ==
    ASSUME LocalInv, NEW p \in Chat, Reply(p), UNCHANGED backupVars
    PROVE  LocalInv'
  <1>1. /\ session \in [Chat -> SessionType] /\ session[p] \in SessionType
        /\ Good(session[p], events, decisions, store) /\ Honest(events, decisions, store)
        /\ store \in StoreType /\ events \in LogsType /\ decisions \in RowsType
        /\ torn \subseteq Log \cup {Candidates} /\ Richer(store, store)
    BY ChatTypes
  <1>2. session[p].pc = "reply" /\ session[p].log \in Log /\ present = TRUE
    BY <1>1, ChatTypes DEF Reply, ChatAt, Good
  <1>3. UNCHANGED <<storeVars, decisions, torn, backup, present>>
    BY DEF Reply, backupVars
  <1>4. CASE session' = [session EXCEPT ![p] = Closed] /\ UNCHANGED events
    BY <1>1, <1>2, <1>3, <1>4, ClosedIsGood, ChatThinks
  <1>5. CASE /\ Recorded(p)
             /\ session' = [session EXCEPT ![p] = [Closed EXCEPT !.pc = "prompt",
                                !.log = session[p].log, !.next = NextSequence(p) + 1]]
    <2> DEFINE dialog == [Closed EXCEPT !.pc = "prompt", !.log = session[p].log,
                                      !.next = NextSequence(p) + 1]
    <2>1. /\ events' \in LogsType /\ LogsGrow(events, events') /\ NextSequence(p) \in Nat
          /\ \A l \in Log : \A i \in 1 .. Len(events'[l]) : events'[l][i] = i - 1
      BY <1>2, <1>5, RecordedGrows
    <2>2. Honest(events', decisions, store)
      BY <1>1, <2>1, LogsKeepHonest
    <2>3. NextSequence(p) + 1 \in Nat
      BY <2>1
    <2>4. dialog \in SessionType /\ Good(dialog, events', decisions, store)
      BY <1>2, <2>3, PromptIsGood
    <2>5. session' = [session EXCEPT ![p] = dialog] /\ UNCHANGED <<store, now>>
      BY <1>3, <1>5 DEF storeVars
    <2>. HIDE DEF dialog
    <2>. QED
      BY <1>1, <1>2, <1>3, <2>1, <2>2, <2>4, <2>5, ChatMoves
  <1>. QED
    BY <1>4, <1>5 DEF Reply

(* A command that adds evidence of a recorded event to the store. *)
LEMMA EvidenceKeeps ==
    ASSUME LocalInv, NEW p \in Chat, NEW e, AddsEvidence(store, store', e), Durable(events, e),
           NEW dialog \in SessionType, session' = [session EXCEPT ![p] = dialog],
           UNCHANGED <<now, events, decisions, torn>>, UNCHANGED backupVars,
           ~ChatAt(p, "closed"), Good(dialog, events, decisions, store')
    PROVE  LocalInv'
  <1>1. /\ Honest(events, decisions, store) /\ present = TRUE
        /\ store \in StoreType /\ events \in LogsType /\ decisions \in RowsType
        /\ torn \subseteq Log \cup {Candidates} /\ LogsGrow(events, events)
    BY ChatTypes
  <1>2. store' \in StoreType /\ Richer(store, store')
    BY DEF AddsEvidence
  <1>3. Honest(events, decisions, store')
    BY <1>1, <1>2, StoreKeepsHonest
  <1>. QED
    BY <1>1, <1>2, <1>3, ChatMoves DEF backupVars

LEMMA TextType ==
    ASSUME NEW p, now \in Nat PROVE Text(p) \in CardType
  BY DEF Text, CardDraft, CardType, CardKind

(* A chat goes on to its answer. *)
LEMMA GoesToReply ==
    ASSUME NEW dialog \in SessionType, dialog.log \in Log
    PROVE  /\ [dialog EXCEPT !.pc = "reply"] \in SessionType
           /\ \A log, rows, s : Good([dialog EXCEPT !.pc = "reply"], log, rows, s)
  BY DEF SessionType, Good

LEMMA RememberKeeps ==
    ASSUME LocalInv, NEW p \in Chat, Remember(p), UNCHANGED backupVars
    PROVE  LocalInv'
  <1> DEFINE dialog == [session[p] EXCEPT !.pc = "reply"]
             e == session[p].event
             after == OnceFor(store, Text(p), "event", e)
  <1>1. /\ session[p] \in SessionType /\ Good(session[p], events, decisions, store)
        /\ now \in Nat /\ store \in StoreType
    BY ChatTypes
  <1>2. session[p].pc = "handle"
    BY DEF Remember, ChatAt
  <1>3. session[p].log \in Log /\ e \in Reference /\ Durable(events, e)
    BY <1>1, <1>2 DEF Good
  <1>4. dialog \in SessionType /\ Good(dialog, events, decisions, store')
    BY <1>1, <1>3, GoesToReply
  <1>5. store' = after.store
    BY DEF Remember
  <1>6. Text(p) \in CardType
    BY <1>1, TextType
  <1>. HIDE DEF e
  <1>7. AddsEvidence(store, after.store, e)
    BY <1>1, <1>3, <1>6, OnceForAdds
  <1>. HIDE DEF after
  <1>8. AddsEvidence(store, store', e)
    BY <1>5, <1>7
  <1>9. session' = [session EXCEPT ![p] = dialog] /\ UNCHANGED <<now, events, decisions, torn>>
    BY DEF Remember, Goes
  <1>. HIDE DEF dialog
  <1>. QED
    BY <1>2, <1>3, <1>4, <1>8, <1>9, EvidenceKeeps DEF ChatAt

LEMMA ApproveKeeps ==
    ASSUME LocalInv, NEW p \in Chat, Approve(p), UNCHANGED backupVars
    PROVE  LocalInv'
  <1> DEFINE e == session[p].chosen
             added == OnceFor(store, Text(p), "event", e)
             dialog == [session[p] EXCEPT !.pc = "decide", !.card = added.card]
  <1>1. /\ session[p] \in SessionType /\ Good(session[p], events, decisions, store)
        /\ now \in Nat /\ store \in StoreType
    BY ChatTypes
  <1>2. session[p].pc = "approve"
    BY DEF Approve, ChatAt
  <1>3. session[p].log \in Log /\ e \in Reference /\ Durable(events, e)
    BY <1>1, <1>2 DEF Good
  <1>4. /\ store' = added.store /\ session' = [session EXCEPT ![p] = dialog]
        /\ UNCHANGED <<now, events, decisions, torn>>
    BY DEF Approve
  <1>5. Text(p) \in CardType
    BY <1>1, TextType
  <1>6. /\ AddsEvidence(store, added.store, e) /\ added.card \in Nat
        /\ Backed(added.store, Decision(e, "approved", added.card))
    <2>. HIDE DEF e
    <2>. QED
      BY <1>1, <1>3, <1>5, OnceForAdds
  <1>. HIDE DEF added
  <1>7. dialog \in SessionType
    BY <1>1, <1>6 DEF SessionType
  <1>8. /\ dialog.pc = "decide" /\ dialog.log = session[p].log /\ dialog.chosen = e
        /\ dialog.card = added.card
    BY <1>1 DEF SessionType
  <1>. HIDE DEF dialog
  <1>9. Good(dialog, events, decisions, store')
    BY <1>3, <1>4, <1>6, <1>8 DEF Good
  <1>. QED
    BY <1>2, <1>3, <1>4, <1>6, <1>7, <1>9, EvidenceKeeps DEF ChatAt

LEMMA TestifyKeeps ==
    ASSUME LocalInv, NEW p \in Chat, Testify(p), UNCHANGED backupVars
    PROVE  LocalInv'
  <1> DEFINE e == session[p].event
             c == session[p].card
             after == WithSource(store, c, "forget", e)
             dialog == [session[p] EXCEPT !.pc = "tombstone"]
  <1>1. /\ session[p] \in SessionType /\ Good(session[p], events, decisions, store)
        /\ store \in StoreType
    BY ChatTypes
  <1>2. session[p].pc = "testify"
    BY DEF Testify, ChatAt
  <1>3. /\ session[p].log \in Log /\ e \in Reference /\ Durable(events, e)
        /\ c \in CardOf(store)
    BY <1>1, <1>2 DEF Good
  <1>4. /\ store' = after /\ session' = [session EXCEPT ![p] = dialog]
        /\ UNCHANGED <<now, events, decisions, torn>>
    BY DEF Testify, Goes
  <1>5. c \in Nat /\ Len(store.cards) \in Nat
    BY <1>1, <1>3 DEF CardOf, StoreType
  <1>6. /\ after \in StoreType /\ after.cards = store.cards
        /\ after.sources = store.sources \cup {[card |-> c, type |-> "forget", ref |-> e]}
    <2>. HIDE DEF c, e
    <2>. QED
      BY <1>1, <1>3, <1>5, WithSourceAdds
  <1>. HIDE DEF after
  <1>7. AddsEvidence(store, store', e) /\ c \in CardOf(store')
    BY <1>3, <1>4, <1>5, <1>6 DEF AddsEvidence, Richer, CardOf
  <1>8. dialog \in SessionType
    BY <1>1 DEF SessionType
  <1>9. Good(dialog, events, decisions, store')
    BY <1>1, <1>3, <1>7 DEF Good, SessionType
  <1>. HIDE DEF dialog
  <1>. QED
    BY <1>2, <1>3, <1>4, <1>7, <1>8, <1>9, EvidenceKeeps DEF ChatAt

LEMMA TombstoneKeeps ==
    ASSUME LocalInv, NEW p \in Chat, Tombstone(p), UNCHANGED backupVars
    PROVE  LocalInv'
  <1> DEFINE e == session[p].event
             c == session[p].card
             after == WithEvent(store, c, "tombstoned")
             dialog == [session[p] EXCEPT !.pc = "reply"]
  <1>1. /\ session[p] \in SessionType /\ Good(session[p], events, decisions, store)
        /\ store \in StoreType /\ now \in Nat
    BY ChatTypes
  <1>2. session[p].pc = "tombstone"
    BY DEF Tombstone, ChatAt
  <1>3. /\ session[p].log \in Log /\ e \in Reference /\ Durable(events, e)
        /\ c \in CardOf(store)
    BY <1>1, <1>2 DEF Good
  <1>4. /\ store' = after /\ session' = [session EXCEPT ![p] = dialog]
        /\ UNCHANGED <<now, events, decisions, torn>>
    BY DEF Tombstone, Goes
  <1>5. c \in Nat /\ Len(store.cards) \in Nat /\ "tombstoned" \in Retired \cup {"active"}
    BY <1>1, <1>3 DEF CardOf, StoreType, Retired
  <1>6. after \in StoreType /\ after.cards = store.cards /\ after.sources = store.sources
    <2>. HIDE DEF c
    <2>. QED
      BY <1>1, <1>5, WithEventAdds
  <1>. HIDE DEF after
  <1>7. AddsEvidence(store, store', e)
    BY <1>4, <1>5, <1>6 DEF AddsEvidence, Richer
  <1>8. dialog \in SessionType /\ Good(dialog, events, decisions, store')
    BY <1>1, <1>3, GoesToReply
  <1>. HIDE DEF dialog
  <1>. QED
    BY <1>2, <1>3, <1>4, <1>7, <1>8, EvidenceKeeps DEF ChatAt

LEMMA CorrectKeeps ==
    ASSUME LocalInv, NEW p \in Chat, Correct(p), UNCHANGED backupVars
    PROVE  LocalInv'
  <1> DEFINE e == session[p].event
             c == session[p].card
             draft == [Text(p) EXCEPT !.kind = store.cards[c].kind]
             after == Replaced(store, c, draft, "event", e)
             dialog == [session[p] EXCEPT !.pc = "reply"]
  <1>1. /\ session[p] \in SessionType /\ Good(session[p], events, decisions, store)
        /\ store \in StoreType /\ now \in Nat
    BY ChatTypes
  <1>2. session[p].pc = "correct"
    BY DEF Correct, ChatAt
  <1>3. /\ session[p].log \in Log /\ e \in Reference /\ Durable(events, e)
        /\ c \in CardOf(store)
    BY <1>1, <1>2 DEF Good
  <1>4. /\ store' = after /\ session' = [session EXCEPT ![p] = dialog]
        /\ UNCHANGED <<now, events, decisions, torn>>
    BY DEF Correct, Goes
  <1>5. c \in Nat /\ Text(p) \in CardType
    BY <1>1, <1>3, TextType DEF CardOf, StoreType
  <1>6. draft \in CardType
    <2>1. store.cards \in Seq(CardType) /\ c \in 1 .. Len(store.cards)
      BY <1>1, <1>3 DEF StoreType, CardOf
    <2>2. store.cards[c] \in CardType
      BY <2>1
    <2>3. store.cards[c].kind \in CardKind
      BY <2>2 DEF CardType
    <2>. QED
      BY <1>5, <2>3 DEF CardType
  <1>7. AddsEvidence(store, after, e)
    <2>. HIDE DEF c, e, draft
    <2>. QED
      BY <1>1, <1>3, <1>5, <1>6, ReplacedAdds
  <1>. HIDE DEF after
  <1>8. AddsEvidence(store, store', e)
    BY <1>4, <1>7
  <1>9. dialog \in SessionType /\ Good(dialog, events, decisions, store')
    BY <1>1, <1>3, GoesToReply
  <1>. HIDE DEF dialog
  <1>. QED
    BY <1>2, <1>3, <1>4, <1>8, <1>9, EvidenceKeeps DEF ChatAt

(* A row of the candidate log, of a recorded event. *)
LEMMA RowKeepsHonest ==
    ASSUME NEW log, NEW rows \in RowsType, NEW s, Honest(log, rows, s),
           NEW type \in {"candidate", "approved", "dismissed"}, NEW e \in Reference,
           NEW c \in Nat \cup {Nobody}, type = "candidate" => Durable(log, e),
           type = "approved" => Backed(s, [type |-> type, event |-> e, card |-> c])
    PROVE  LET longer == Append(rows, [type |-> type, event |-> e, card |-> c])
           IN  longer \in RowsType /\ Honest(log, longer, s)
  <1> DEFINE row == [type |-> type, event |-> e, card |-> c]
             longer == Append(rows, row)
             n == Len(rows)
  <1>1. row \in [type : {"candidate", "approved", "dismissed"}, event : Reference,
                 card : Nat \cup {Nobody}]
    OBVIOUS
  <1>2. row.type = type /\ row.event = e
    OBVIOUS
  <1>. HIDE DEF row
  <1>3. /\ longer \in RowsType /\ n \in Nat /\ Len(longer) = n + 1 /\ longer[n + 1] = row
        /\ \A i \in 1 .. n : longer[i] = rows[i]
    BY <1>1 DEF RowsType
  <1>. HIDE DEF longer, n
  <1>4. ASSUME NEW x \in CandidatesIn(longer) PROVE Durable(log, x)
    <2>1. PICK i \in 1 .. Len(longer) : longer[i].type = "candidate" /\ longer[i].event = x
      BY DEF CandidatesIn
    <2>2. CASE i = n + 1
      BY <1>2, <1>3, <2>1, <2>2
    <2>3. CASE i # n + 1
      <3>1. i \in 1 .. n /\ longer[i] = rows[i]
        BY <1>3, <2>1, <2>3
      <3>2. x \in CandidatesIn(rows)
        BY <2>1, <3>1 DEF CandidatesIn, n
      <3>. QED
        BY <3>2 DEF Honest
    <2>. QED
      BY <2>2, <2>3
  <1>5. ASSUME NEW i \in 1 .. Len(longer), longer[i].type = "approved"
        PROVE  Backed(s, longer[i])
    <2>1. CASE i = n + 1
      BY <1>2, <1>3, <1>5, <2>1 DEF row
    <2>2. CASE i # n + 1
      <3>1. i \in 1 .. n /\ longer[i] = rows[i]
        BY <1>3, <2>2
      <3>. QED
        BY <1>5, <3>1 DEF Honest, n
    <2>. QED
      BY <2>1, <2>2
  <1>6. Honest(log, longer, s)
    BY <1>4, <1>5 DEF Honest
  <1>. QED
    BY <1>3, <1>6 DEF longer, row

LEMMA DecisionKeeps ==
    ASSUME LocalInv, NEW p \in Chat, UNCHANGED backupVars,
           \/ AppendDecision(p, "decide", "approved", session[p].card)
           \/ AppendDecision(p, "dismiss", "dismissed", Nobody)
    PROVE  LocalInv'
  <1>1. /\ session[p] \in SessionType /\ Good(session[p], events, decisions, store)
        /\ Honest(events, decisions, store) /\ store \in StoreType /\ events \in LogsType
        /\ decisions \in RowsType /\ torn \subseteq Log \cup {Candidates}
        /\ LogsGrow(events, events) /\ Richer(store, store)
    BY ChatTypes
  <1> DEFINE dialog == [session[p] EXCEPT !.pc = "reply"]
             e == session[p].chosen
  <1>2. /\ session[p].log \in Log /\ e \in Reference /\ present = TRUE
    BY <1>1, ChatTypes DEF AppendDecision, ChatAt, Good
  <1>3. dialog \in SessionType /\ Good(dialog, events, decisions', store)
    BY <1>1, <1>2, GoesToReply
  <1>4. session' = [session EXCEPT ![p] = dialog] /\ UNCHANGED <<store, now, events, torn>>
    BY DEF AppendDecision, Goes, storeVars
  <1>5. decisions' \in RowsType /\ Honest(events, decisions', store)
    <2>1. CASE AppendDecision(p, "decide", "approved", session[p].card)
      <3>1. decisions' = Append(decisions, Decision(e, "approved", session[p].card))
        BY <2>1 DEF AppendDecision
      <3>2. Backed(store, Decision(e, "approved", session[p].card))
        BY <1>1, <2>1 DEF AppendDecision, ChatAt, Good
      <3>3. session[p].card \in Nat \cup {Nobody}
        BY <1>1 DEF SessionType
      <3>. HIDE DEF e
      <3>. QED
        BY <1>1, <1>2, <3>1, <3>2, <3>3, RowKeepsHonest DEF Decision
    <2>2. CASE AppendDecision(p, "dismiss", "dismissed", Nobody)
      <3>1. decisions' = Append(decisions, Decision(e, "dismissed", Nobody))
        BY <2>2 DEF AppendDecision
      <3>. HIDE DEF e
      <3>. QED
        BY <1>1, <1>2, <3>1, RowKeepsHonest DEF Decision
    <2>. QED
      BY <2>1, <2>2
  <1>. HIDE DEF dialog
  <1>. QED
    BY <1>1, <1>2, <1>3, <1>4, <1>5, ChatMoves DEF backupVars

LEMMA StageKeeps ==
    ASSUME LocalInv, NEW p \in Chat, UNCHANGED backupVars, Stage(p)
    PROVE  LocalInv'
  <1>1. /\ session[p] \in SessionType /\ Good(session[p], events, decisions, store)
        /\ Honest(events, decisions, store) /\ store \in StoreType /\ events \in LogsType
        /\ decisions \in RowsType /\ torn \subseteq Log \cup {Candidates}
        /\ LogsGrow(events, events) /\ Richer(store, store)
    BY ChatTypes
  <1> DEFINE dialog == [Closed EXCEPT !.pc = "prompt", !.log = session[p].log,
                                    !.next = session[p].next]
             e == session[p].event
  <1>2. /\ session[p].log \in Log /\ e \in Reference /\ present = TRUE /\ Durable(events, e)
        /\ session[p].next \in Nat
    BY <1>1, ChatTypes DEF Stage, ChatAt, Good, SessionType
  <1>3. dialog \in SessionType /\ Good(dialog, events, decisions', store)
    BY <1>2, PromptIsGood
  <1>4. session' = [session EXCEPT ![p] = dialog] /\ UNCHANGED <<store, now, events, torn>>
    BY DEF Stage, storeVars
  <1>5. decisions' \in RowsType /\ Honest(events, decisions', store)
    <2>1. CASE e \in CandidatesIn(decisions)
      BY <1>1, <2>1 DEF Stage
    <2>2. CASE e \notin CandidatesIn(decisions)
      <3>1. decisions' = Append(decisions, Candidate(e))
        BY <2>2 DEF Stage
      <3>. HIDE DEF e
      <3>. QED
        BY <1>1, <1>2, <3>1, RowKeepsHonest DEF Candidate
    <2>. QED
      BY <2>1, <2>2
  <1>. HIDE DEF dialog
  <1>. QED
    BY <1>1, <1>2, <1>3, <1>4, <1>5, ChatMoves DEF backupVars

LEMMA ChooseKeeps ==
    ASSUME LocalInv, NEW p \in Chat, NEW e \in PendingCandidates, UNCHANGED backupVars,
           NEW pc \in {"approve", "dismiss"}, Choose(p, e, pc)
    PROVE  LocalInv'
  <1> DEFINE dialog == [[session[p] EXCEPT !.pc = pc] EXCEPT !.chosen = e]
  <1>1. /\ session \in [Chat -> SessionType] /\ session[p] \in SessionType
        /\ Good(session[p], events, decisions, store)
        /\ Honest(events, decisions, store) /\ decisions \in RowsType
        /\ torn \subseteq Log \cup {Candidates}
    BY ChatTypes
  <1>2. session[p].log \in Log /\ present = TRUE
    BY <1>1, ChatTypes DEF Choose, ChatAt, Good
  <1>3. PICK i \in 1 .. Len(decisions) : decisions[i].event = e /\ e \in CandidatesIn(decisions)
    BY DEF PendingCandidates, CandidatesIn
  <1>4. e \in Reference /\ Durable(events, e)
    <2> DEFINE Row == [type : {"candidate", "approved", "dismissed"}, event : Reference,
                       card : Nat \cup {Nobody}]
    <2>1. decisions \in Seq(Row)
      BY <1>1 DEF RowsType
    <2>. HIDE DEF Row
    <2>3. decisions[i] \in Row
      BY <1>3, <2>1
    <2>2. e \in Reference
      BY <1>3, <2>3 DEF Row
    <2>. QED
      BY <1>1, <1>3, <2>2 DEF Honest
  <1>5. dialog \in SessionType
    BY <1>1, <1>4 DEF SessionType
  <1>6. dialog.pc = pc /\ dialog.log = session[p].log /\ dialog.chosen = e
    BY <1>1 DEF SessionType
  <1>7. session' = [session EXCEPT ![p] = dialog]
    BY <1>1 DEF Choose, SessionType
  <1>8. /\ UNCHANGED <<storeVars, events, decisions>> /\ UNCHANGED backup
        /\ torn' \subseteq Log \cup {Candidates} /\ present' = TRUE
    BY <1>1, <1>2 DEF Choose, backupVars
  <1>. HIDE DEF dialog
  <1>9. Good(dialog, events, decisions, store)
    BY <1>2, <1>4, <1>6 DEF Good
  <1>. QED
    BY <1>5, <1>7, <1>8, <1>9, ChatThinks

LEMMA SelectKeeps ==
    ASSUME LocalInv, NEW p \in Chat, NEW c \in CardOf(store), UNCHANGED backupVars,
           NEW pc \in {"testify", "correct"}, Select(p, c, pc)
    PROVE  LocalInv'
  <1> DEFINE dialog == [[session[p] EXCEPT !.pc = pc] EXCEPT !.card = c]
  <1>1. /\ session \in [Chat -> SessionType] /\ session[p] \in SessionType
        /\ Good(session[p], events, decisions, store) /\ store \in StoreType
        /\ torn \subseteq Log \cup {Candidates}
    BY ChatTypes
  <1>2. /\ session[p].log \in Log /\ present = TRUE
        /\ session[p].event \in Reference /\ Durable(events, session[p].event)
    BY <1>1, ChatTypes DEF Select, ChatAt, Good
  <1>3. c \in Nat
    BY <1>1 DEF CardOf, StoreType
  <1>4. dialog \in SessionType
    BY <1>1, <1>3 DEF SessionType
  <1>5. /\ dialog.pc = pc /\ dialog.log = session[p].log /\ dialog.card = c
        /\ dialog.event = session[p].event
    BY <1>1 DEF SessionType
  <1>6. session' = [session EXCEPT ![p] = dialog]
    BY <1>1 DEF Select, SessionType
  <1>7. /\ UNCHANGED <<storeVars, events, decisions>> /\ UNCHANGED backup
        /\ torn' \subseteq Log \cup {Candidates} /\ present' = TRUE
    BY <1>1, <1>2 DEF Select, backupVars
  <1>. HIDE DEF dialog
  <1>8. Good(dialog, events, decisions, store)
    BY <1>2, <1>5 DEF Good
  <1>. QED
    BY <1>4, <1>6, <1>7, <1>8, ChatThinks

LEMMA AnswerKeeps ==
    ASSUME LocalInv, NEW p \in Chat, UNCHANGED backupVars, Answer(p)
    PROVE  LocalInv'
  <1> DEFINE dialog == [session[p] EXCEPT !.pc = "reply"]
  <1>1. /\ session[p] \in SessionType /\ Good(session[p], events, decisions, store)
        /\ torn \subseteq Log \cup {Candidates}
    BY ChatTypes
  <1>2. session[p].log \in Log /\ present = TRUE
    BY <1>1, ChatTypes DEF Answer, ChatAt, Good
  <1>3. dialog \in SessionType /\ Good(dialog, events, decisions, store)
    BY <1>1, <1>2, GoesToReply
  <1>4. /\ session' = [session EXCEPT ![p] = dialog]
        /\ UNCHANGED <<storeVars, events, decisions>> /\ UNCHANGED backup
        /\ torn' \subseteq Log \cup {Candidates} /\ present' = TRUE
    BY <1>1, <1>2 DEF Answer, Goes, backupVars
  <1>. HIDE DEF dialog
  <1>. QED
    BY <1>3, <1>4, ChatThinks

(* A chat that ends, of itself or because an append failed half-way. *)
LEMMA EndKeeps ==
    ASSUME LocalInv, NEW p \in Chat, UNCHANGED backupVars,
           Leave(p) \/ \E l \in Log \cup {Candidates} : Tear(p, l)
    PROVE  LocalInv'
  <1>1. torn \subseteq Log \cup {Candidates}
    BY ChatTypes
  <1>2. /\ session' = [session EXCEPT ![p] = Closed]
        /\ UNCHANGED <<storeVars, events, decisions>> /\ UNCHANGED backup
        /\ torn' \subseteq Log \cup {Candidates}
    BY <1>1 DEF Leave, Tear, backupVars
  <1>3. present' = TRUE
    BY ChatTypes DEF Leave, Tear, ChatAt, backupVars
  <1>4. Closed \in SessionType /\ Good(Closed, events, decisions, store)
    BY ClosedIsGood
  <1>. QED
    BY <1>2, <1>3, <1>4, ChatThinks

LEMMA ChatStepKeeps ==
    ASSUME LocalInv, NEW p \in Chat, ChatStep(p), UNCHANGED backupVars
    PROVE  LocalInv'
  <1>1. CASE Utter(p)
    BY <1>1, UtterKeeps
  <1>2. CASE Remember(p)
    BY <1>2, RememberKeeps
  <1>3. CASE Approve(p)
    BY <1>3, ApproveKeeps
  <1>4. CASE Testify(p)
    BY <1>4, TestifyKeeps
  <1>5. CASE Tombstone(p)
    BY <1>5, TombstoneKeeps
  <1>6. CASE Correct(p)
    BY <1>6, CorrectKeeps
  <1>7. CASE \/ AppendDecision(p, "decide", "approved", session[p].card)
             \/ AppendDecision(p, "dismiss", "dismissed", Nobody)
    BY <1>7, DecisionKeeps
  <1>8. CASE \E e \in PendingCandidates : Choose(p, e, "approve") \/ Choose(p, e, "dismiss")
    BY <1>8, ChooseKeeps
  <1>9. CASE \E c \in CardOf(store) : Select(p, c, "testify") \/ Select(p, c, "correct")
    BY <1>9, SelectKeeps
  <1>10. CASE Answer(p)
    BY <1>10, AnswerKeeps
  <1>11. CASE Reply(p)
    BY <1>11, ReplyKeeps
  <1>12. CASE Respond(p)
    BY <1>12, RespondKeeps
  <1>13. CASE Stage(p)
    BY <1>13, StageKeeps
  <1>14. CASE Leave(p) \/ \E l \in Log \cup {Candidates} : Tear(p, l)
    BY <1>14, EndKeeps
  <1>. QED
    BY <1>1, <1>2, <1>3, <1>4, <1>5, <1>6, <1>7, <1>8, <1>9, <1>10, <1>11, <1>12, <1>13, <1>14
    DEF ChatStep

(* A directory in which nothing is recorded. *)
LEMMA EmptyIsHonest ==
    /\ EmptyStore \in StoreType
    /\ [l \in Log |-> <<>>] \in LogsType
    /\ <<>> \in RowsType
    /\ Honest([l \in Log |-> <<>>], <<>>, EmptyStore)
  <1>1. EmptyStore \in StoreType
    BY DEF EmptyStore, StoreType
  <1>2. [l \in Log |-> <<>>] \in LogsType /\ <<>> \in RowsType
    BY DEF LogsType, RowsType
  <1>3. EventSources(EmptyStore) = {} /\ CandidatesIn(<<>>) = {}
    BY DEF EmptyStore, EventSources, CandidatesIn
  <1>. QED
    BY <1>1, <1>2, <1>3 DEF Honest

LEMMA NoBackupType == NoBackup \in BackupType
  <1>1. Copied \in CopyType
    BY EmptyIsHonest DEF Copied, CopyType
  <1>. QED
    BY <1>1 DEF NoBackup, BackupType

LEMMA LocalStarts ==
    ASSUME InitStore, InitConversation, InitBackup
    PROVE  LocalInv
  <1>1. LocalTypes
    BY EmptyIsHonest, NoBackupType, ClosedIsGood
    DEF LocalTypes, InitStore, InitConversation, InitBackup
  <1>2. Honest(events, decisions, store)
    BY EmptyIsHonest DEF InitStore, InitConversation
  <1>3. \A p \in Chat : Good(session[p], events, decisions, store) /\ ChatAt(p, "closed")
    BY ClosedIsGood DEF InitConversation, ChatAt, Closed
  <1>. QED
    BY <1>1, <1>2, <1>3 DEF LocalInv

(* A step of an export. *)
LEMMA ExportKeeps ==
    ASSUME LocalInv, UNCHANGED <<storeVars, conversationVars, present>>,
           backup' \in BackupType
    PROVE  LocalInv'
  <1>1. UNCHANGED <<store, now, events, decisions, torn, session, present>>
    BY DEF storeVars, conversationVars
  <1>2. LocalTypes'
    BY <1>1 DEF LocalInv, LocalTypes
  <1>. QED
    BY <1>1, <1>2 DEF LocalInv, ChatAt

LEMMA BackupTypes ==
    ASSUME LocalInv
    PROVE  /\ backup \in BackupType /\ backup.copy \in CopyType /\ backup.began \in CopyType
           /\ events \in LogsType /\ decisions \in RowsType /\ store \in StoreType
           /\ torn \subseteq Log \cup {Candidates}
  BY DEF LocalInv, LocalTypes, BackupType

LEMMA RecordingsType ==
    ASSUME LocalInv PROVE Recordings \in CopyType
  BY BackupTypes DEF Recordings, CopyType

LEMMA BeginExportKeeps ==
    ASSUME LocalInv, BeginExport PROVE LocalInv'
  <1>1. Copied \in CopyType /\ Recordings \in CopyType
    BY EmptyIsHonest, RecordingsType DEF Copied, CopyType
  <1>2. backup' \in BackupType
    BY <1>1 DEF BeginExport, BackupType, Files
  <1>. QED
    BY <1>2, ExportKeeps DEF BeginExport

LEMMA CopyKeeps ==
    ASSUME LocalInv, NEW x \in backup.left, Copy(x) PROVE LocalInv'
  <1>1. /\ backup \in BackupType /\ backup.copy \in CopyType
        /\ events \in LogsType /\ decisions \in RowsType /\ store \in StoreType
        /\ torn \subseteq Log \cup {Candidates} /\ backup.began \in CopyType
    BY BackupTypes
  <1> DEFINE logs == IF x \in Log THEN [backup.copy.events EXCEPT ![x] = events[x]]
                     ELSE backup.copy.events
             rows == IF x = Candidates THEN decisions ELSE backup.copy.decisions
             broken == backup.copy.torn \cup (torn \cap {x})
             cards == IF x = Database THEN store ELSE backup.copy.store
             copy == [events |-> logs, decisions |-> rows, torn |-> broken, store |-> cards]
             left == backup.left \ {x}
  <1>2. logs \in LogsType /\ rows \in RowsType /\ cards \in StoreType
    BY <1>1 DEF CopyType, LogsType
  <1>3. broken \in SUBSET (Log \cup {Candidates})
    BY <1>1 DEF CopyType
  <1>4. left \in SUBSET (Log \cup {Candidates, Database})
    BY <1>1 DEF BackupType
  <1>5. backup' = [pc |-> backup.pc, left |-> left, copy |-> copy, began |-> backup.began]
    BY <1>1 DEF Copy, BackupType, CopyType
  <1>. HIDE DEF logs, rows, broken, cards, left
  <1>6. copy \in CopyType
    BY <1>2, <1>3 DEF CopyType
  <1>. HIDE DEF copy
  <1>7. backup' \in BackupType
    BY <1>1, <1>4, <1>5, <1>6 DEF BackupType
  <1>. QED
    BY <1>7, ExportKeeps DEF Copy

LEMMA EndExportKeeps ==
    ASSUME LocalInv, EndExport PROVE LocalInv'
  <1>1. backup \in BackupType /\ NoBackup \in BackupType
    BY BackupTypes, NoBackupType
  <1>2. backup' = [backup EXCEPT !.pc = "done"] \/ backup' = NoBackup
    BY DEF EndExport
  <1>3. backup' \in BackupType
    BY <1>1, <1>2 DEF BackupType
  <1>. QED
    BY <1>3, ExportKeeps DEF EndExport

(* All files are replaced, while no chat is open. *)
LEMMA ReplacedFilesAreHonest ==
    ASSUME LocalInv, \A p \in Chat : ChatAt(p, "closed"), UNCHANGED <<now, session>>,
           store' \in StoreType, events' \in LogsType, decisions' \in RowsType,
           torn' \subseteq Log \cup {Candidates}, present' \in BOOLEAN, backup' \in BackupType,
           Honest(events', decisions', store')
    PROVE  LocalInv'
  <1>1. LocalTypes'
    BY DEF LocalInv, LocalTypes
  <1>2. \A p \in Chat : Good(session'[p], events', decisions', store') /\ ChatAt(p, "closed")'
    BY DEF ChatAt, Good
  <1>. QED
    BY <1>1, <1>2 DEF LocalInv

LEMMA PurgeKeeps ==
    ASSUME LocalInv, Purge PROVE LocalInv'
  <1>1. backup \in BackupType
    BY BackupTypes
  <1>2. /\ store' = EmptyStore /\ events' = [l \in Log |-> <<>>] /\ decisions' = <<>>
        /\ torn' = {} /\ present' = FALSE /\ UNCHANGED <<now, session, backup>>
        /\ \A p \in Chat : ChatAt(p, "closed")
    BY DEF Purge, Copied
  <1>3. /\ store' \in StoreType /\ events' \in LogsType /\ decisions' \in RowsType
        /\ Honest(events', decisions', store')
    BY <1>2, EmptyIsHonest
  <1>. QED
    BY <1>1, <1>2, <1>3, ReplacedFilesAreHonest

LEMMA RestoreKeeps ==
    ASSUME LocalInv, Restore PROVE LocalInv'
  <1>1. backup.copy \in CopyType /\ backup.began \in CopyType
    BY BackupTypes
  <1> DEFINE copy == backup.copy
  <1>2. /\ store' = copy.store /\ events' = copy.events /\ decisions' = copy.decisions
        /\ torn' = copy.torn /\ present' = TRUE /\ UNCHANGED <<now, session>>
        /\ \A p \in Chat : ChatAt(p, "closed")
    BY DEF Restore, LocalInv
  <1>3. /\ store' \in StoreType /\ events' \in LogsType /\ decisions' \in RowsType
        /\ torn' \subseteq Log \cup {Candidates}
    BY <1>1, <1>2 DEF CopyType
  <1>4. Verifies(copy.events, copy.decisions, copy.torn, copy.store)
    BY DEF Restore, Sound
  <1>5. Honest(copy.events, copy.decisions, copy.store)
    BY <1>4 DEF Verifies, Genuine, Honest
  <1>6. backup' = [NoBackup EXCEPT !.pc = "restored", !.began = backup.began]
    BY DEF Restore
  <1>7. backup' \in BackupType
    BY <1>1, <1>6, NoBackupType DEF BackupType
  <1>. HIDE DEF copy
  <1>. QED
    BY <1>2, <1>3, <1>5, <1>7, ReplacedFilesAreHonest

(* Chats and backups, while the clock goes on. *)
NextOfLocal ==
    \/ NextChats
    \/ NextBackup
    \/ Tick /\ UNCHANGED <<conversationVars, backupVars>>

LEMMA LocalStep ==
    ASSUME LocalInv, [NextOfLocal]_<<storeVars, conversationVars, backupVars>>
    PROVE  LocalInv'
  <1>1. CASE \E p \in Chat, l \in Log : OpenChat(p, l)
    BY <1>1, OpenKeeps
  <1>2. CASE \E p \in Chat : ChatStep(p) /\ UNCHANGED backupVars
    BY <1>2, ChatStepKeeps
  <1>3. CASE BeginExport
    BY <1>3, BeginExportKeeps
  <1>4. CASE \E x \in backup.left : Copy(x)
    BY <1>4, CopyKeeps
  <1>5. CASE EndExport
    BY <1>5, EndExportKeeps
  <1>6. CASE Purge
    BY <1>6, PurgeKeeps
  <1>7. CASE Restore
    BY <1>7, RestoreKeeps
  <1>8. CASE UNCHANGED <<storeVars, conversationVars, backupVars>>
    <2>1. UNCHANGED <<store, now, events, decisions, torn, session, present, backup>>
      BY <1>8 DEF storeVars, conversationVars, backupVars
    <2>2. LocalTypes'
      BY <2>1 DEF LocalInv, LocalTypes
    <2>. QED
      BY <2>1, <2>2 DEF LocalInv, ChatAt
  <1>9. CASE Tick /\ UNCHANGED <<conversationVars, backupVars>>
    <2>1. /\ UNCHANGED <<store, events, decisions, torn, session, present, backup>>
          /\ now' = now + 1
      BY <1>9 DEF Tick, conversationVars, backupVars
    <2>2. now' \in Nat
      BY <2>1 DEF LocalInv, LocalTypes
    <2>3. LocalTypes'
      BY <2>1, <2>2 DEF LocalInv, LocalTypes
    <2>. QED
      BY <2>1, <2>3 DEF LocalInv, ChatAt
  <1>. QED
    BY <1>1, <1>2, <1>3, <1>4, <1>5, <1>6, <1>7, <1>8, <1>9
    DEF NextOfLocal, NextChats, NextBackup

(* Any number of chats and memory commands on any logs, and at most one archive. *)
LocalSpec ==
    /\ InitStore /\ InitConversation /\ InitBackup
    /\ [][NextOfLocal]_<<storeVars, conversationVars, backupVars>>

LEMMA LocalInvariant == LocalSpec => []LocalInv
  <1>1. InitStore /\ InitConversation /\ InitBackup => LocalInv
    BY LocalStarts
  <1>2. LocalInv /\ [NextOfLocal]_<<storeVars, conversationVars, backupVars>>
        => LocalInv'
    BY LocalStep
  <1>. QED
    BY <1>1, <1>2, PTL DEF LocalSpec

(* The number of an event is its place in its log, for any number of processes  *)
(* that write any logs, though each keeps a number of its own (record_event).   *)
THEOREM LogsAreNumbered == LocalSpec => []SequenceIsPlace
  <1>1. LocalInv => SequenceIsPlace
    BY DEF LocalInv, Honest, SequenceIsPlace
  <1>. QED
    BY <1>1, LocalInvariant, PTL

(* A card or a candidate quotes only what is on disk, whoever was killed between *)
(* two writes and whatever was purged and restored (record_event, remember,      *)
(* forget, stage_candidate, restore_memory_backup).                              *)
THEOREM QuotedIsRecorded == LocalSpec => []EvidenceIsDurable
  <1>1. LocalInv => EvidenceIsDurable
    BY DEF LocalInv, Honest, EvidenceIsDurable
  <1>. QED
    BY <1>1, LocalInvariant, PTL

(* An approval names a card that has the candidate's event among its evidence,  *)
(* though the two are written to two files (remember_candidate).                *)
THEOREM ApprovalsAreBacked == LocalSpec => []ApprovedIsBacked
  <1>1. LocalInv => ApprovedIsBacked
    BY DEF LocalInv, Honest, ApprovedIsBacked, Rows
  <1>. QED
    BY <1>1, LocalInvariant, PTL

(* Every variable of the chats and of the backup has its type. *)
THEOREM LocalTypeCorrect == LocalSpec => [](ConversationTypeOK /\ BackupTypeOK)
  <1>1. LocalInv => ConversationTypeOK
    <2> SUFFICES ASSUME LocalInv PROVE ConversationTypeOK
      OBVIOUS
    <2>1. /\ events \in LogsType /\ decisions \in RowsType /\ session \in [Chat -> SessionType]
          /\ torn \subseteq Log \cup {Candidates}
      BY DEF LocalInv, LocalTypes
    <2>2. \A l \in Log : \A i \in 1 .. Len(events[l]) : events[l][i] \in Nat
      BY <2>1 DEF LogsType
    <2>3. \A i \in Rows : decisions[i].type \in {"candidate", "approved", "dismissed"}
      <3> DEFINE Row == [type : {"candidate", "approved", "dismissed"}, event : Reference,
                         card : Nat \cup {Nobody}]
      <3>1. \A i \in 1 .. Len(decisions) : decisions[i] \in Row
        BY <2>1, ElementOfSeq DEF RowsType
      <3>. QED
        BY <3>1 DEF Rows
    <2>. QED
      BY <2>1, <2>2, <2>3 DEF ConversationTypeOK, SessionType
  <1>2. LocalInv => BackupTypeOK
    BY DEF LocalInv, LocalTypes, BackupType, BackupTypeOK
  <1>. QED
    BY <1>1, <1>2, LocalInvariant, PTL

(* No chat brings a card back: what a store loses is lost to a purge, and a *)
(* restore starts from no card.                                             *)

EventSource == [card : Nat, type : {"event", "forget"}, ref : Reference]

(* The rows of a store, and of the copy of one. *)
Aged(s) == Timed(s) /\ Born(s)

(* The inductive invariant, beside LocalInv. *)
AgedInv == Aged(store) /\ Aged(backup.copy.store) /\ (~present => store.cards = <<>>)

LEMMA LocalStores ==
    ASSUME Anchor # {} PROVE \A s \in StoreType : s \in Store(EventSource)
  <1> SUFFICES ASSUME NEW s \in StoreType PROVE s \in Store(EventSource)
    OBVIOUS
  <1>1. CardType \subseteq Card
    BY DEF CardType, Card
  <1>2. s.cards \in Seq(Card)
    <2>1. s.cards \in Seq(CardType)
      BY DEF StoreType
    <2>. QED
      BY <1>1, <2>1
  <1>. QED
    BY <1>2 DEF StoreType, Store, StateEvent, EventSource

LEMMA EmptyIsAged == EmptyStore.cards = <<>> /\ Aged(EmptyStore)
  <1>1. EmptyStore.cards = <<>> /\ EmptyStore.events = <<>>
    BY DEF EmptyStore
  <1>. QED
    BY <1>1 DEF Aged, Timed, Born, CardOf

(* A store that a chat wrote is a later one. *)
LEMMA ChatAges ==
    ASSUME Anchor # {}, LocalInv, Aged(store), NEW p \in Chat, ChatStep(p)
    PROVE  Later(store, store') /\ Born(store')
  <1>1. /\ store \in Store(EventSource) /\ now \in Nat /\ Born(store)
        /\ session[p] \in SessionType /\ Good(session[p], events, decisions, store)
    BY ChatTypes, LocalStores DEF Aged
  <1>2. Text(p) \in CardType /\ Text(p) \in Card
    BY <1>1, TextType DEF CardType, Card
  <1>3. NextCard(store) \in Nat /\ CardOf(store) \subseteq Nat
    BY <1>1, StoreNumbers
  <1>4. \A c \in Nat, type \in {"event", "forget"}, e \in Reference :
            [card |-> c, type |-> type, ref |-> e] \in EventSource
    BY DEF EventSource
  <1>5. CASE UNCHANGED store
    BY <1>1, <1>5, LaterIsReflexive
  <1>6. ASSUME NEW e \in Reference, store' = OnceFor(store, Text(p), "event", e).store
        PROVE  Later(store, store') /\ Born(store')
    <2> DEFINE new == WithSource(WithCard(store, Text(p)), NextCard(store), "event", e)
               source == [card |-> NextCard(store), type |-> "event", ref |-> e]
    <2>1. source \in EventSource
      BY <1>3, <1>4
    <2>2. store' = new \/ store' = store
      BY ONLY <1>1, <1>2, <1>6, <2>1, OnceForLater
    <2>3. Later(store, new) /\ Born(new)
      BY ONLY <1>1, <1>2, <2>1, NewCardLater
    <2>. HIDE DEF new
    <2>. QED
      BY <1>5, <2>2, <2>3
  <1>7. CASE Remember(p)
    <2>1. session[p].event \in Reference
      BY <1>1, <1>7 DEF Remember, ChatAt, Good
    <2>. QED
      BY <1>6, <1>7, <2>1 DEF Remember
  <1>8. CASE Approve(p)
    <2>1. session[p].chosen \in Reference
      BY <1>1, <1>8 DEF Approve, ChatAt, Good
    <2>. QED
      BY <1>6, <1>8, <2>1 DEF Approve
  <1>9. CASE Testify(p)
    <2> DEFINE c == session[p].card
               e == session[p].event
               t == WithSource(store, c, "forget", e)
    <2>1. c \in Nat /\ e \in Reference
      BY <1>1, <1>3, <1>9 DEF Testify, ChatAt, Good
    <2>2. [card |-> c, type |-> "forget", ref |-> e] \in EventSource
      BY <1>4, <2>1
    <2>3. store' = t
      BY <1>9 DEF Testify
    <2>. HIDE DEF c, e
    <2>4. /\ t \in Store(EventSource) /\ t.cards = store.cards /\ t.events = store.events
          /\ t.edges = store.edges /\ store.sources \subseteq t.sources
      BY <1>1, <2>1, <2>2, SourceWrites
    <2>. HIDE DEF t
    <2>5. store.edges \subseteq t.edges
      BY <2>4
    <2>. QED
      BY ONLY <1>1, <2>3, <2>4, <2>5, SameLater
  <1>10. CASE Tombstone(p)
    <2> DEFINE c == session[p].card
               t == WithEvent(store, c, "tombstoned")
    <2>1. c \in Nat /\ "tombstoned" \in Retired \cup {"active"} /\ "tombstoned" # "active"
      BY <1>1, <1>3, <1>10 DEF Tombstone, ChatAt, Good, Retired
    <2>2. store' = t
      BY <1>10 DEF Tombstone
    <2>. HIDE DEF c
    <2>3. /\ t \in Store(EventSource) /\ t.cards = store.cards /\ t.sources = store.sources
          /\ t.edges = store.edges
          /\ t.events = Append(store.events, [card |-> c, status |-> "tombstoned", at |-> now])
      BY ONLY <1>1, <2>1, EventWrites
    <2>. HIDE DEF t
    <2>4. store.sources \subseteq t.sources /\ store.edges \subseteq t.edges
      BY <2>3
    <2>. QED
      BY ONLY <1>1, <2>1, <2>2, <2>3, <2>4, RetiredLater
  <1>11. CASE Correct(p)
    <2> DEFINE c == session[p].card
               e == session[p].event
               draft == [Text(p) EXCEPT !.kind = store.cards[c].kind]
               source == [card |-> NextCard(store), type |-> "event", ref |-> e]
    <2>1. c \in CardOf(store) /\ e \in Reference
      BY <1>1, <1>11 DEF Correct, ChatAt, Good
    <2>2. store' = Replaced(store, c, draft, "event", e)
      BY <1>11 DEF Correct
    <2>. HIDE DEF c, e
    <2>3. store.cards[c] \in Card
      BY <1>1, <2>1, StoreNumbers
    <2>4. draft \in Card
      BY <1>2, <2>3 DEF Card
    <2>5. source \in EventSource
      BY <1>3, <1>4, <2>1
    <2>. HIDE DEF draft
    <2>. QED
      BY ONLY <1>1, <2>1, <2>2, <2>4, <2>5, ReplacedLater
  <1>. QED
    BY <1>5, <1>7, <1>8, <1>9, <1>10, <1>11
    DEF ChatStep, Utter, AppendDecision, Choose, Select, Answer, Reply, Respond, Stage, Leave,
        Tear, storeVars

LEMMA ChatKeepsAge ==
    ASSUME Anchor # {}, LocalInv, LocalInv', Aged(store), NEW p \in Chat, ChatStep(p)
    PROVE  /\ Aged(store)' /\ now' = now /\ StaysRetired(store, store')
           /\ ~ChatAt(p, "closed")
  <1>1. Later(store, store') /\ Born(store')
    BY ChatAges
  <1>2. now \in Nat /\ store \in Store(EventSource) /\ Timed(store) /\ Born(store)
    BY ChatTypes, LocalStores DEF Aged
  <1>3. store' \in Store(EventSource)
    <2>1. store' \in StoreType
      BY DEF LocalInv, LocalTypes
    <2>. QED
      BY <2>1, LocalStores
  <1>4. now' = now
    BY DEF ChatStep, Utter, Remember, Approve, Testify, Tombstone, Correct, AppendDecision, Choose,
           Select, Answer, Reply, Respond, Stage, Leave, Tear, storeVars
  <1>5. Timed(store') /\ StaysRetired(store, store')
    BY <1>1, <1>2, <1>3, LaterKeeps
  <1>6. ~ChatAt(p, "closed")
    BY DEF ChatStep, Utter, Remember, Approve, Testify, Tombstone, Correct, AppendDecision, Choose,
           Select, Answer, Reply, Respond, Stage, Leave, Tear, ChatAt
  <1>. QED
    BY <1>1, <1>4, <1>5, <1>6 DEF Aged, Timed, Born

(* The stores of one time. *)
LEMMA AgedStays ==
    ASSUME LocalInv, AgedInv, now' = now, Aged(store'), Aged(backup'.copy.store),
           ~present' => store'.cards = <<>>
    PROVE  AgedInv'
  BY DEF AgedInv, Aged, Timed, Born

LEMMA AgedStep ==
    ASSUME Anchor # {}, LocalInv, LocalInv', AgedInv,
           [NextOfLocal]_<<storeVars, conversationVars, backupVars>>
    PROVE  /\ AgedInv'
           /\ CardOf(store) \subseteq CardOf(store') => StaysRetired(store, store')
  <1>1. /\ Aged(store) /\ Aged(backup.copy.store) /\ backup \in BackupType
        /\ backup.copy \in CopyType /\ (~present => store.cards = <<>>)
    BY BackupTypes DEF AgedInv
  <1>2. StaysRetired(store, store)
    BY DEF StaysRetired
  <1>3. ASSUME NEW p \in Chat, NEW l \in Log, OpenChat(p, l) PROVE AgedInv' /\ store' = store
    <2>1. UNCHANGED <<store, now, backup>> /\ present'
      BY <1>3 DEF OpenChat, Open, storeVars
    <2>. QED
      BY <1>1, <2>1, AgedStays
  <1>4. ASSUME NEW p \in Chat, ChatStep(p), UNCHANGED backupVars
        PROVE  AgedInv' /\ StaysRetired(store, store')
    <2>1. Aged(store)' /\ now' = now /\ StaysRetired(store, store') /\ ~ChatAt(p, "closed")
      BY <1>1, <1>4, ChatKeepsAge
    <2>2. UNCHANGED <<backup, present>> /\ present
      BY <1>4, <2>1 DEF backupVars, LocalInv
    <2>3. Aged(backup.copy.store)'
      BY <1>1, <2>1, <2>2 DEF Aged, Timed, Born
    <2>. QED
      BY <2>1, <2>2, <2>3 DEF AgedInv
  <1>5. CASE BeginExport
    <2>1. UNCHANGED <<store, now, present>> /\ backup'.copy = Copied
      BY <1>5 DEF BeginExport, storeVars
    <2>2. backup'.copy.store = EmptyStore
      BY <2>1 DEF Copied
    <2>. QED
      BY <1>1, <1>2, <2>1, <2>2, EmptyIsAged, AgedStays
  <1>6. ASSUME NEW x \in backup.left, Copy(x) PROVE AgedInv' /\ store' = store
    <2>1. UNCHANGED <<store, now, present>>
      BY <1>6 DEF Copy, storeVars
    <2>2. backup'.copy.store = IF x = Database THEN store ELSE backup.copy.store
      BY <1>1, <1>6 DEF Copy, BackupType, CopyType
    <2>. QED
      BY <1>1, <2>1, <2>2, AgedStays
  <1>7. CASE EndExport
    <2>1. UNCHANGED <<store, now, present>>
          /\ (backup' = [backup EXCEPT !.pc = "done"] \/ backup' = NoBackup)
      BY <1>7 DEF EndExport, storeVars
    <2>2. backup'.copy.store = backup.copy.store \/ backup'.copy.store = EmptyStore
      BY <1>1, <2>1 DEF BackupType, NoBackup, Copied
    <2>. QED
      BY <1>1, <1>2, <2>1, <2>2, EmptyIsAged, AgedStays
  <1>8. CASE Purge
    <2>1. store' = EmptyStore /\ UNCHANGED <<now, backup>>
      BY <1>8 DEF Purge, Copied
    <2>2. AgedInv'
      BY <1>1, <2>1, EmptyIsAged, AgedStays
    <2>3. CardOf(store') = {}
      BY <2>1, EmptyIsAged DEF CardOf
    <2>. QED
      BY <2>2, <2>3 DEF StaysRetired
  <1>9. CASE Restore
    <2>1. /\ store' = backup.copy.store /\ now' = now /\ present' = TRUE /\ ~present
          /\ backup' = [NoBackup EXCEPT !.pc = "restored", !.began = backup.began]
      BY <1>9 DEF Restore
    <2>2. backup'.copy.store = EmptyStore
      BY <2>1 DEF NoBackup, Copied
    <2>3. AgedInv'
      BY <1>1, <2>1, <2>2, EmptyIsAged, AgedStays
    <2>4. CardOf(store) = {}
      BY <1>1, <2>1 DEF CardOf
    <2>. QED
      BY <2>3, <2>4 DEF StaysRetired
  <1>10. CASE Tick /\ UNCHANGED <<conversationVars, backupVars>>
    <2>1. UNCHANGED <<store, present, backup>> /\ now' = now + 1 /\ now \in Nat
      BY <1>10 DEF Tick, backupVars, LocalInv, LocalTypes
    <2>2. ASSUME NEW s \in StoreType, Aged(s)
          PROVE  \A i \in 1 .. Len(s.events) : s.events[i].at <= now + 1
      <3>1. \A i \in 1 .. Len(s.events) : s.events[i].at \in Nat
        BY LocalStores, StoreNumbers
      <3>2. \A i \in 1 .. Len(s.events) : s.events[i].at <= now
        BY <2>2 DEF Aged, Timed
      <3>. QED
        BY <2>1, <3>1, <3>2
    <2>3. store \in StoreType /\ backup.copy.store \in StoreType
      BY <1>1 DEF LocalInv, LocalTypes, CopyType
    <2>4. ASSUME NEW s \in StoreType, Aged(s), NEW s1, s1 = s
          PROVE  Timed(s1)' /\ Born(s1)'
      <3>1. Timed(s) /\ Born(s)
        BY <2>4 DEF Aged
      <3>2. \A i \in 1 .. Len(s.events) : s.events[i].at <= now + 1
        BY <2>2, <2>4
      <3>. QED
        BY ONLY <2>1, <2>4, <3>1, <3>2 DEF Timed, Born
    <2>5. Aged(store)' /\ Aged(backup.copy.store)'
      BY <1>1, <2>1, <2>3, <2>4 DEF Aged
    <2>. QED
      BY <1>1, <1>2, <2>1, <2>5 DEF AgedInv
  <1>11. CASE UNCHANGED <<storeVars, conversationVars, backupVars>>
    <2>1. UNCHANGED <<store, now, present, backup>>
      BY <1>11 DEF storeVars, backupVars
    <2>. QED
      BY <1>1, <1>2, <2>1, AgedStays
  <1>. QED
    BY <1>2, <1>3, <1>4, <1>5, <1>6, <1>7, <1>8, <1>9, <1>10, <1>11
    DEF NextOfLocal, NextChats, NextBackup

(* A memory that was forgotten or corrected stays so, whatever any number of    *)
(* chats remember, approve, forget and correct at one time, and through every   *)
(* backup: a command that looked at a card before another one retired it does   *)
(* not bring it back (remember, forget, supersede, remember_candidate).         *)
THEOREM ChatsReviveNothing ==
    ASSUME Anchor # {} PROVE LocalSpec => RetiredStaysRetired
  <1>1. InitStore /\ InitConversation /\ InitBackup => AgedInv
    <2> SUFFICES ASSUME InitStore, InitBackup PROVE AgedInv
      OBVIOUS
    <2>1. store = EmptyStore /\ backup.copy.store = EmptyStore
      BY DEF InitStore, InitBackup, NoBackup, Copied
    <2>. QED
      BY <2>1, EmptyIsAged DEF AgedInv
  <1>2. LocalInv /\ LocalInv' /\ AgedInv /\ [NextOfLocal]_<<storeVars, conversationVars, backupVars>>
        => AgedInv' /\ (CardOf(store) \subseteq CardOf(store') => StaysRetired(store, store'))
    BY AgedStep
  <1>3. /\ LocalInv /\ LocalInv' /\ AgedInv
        /\ [NextOfLocal]_<<storeVars, conversationVars, backupVars>>
        => [CardOf(store) \subseteq CardOf(store') =>
              \A c \in CardOf(store) :
                  Status(store, c) # "active" => Status(store', c) # "active"]_storeVars
    BY <1>2 DEF StaysRetired
  <1>. QED
    BY <1>1, <1>2, <1>3, LocalInvariant, PTL DEF LocalSpec, RetiredStaysRetired

(* What is recorded is still there when the archive of it is made, and later. *)

LEMMA ExtendsIsTransitive ==
    ASSUME NEW a, NEW b, NEW c, Len(a) \in Nat, Len(b) \in Nat, Len(c) \in Nat,
           Extends(b, a), Extends(c, b)
    PROVE  Extends(c, a)
  BY DEF Extends

LEMMA LongerExtends ==
    ASSUME NEW S, NEW rows \in Seq(S), NEW row \in S
    PROVE  Extends(rows, rows) /\ Extends(Append(rows, row), rows)
  BY DEF Extends

LEMMA CopyLengths ==
    ASSUME NEW copy \in CopyType
    PROVE  /\ \A l \in Log : Len(copy.events[l]) \in Nat
           /\ Len(copy.decisions) \in Nat
           /\ Len(copy.store.cards) \in Nat /\ Len(copy.store.events) \in Nat
  <1>1. copy.events \in LogsType /\ copy.decisions \in RowsType /\ copy.store \in StoreType
    BY DEF CopyType
  <1>2. \A l \in Log : Len(copy.events[l]) \in Nat
    BY ONLY <1>1 DEF LogsType
  <1>3. Len(copy.decisions) \in Nat
    BY ONLY <1>1 DEF RowsType
  <1>4. Len(copy.store.cards) \in Nat /\ Len(copy.store.events) \in Nat
    BY ONLY <1>1 DEF StoreType
  <1>. QED
    BY <1>2, <1>3, <1>4

LEMMA CarriesIsReflexive ==
    ASSUME NEW copy \in CopyType PROVE Carries(copy, copy)
  BY CopyLengths DEF Carries, Extends

LEMMA CarriesIsTransitive ==
    ASSUME NEW a \in CopyType, NEW b \in CopyType, NEW c \in CopyType,
           Carries(b, a), Carries(c, b)
    PROVE  Carries(c, a)
  <1>1. \A l \in Log : Extends(c.events[l], a.events[l])
    <2>1. ASSUME NEW l \in Log PROVE Extends(c.events[l], a.events[l])
      <3>1. Extends(b.events[l], a.events[l]) /\ Extends(c.events[l], b.events[l])
        BY DEF Carries
      <3>2. /\ Len(a.events[l]) \in Nat /\ Len(b.events[l]) \in Nat
            /\ Len(c.events[l]) \in Nat
        BY CopyLengths
      <3>. QED
        BY ONLY <3>1, <3>2, ExtendsIsTransitive
    <2>. QED
      BY <2>1
  <1>2. Extends(c.decisions, a.decisions)
    <2>1. Len(a.decisions) \in Nat /\ Len(b.decisions) \in Nat /\ Len(c.decisions) \in Nat
      BY CopyLengths
    <2>2. Extends(b.decisions, a.decisions) /\ Extends(c.decisions, b.decisions)
      BY DEF Carries
    <2>. QED
      BY ONLY <2>1, <2>2, ExtendsIsTransitive
  <1>3. Extends(c.store.cards, a.store.cards)
    <2>1. /\ Len(a.store.cards) \in Nat /\ Len(b.store.cards) \in Nat
          /\ Len(c.store.cards) \in Nat
      BY CopyLengths
    <2>2. Extends(b.store.cards, a.store.cards) /\ Extends(c.store.cards, b.store.cards)
      BY DEF Carries
    <2>. QED
      BY ONLY <2>1, <2>2, ExtendsIsTransitive
  <1>4. Extends(c.store.events, a.store.events)
    <2>1. /\ Len(a.store.events) \in Nat /\ Len(b.store.events) \in Nat
          /\ Len(c.store.events) \in Nat
      BY CopyLengths
    <2>2. Extends(b.store.events, a.store.events) /\ Extends(c.store.events, b.store.events)
      BY DEF Carries
    <2>. QED
      BY ONLY <2>1, <2>2, ExtendsIsTransitive
  <1>5. a.store.sources \subseteq c.store.sources /\ a.store.edges \subseteq c.store.edges
    BY DEF Carries
  <1>. QED
    BY ONLY <1>1, <1>2, <1>3, <1>4, <1>5 DEF Carries

(* Whatever a chat does, what is recorded stays. *)
LEMMA ChatCarries ==
    ASSUME Anchor # {}, LocalInv, LocalInv', Aged(store), NEW p \in Chat, ChatStep(p)
    PROVE  Carries(Recordings', Recordings)
  <1>1. /\ session[p] \in SessionType /\ Good(session[p], events, decisions, store)
        /\ events \in LogsType /\ decisions \in RowsType /\ store \in StoreType
        /\ LogsGrow(events, events)
    BY ChatTypes
  <1>2. decisions' \in RowsType
    BY DEF LocalInv, LocalTypes
  <1>3. LogsGrow(events, events')
    <2>1. CASE UNCHANGED events
      BY <1>1, <2>1
    <2>2. CASE Recorded(p) /\ ~ChatAt(p, "closed")
      <3>1. session[p].log \in Log
        BY <1>1, <2>2 DEF Good, ChatAt
      <3>. QED
        BY <2>2, <3>1, RecordedGrows
    <2>. QED
      BY <2>1, <2>2
      DEF ChatStep, Utter, Remember, Approve, Testify, Tombstone, Correct, AppendDecision, Choose,
          Select, Answer, Reply, Respond, Stage, Leave, Tear, ChatAt
  <1>4. Extends(decisions', decisions)
    <2> DEFINE Row == [type : {"candidate", "approved", "dismissed"}, event : Reference,
                       card : Nat \cup {Nobody}]
    <2>1. decisions \in Seq(Row) /\ decisions' \in Seq(Row)
      BY <1>1, <1>2 DEF RowsType
    <2>. HIDE DEF Row
    <2>2. CASE UNCHANGED decisions
      BY ONLY <2>1, <2>2 DEF Extends
    <2>3. ASSUME NEW row, decisions' = Append(decisions, row) PROVE Extends(decisions', decisions)
      <3>1. Len(decisions') = Len(decisions) + 1 /\ Len(decisions) \in Nat
        BY ONLY <2>1, <2>3
      <3>2. \A i \in 1 .. Len(decisions) : decisions'[i] = decisions[i]
        BY ONLY <2>1, <2>3
      <3>. QED
        BY ONLY <3>1, <3>2 DEF Extends
    <2>4. UNCHANGED decisions \/ \E row : decisions' = Append(decisions, row)
      BY DEF ChatStep, Utter, Remember, Approve, Testify, Tombstone, Correct, AppendDecision,
             Choose, Select, Answer, Reply, Respond, Stage, Leave, Tear
    <2>. QED
      BY <2>2, <2>3, <2>4
  <1>5. /\ Extends(store'.cards, store.cards) /\ Extends(store'.events, store.events)
        /\ store.sources \subseteq store'.sources /\ store.edges \subseteq store'.edges
    <2>1. Later(store, store')
      BY ChatAges
    <2>. QED
      BY ONLY <2>1 DEF Later, Extends, CardOf
  <1>6. \A l \in Log : Extends(events'[l], events[l])
    BY ONLY <1>3 DEF LogsGrow, Extends
  <1>. QED
    BY ONLY <1>4, <1>5, <1>6 DEF Carries, Recordings

(* The inductive invariant: what the export has read so far has what was *)
(* recorded when it began, and the files still have it.                  *)
CopiedCarries(copy, earlier, left) ==
    /\ \A l \in Log \ left : Extends(copy.events[l], earlier.events[l])
    /\ Candidates \notin left => Extends(copy.decisions, earlier.decisions)
    /\ Database \notin left =>
          /\ Extends(copy.store.cards, earlier.store.cards)
          /\ Extends(copy.store.events, earlier.store.events)
          /\ earlier.store.sources \subseteq copy.store.sources
          /\ earlier.store.edges \subseteq copy.store.edges

ArchiveInv ==
    /\ backup.pc = "copying" => /\ Carries(Recordings, backup.began)
                                /\ CopiedCarries(backup.copy, backup.began, backup.left)
    /\ ArchiveMissesNothing

(* Files that carry all that was recorded, and an archive that no step touches. *)
LEMMA ArchiveStays ==
    ASSUME LocalInv, LocalInv', ArchiveInv, UNCHANGED backup, Carries(Recordings', Recordings)
    PROVE  ArchiveInv'
  <1>1. /\ Recordings \in CopyType /\ backup.began \in CopyType
    BY BackupTypes, RecordingsType
  <1>2. Recordings' \in CopyType
    BY DEF LocalInv, LocalTypes, Recordings, CopyType
  <1>3. Carries(Recordings, backup.began) => Carries(Recordings', backup.began)
    BY ONLY <1>1, <1>2, Carries(Recordings', Recordings), CarriesIsTransitive
  <1>. QED
    BY <1>3 DEF ArchiveInv, ArchiveMissesNothing

LEMMA CopyCarries ==
    ASSUME LocalInv, ArchiveInv, NEW x \in backup.left, Copy(x)
    PROVE  ArchiveInv'
  <1>1. /\ backup \in BackupType /\ backup.copy \in CopyType /\ backup.pc = "copying"
        /\ UNCHANGED <<events, decisions, torn, store>>
    BY BackupTypes DEF Copy, storeVars, conversationVars
  <1>2. /\ backup'.pc = "copying" /\ backup'.began = backup.began
        /\ backup'.left = backup.left \ {x}
    BY <1>1 DEF Copy, BackupType
  <1>3. /\ backup'.copy.events = IF x \in Log THEN [backup.copy.events EXCEPT ![x] = events[x]]
                                 ELSE backup.copy.events
        /\ backup'.copy.decisions = IF x = Candidates THEN decisions ELSE backup.copy.decisions
        /\ backup'.copy.store = IF x = Database THEN store ELSE backup.copy.store
    BY <1>1 DEF Copy, BackupType, CopyType
  <1>4. /\ Carries(Recordings, backup.began)
        /\ CopiedCarries(backup.copy, backup.began, backup.left)
    BY <1>1 DEF ArchiveInv
  <1>5. /\ \A l \in Log : Extends(events[l], backup.began.events[l])
        /\ Extends(decisions, backup.began.decisions)
        /\ Extends(store.cards, backup.began.store.cards)
        /\ Extends(store.events, backup.began.store.events)
        /\ backup.began.store.sources \subseteq store.sources
        /\ backup.began.store.edges \subseteq store.edges
    BY ONLY <1>4 DEF Carries, Recordings
  <1>6. ASSUME NEW l \in Log, l \notin backup'.left
        PROVE  Extends(backup'.copy.events[l], backup.began.events[l])
    <2>1. CASE l = x
      <3>1. backup'.copy.events[l] = events[l]
        <4>1. backup.copy.events \in [Log -> Seq(Nat)]
          BY ONLY <1>1 DEF CopyType, LogsType
        <4>. QED
          BY ONLY <1>3, <2>1, <4>1, l \in Log
      <3>. QED
        BY ONLY <1>5, <3>1, l \in Log
    <2>2. CASE l # x
      <3>1. backup'.copy.events[l] = backup.copy.events[l]
        <4>1. backup.copy.events \in [Log -> Seq(Nat)]
          BY ONLY <1>1 DEF CopyType, LogsType
        <4>. QED
          BY ONLY <1>3, <2>2, <4>1, l \in Log
      <3>2. l \notin backup.left
        BY ONLY <1>2, <1>6, <2>2
      <3>. QED
        BY ONLY <1>4, <3>1, <3>2, l \in Log DEF CopiedCarries
    <2>. QED
      BY <2>1, <2>2
  <1>7. Candidates \notin backup'.left => Extends(backup'.copy.decisions, backup.began.decisions)
    BY ONLY <1>2, <1>3, <1>4, <1>5 DEF CopiedCarries
  <1>8. Database \notin backup'.left =>
           /\ Extends(backup'.copy.store.cards, backup.began.store.cards)
           /\ Extends(backup'.copy.store.events, backup.began.store.events)
           /\ backup.began.store.sources \subseteq backup'.copy.store.sources
           /\ backup.began.store.edges \subseteq backup'.copy.store.edges
    BY ONLY <1>2, <1>3, <1>4, <1>5 DEF CopiedCarries
  <1>9. CopiedCarries(backup'.copy, backup'.began, backup'.left)
    BY ONLY <1>2, <1>6, <1>7, <1>8 DEF CopiedCarries
  <1>10. Carries(Recordings', backup'.began)
    BY ONLY <1>1, <1>2, <1>4 DEF Recordings
  <1>. QED
    BY ONLY <1>2, <1>9, <1>10 DEF ArchiveInv, ArchiveMissesNothing

LEMMA ArchiveStep ==
    ASSUME Anchor # {}, LocalInv, LocalInv', Aged(store), ArchiveInv,
           [NextOfLocal]_<<storeVars, conversationVars, backupVars>>
    PROVE  ArchiveInv'
  <1>1. /\ backup \in BackupType /\ backup.copy \in CopyType /\ backup.began \in CopyType
        /\ Recordings \in CopyType
    BY BackupTypes, RecordingsType
  <1>2. Carries(Recordings, Recordings)
    BY <1>1, CarriesIsReflexive
  <1>3. ASSUME UNCHANGED <<store, events, decisions, torn, backup>> PROVE ArchiveInv'
    <2>1. Recordings' = Recordings
      BY ONLY <1>3 DEF Recordings
    <2>. QED
      BY <1>2, <1>3, <2>1, ArchiveStays
  <1>4. ASSUME NEW p \in Chat, NEW l \in Log, OpenChat(p, l) PROVE ArchiveInv'
    BY <1>3, <1>4 DEF OpenChat, Open, storeVars
  <1>5. ASSUME NEW p \in Chat, ChatStep(p), UNCHANGED backupVars PROVE ArchiveInv'
    <2>1. Carries(Recordings', Recordings)
      BY <1>5, ChatCarries
    <2>. QED
      BY <1>5, <2>1, ArchiveStays DEF backupVars
  <1>6. CASE BeginExport
    <2>1. /\ backup'.pc = "copying" /\ backup'.left = Files /\ backup'.began = Recordings
          /\ UNCHANGED <<events, decisions, torn, store>>
      BY <1>6 DEF BeginExport, storeVars, conversationVars
    <2>2. Carries(Recordings', backup'.began)
      BY <1>2, <2>1 DEF Recordings
    <2>3. CopiedCarries(backup'.copy, backup'.began, backup'.left)
      <3>1. Extends(<<>>, <<>>)
        BY ONLY DEF Extends
      <3>2. backup'.copy = Copied
        BY <1>6 DEF BeginExport
      <3>3. /\ \A l \in Log : Copied.events[l] = <<>>
            /\ Copied.decisions = <<>>
        BY ONLY DEF Copied
      <3>4. \A l \in Log : l \notin Files => Recordings.events[l] = <<>>
        BY ONLY DEF Files, Recordings
      <3>5. Candidates \notin Files => Recordings.decisions = <<>>
        BY ONLY DEF Files, Recordings
      <3>6. Database \in Files
        BY ONLY DEF Files
      <3>. QED
        BY ONLY <2>1, <3>1, <3>2, <3>3, <3>4, <3>5, <3>6 DEF CopiedCarries
    <2>. QED
      BY ONLY <2>1, <2>2, <2>3 DEF ArchiveInv, ArchiveMissesNothing
  <1>7. CASE \E x \in backup.left : Copy(x)
    BY <1>7, CopyCarries
  <1>8. CASE EndExport
    <2>1. /\ backup.pc = "copying" /\ backup.left = {}
          /\ (backup' = [backup EXCEPT !.pc = "done"] \/ backup' = NoBackup)
      BY <1>8 DEF EndExport
    <2>2. CASE backup' = NoBackup
      BY ONLY <2>2 DEF NoBackup, ArchiveInv, ArchiveMissesNothing
    <2>3. CASE backup' = [backup EXCEPT !.pc = "done"]
      <3>1. /\ backup'.pc = "done" /\ backup'.copy = backup.copy
            /\ backup'.began = backup.began
        BY <1>1, <2>3 DEF BackupType
      <3>2. CopiedCarries(backup.copy, backup.began, {})
        BY <2>1 DEF ArchiveInv
      <3>3. Carries(backup.copy, backup.began)
        BY ONLY <3>2 DEF CopiedCarries, Carries
      <3>. QED
        BY ONLY <3>1, <3>3 DEF ArchiveInv, ArchiveMissesNothing
    <2>. QED
      BY <2>1, <2>2, <2>3
  <1>9. CASE Purge
    <2>1. backup.pc = "done" /\ backup' = backup
      BY <1>9 DEF Purge
    <2>. QED
      BY ONLY ArchiveInv, <2>1 DEF ArchiveInv, ArchiveMissesNothing
  <1>10. CASE Restore
    <2>1. /\ backup'.pc = "restored" /\ backup'.began = backup.began
          /\ events' = backup.copy.events /\ decisions' = backup.copy.decisions
          /\ store' = backup.copy.store
      BY <1>10 DEF Restore, NoBackup
    <2>2. Carries(backup.copy, backup.began)
      BY <1>10 DEF Restore, ArchiveInv, ArchiveMissesNothing
    <2>3. Carries(Recordings', backup'.began)
      BY ONLY <2>1, <2>2 DEF Carries, Recordings
    <2>. QED
      BY ONLY <2>1, <2>3 DEF ArchiveInv, ArchiveMissesNothing
  <1>11. CASE Tick /\ UNCHANGED <<conversationVars, backupVars>>
    BY <1>3, <1>11 DEF Tick, conversationVars, backupVars
  <1>12. CASE UNCHANGED <<storeVars, conversationVars, backupVars>>
    BY <1>3, <1>12 DEF storeVars, conversationVars, backupVars
  <1>. QED
    BY <1>4, <1>5, <1>6, <1>7, <1>8, <1>9, <1>10, <1>11, <1>12
    DEF NextOfLocal, NextChats, NextBackup

(* An archive that export reports has all that was recorded before it began,   *)
(* for any number of chats that write while its files are read without a lock, *)
(* and a directory restored from it keeps all that                             *)
(* (export_memory_backup, restore_memory_backup).                              *)
THEOREM ArchivesMissNothing ==
    ASSUME Anchor # {} PROVE LocalSpec => []ArchiveMissesNothing
  <1>1. InitStore /\ InitConversation /\ InitBackup => AgedInv /\ ArchiveInv
    <2> SUFFICES ASSUME InitStore, InitBackup PROVE AgedInv /\ ArchiveInv
      OBVIOUS
    <2>1. store = EmptyStore /\ backup.copy.store = EmptyStore /\ backup.pc = "none"
      BY DEF InitStore, InitBackup, NoBackup, Copied
    <2>. QED
      BY <2>1, EmptyIsAged DEF AgedInv, ArchiveInv, ArchiveMissesNothing
  <1>2. LocalInv /\ LocalInv' /\ AgedInv /\ [NextOfLocal]_<<storeVars, conversationVars, backupVars>>
        => AgedInv'
    BY AgedStep
  <1>3. LocalInv /\ LocalInv' /\ AgedInv /\ ArchiveInv
        /\ [NextOfLocal]_<<storeVars, conversationVars, backupVars>> => ArchiveInv'
    BY ArchiveStep DEF AgedInv
  <1>4. ArchiveInv => ArchiveMissesNothing
    BY DEF ArchiveInv
  <1>. QED
    BY <1>1, <1>2, <1>3, <1>4, LocalInvariant, PTL DEF LocalSpec

----------------------------------------------------------------------------
(* Memories and their sizes *)

RetentionSpec == InitRetention /\ [][NextRetention]_retentionVars

Record ==
    [id : 1 .. MaxId, class : Class, worth : 0 .. 4, chars : Nat \ {0}, pinned : BOOLEAN,
     anchor : {k.anchor : k \in Kind} \cup {NoAnchor}, valid : BOOLEAN]

Distinct(R) == \A r, s \in R : r.id = s.id => r = s

RetentionInv ==
    /\ records \in SUBSET Record /\ IsFiniteSet(records) /\ Distinct(records)
    /\ incoming \in Record \cup {NoMemory}
    /\ incoming # NoMemory => \A r \in records : r.id # incoming.id
    /\ Cardinality(records) <= MaxRecords /\ Chars(records) <= MaxChars

(* The whole is the sum of its parts. *)
LEMMA TotalSplits ==
    ASSUME NEW S, IsFiniteSet(S), NEW w, \A x \in S : w[x] \in Nat
    PROVE  \A A \in SUBSET S : /\ Total(w, A) \in Nat /\ Total(w, S \ A) \in Nat
                               /\ Total(w, S) = Total(w, A) + Total(w, S \ A)
  <1> DEFINE T == {t \in SUBSET S : \A A \in SUBSET t : Total(w, t) = Total(w, A) + Total(w, t \ A)}
  <1>1. \A t \in SUBSET S : IsFiniteSet(t) /\ (\A x \in t : w[x] \in Nat) /\ Total(w, t) \in Nat
    <2> SUFFICES ASSUME NEW t \in SUBSET S
                 PROVE  IsFiniteSet(t) /\ (\A x \in t : w[x] \in Nat) /\ Total(w, t) \in Nat
      OBVIOUS
    <2>1. IsFiniteSet(t) /\ (\A x \in t : w[x] \in Nat)
      BY FS_Subset
    <2> QED
      BY <2>1, TotalUnfolds
  <1>2. ASSUME NEW t \in SUBSET S, \A x \in t : t \ {x} \in T PROVE t \in T
    <2> SUFFICES ASSUME NEW A \in SUBSET t PROVE Total(w, t) = Total(w, A) + Total(w, t \ A)
      OBVIOUS
    <2>1. CASE A = {}
      <3>1. Total(w, {}) = 0 /\ t \ A = t /\ Total(w, t) \in Nat
        BY <1>1, <2>1, FS_EmptySet, TotalUnfolds
      <3> QED
        BY <2>1, <3>1
    <2>2. CASE A # {}
      <3>1. PICK x \in A : TRUE
        BY <2>2
      <3>2. /\ Total(w, t) = w[x] + Total(w, t \ {x}) /\ Total(w, A) = w[x] + Total(w, A \ {x})
            /\ w[x] \in Nat
        <4>1. A \in SUBSET S /\ x \in t
          BY <3>1
        <4> QED
          BY <1>1, <3>1, <4>1, TotalWithout
      <3>3. Total(w, t \ {x}) = Total(w, A \ {x}) + Total(w, (t \ {x}) \ (A \ {x}))
        <4>1. t \ {x} \in T /\ A \ {x} \in SUBSET (t \ {x})
          BY <1>2, <3>1
        <4> QED
          BY ONLY <4>1
      <3>4. (t \ {x}) \ (A \ {x}) = t \ A
        BY <3>1
      <3>5. Total(w, A \ {x}) \in Nat /\ Total(w, t \ A) \in Nat
        <4>1. A \ {x} \in SUBSET S /\ t \ A \in SUBSET S
          OBVIOUS
        <4> QED
          BY <1>1, <4>1
      <3>6. Total(w, t \ {x}) = Total(w, A \ {x}) + Total(w, t \ A)
        BY <3>3, <3>4
      <3> HIDE DEF T
      <3> QED
        BY ONLY <3>2, <3>5, <3>6
    <2> QED
      BY <2>1, <2>2
  <1> HIDE DEF T
  <1>3. T \in SUBSET (SUBSET S)
    BY DEF T
  <1>4. \A t \in SUBSET S : (\A x \in t : t \ {x} \in T) => t \in T
    BY <1>2
  <1>5. T = SUBSET S
    BY ONLY <1>3, <1>4, IsFiniteSet(S), RemoveInduction
  <1>6. S \in T
    BY <1>5
  <1>7. ASSUME NEW A \in SUBSET S
        PROVE  /\ Total(w, A) \in Nat /\ Total(w, S \ A) \in Nat
               /\ Total(w, S) = Total(w, A) + Total(w, S \ A)
    <2>1. A \in SUBSET S /\ S \ A \in SUBSET S
      OBVIOUS
    <2> QED
      BY <1>1, <1>6, <2>1 DEF T
  <1> QED
    BY <1>7

CharsIn == [r \in Record |-> r.chars]

LEMMA SizesAreTotal ==
    ASSUME NEW R \in SUBSET Record, IsFiniteSet(R)
    PROVE  Chars(R) = Total(CharsIn, R) /\ \A r \in R : CharsIn[r] \in Nat /\ CharsIn[r] = r.chars
  <1> DEFINE G(g) == g = [t \in SUBSET R |->
                            IF t = {} THEN 0
                            ELSE (CHOOSE x \in t : TRUE).chars + g[t \ {CHOOSE x \in t : TRUE}]]
             f == CHOOSE g : G(g)
  <1>1. Chars(R) = f[R]
    BY DEF Chars, MapThenSumSet, MapThenFoldSet
  <1>2. \A r \in R : CharsIn[r] \in Nat /\ CharsIn[r] = r.chars
    BY DEF CharsIn, Record
  <1>3. \A g : G(g) <=> Adds(CharsIn, R, g)
    <2> SUFFICES ASSUME NEW g PROVE G(g) <=> Adds(CharsIn, R, g)
      OBVIOUS
    <2>1. \A t \in SUBSET R : t # {} =>
             CharsIn[Pick1(t)] = (CHOOSE x \in t : TRUE).chars /\ Pick1(t) = CHOOSE x \in t : TRUE
      BY <1>2, PickIsThere DEF Pick1
    <2> QED
      BY <2>1 DEF Adds
  <1> HIDE DEF G
  <1>4. \E g : G(g)
    BY <1>2, <1>3, AddsExists
  <1>5. G(f)
    BY <1>4
  <1>6. Adds(CharsIn, R, f)
    BY <1>3, <1>5
  <1> HIDE DEF f
  <1>7. f[R] = Total(CharsIn, R)
    BY <1>2, <1>6, TotalIs
  <1> QED
    BY <1>1, <1>2, <1>7

(* Sizes of parts, and of a set with a memory more *)
LEMMA SizesAdd ==
    ASSUME NEW R \in SUBSET Record, IsFiniteSet(R)
    PROVE  /\ Chars(R) \in Nat /\ Chars({}) = 0
           /\ \A A \in SUBSET R : /\ Chars(A) \in Nat /\ Chars(R \ A) \in Nat
                                  /\ Chars(R) = Chars(A) + Chars(R \ A)
           /\ \A r \in R : Chars(R) = r.chars + Chars(R \ {r})
  <1>1. \A A \in SUBSET R : IsFiniteSet(A) /\ A \in SUBSET Record
    BY FS_Subset
  <1>2. \A A \in SUBSET R : Chars(A) = Total(CharsIn, A)
    BY <1>1, SizesAreTotal
  <1>3. \A r \in R : CharsIn[r] \in Nat /\ CharsIn[r] = r.chars
    BY SizesAreTotal
  <1>4. ASSUME NEW A \in SUBSET R
        PROVE  /\ Chars(A) \in Nat /\ Chars(R \ A) \in Nat /\ Chars(R) = Chars(A) + Chars(R \ A)
    <2>1. /\ Total(CharsIn, A) \in Nat /\ Total(CharsIn, R \ A) \in Nat
          /\ Total(CharsIn, R) = Total(CharsIn, A) + Total(CharsIn, R \ A)
      BY <1>3, TotalSplits
    <2>2. R \in SUBSET R /\ R \ A \in SUBSET R
      OBVIOUS
    <2> QED
      BY <1>2, <2>1, <2>2
  <1>5. Chars({}) = 0
    <2>1. Total(CharsIn, {}) = 0
      BY FS_EmptySet, TotalUnfolds
    <2> QED
      BY <1>2, <2>1
  <1>6. ASSUME NEW r \in R PROVE Chars(R) = r.chars + Chars(R \ {r})
    <2>1. Total(CharsIn, R) = CharsIn[r] + Total(CharsIn, R \ {r})
      BY <1>3, TotalWithout
    <2>2. R \in SUBSET R /\ R \ {r} \in SUBSET R
      OBVIOUS
    <2> QED
      BY <1>2, <1>3, <2>1, <2>2
  <1>7. Chars(R) \in Nat
    BY <1>4
  <1> QED
    BY <1>4, <1>5, <1>6, <1>7

LEMMA SizeGrows ==
    ASSUME NEW R \in SUBSET Record, IsFiniteSet(R), NEW r \in Record, r \notin R
    PROVE  /\ R \cup {r} \in SUBSET Record /\ IsFiniteSet(R \cup {r})
           /\ Cardinality(R) \in Nat /\ Cardinality(R \cup {r}) = Cardinality(R) + 1
           /\ Chars(R) \in Nat /\ Chars(R \cup {r}) = Chars(R) + r.chars
  <1>1. /\ IsFiniteSet(R \cup {r}) /\ Cardinality(R \cup {r}) = Cardinality(R) + 1
        /\ Cardinality(R) \in Nat
    BY FS_AddElement, FS_CardinalityType
  <1>2. R \cup {r} \in SUBSET Record /\ (R \cup {r}) \ {r} = R /\ r \in R \cup {r}
    OBVIOUS
  <1>3. Chars(R \cup {r}) = r.chars + Chars(R) /\ Chars(R) \in Nat
    <2>1. Chars(R \cup {r}) = r.chars + Chars((R \cup {r}) \ {r})
      BY <1>1, <1>2, SizesAdd
    <2> QED
      BY <1>2, <2>1, SizesAdd
  <1>4. r.chars \in Nat
    BY DEF Record
  <1> QED
    BY <1>1, <1>2, <1>3, <1>4

----------------------------------------------------------------------------
(* What the planner plans *)

LEMMA RankIs ==
    /\ \A c \in Class : Rank(c) \in 0 .. 3
    /\ \A c, d \in Class : Rank(c) = Rank(d) => c = d
    /\ Rank("core") = 3 /\ Rank("durable") = 2
  <1>1. /\ Rank("transient") = 0 /\ Rank("episodic") = 1
        /\ Rank("durable") = 2 /\ Rank("core") = 3
    BY DEF Rank
  <1> QED
    BY <1>1 DEF Class

(* Of memories of one anchor one outlasts all. *)
LEMMA BestOutlasts ==
    ASSUME NEW A \in SUBSET Record, A # {}
    PROVE  \E r \in A : \A s \in A : Outlasts(r, s)
  <1> DEFINE Level(r) == 5 * Rank(r.class) + r.worth
             levels == {Level(r) : r \in A}
             top == {r \in A : Level(r) = Max(levels)}
             ids == {r.id : r \in top}
  <1>1. \A r \in A : /\ r.class \in Class /\ Rank(r.class) \in 0 .. 3 /\ r.worth \in 0 .. 4
                     /\ r.id \in 1 .. MaxId
    BY RankIs DEF Record
  <1>2. \A r \in A : Level(r) \in 0 .. 19
    BY <1>1
  <1>3. Max(levels) \in levels /\ \A y \in levels : y <= Max(levels)
    <2>1. levels \in SUBSET (0 .. 19) /\ levels # {}
      BY <1>2
    <2> HIDE DEF levels
    <2> QED
      BY <2>1, LargestIsThere
  <1>4. top # {}
    BY <1>3
  <1>5. Max(ids) \in ids /\ \A y \in ids : y <= Max(ids)
    <2>1. MaxId \in Nat
      BY RetentionPolicyAssumption
    <2>2. ids \in SUBSET (0 .. MaxId) /\ ids # {}
      <3>1. \A r \in top : r.id \in 0 .. MaxId
        BY <1>1, <2>1
      <3> HIDE DEF top
      <3> QED
        BY <1>4, <3>1
    <2> HIDE DEF ids
    <2> QED
      BY <2>1, <2>2, LargestIsThere
  <1>6. PICK r \in top : r.id = Max(ids)
    BY <1>5
  <1>7. ASSUME NEW s \in A PROVE Outlasts(r, s)
    <2>1. /\ Rank(r.class) \in 0 .. 3 /\ r.worth \in 0 .. 4 /\ r.id \in 1 .. MaxId
          /\ Rank(s.class) \in 0 .. 3 /\ s.worth \in 0 .. 4 /\ s.id \in 1 .. MaxId
          /\ r.class \in Class /\ s.class \in Class
      BY <1>1
    <2>2. 5 * Rank(s.class) + s.worth <= 5 * Rank(r.class) + r.worth
      <3>1. Level(s) <= Level(r)
        BY <1>3, <1>6
      <3> QED
        BY <3>1
    <2>3. CASE Rank(r.class) > Rank(s.class)
      BY <2>3 DEF Outlasts
    <2>4. CASE ~(Rank(r.class) > Rank(s.class))
      <3>1. Rank(r.class) = Rank(s.class) /\ s.worth <= r.worth
        BY ONLY <2>1, <2>2, <2>4
      <3>2. r.class = s.class
        BY <2>1, <3>1, RankIs
      <3>3. CASE r.worth = s.worth
        <4>1. s \in top
          BY <1>6, <3>1, <3>3
        <4>2. r.id >= s.id
          BY <1>5, <1>6, <2>1, <4>1
        <4> QED
          BY <3>2, <3>3, <4>2 DEF Outlasts
      <3>4. CASE r.worth # s.worth
        BY <2>1, <3>1, <3>2, <3>4 DEF Outlasts
      <3> QED
        BY <3>3, <3>4
    <2> QED
      BY <2>3, <2>4
  <1> QED
    BY <1>6, <1>7

(* An anchor with a lasting memory has a protected one. *)
LEMMA AnchorIsProtected ==
    ASSUME NEW R \in SUBSET Record, PreserveAnchors, NEW a, Anchored(R, a) # {}
    PROVE  \E s \in Anchored(R, a) : s \in ProtectedIds(R)
  <1>1. Anchored(R, a) \in SUBSET Record /\ \A s \in Anchored(R, a) : s \in R /\ s.anchor = a
    BY DEF Anchored
  <1>2. CASE \E s \in Anchored(R, a) : Shielded(s)
    BY <1>1, <1>2 DEF ProtectedIds
  <1>3. CASE \A s \in Anchored(R, a) : ~Shielded(s)
    <2>1. PICK s \in Anchored(R, a) : \A t \in Anchored(R, a) : Outlasts(s, t)
      BY <1>1, BestOutlasts
    <2>2. s \in Survivors(R)
      BY <1>1, <1>3, <2>1 DEF Survivors
    <2> QED
      BY <2>1, <2>2 DEF ProtectedIds
  <1> QED
    BY <1>2, <1>3

(* What is admitted has room beside what is left, and nothing protected goes. *)
LEMMA PlanIs ==
    ASSUME NEW r
    PROVE  LET plan == PlanRetention(r)
           IN  /\ plan.reason = "admit" =>
                    /\ Fits(records \ plan.retire, r)
                    /\ \A s \in plan.retire : s.valid => s \notin ProtectedIds(records)
               /\ plan.reason = "checkpoint_compaction_required" =>
                    plan.compact \in SUBSET (records \ ProtectedIds(records))
  <1> DEFINE invalid == {s \in records : ~s.valid}
             valid == records \ invalid
             candidates == valid \ ProtectedIds(records)
             left(n) == valid \ Foremost(candidates, n)
             enough == {n \in 0 .. Cardinality(candidates) :
                           n = Cardinality(candidates) \/ Fits(left(n), r)}
             k == CHOOSE n \in enough : \A m \in enough : n <= m
             foremost == Foremost(candidates, k)
             episodic == {s \in foremost : s.class = "episodic"}
             batch == Batch(candidates, Cardinality(episodic))
             plan == PlanRetention(r)
  <1>1. \A C, n : Foremost(C, n) \subseteq C
    BY DEF Foremost
  <1>2. \A C, n : Batch(C, n) \subseteq C
    BY <1>1 DEF Batch
  <1>3. foremost \subseteq candidates /\ batch \subseteq candidates
    BY <1>1, <1>2
  <1>4. \/ plan.reason \notin {"admit", "checkpoint_compaction_required"}
        \/ plan = Plan("admit", invalid \cup foremost, {}) /\ Fits(left(k), r)
        \/ plan = Plan("checkpoint_compaction_required", {}, batch)
    <2> HIDE DEF invalid, valid, candidates, enough, k, foremost, episodic, batch
    <2>1. PlanRetention(r) =
            CASE ~r.valid           -> Refusal("incoming_source_invalid")
              [] r.valid /\ r.chars > MaxChars -> Refusal("incoming_exceeds_capacity")
              [] r.valid /\ r.chars <= MaxChars /\ ~Fits(left(k), r)
                               -> Refusal("protected_capacity_exhausted")
              [] r.valid /\ Fits(left(k), r) /\ episodic = {}
                               -> Plan("admit", invalid \cup foremost, {})
              [] r.valid /\ Fits(left(k), r) /\ episodic # {} /\ batch = {}
                               -> Refusal("protected_capacity_exhausted")
              [] OTHER              -> Plan("checkpoint_compaction_required", {}, batch)
      BY DEF PlanRetention, invalid, valid, candidates, enough, k, foremost, episodic, batch
    <2> QED
      BY <2>1 DEF Refusal, Plan
  <1>5. records \ (invalid \cup foremost) = left(k)
    BY DEF foremost
  <1> HIDE DEF candidates, k, foremost, batch, plan
  <1>6. CASE plan = Plan("admit", invalid \cup foremost, {}) /\ Fits(left(k), r)
    <2>1. plan.reason = "admit" /\ plan.retire = invalid \cup foremost
      BY <1>6 DEF Plan
    <2>2. \A s \in invalid \cup foremost : s.valid => s \notin ProtectedIds(records)
      BY <1>3 DEF candidates
    <2> QED
      BY <1>5, <1>6, <2>1, <2>2 DEF plan
  <1>7. CASE plan = Plan("checkpoint_compaction_required", {}, batch)
    <2>1. plan.reason = "checkpoint_compaction_required" /\ plan.compact = batch
      BY <1>7 DEF Plan
    <2> QED
      BY <1>3, <2>1 DEF plan, candidates
  <1> QED
    BY <1>4, <1>6, <1>7 DEF plan

----------------------------------------------------------------------------
(* What a new session is told *)

LEMMA WeightIs ==
    ASSUME NEW r \in Record
    PROVE  /\ Weight(r) \in 0 .. 39 /\ r.id \in 1 .. MaxId
           /\ r.pinned => Weight(r) >= 20
           /\ r.class = "core" => Weight(r) >= 15
           /\ ~r.pinned /\ r.class = "durable" => Weight(r) <= 14
  <1>1. /\ r.pinned \in BOOLEAN /\ r.class \in Class /\ r.worth \in 0 .. 4 /\ r.id \in 1 .. MaxId
        /\ Rank(r.class) \in 0 .. 3 /\ Rank("core") = 3 /\ Rank("durable") = 2
    BY RankIs DEF Record
  <1>2. Weight(r) = (IF r.pinned THEN 20 ELSE 0) + 5 * Rank(r.class) + r.worth
    BY DEF Weight
  <1>3. CASE r.pinned
    <2>1. Weight(r) = 20 + 5 * Rank(r.class) + r.worth
      BY <1>2, <1>3
    <2> QED
      BY <1>1, <1>3, <2>1
  <1>4. CASE ~r.pinned
    <2>1. Weight(r) = 0 + 5 * Rank(r.class) + r.worth
      BY <1>2, <1>4
    <2> QED
      BY <1>1, <1>4, <2>1
  <1> QED
    BY <1>3, <1>4

LEMMA LastIsTold ==
    ASSUME NEW t \in SUBSET Record, t # {}
    PROVE  \E x \in t : \A s \in t : ~ToldBefore(x, s)
  <1> DEFINE weights == {Weight(r) : r \in t}
             bottom == {r \in t : Weight(r) = Min(weights)}
             ids == {r.id : r \in bottom}
  <1>1. \A r \in t : Weight(r) \in Nat /\ r.id \in 1 .. MaxId
    BY WeightIs
  <1>2. Min(weights) \in weights /\ \A y \in weights : Min(weights) <= y
    <2>1. weights \in SUBSET Nat /\ weights # {}
      BY <1>1
    <2> HIDE DEF weights
    <2> QED
      BY <2>1, SmallestIsThere
  <1>3. bottom # {}
    BY <1>2
  <1>4. MaxId \in Nat /\ \A r \in bottom : r.id \in 0 .. MaxId
    BY <1>1, RetentionPolicyAssumption
  <1>5. Max(ids) \in ids /\ \A y \in ids : y <= Max(ids)
    <2>1. ids \in SUBSET (0 .. MaxId) /\ ids # {}
      <3> HIDE DEF bottom
      <3> QED
        BY <1>3, <1>4
    <2> HIDE DEF ids
    <2> QED
      BY <1>4, <2>1, LargestIsThere
  <1>6. PICK x \in bottom : x.id = Max(ids)
    BY <1>5
  <1>7. ASSUME NEW s \in t PROVE ~ToldBefore(x, s)
    <2>1. /\ Weight(x) \in Nat /\ Weight(s) \in Nat /\ x.id \in 1 .. MaxId /\ s.id \in 1 .. MaxId
          /\ Weight(x) <= Weight(s)
      BY <1>1, <1>2, <1>6
    <2>2. Weight(s) = Weight(x) => s.id <= x.id
      <3> SUFFICES ASSUME Weight(s) = Weight(x) PROVE s.id <= x.id
        OBVIOUS
      <3>1. s \in bottom
        BY <1>6
      <3>2. s.id \in ids
        BY <3>1
      <3> QED
        BY <1>5, <1>6, <3>2
    <2> QED
      BY <1>4, <2>1, <2>2 DEF ToldBefore
  <1> QED
    BY <1>6, <1>7

(* The memories can be taken in turn. *)
LEMMA SomeAreTold ==
    ASSUME NEW L \in SUBSET Record, IsFiniteSet(L)
    PROVE  \E told \in SUBSET L : \A r \in L : r \in told <=> HasRoom(told, r)
  <1> DEFINE Tells(t, told) == \A r \in t : r \in told <=> HasRoom(told, r)
             T == {t \in SUBSET L : \E told \in SUBSET t : Tells(t, told)}
  <1>1. ASSUME NEW t \in SUBSET L, \A x \in t : t \ {x} \in T PROVE t \in T
    <2>1. CASE t = {}
      BY <2>1
    <2>2. CASE t # {}
      <3>1. PICK x \in t : \A s \in t : ~ToldBefore(x, s)
        BY <2>2, LastIsTold
      <3>2. PICK told \in SUBSET (t \ {x}) : Tells(t \ {x}, told)
        BY <1>1
      <3> DEFINE more == IF HasRoom(told, x) THEN told \cup {x} ELSE told
      <3>3. \A r \in t : {s \in more : ToldBefore(s, r)} = {s \in told : ToldBefore(s, r)}
        BY <3>1
      <3>4. \A r \in t : HasRoom(more, r) <=> HasRoom(told, r)
        BY <3>3 DEF HasRoom
      <3>5. \A r \in t : r # x => (r \in more <=> r \in told)
        OBVIOUS
      <3>6. x \in more <=> HasRoom(told, x)
        BY <3>2
      <3>7. more \in SUBSET t
        BY <3>1
      <3> HIDE DEF more
      <3>8. Tells(t, more)
        BY <3>2, <3>4, <3>5, <3>6
      <3> QED
        BY <3>7, <3>8
    <2> QED
      BY <2>1, <2>2
  <1> HIDE DEF T
  <1>2. T \in SUBSET (SUBSET L)
    BY DEF T
  <1>3. T = SUBSET L
    BY ONLY <1>1, <1>2, IsFiniteSet(L), RemoveInduction
  <1>4. L \in T
    BY <1>3
  <1> QED
    BY <1>4 DEF T

LEMMA ContextGrows ==
    ASSUME NEW R \in SUBSET Record, IsFiniteSet(R), NEW A \in SUBSET R
    PROVE  /\ Cardinality(A) \in Nat /\ Cardinality(R) \in Nat /\ Cardinality(A) <= Cardinality(R)
           /\ ContextChars(A) \in Int /\ ContextChars(R) \in Int /\ ContextChars(A) <= ContextChars(R)
  <1>1. /\ IsFiniteSet(A) /\ Cardinality(A) \in Nat /\ Cardinality(R) \in Nat
        /\ Cardinality(A) <= Cardinality(R)
    BY FS_Subset, FS_CardinalityType
  <1>2. /\ Chars(A) \in Nat /\ Chars(R) \in Nat /\ Chars(R \ A) \in Nat
        /\ Chars(R) = Chars(A) + Chars(R \ A)
    BY SizesAdd
  <1>3. /\ A # {} => Cardinality(A) >= 1
        /\ R # {} => Cardinality(R) >= 1
    BY <1>1, FS_EmptySet
  <1> DEFINE a == IF A = {} THEN 0 ELSE Cardinality(A) - 1
             b == IF R = {} THEN 0 ELSE Cardinality(R) - 1
  <1>4. a \in Nat /\ b \in Nat /\ a <= b
    BY <1>1, <1>3
  <1>5. ContextChars(A) = Chars(A) + a /\ ContextChars(R) = Chars(R) + b
    BY DEF ContextChars
  <1> HIDE DEF a, b
  <1> QED
    BY <1>1, <1>2, <1>4, <1>5

(* The core and what is pinned come first. *)
LEMMA CoreHasRoom ==
    ASSUME records \in SUBSET Record, IsFiniteSet(records), NEW durable \in BOOLEAN
    PROVE  CoreIsTold(durable)
  <1> DEFINE L == Lasting(records, durable)
             first == {r \in L : r.class = "core" \/ r.pinned}
             told == Told(records, durable)
  <1> SUFFICES ASSUME Cardinality(first) <= MaxTold, ContextChars(first) <= MaxToldChars
               PROVE  OmittedCore(records, told) = {}
    BY DEF CoreIsTold
  <1>1. L \in SUBSET Record /\ IsFiniteSet(L) /\ first \in SUBSET L /\ IsFiniteSet(first)
        /\ \A r \in L : r.class \in {"core", "durable"}
    <2>1. L \in SUBSET records /\ \A r \in L : r.class \in {"core", "durable"}
      BY DEF Lasting
    <2> HIDE DEF L
    <2>2. IsFiniteSet(L)
      BY <2>1, FS_Subset
    <2> QED
      BY <2>1, <2>2, FS_Subset
  <1>2. told \in SUBSET L /\ \A r \in L : r \in told <=> HasRoom(told, r)
    <2>1. \E t \in SUBSET L : \A r \in L : r \in t <=> HasRoom(t, r)
      <3> HIDE DEF L
      <3> QED
        BY <1>1, SomeAreTold
    <2>2. told = CHOOSE t \in SUBSET L : \A r \in L : r \in t <=> HasRoom(t, r)
      BY DEF Told
    <2> HIDE DEF L, told
    <2> QED
      BY <2>1, <2>2
  <1>3. Lasting(records, FALSE) \subseteq first
    BY DEF Lasting
  <1> HIDE DEF L, told
  <1>4. ASSUME NEW r \in first PROVE HasRoom(told, r)
    <2> DEFINE above == {s \in told : ToldBefore(s, r)}
    <2>1. /\ r \in Record /\ r.class \in {"core", "durable"} /\ Weight(r) \in 0 .. 39
          /\ Weight(r) >= 15 /\ r.id \in 1 .. MaxId
      <3>1. r \in Record /\ r.class \in {"core", "durable"}
        BY <1>1
      <3> QED
        BY <3>1, WeightIs
    <2>2. ASSUME NEW s \in above PROVE s \in first
      <3>1. s \in L /\ s \in Record /\ s.class \in {"core", "durable"} /\ ToldBefore(s, r)
        BY <1>1, <1>2
      <3>2. Weight(s) >= Weight(r) /\ Weight(s) \in 0 .. 39
        <4>1. Weight(s) \in 0 .. 39
          BY <3>1, WeightIs
        <4> QED
          BY <2>1, <3>1, <4>1 DEF ToldBefore
      <3>3. ~(Weight(s) <= 14)
        BY <2>1, <3>2
      <3>4. s.pinned \/ s.class = "core"
        BY <3>1, <3>3, WeightIs DEF Record
      <3> QED
        BY <3>1, <3>4
    <2>3. ~ToldBefore(r, r)
      BY <2>1 DEF ToldBefore
    <2>4. above \in SUBSET (first \ {r}) /\ above \cup {r} \in SUBSET first
      BY <2>2, <2>3
    <2> HIDE DEF above, first
    <2>5. first \in SUBSET Record /\ first \ {r} \in SUBSET Record
      BY <1>1
    <2>6. /\ Cardinality(above) \in Nat /\ Cardinality(above) <= Cardinality(first \ {r})
          /\ IsFiniteSet(first \ {r}) /\ Cardinality(first) \in Nat
          /\ Cardinality(first \ {r}) = Cardinality(first) - 1
      <3>1. /\ IsFiniteSet(first \ {r}) /\ Cardinality(first) \in Nat
            /\ Cardinality(first \ {r}) = Cardinality(first) - 1
        BY <1>1, LessOne
      <3> QED
        BY <2>4, <2>5, <3>1, ContextGrows
    <2>7. ContextChars(above \cup {r}) \in Int /\ ContextChars(first) \in Int
          /\ ContextChars(above \cup {r}) <= ContextChars(first)
      BY <1>1, <2>4, <2>5, ContextGrows
    <2>8. Cardinality(above) < MaxTold /\ ContextChars(above \cup {r}) <= MaxToldChars
      <3>1. MaxTold \in Nat /\ MaxToldChars \in Nat
        BY RetentionPolicyAssumption
      <3> QED
        BY <2>6, <2>7, <3>1
    <2> QED
      BY <2>8 DEF HasRoom, above
  <1>5. first \subseteq told
    BY <1>1, <1>2, <1>4
  <1> QED
    BY <1>3, <1>5 DEF OmittedCore

----------------------------------------------------------------------------
(* The host *)

(* The room counts: what fits is within the capacity with one memory more. *)
LEMMA FittingKeeps ==
    ASSUME NEW R \in SUBSET Record, IsFiniteSet(R), NEW r \in Record, \A s \in R : s.id # r.id,
           Fits(R, r)
    PROVE  /\ R \cup {r} \in SUBSET Record /\ IsFiniteSet(R \cup {r})
           /\ Cardinality(R \cup {r}) <= MaxRecords /\ Chars(R \cup {r}) <= MaxChars
  <1>1. r \notin R
    OBVIOUS
  <1> QED
    BY <1>1, SizeGrows DEF Fits

LEMMA PartKeeps ==
    ASSUME NEW R \in SUBSET Record, IsFiniteSet(R), NEW A \in SUBSET R,
           Cardinality(R) <= MaxRecords, Chars(R) <= MaxChars
    PROVE  /\ A \in SUBSET Record /\ IsFiniteSet(A)
           /\ Cardinality(A) \in Nat /\ Cardinality(A) <= MaxRecords
           /\ Chars(A) \in Nat /\ Chars(A) <= MaxChars
  <1>1. /\ IsFiniteSet(A) /\ Cardinality(A) \in Nat /\ Cardinality(R) \in Nat
        /\ Cardinality(A) <= Cardinality(R)
    BY FS_Subset, FS_CardinalityType
  <1>2. /\ Chars(A) \in Nat /\ Chars(R) \in Nat /\ Chars(R \ A) \in Nat
        /\ Chars(R) = Chars(A) + Chars(R \ A)
    BY SizesAdd
  <1>3. MaxRecords \in Nat /\ MaxChars \in Nat
    BY RetentionPolicyAssumption
  <1> QED
    BY <1>1, <1>2, <1>3

LEMMA RetentionStarts == InitRetention => RetentionInv
  <1> SUFFICES ASSUME InitRetention PROVE RetentionInv
    OBVIOUS
  <1>1. records = {} /\ incoming = NoMemory
    BY DEF InitRetention
  <1>2. IsFiniteSet({}) /\ Cardinality({}) = 0
    BY FS_EmptySet
  <1>3. Chars({}) = 0
    BY <1>2, SizesAdd
  <1>4. MaxRecords \in Nat /\ MaxChars \in Nat
    BY RetentionPolicyAssumption
  <1> QED
    BY <1>1, <1>2, <1>3, <1>4 DEF RetentionInv, Distinct

(* While there are fewer memories than ids, one is free. *)
LEMMA AnIdIsFree ==
    ASSUME RetentionInv, Cardinality(records) < MaxId
    PROVE  \E n \in 1 .. MaxId : \A r \in records : r.id # n
  <1> DEFINE ids == {r.id : r \in records}
             f == [r \in records |-> r.id]
  <1>1. IsFiniteSet(records) /\ Cardinality(records) \in Nat /\ MaxId \in Nat
    BY FS_CardinalityType, RetentionPolicyAssumption DEF RetentionInv
  <1>2. f \in Surjection(records, ids)
    BY DEF Surjection
  <1>3. Cardinality(ids) <= Cardinality(records)
    <2> HIDE DEF f, ids
    <2> QED
      BY <1>1, <1>2, FS_Surjection
  <1>4. Cardinality(1 .. MaxId) = MaxId
    <2>1. Cardinality(1 .. MaxId) = IF 1 > MaxId THEN 0 ELSE MaxId - 1 + 1
      BY <1>1, FS_Interval
    <2> QED
      BY <1>1, <2>1
  <1>5. ids # 1 .. MaxId
    <2> SUFFICES ASSUME ids = 1 .. MaxId PROVE FALSE
      OBVIOUS
    <2> HIDE DEF ids
    <2> QED
      BY <1>1, <1>3, <1>4
  <1>6. ids \in SUBSET (1 .. MaxId)
    BY DEF RetentionInv, Record
  <1>7. PICK n \in 1 .. MaxId : n \notin ids
    BY <1>5, <1>6
  <1> QED
    BY <1>7

LEMMA OfferKeeps == ASSUME RetentionInv, NEW kind \in Kind, Offer(kind) PROVE RetentionInv'
  <1>1. /\ incoming = NoMemory /\ Cardinality(records) < MaxId
        /\ incoming' = Memory(kind, FreeId) /\ records' = records
    BY DEF Offer
  <1>2. FreeId \in 1 .. MaxId /\ \A r \in records : r.id # FreeId
    <2>1. records \cup ({incoming} \ {NoMemory}) = records
      BY <1>1
    <2> QED
      BY <1>1, <2>1, AnIdIsFree DEF FreeId
  <1>3. /\ kind.class \in Class /\ kind.worth \in 0 .. 4 /\ kind.chars \in Nat \ {0}
        /\ kind.pinned \in BOOLEAN /\ kind.anchor \in {k.anchor : k \in Kind}
    BY RetentionPolicyAssumption DEF KindType
  <1>4. Memory(kind, FreeId) \in Record /\ Memory(kind, FreeId).id = FreeId
    BY <1>2, <1>3 DEF Memory, Record
  <1> QED
    BY <1>1, <1>2, <1>4 DEF RetentionInv

LEMMA DecideKeeps == ASSUME RetentionInv, Decide PROVE RetentionInv'
  <1> DEFINE plan == PlanRetention(incoming)
             left == records \ plan.retire
  <1>1. /\ incoming # NoMemory /\ incoming' = NoMemory
        /\ records' = IF plan.reason = "admit" THEN left \cup {incoming} ELSE records
    BY DEF Decide
  <1>2. CASE plan.reason = "admit"
    <2>1. Fits(left, incoming)
      BY <1>2, PlanIs
    <2>2. /\ left \in SUBSET records /\ incoming \in Record
          /\ \A r \in left : r.id # incoming.id
      BY <1>1 DEF RetentionInv
    <2>3. records' = left \cup {incoming}
      BY <1>1, <1>2
    <2> HIDE DEF left, plan
    <2>4. left \in SUBSET Record /\ IsFiniteSet(left)
      BY <2>2, PartKeeps DEF RetentionInv
    <2>5. /\ records' \in SUBSET Record /\ IsFiniteSet(records')
          /\ Cardinality(records') <= MaxRecords /\ Chars(records') <= MaxChars
      BY <2>1, <2>2, <2>3, <2>4, FittingKeeps
    <2>6. Distinct(records')
      BY <2>2, <2>3 DEF RetentionInv, Distinct
    <2>7. Chars(records') = Chars(records)'
      OBVIOUS
    <2> QED
      BY <1>1, <2>5, <2>6, <2>7 DEF RetentionInv
  <1>3. CASE plan.reason # "admit"
    <2>1. records' = records
      BY <1>1, <1>3
    <2> QED
      BY <1>1, <2>1 DEF RetentionInv
  <1> QED
    BY <1>2, <1>3

LEMMA CheckpointKeeps ==
    ASSUME RetentionInv, NEW chars \in CheckpointChars, FormCheckpoint(chars) PROVE RetentionInv'
  <1> DEFINE plan == PlanRetention(incoming)
             source == CHOOSE r \in plan.compact : TRUE
             summary == [id |-> source.id, class |-> "episodic",
                         worth |-> 0, chars |-> chars, pinned |-> FALSE,
                         anchor |-> NoAnchor, valid |-> TRUE]
             left == records \ plan.compact
  <1>1. /\ incoming # NoMemory /\ incoming' = incoming
        /\ plan.reason = "checkpoint_compaction_required" /\ chars <= Chars(plan.compact)
        /\ records' = left \cup {summary}
    BY DEF FormCheckpoint
  <1>2. plan.compact \in SUBSET records
    BY <1>1, PlanIs
  <1>3. chars \in Nat \ {0}
    BY RetentionPolicyAssumption
  <1> DEFINE compact == plan.compact
  <1>4. source \in compact
    <2>1. IsFiniteSet(records) /\ records \in SUBSET Record
      BY DEF RetentionInv
    <2>2. Chars({}) = 0
      BY <2>1, SizesAdd
    <2>3. compact # {}
      <3> SUFFICES ASSUME compact = {} PROVE FALSE
        OBVIOUS
      <3>1. chars <= Chars(compact)
        BY <1>1
      <3> HIDE DEF compact
      <3> QED
        BY <1>3, <2>2, <3>1
    <2> QED
      BY <2>3
  <1>5. summary \in Record /\ summary.id = source.id /\ summary.chars = chars
    <2>1. source.id \in 1 .. MaxId
      BY <1>2, <1>4 DEF RetentionInv, Record
    <2> HIDE DEF source
    <2> QED
      BY <1>3, <2>1 DEF Record, Class
  <1>6. source \in records /\ \A s \in left : s.id # summary.id
    BY <1>2, <1>4, <1>5 DEF RetentionInv, Distinct
  <1> HIDE DEF plan, source, summary
  <1>7. /\ IsFiniteSet(records) /\ records \in SUBSET Record
        /\ Cardinality(records) <= MaxRecords /\ Chars(records) <= MaxChars
        /\ MaxRecords \in Nat /\ MaxChars \in Nat
    BY RetentionPolicyAssumption DEF RetentionInv
  <1>8. /\ left \in SUBSET Record /\ IsFiniteSet(left) /\ Cardinality(left) \in Nat
        /\ Chars(left) \in Nat /\ Chars(compact) \in Nat /\ Chars(records) \in Nat
        /\ Chars(records) = Chars(compact) + Chars(left)
    <2>1. left \in SUBSET records
      OBVIOUS
    <2>2. /\ Chars(compact) \in Nat /\ Chars(records) \in Nat
          /\ Chars(records) = Chars(compact) + Chars(left)
      BY <1>2, <1>7, SizesAdd
    <2> HIDE DEF left
    <2> QED
      BY <1>7, <2>1, <2>2, PartKeeps
  <1>9. Cardinality(left) + 1 <= MaxRecords
    <2>1. left \in SUBSET (records \ {source})
      BY <1>4
    <2>2. /\ IsFiniteSet(records \ {source}) /\ Cardinality(records) \in Nat
          /\ Cardinality(records \ {source}) = Cardinality(records) - 1
      BY <1>6, <1>7, LessOne
    <2>3. Cardinality(left) <= Cardinality(records \ {source})
      BY <2>1, <2>2, FS_Subset
    <2> HIDE DEF left
    <2> QED
      BY <1>7, <1>8, <2>2, <2>3
  <1>10. Chars(left) + summary.chars <= MaxChars
    <2> HIDE DEF left
    <2>1. chars \in Nat /\ chars <= Chars(compact)
      BY <1>1, <1>3
    <2> HIDE DEF compact
    <2> QED
      BY <1>5, <1>7, <1>8, <2>1
  <1>11. Fits(left, summary)
    BY <1>9, <1>10 DEF Fits
  <1>12. /\ records' \in SUBSET Record /\ IsFiniteSet(records')
         /\ Cardinality(records') <= MaxRecords /\ Chars(records') <= MaxChars
    <2> HIDE DEF left
    <2> QED
      BY <1>1, <1>5, <1>6, <1>8, <1>11, FittingKeeps
  <1>13. Distinct(records')
    BY <1>1, <1>6 DEF RetentionInv, Distinct
  <1>14. \A r \in records' : r.id # incoming'.id
    BY <1>1, <1>5, <1>6 DEF RetentionInv
  <1>15. Chars(records') = Chars(records)'
    OBVIOUS
  <1> QED
    BY <1>1, <1>12, <1>13, <1>14, <1>15 DEF RetentionInv

LEMMA SourceEditedKeeps ==
    ASSUME RetentionInv, NEW r \in records, SourceEdited(r) PROVE RetentionInv'
  <1> DEFINE left == records \ {r}
             stale == [r EXCEPT !.valid = FALSE]
  <1>1. records' = left \cup {stale} /\ incoming' = incoming
    BY DEF SourceEdited
  <1>2. stale \in Record /\ stale.id = r.id /\ stale.chars = r.chars
    BY DEF RetentionInv, Record
  <1>3. \A s \in left : s.id # stale.id
    BY <1>2 DEF RetentionInv, Distinct
  <1>4. /\ IsFiniteSet(records) /\ records \in SUBSET Record
        /\ Cardinality(records) <= MaxRecords /\ Chars(records) <= MaxChars
        /\ MaxRecords \in Nat /\ MaxChars \in Nat
    BY RetentionPolicyAssumption DEF RetentionInv
  <1> HIDE DEF stale
  <1>5. left \in SUBSET Record /\ IsFiniteSet(left)
    BY <1>4, PartKeeps
  <1>6. Fits(left, stale)
    <2>1. Cardinality(records) \in Nat /\ Cardinality(left) = Cardinality(records) - 1
      BY <1>4, LessOne
    <2>2. Chars(records) = r.chars + Chars(left) /\ Chars(left) \in Nat /\ r.chars \in Nat
      <3>1. Chars(records) = r.chars + Chars(left)
        BY <1>4, SizesAdd
      <3>2. Chars(left) \in Nat
        BY <1>4, SizesAdd
      <3>3. r.chars \in Nat
        BY <1>4 DEF Record
      <3> QED
        BY <3>1, <3>2, <3>3
    <2> HIDE DEF left
    <2>3. Cardinality(left) + 1 <= MaxRecords
      BY <1>4, <2>1
    <2>4. Chars(left) + stale.chars <= MaxChars
      BY <1>2, <1>4, <2>2
    <2> QED
      BY <2>3, <2>4 DEF Fits
  <1>7. /\ records' \in SUBSET Record /\ IsFiniteSet(records')
        /\ Cardinality(records') <= MaxRecords /\ Chars(records') <= MaxChars
    <2> HIDE DEF left
    <2> QED
      BY <1>1, <1>2, <1>3, <1>5, <1>6, FittingKeeps
  <1>8. Distinct(records')
    BY <1>1, <1>3 DEF RetentionInv, Distinct
  <1>9. incoming # NoMemory => \A s \in records' : s.id # incoming.id
    BY <1>1, <1>2 DEF RetentionInv
  <1>10. Chars(records') = Chars(records)'
    OBVIOUS
  <1> QED
    BY <1>1, <1>7, <1>8, <1>9, <1>10 DEF RetentionInv

LEMMA WithdrawKeeps == ASSUME RetentionInv, NEW r \in records, Withdraw(r) PROVE RetentionInv'
  <1>1. records' = records \ {r} /\ incoming' = incoming
    BY DEF Withdraw
  <1>2. records' \in SUBSET records
    BY <1>1
  <1>3. /\ records' \in SUBSET Record /\ IsFiniteSet(records')
        /\ Cardinality(records') <= MaxRecords /\ Chars(records') <= MaxChars
    BY <1>2, PartKeeps DEF RetentionInv
  <1>4. Chars(records') = Chars(records)'
    OBVIOUS
  <1> QED
    BY <1>1, <1>2, <1>3, <1>4 DEF RetentionInv, Distinct

LEMMA RetentionStep == RetentionInv /\ [NextRetention]_retentionVars => RetentionInv'
  <1> SUFFICES ASSUME RetentionInv, [NextRetention]_retentionVars PROVE RetentionInv'
    OBVIOUS
  <1>1. ASSUME NEW kind \in Kind, Offer(kind) PROVE RetentionInv'
    BY <1>1, OfferKeeps
  <1>2. CASE Decide
    BY <1>2, DecideKeeps
  <1>3. ASSUME NEW c \in CheckpointChars, FormCheckpoint(c) PROVE RetentionInv'
    BY <1>3, CheckpointKeeps
  <1>4. ASSUME NEW r \in records, SourceEdited(r) PROVE RetentionInv'
    BY <1>4, SourceEditedKeeps
  <1>5. ASSUME NEW r \in records, Withdraw(r) PROVE RetentionInv'
    BY <1>5, WithdrawKeeps
  <1>6. CASE UNCHANGED retentionVars
    <2>1. records' = records /\ incoming' = incoming
      BY <1>6 DEF retentionVars
    <2> QED
      BY <2>1 DEF RetentionInv
  <1> QED
    BY <1>1, <1>2, <1>3, <1>4, <1>5, <1>6 DEF NextRetention

LEMMA RetentionAlways == RetentionSpec => []RetentionInv
  BY RetentionStarts, RetentionStep, PTL DEF RetentionSpec

(* However memories are offered, admitted, compacted into checkpoints,       *)
(* invalidated by an edit of what they rest on and withdrawn, the active     *)
(* ones stay within the policy's records and characters, and a prompt with   *)
(* room for the core leaves none of it out (plan_long_term_retention,        *)
(* select_continuity_context).                                               *)
THEOREM RetentionWithinCapacity == RetentionSpec => []WithinCapacity
  <1>1. RetentionInv => WithinCapacity
    <2> SUFFICES ASSUME RetentionInv PROVE WithinCapacity
      OBVIOUS
    <2>1. \A durable \in BOOLEAN : CoreIsTold(durable)
      BY CoreHasRoom DEF RetentionInv
    <2> QED
      BY <2>1 DEF WithinCapacity, RetentionInv
  <1> QED
    BY <1>1, RetentionAlways, PTL

(* A memory is one of the declared kinds under an id of its own              *)
(* (plan_long_term_retention rejects two records of one id).                 *)
THEOREM RetentionTypeCorrect == RetentionSpec => []RetentionTypeOK
  <1>1. RetentionInv => RetentionTypeOK
    <2> SUFFICES ASSUME RetentionInv PROVE RetentionTypeOK
      OBVIOUS
    <2>1. \A r \in records \cup ({incoming} \ {NoMemory}) : r \in Record
      BY DEF RetentionInv
    <2>2. \A r \in Record : r.id \in 1 .. MaxId /\ r.valid \in BOOLEAN /\ r.class \in Class
      BY DEF Record
    <2> QED
      BY <2>1, <2>2 DEF RetentionTypeOK, RetentionInv, Distinct
  <1> QED
    BY <1>1, RetentionAlways, PTL

(* A protected record stays, whether room is made by retiring or by a        *)
(* checkpoint.                                                               *)
LEMMA PlanKeepsAnchors ==
    ASSUME PreserveAnchors, RetentionInv,
           Decide \/ \E c \in CheckpointChars : FormCheckpoint(c)
    PROVE  Covered(records) \subseteq Covered(records')
  <1> DEFINE plan == PlanRetention(incoming)
  <1>1. ASSUME NEW s \in records, s.valid, s \in ProtectedIds(records) PROVE s \in records'
    <2>1. CASE Decide
      <3>1. records' = IF plan.reason = "admit"
                       THEN (records \ plan.retire) \cup {incoming} ELSE records
        BY <2>1 DEF Decide
      <3>2. plan.reason = "admit" => s \notin plan.retire
        BY <1>1, PlanIs
      <3> HIDE DEF plan
      <3> QED
        BY <3>1, <3>2
    <2>2. ASSUME NEW c \in CheckpointChars, FormCheckpoint(c) PROVE s \in records'
      <3>1. plan.reason = "checkpoint_compaction_required"
        BY <2>2 DEF FormCheckpoint
      <3>2. records \ plan.compact \subseteq records'
        BY <2>2 DEF FormCheckpoint
      <3>3. s \notin plan.compact
        BY <1>1, <3>1, PlanIs
      <3> QED
        BY <3>2, <3>3
    <2> QED
      BY <2>1, <2>2
  <1>2. ASSUME NEW a \in Covered(records) PROVE a \in Covered(records')
    <2>1. Anchored(records, a) # {}
      BY DEF Covered
    <2>2. PICK s \in Anchored(records, a) : s \in ProtectedIds(records)
      BY <2>1, AnchorIsProtected DEF RetentionInv
    <2>3. s \in records /\ s.valid /\ s.anchor = a /\ a # NoAnchor /\ s.class \in {"core", "durable"}
      BY DEF Anchored
    <2>4. s \in records'
      BY <1>1, <2>2, <2>3
    <2>5. s \in Anchored(records', a)
      BY <2>3, <2>4 DEF Anchored
    <2> QED
      BY <2>3, <2>4, <2>5 DEF Covered
  <1> QED
    BY <1>2

(* If the policy preserves anchor coverage, no decision of the planner and   *)
(* no checkpoint it asks for takes the last core or durable memory of an     *)
(* identity anchor (_protected_ids), whatever else is protected.             *)
THEOREM RetentionKeepsAnchors == ASSUME PreserveAnchors PROVE RetentionSpec => AnchorsKept
  <1>1. RetentionInv /\ [NextRetention]_retentionVars
           => [(\E c \in CheckpointChars : Decide \/ FormCheckpoint(c))
                  => Covered(records) \subseteq Covered(records')]_retentionVars
    <2> SUFFICES ASSUME RetentionInv, \E c \in CheckpointChars : Decide \/ FormCheckpoint(c)
                 PROVE  Covered(records) \subseteq Covered(records')
      OBVIOUS
    <2> QED
      BY PlanKeepsAnchors
  <1> QED
    BY <1>1, RetentionAlways, PTL DEF RetentionSpec, AnchorsKept
=============================================================================
