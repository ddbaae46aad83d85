---------------------------- MODULE MemoryProofs ----------------------------
(***************************************************************************)
(* Proofs about the canonical mutation ledger, the feedback on memories and *)
(* the checkpoints of a host's chat, for any fields, schemas, agents,       *)
(* policies and bounds.                                                     *)
(***************************************************************************)
EXTENDS MutationLedger, MemoryFeedback, Checkpoints, SequenceTheorems,
        FiniteSetTheorems, TLAPS

----------------------------------------------------------------------------
(* Outcomes of memory decisions *)

(* The outcomes that count for a. *)
OutcomesOf(a) ==
    {i \in 1 .. Len(outcomes) :
        Counts(outcomes[i].decision) /\ a \in judged[outcomes[i].decision].cards}

(* The inductive invariant: the outcomes that count for a card are of the *)
(* decisions that told it, and each decision has one outcome.             *)
FeedbackInv ==
    /\ judged \in Seq([cards : SUBSET Advice, shadow : BOOLEAN])
    /\ outcomes \in Seq([decision : Nat, what : Outcome])
    /\ \A i \in 1 .. Len(outcomes) : outcomes[i].decision \in 1 .. Len(judged)
    /\ agent \in [Agent -> [pc : {"idle", "found", "weighed", "judged"}, found : SUBSET Advice,
                            shadow : BOOLEAN, decision : Nat \cup {NoDecision}]]
    /\ \A i, j \in 1 .. Len(outcomes) : outcomes[i].decision = outcomes[j].decision => i = j
    /\ told \in [Advice -> SUBSET Nat]
    /\ \A a \in Advice : told[a] = {outcomes[i].decision : i \in OutcomesOf(a)}

LEMMA FeedbackCounts == FeedbackInv => FeedbackCountedOnce
  <1> SUFFICES ASSUME FeedbackInv, NEW a \in Advice
               PROVE  Tally(a).uses = Cardinality(told[a])
    BY DEF FeedbackCountedOnce
  <1>1. Tally(a).uses = Cardinality(OutcomesOf(a))
    BY DEF Tally, OutcomesOf
  <1>2. Len(outcomes) \in Nat
    BY DEF FeedbackInv
  <1>3. IsFiniteSet(OutcomesOf(a))
    <2>1. IsFiniteSet(1 .. Len(outcomes)) /\ OutcomesOf(a) \in SUBSET (1 .. Len(outcomes))
      BY <1>2, FS_Interval DEF OutcomesOf
    <2>. QED
      BY <2>1, FS_Subset
  <1> DEFINE of == [i \in OutcomesOf(a) |-> outcomes[i].decision]
  <1>4. of \in Bijection(OutcomesOf(a), told[a])
    <2>1. told[a] = {outcomes[i].decision : i \in OutcomesOf(a)}
      BY DEF FeedbackInv
    <2>2. \A i, j \in OutcomesOf(a) : of[i] = of[j] => i = j
      BY DEF FeedbackInv, OutcomesOf
    <2>3. \A i \in OutcomesOf(a) : of[i] \in told[a]
      BY <2>1
    <2>4. \A d \in told[a] : \E i \in OutcomesOf(a) : of[i] = d
      BY <2>1
    <2>5. of \in [OutcomesOf(a) -> told[a]]
      BY <2>3
    <2>. HIDE DEF of
    <2>6. of \in Injection(OutcomesOf(a), told[a])
      BY <2>2, <2>5 DEF Injection, IsInjective
    <2>7. of \in Surjection(OutcomesOf(a), told[a])
      BY <2>4, <2>5 DEF Surjection
    <2>. QED
      BY <2>6, <2>7 DEF Bijection
  <1>5. ExistsBijection(OutcomesOf(a), told[a])
    BY <1>4 DEF ExistsBijection
  <1>. QED
    BY <1>1, <1>3, <1>5, FS_Bijection

(* A new decision has no outcome yet. *)
LEMMA JudgeKeeps == ASSUME FeedbackInv, NEW p \in Agent, Judge(p) PROVE FeedbackInv'
  <1> DEFINE Judgement == [cards : SUBSET Advice, shadow : BOOLEAN]
             new == [cards |-> agent[p].found, shadow |-> agent[p].shadow]
             Doing == [pc : {"idle", "found", "weighed", "judged"}, found : SUBSET Advice,
                       shadow : BOOLEAN, decision : Nat \cup {NoDecision}]
  <1>1. /\ judged' = Append(judged, new) /\ UNCHANGED <<outcomes, told>>
        /\ agent' = [agent EXCEPT ![p].pc = "judged", ![p].decision = Len(judged) + 1]
    BY DEF Judge
  <1>2. /\ judged \in Seq(Judgement) /\ new \in Judgement /\ Len(judged) \in Nat
        /\ \A i \in 1 .. Len(outcomes) : outcomes[i].decision \in 1 .. Len(judged)
    BY DEF FeedbackInv
  <1>. HIDE DEF new
  <1>3. /\ judged' \in Seq(Judgement) /\ Len(judged') = Len(judged) + 1
        /\ \A d \in 1 .. Len(judged) : judged'[d] = judged[d]
    BY <1>1, <1>2
  <1>4. \A i \in 1 .. Len(outcomes) : outcomes[i].decision \in 1 .. Len(judged')
    BY <1>2, <1>3
  <1>5. agent' \in [Agent -> Doing]
    <2>1. Len(judged) + 1 \in Nat \cup {NoDecision}
      BY <1>2
    <2>2. agent' = [agent EXCEPT ![p] = [[agent[p] EXCEPT !.pc = "judged"]
                                            EXCEPT !.decision = Len(judged) + 1]]
      BY <1>1 DEF FeedbackInv
    <2>3. agent \in [Agent -> Doing]
      BY DEF FeedbackInv
    <2>4. [[agent[p] EXCEPT !.pc = "judged"] EXCEPT !.decision = Len(judged) + 1] \in Doing
      BY <2>1, <2>3
    <2>. QED
      BY <2>2, <2>3, <2>4
  <1>6. \A a \in Advice : OutcomesOf(a)' = OutcomesOf(a)
    BY <1>1, <1>2, <1>3 DEF OutcomesOf, Counts
  <1>. QED
    BY <1>1, <1>3, <1>4, <1>5, <1>6 DEF FeedbackInv

LEMMA ReportKeeps ==
    ASSUME FeedbackInv, NEW p \in Agent, NEW d \in 1 .. Len(judged), NEW what \in Outcome,
           Report(p, d, what)
    PROVE  FeedbackInv'
  <1> DEFINE new == [decision |-> d, what |-> what]
             Row == [decision : Nat, what : Outcome]
  <1>1. /\ outcomes' = Append(outcomes, new) /\ UNCHANGED <<judged, agent>>
        /\ \A i \in 1 .. Len(outcomes) : outcomes[i].decision # d
        /\ told' = [a \in Advice |-> IF a \in judged[d].cards /\ ~judged[d].shadow
                                     THEN told[a] \cup {d} ELSE told[a]]
    BY DEF Report, FirstReport
  <1>2. /\ outcomes \in Seq(Row)
        /\ \A i \in 1 .. Len(outcomes) : outcomes[i].decision \in 1 .. Len(judged)
        /\ new \in Row /\ Len(outcomes) \in Nat /\ new.decision = d
        /\ d \in Nat /\ told \in [Advice -> SUBSET Nat]
    BY DEF FeedbackInv
  <1>. HIDE DEF new
  <1>3. /\ outcomes' \in Seq(Row) /\ Len(outcomes') = Len(outcomes) + 1
        /\ outcomes'[Len(outcomes) + 1] = new
        /\ \A i \in 1 .. Len(outcomes) : outcomes'[i] = outcomes[i]
    BY <1>1, <1>2
  <1>4. \A i, j \in 1 .. Len(outcomes') : outcomes'[i].decision = outcomes'[j].decision => i = j
    <2> SUFFICES ASSUME NEW i \in 1 .. Len(outcomes) + 1, NEW j \in 1 .. Len(outcomes) + 1,
                        outcomes'[i].decision = outcomes'[j].decision
                 PROVE  i = j
      BY <1>3
    <2>1. CASE i \in 1 .. Len(outcomes) /\ j \in 1 .. Len(outcomes)
      BY <1>3, <2>1 DEF FeedbackInv
    <2>2. CASE i = Len(outcomes) + 1 \/ j = Len(outcomes) + 1
      BY <1>1, <1>2, <1>3, <2>2
    <2>. QED
      BY <1>2, <2>1, <2>2
  <1>5. /\ told' \in [Advice -> SUBSET Nat]
        /\ \A i \in 1 .. Len(outcomes') : outcomes'[i].decision \in 1 .. Len(judged')
    BY <1>1, <1>2, <1>3
  <1>6. ASSUME NEW a \in Advice
        PROVE  told'[a] = {outcomes'[i].decision : i \in OutcomesOf(a)'}
    <2>1. told[a] = {outcomes[i].decision : i \in OutcomesOf(a)}
      BY DEF FeedbackInv
    <2>2. \A i \in 1 .. Len(outcomes) : i \in OutcomesOf(a)' <=> i \in OutcomesOf(a)
      BY <1>1, <1>2, <1>3 DEF OutcomesOf, Counts
    <2>3. Len(outcomes) + 1 \in OutcomesOf(a)' <=> a \in judged[d].cards /\ ~judged[d].shadow
      BY <1>1, <1>2, <1>3 DEF OutcomesOf, Counts
    <2>4. OutcomesOf(a)' \subseteq 1 .. Len(outcomes) + 1 /\ OutcomesOf(a) \subseteq 1 .. Len(outcomes)
      BY <1>3 DEF OutcomesOf
    <2>5. CASE a \in judged[d].cards /\ ~judged[d].shadow
      <3>1. OutcomesOf(a)' = OutcomesOf(a) \cup {Len(outcomes) + 1}
        BY <1>2, <2>2, <2>3, <2>4, <2>5
      <3>2. told'[a] = told[a] \cup {d}
        BY <1>1, <2>5
      <3> DEFINE D(s) == {s[i].decision : i \in OutcomesOf(a)}
      <3>3. \A i \in OutcomesOf(a) : outcomes'[i] = outcomes[i]
        BY <1>3, <2>4
      <3>4. outcomes'[Len(outcomes) + 1].decision = d
        BY <1>2, <1>3
      <3>5. {outcomes'[i].decision : i \in OutcomesOf(a)'} = D(outcomes') \cup {d}
        BY ONLY <3>1, <3>4
      <3>6. D(outcomes') = D(outcomes)
        BY ONLY <3>3
      <3>. QED
        BY ONLY <2>1, <3>2, <3>5, <3>6
    <2>6. CASE ~(a \in judged[d].cards /\ ~judged[d].shadow)
      <3>1. OutcomesOf(a)' = OutcomesOf(a)
        <4>1. OutcomesOf(a)' \subseteq 1 .. Len(outcomes)
          BY <1>2, <2>3, <2>4, <2>6
        <4>. QED
          BY <2>2, <2>4, <4>1
      <3>2. told'[a] = told[a]
        BY <1>1, <2>6
      <3>3. \A i \in OutcomesOf(a) : outcomes'[i] = outcomes[i]
        BY <1>3, <2>4
      <3>. QED
        BY ONLY <2>1, <3>1, <3>2, <3>3
    <2>. QED
      BY <2>5, <2>6
  <1>. QED
    BY <1>1, <1>3, <1>4, <1>5, <1>6 DEF FeedbackInv

(* A step of one agent that no table sees. *)
LEMMA AgentKeeps ==
    ASSUME FeedbackInv, NEW p \in Agent,
           \/ \E found \in SUBSET Advice, shadow \in BOOLEAN : Retrieve(p, found, shadow)
           \/ Weigh(p) \/ Finish(p)
    PROVE  FeedbackInv'
  <1> DEFINE Doing == [pc : {"idle", "found", "weighed", "judged"}, found : SUBSET Advice,
                       shadow : BOOLEAN, decision : Nat \cup {NoDecision}]
  <1>1. UNCHANGED <<judged, outcomes, told>> /\ agent \in [Agent -> Doing]
    BY DEF Retrieve, Weigh, Finish, FeedbackInv
  <1>2. agent' \in [Agent -> Doing]
    <2>1. Silent \in Doing
      BY DEF Silent
    <2>2. ASSUME NEW found \in SUBSET Advice, NEW shadow \in BOOLEAN, Retrieve(p, found, shadow)
          PROVE  agent' \in [Agent -> Doing]
      <3>1. [Silent EXCEPT !.pc = "found", !.found = found, !.shadow = shadow] \in Doing
        BY DEF Silent
      <3>. QED
        BY <1>1, <2>2, <3>1 DEF Retrieve
    <2>3. CASE Weigh(p)
      <3> DEFINE worth == {a \in agent[p].found : WorthShowing(a, Tally(a))}
      <3>1. agent' = [agent EXCEPT ![p].pc = "weighed", ![p].found = worth]
        BY <2>3 DEF Weigh
      <3>2. worth \in SUBSET Advice
        BY <1>1
      <3>. HIDE DEF worth
      <3>3. [agent[p] EXCEPT !.pc = "weighed", !.found = worth] \in Doing
        <4>1. agent[p] \in Doing /\ "weighed" \in {"idle", "found", "weighed", "judged"}
          BY <1>1
        <4>. QED
          BY ONLY <3>2, <4>1
      <3>4. agent' = [agent EXCEPT ![p] = [agent[p] EXCEPT !.pc = "weighed", !.found = worth]]
        BY ONLY <1>1, <3>1
      <3>. HIDE DEF Doing
      <3>. QED
        BY ONLY <1>1, <3>3, <3>4
    <2>4. CASE Finish(p)
      BY <1>1, <2>1, <2>4 DEF Finish
    <2>. QED
      BY <2>2, <2>3, <2>4
  <1>3. \A a \in Advice : OutcomesOf(a)' = OutcomesOf(a)
    BY <1>1 DEF OutcomesOf, Counts
  <1>4. \A a \in Advice : told'[a] = {outcomes'[i].decision : i \in OutcomesOf(a)'}
    BY <1>1, <1>3 DEF FeedbackInv
  <1>. QED
    BY <1>1, <1>2, <1>4 DEF FeedbackInv

LEMMA FeedbackInvariant == InitFeedback /\ [][NextFeedback]_feedbackVars => []FeedbackInv
  <1>1. InitFeedback => FeedbackInv
    BY DEF InitFeedback, FeedbackInv, OutcomesOf, Silent
  <1>2. FeedbackInv /\ [NextFeedback]_feedbackVars => FeedbackInv'
    <2>1. FeedbackInv /\ UNCHANGED feedbackVars => FeedbackInv'
      BY DEF feedbackVars, FeedbackInv, OutcomesOf, Counts
    <2>. QED
      BY <2>1, JudgeKeeps, ReportKeeps, AgentKeeps DEF NextFeedback
  <1>. QED
    BY <1>1, <1>2, PTL

(* The utility of a memory rests on each prompt that it was really in, once, *)
(* for any number of agents that report the same outcome again or at once    *)
(* (record_memory_outcome, memory_utility_stats).                             *)
THEOREM FeedbackIsCountedOnce ==
    InitFeedback /\ [][NextFeedback]_feedbackVars => []FeedbackCountedOnce
  BY FeedbackInvariant, FeedbackCounts, PTL

(* Every variable of the feedback has its type; an outcome is of a decision *)
(* that was recorded.                                                       *)
THEOREM FeedbackTypeCorrect ==
    InitFeedback /\ [][NextFeedback]_feedbackVars => []FeedbackTypeOK
  <1>1. FeedbackInv => FeedbackTypeOK
    <2> SUFFICES ASSUME FeedbackInv PROVE FeedbackTypeOK
      OBVIOUS
    <2>1. \A i \in 1 .. Len(judged) : judged[i] \in [cards : SUBSET Advice, shadow : BOOLEAN]
      BY ElementOfSeq DEF FeedbackInv
    <2>2. \A i \in 1 .. Len(outcomes) : outcomes[i] \in [decision : Nat, what : Outcome]
      BY ElementOfSeq DEF FeedbackInv
    <2>. QED
      BY <2>1, <2>2 DEF FeedbackInv, FeedbackTypeOK
  <1>. QED
    BY <1>1, FeedbackInvariant, PTL

----------------------------------------------------------------------------
LEMMA SmallestIsThere ==
    ASSUME NEW S \in SUBSET Nat, S # {} PROVE Min(S) \in S /\ \A y \in S : Min(S) <= y
  <1>1. PICK x \in S : \A y \in S : ~(<<y, x>> \in OpToRel(<, Nat))
    BY NatLessThanWellFounded, WFMin
  <1>2. ASSUME NEW y \in S PROVE x <= y
    <2>1. x \in Nat /\ y \in Nat
      OBVIOUS
    <2>2. y < x => <<y, x>> \in OpToRel(<, Nat)
      BY <2>1 DEF OpToRel
    <2>3. ~(<<y, x>> \in OpToRel(<, Nat))
      BY <1>1
    <2>4. ~(y < x)
      BY <2>2, <2>3
    <2>. QED
      BY ONLY <2>1, <2>4
  <1>. QED
    BY <1>2 DEF Min

----------------------------------------------------------------------------
(* The summaries of a host's chat *)

(* The number of the message that an event is of. *)
Num(event) == event[2].number

LastNum(n) == Num(n.sources[Len(n.sources)])

Ref == ({"host-message"} \X HostId) \cup ({"message"} \X Nat)

(* Messages are numbered in their order, whatever was edited or deleted. *)
MessagesOK ==
    /\ chat \in Seq(Message) /\ written \in 0 .. MaxMessages /\ edits \in 0 .. MaxEdits
    /\ \A i, j \in 1 .. Len(chat) : i < j => chat[i].number < chat[j].number
    /\ \A i \in 1 .. Len(chat) : chat[i].number <= written /\ chat[i].revision <= edits

SourcesOK(s) ==
    /\ s \in Seq(Ref \X Message) /\ s # <<>>
    /\ \A j, k \in 1 .. Len(s) : j < k => Num(s[j]) < Num(s[k])
    /\ \A k \in 1 .. Len(s) : Num(s[k]) <= written

(* A message between the last of the parent and the last of a checkpoint is *)
(* one of its sources, as long as it is in the chat.                        *)
Closes(s, parent) ==
    \A i \in 1 .. Len(chat) :
        /\ chat[i].number <= Num(s[Len(s)])
        /\ parent # None => LastNum(parent) < chat[i].number
        => \E k \in 1 .. Len(s) : Num(s[k]) = chat[i].number

Fits(n) ==
    /\ n # None /\ SourcesOK(n.sources)
    /\ n.parent # None => LastNum(n.parent) < Num(n.sources[1])
    /\ Closes(n.sources, n.parent)

NodeOK(n) == Fits(n) /\ n.parent \in nodes \cup {None}

(* The inductive invariant of a chat and the checkpoints of its events. *)
CheckpointsInv ==
    /\ MessagesOK /\ active \in nodes \cup {None}
    /\ \A n \in nodes : NodeOK(n)

LEMMA NumbersOf ==
    /\ \A m \in Message : m.number \in Nat /\ m.revision \in Nat
    /\ \A event \in Ref \X Message : Num(event) \in Nat
  <1>1. ASSUME NEW m \in Message PROVE m.number \in Nat /\ m.revision \in Nat
    BY DEF Message
  <1>2. ASSUME NEW event \in Ref \X Message PROVE Num(event) \in Nat
    <2>1. event[2] \in Message
      BY <1>2
    <2>. QED
      BY <1>1, <2>1 DEF Num
  <1>. QED
    BY <1>1, <1>2

(* The events of a chat are of its messages, and so is each stretch of them. *)
LEMMA EventsOf ==
    ASSUME MessagesOK
    PROVE  /\ Len(chat) \in Nat
           /\ \A i \in 1 .. Len(chat) : chat[i] \in Message /\ Event(chat, i)[2] = chat[i]
           /\ Events(chat) \in Seq(Ref \X Message) /\ Len(Events(chat)) = Len(chat)
           /\ \A i \in 1 .. Len(chat) : Events(chat)[i] = Event(chat, i)
  <1>1. chat \in Seq(Message) /\ Len(chat) \in Nat
    BY DEF MessagesOK
  <1>2. \A i \in 1 .. Len(chat) : chat[i] \in Message
    BY <1>1, ElementOfSeq
  <1>3. ASSUME NEW i \in 1 .. Len(chat) PROVE Event(chat, i) \in Ref \X Message
    <2>1. SourceRef(chat, i) \in Ref
      <3>1. chat[i].host \in HostId \cup {None}
        BY <1>2 DEF Message
      <3>. QED
        BY <1>1, <3>1 DEF SourceRef, HasHostId, Ref
    <2>. QED
      BY <1>2, <2>1 DEF Event
  <1>4. Events(chat) = [i \in 1 .. Len(chat) |-> Event(chat, i)]
    BY DEF Events
  <1>5. Events(chat) \in Seq(Ref \X Message) /\ Len(Events(chat)) = Len(chat)
    <2> HIDE DEF Events
    <2>. QED
      BY <1>1, <1>3, <1>4
  <1>. QED
    BY <1>1, <1>2, <1>4, <1>5 DEF Event

LEMMA Stretch ==
    ASSUME MessagesOK, NEW a \in 0 .. Len(chat), NEW b \in a + 1 .. Len(chat),
           NEW s, s = SubSeq(Events(chat), a + 1, b)
    PROVE  /\ s \in Seq(Ref \X Message) /\ Len(s) = b - a /\ b - a \in Nat /\ b - a >= 1
           /\ \A k \in 1 .. b - a : s[k] = Event(chat, a + k) /\ Num(s[k]) = chat[a + k].number
  <1>1. /\ Len(chat) \in Nat /\ Events(chat) \in Seq(Ref \X Message)
        /\ Len(Events(chat)) = Len(chat)
    BY EventsOf
  <1>2. a + 1 \in 1 .. Len(chat) /\ b \in a .. Len(chat) /\ b - a \in Nat /\ b - a >= 1
    BY <1>1
  <1>3. s \in Seq(Ref \X Message) /\ Len(s) = b - a
    <2>1. b \in (a + 1) - 1 .. Len(chat) /\ (b - (a + 1)) + 1 = b - a /\ a + 1 <= b
      BY <1>1, <1>2
    <2>. QED
      BY <1>1, <1>2, <2>1, SubSeqProperties
  <1>4. ASSUME NEW k \in 1 .. b - a
        PROVE  s[k] = Event(chat, a + k) /\ Num(s[k]) = chat[a + k].number
    <2>1. a \in Nat /\ b \in Nat /\ k \in Nat /\ Len(chat) \in Nat /\ b <= Len(chat) /\ a < b
          /\ k >= 1 /\ k <= b - a
      BY ONLY <1>1, <1>2, <1>4, a \in 0 .. Len(chat), b \in a + 1 .. Len(chat)
    <2>2. a + k \in 1 .. Len(chat)
      BY ONLY <2>1
    <2>3. k \in 1 .. (b - (a + 1)) + 1 /\ (a + 1) + (k - 1) = a + k /\ (k + (a + 1)) - 1 = a + k
      BY ONLY <2>1
    <2>4. b \in (a + 1) - 1 .. Len(chat)
      BY ONLY <2>1
    <2>5. s[k] = Events(chat)[a + k]
      BY <1>1, <1>2, <1>3, <2>1, <2>3, <2>4, SubSeqProperties
    <2>. QED
      BY <2>2, <2>5, EventsOf DEF Num
  <1>. QED
    BY <1>2, <1>3, <1>4

(* A stretch of the chat behind what the parent covers may be a checkpoint's. *)
EndsAt(parent, a) ==
    IF parent = None THEN a = 0 ELSE a >= 1 /\ LastNum(parent) = chat[a].number

LEMMA StretchCloses ==
    ASSUME MessagesOK, NEW a \in 0 .. Len(chat), NEW b \in a + 1 .. Len(chat),
           NEW s, s = SubSeq(Events(chat), a + 1, b),
           NEW parent, EndsAt(parent, a)
    PROVE  /\ SourcesOK(s) /\ Num(s[Len(s)]) = chat[b].number
           /\ parent # None => LastNum(parent) < Num(s[1])
           /\ Closes(s, parent)
  <1>1. /\ s \in Seq(Ref \X Message) /\ Len(s) = b - a /\ b - a \in Nat /\ b - a >= 1
        /\ \A k \in 1 .. b - a : s[k] = Event(chat, a + k) /\ Num(s[k]) = chat[a + k].number
    BY Stretch
  <1>2. /\ Len(chat) \in Nat /\ \A i \in 1 .. Len(chat) : chat[i] \in Message /\ chat[i].number \in Nat
        /\ a \in Nat /\ b \in Nat /\ a < b /\ b <= Len(chat)
    <2>1. Len(chat) \in Nat /\ \A i \in 1 .. Len(chat) : chat[i] \in Message
      BY EventsOf
    <2>2. a \in Nat /\ b \in Nat /\ a < b /\ b <= Len(chat)
      BY <2>1
    <2>. QED
      BY <2>1, <2>2, NumbersOf
  <1>3. /\ \A i, j \in 1 .. Len(chat) : i < j => chat[i].number < chat[j].number
        /\ \A i \in 1 .. Len(chat) : chat[i].number <= written
    BY DEF MessagesOK
  <1>4. \A k \in 1 .. b - a : a + k \in 1 .. Len(chat)
    BY <1>2
  <1>5. SourcesOK(s)
    <2>1. s # <<>>
      <3>1. Len(<<>>) = 0
        BY EmptySeq
      <3>. QED
        BY ONLY <1>1, <3>1
    <2>2. ASSUME NEW j \in 1 .. Len(s), NEW k \in 1 .. Len(s), j < k
          PROVE  Num(s[j]) < Num(s[k])
      <3>1. a + j \in 1 .. Len(chat) /\ a + k \in 1 .. Len(chat) /\ a + j < a + k
        BY ONLY <1>1, <1>2, <2>2
      <3>. QED
        BY <1>1, <1>3, <3>1
    <2>3. \A k \in 1 .. Len(s) : Num(s[k]) <= written
      BY <1>1, <1>3, <1>4
    <2>. QED
      BY <1>1, <2>1, <2>2, <2>3 DEF SourcesOK
  <1>6. Num(s[Len(s)]) = chat[b].number
    <2>1. b - a \in 1 .. b - a /\ a + (b - a) = b
      BY <1>1, <1>2
    <2>. QED
      BY <1>1, <2>1
  <1>7. parent # None => LastNum(parent) < Num(s[1])
    <2> SUFFICES ASSUME parent # None PROVE LastNum(parent) < Num(s[1])
      OBVIOUS
    <2>0. a >= 1 /\ LastNum(parent) = chat[a].number
      BY DEF EndsAt
    <2>1. 1 \in 1 .. b - a /\ a \in 1 .. Len(chat) /\ a + 1 \in 1 .. Len(chat) /\ a < a + 1
      BY ONLY <1>1, <1>2, <2>0
    <2>. QED
      BY <1>1, <1>3, <2>1, <2>0
  <1>8. ASSUME NEW i \in 1 .. Len(chat), chat[i].number <= Num(s[Len(s)]),
               parent # None => LastNum(parent) < chat[i].number
        PROVE  \E k \in 1 .. Len(s) : Num(s[k]) = chat[i].number
    <2>1. ~(b < i)
      <3> SUFFICES ASSUME b < i PROVE FALSE
        OBVIOUS
      <3>1. b \in 1 .. Len(chat)
        BY <1>2
      <3>2. chat[b].number < chat[i].number
        BY <1>3, <3>1
      <3>3. chat[b].number \in Nat /\ chat[i].number \in Nat /\ chat[i].number <= chat[b].number
        BY <1>2, <1>6, <1>8, <3>1
      <3>. QED
        BY ONLY <3>2, <3>3
    <2>2. a < i
      <3>1. CASE parent = None
        BY <1>2, <3>1 DEF EndsAt
      <3>2. CASE parent # None
        <4>0. a >= 1 /\ LastNum(parent) = chat[a].number
          BY <3>2 DEF EndsAt
        <4>1. a \in 1 .. Len(chat) /\ chat[a].number < chat[i].number
          BY ONLY <1>2, <1>8, <3>2, <4>0
        <4>2. i < a => chat[i].number < chat[a].number
          BY <1>3, <4>1
        <4>3. chat[i].number \in Nat /\ chat[a].number \in Nat /\ a \in Nat /\ i \in Nat
          BY <1>2, <4>1
        <4>. QED
          BY ONLY <4>1, <4>2, <4>3
      <3>. QED
        BY <3>1, <3>2
    <2>3. i - a \in 1 .. b - a /\ a + (i - a) = i
      BY <1>2, <2>1, <2>2
    <2>. QED
      BY <1>1, <2>3
  <1>. QED
    BY <1>5, <1>6, <1>7, <1>8 DEF Closes

(* What is summed up is the next stretch of the chat. *)
LEMMA BatchIs ==
    ASSUME MessagesOK, NEW from \in 0 .. Len(chat), NEW force, Selected(from, force) # <<>>
    PROVE  \E b \in from + 1 .. Len(chat) :
               Selected(from, force) = SubSeq(Events(chat), from + 1, b)
  <1> DEFINE pending == Pending(from)
             n == IF Len(pending) < MaxBatch THEN Len(pending) ELSE MaxBatch
             end == Len(chat) - ProtectRecent
  <1>1. Selected(from, force) = SubSeq(pending, 1, n)
    BY DEF Selected
  <1>2. /\ Len(chat) \in Nat /\ Events(chat) \in Seq(Ref \X Message)
        /\ Len(Events(chat)) = Len(chat)
    BY EventsOf
  <1>3. from \in Nat /\ from + 1 \in Int /\ end \in Int /\ end <= Len(chat)
    BY FormationPolicyAssumption, <1>2
  <1>4. \A i \in from + 1 .. end : Events(chat)[i] \in Ref \X Message
    <2>1. \A i \in from + 1 .. end : i \in 1 .. Len(Events(chat))
      BY <1>2, <1>3
    <2>. QED
      BY <1>2, <2>1, ElementOfSeq
  <1> HIDE DEF end
  <1>5. /\ pending = SubSeq(Events(chat), from + 1, end)
        /\ pending \in Seq(Ref \X Message)
        /\ Len(pending) = IF from + 1 <= end THEN (end - (from + 1)) + 1 ELSE 0
    BY <1>3, <1>4, SubSeqProperties DEF Pending, end
  <1> HIDE DEF pending, n
  <1>6. from + 1 <= end
    <2> SUFFICES ASSUME ~(from + 1 <= end) PROVE FALSE
      OBVIOUS
    <2>1. Len(pending) = 0 /\ n = 0
      BY FormationPolicyAssumption, <1>5 DEF n
    <2>2. SubSeq(pending, 1, n) = <<>>
      BY <2>1, SubSeqEmpty
    <2>. QED
      BY <1>1, <2>2
  <1>7. /\ n \in 1 .. (end - (from + 1)) + 1 /\ 1 \in 1 .. (end - (from + 1)) + 1
        /\ from + 1 \in 1 .. Len(chat) /\ end \in 1 .. Len(chat)
    <2>1. Len(pending) = (end - (from + 1)) + 1 /\ Len(pending) >= 1
      BY <1>3, <1>5, <1>6
    <2>2. n \in 1 .. Len(pending)
      <3>1. MaxBatch \in Nat /\ MaxBatch >= 1 /\ Len(pending) \in Nat
        BY FormationPolicyAssumption, <1>3, <2>1
      <3>. QED
        BY ONLY <2>1, <3>1 DEF n
    <2>. QED
      BY <1>2, <1>3, <1>6, <2>1, <2>2
  <1>8. SubSeq(pending, 1, n) = SubSeq(Events(chat), (from + 1) + 1 - 1, (from + 1) + n - 1)
    BY <1>2, <1>5, <1>7, SubSeqOfSubSeq
  <1>9. (from + 1) + 1 - 1 = from + 1 /\ (from + 1) + n - 1 = from + n /\ from + n \in from + 1 .. Len(chat)
    <2>1. n \in Nat /\ n >= 1 /\ n <= end - from /\ Len(chat) \in Nat
      BY <1>2, <1>3, <1>7
    <2>. QED
      BY ONLY <1>3, <2>1
  <1>. QED
    BY <1>1, <1>8, <1>9

(* The host may write, edit and delete: no message gets a number that a *)
(* checkpoint passed over.                                              *)
LEMMA MessagesMove ==
    ASSUME CheckpointsInv, MessagesOK', UNCHANGED ledgerVars, written <= written',
           \A i \in 1 .. Len(chat') :
               \/ written < chat'[i].number
               \/ \E j \in 1 .. Len(chat) : chat'[i].number = chat[j].number
    PROVE  CheckpointsInv'
  <1>1. nodes' = nodes /\ active' = active
    BY DEF ledgerVars
  <1>2. written \in Nat /\ written' \in Nat /\ \A i \in 1 .. Len(chat') : chat'[i].number \in Nat
    <2>1. \A i \in 1 .. Len(chat') : chat'[i] \in Message
      BY ElementOfSeq DEF MessagesOK
    <2>2. \A m \in Message : m.number \in Nat /\ m.revision \in Nat
      BY NumbersOf
    <2>3. written \in Nat /\ written' \in Nat
      <3>1. written \in 0 .. MaxMessages /\ written' \in 0 .. MaxMessages
        BY DEF MessagesOK, CheckpointsInv
      <3>. QED
        BY <3>1
    <2>. QED
      BY ONLY <2>1, <2>2, <2>3
  <1>3. ASSUME NEW n \in nodes PROVE NodeOK(n)'
    <2>1. NodeOK(n) /\ SourcesOK(n.sources) /\ Closes(n.sources, n.parent)
      BY DEF CheckpointsInv, NodeOK, Fits
    <2>2. n.sources \in Seq(Ref \X Message) /\ Len(n.sources) \in 1 .. Len(n.sources)
      BY <2>1, EmptySeq DEF SourcesOK
    <2>3. \A k \in 1 .. Len(n.sources) : Num(n.sources[k]) \in Nat /\ Num(n.sources[k]) <= written
      <3>1. \A k \in 1 .. Len(n.sources) : n.sources[k] \in Ref \X Message
        BY <2>2, ElementOfSeq
      <3>2. \A event \in Ref \X Message : Num(event) \in Nat
        BY NumbersOf
      <3>. QED
        BY <2>1, <3>1, <3>2 DEF SourcesOK
    <2>4. SourcesOK(n.sources)'
      <3>1. \A k \in 1 .. Len(n.sources) : Num(n.sources[k]) <= written'
        BY <1>2, <2>3
      <3>. QED
        BY <2>1, <3>1 DEF SourcesOK, Num
    <2>5. ASSUME NEW i \in 1 .. Len(chat'), chat'[i].number <= Num(n.sources[Len(n.sources)]),
                 n.parent # None => LastNum(n.parent) < chat'[i].number
          PROVE  \E k \in 1 .. Len(n.sources) : Num(n.sources[k]) = chat'[i].number
      <3>1. ~(written < chat'[i].number)
        <4>1. /\ Num(n.sources[Len(n.sources)]) \in Nat
              /\ Num(n.sources[Len(n.sources)]) <= written
          BY <2>2, <2>3
        <4>2. chat'[i].number \in Nat
          BY <1>2
        <4>. QED
          BY ONLY <1>2, <2>5, <4>1, <4>2
      <3>2. PICK j \in 1 .. Len(chat) : chat'[i].number = chat[j].number
        BY <3>1
      <3>. QED
        BY <2>1, <2>5, <3>2 DEF Closes
    <2>6. Closes(n.sources, n.parent)'
      BY <2>5 DEF Closes, Num, LastNum
    <2>. QED
      BY <1>1, <2>1, <2>4, <2>6 DEF NodeOK, Fits, Num, LastNum
  <1>. QED
    BY <1>1, <1>3 DEF CheckpointsInv

LEMMA SayMoves ==
    ASSUME CheckpointsInv, NEW host \in HostId \cup {None}, NEW memory \in BOOLEAN, Say(host, memory)
    PROVE  CheckpointsInv'
  <1> DEFINE m == [host |-> host, number |-> written + 1, revision |-> 0, memory |-> memory]
  <1>1. MessagesOK /\ chat \in Seq(Message) /\ Len(chat) \in Nat
    BY DEF CheckpointsInv, MessagesOK
  <1>2. written \in Nat /\ written + 1 \in 1 .. MaxMessages /\ edits \in 0 .. MaxEdits /\ 0 \in 0 .. MaxEdits
    BY FormationPolicyAssumption, <1>1 DEF MessagesOK, Say
  <1>3. m \in Message /\ m.number = written + 1 /\ m.revision = 0
    BY <1>2 DEF Message
  <1>4. chat' = Append(chat, m) /\ written' = written + 1 /\ edits' = edits /\ UNCHANGED ledgerVars
    BY DEF Say
  <1> HIDE DEF m
  <1>5. /\ chat' \in Seq(Message) /\ Len(chat') = Len(chat) + 1
        /\ \A i \in 1 .. Len(chat) : chat'[i] = chat[i]
        /\ chat'[Len(chat) + 1] = m
    BY <1>1, <1>3, <1>4, AppendProperties
  <1>6. \A i \in 1 .. Len(chat') : i \in 1 .. Len(chat) \/ i = Len(chat) + 1
    BY <1>1, <1>5
  <1>7. \A i \in 1 .. Len(chat) : chat[i].number \in Nat /\ chat[i].number <= written
    BY <1>1, EventsOf, NumbersOf DEF MessagesOK
  <1>8. MessagesOK'
    <2>1. ASSUME NEW i \in 1 .. Len(chat'), NEW j \in 1 .. Len(chat'), i < j
          PROVE  chat'[i].number < chat'[j].number
      <3>1. i \in 1 .. Len(chat)
        BY <1>1, <1>5, <2>1
      <3>2. CASE j \in 1 .. Len(chat)
        BY <1>1, <1>5, <2>1, <3>1, <3>2 DEF MessagesOK
      <3>3. CASE j = Len(chat) + 1
        <4>1. chat'[j].number = written + 1 /\ chat'[i].number = chat[i].number
          BY <1>3, <1>5, <3>1, <3>3
        <4>. QED
          BY <1>2, <1>7, <3>1, <4>1
      <3>. QED
        BY <1>6, <3>2, <3>3
    <2>2. ASSUME NEW i \in 1 .. Len(chat')
          PROVE  chat'[i].number <= written' /\ chat'[i].revision <= edits'
      <3>1. CASE i \in 1 .. Len(chat)
        <4>1. chat'[i].number <= written /\ chat'[i].number \in Nat
          BY <1>5, <1>7, <3>1
        <4>2. chat'[i].revision <= edits'
          BY <1>1, <1>4, <1>5, <3>1 DEF MessagesOK
        <4>. QED
          BY <1>2, <1>4, <4>1, <4>2
      <3>2. CASE i = Len(chat) + 1
        BY <1>2, <1>3, <1>4, <1>5, <3>2
      <3>. QED
        BY <1>6, <3>1, <3>2
    <2>3. written' \in 0 .. MaxMessages /\ edits' \in 0 .. MaxEdits
      BY <1>2, <1>4
    <2>. QED
      BY <1>5, <2>1, <2>2, <2>3 DEF MessagesOK
  <1>9. \A i \in 1 .. Len(chat') :
            \/ written < chat'[i].number
            \/ \E j \in 1 .. Len(chat) : chat'[i].number = chat[j].number
    BY <1>2, <1>3, <1>5, <1>6
  <1>10. written <= written'
    BY <1>2, <1>4
  <1>. QED
    BY <1>4, <1>8, <1>9, <1>10, MessagesMove

LEMMA EditMoves ==
    ASSUME CheckpointsInv, NEW e \in 1 .. Len(chat), Edit(e) PROVE CheckpointsInv'
  <1>1. MessagesOK /\ chat \in Seq(Message) /\ Len(chat) \in Nat
    BY DEF CheckpointsInv, MessagesOK
  <1>2. /\ written \in 0 .. MaxMessages /\ edits \in Nat /\ edits + 1 \in 0 .. MaxEdits
        /\ written' = written /\ edits' = edits + 1 /\ UNCHANGED ledgerVars
    BY FormationPolicyAssumption, <1>1 DEF MessagesOK, Edit
  <1> DEFINE m == [chat[e] EXCEPT !.revision = @ + 1]
  <1>3. chat[e] \in Message /\ chat[e].revision \in Nat /\ chat[e].revision <= edits
    BY <1>1, EventsOf, NumbersOf DEF MessagesOK
  <1>4. m \in Message /\ m.number = chat[e].number /\ m.revision = chat[e].revision + 1
    <2>1. chat[e].revision + 1 \in 0 .. MaxEdits
      <3>1. MaxEdits \in Nat
        BY FormationPolicyAssumption
      <3>. QED
        BY ONLY <1>2, <1>3, <3>1
    <2>. QED
      BY <1>3, <2>1 DEF Message
  <1>5. chat' = [chat EXCEPT ![e] = m]
    BY DEF Edit
  <1> HIDE DEF m
  <1>6. /\ chat' \in Seq(Message) /\ Len(chat') = Len(chat)
        /\ \A i \in 1 .. Len(chat) : chat'[i] = IF i = e THEN m ELSE chat[i]
    BY <1>1, <1>4, <1>5, ExceptSeq
  <1>7. \A i \in 1 .. Len(chat') : chat'[i].number = chat[i].number
    BY <1>4, <1>6
  <1>8. MessagesOK'
    <2>1. \A i, j \in 1 .. Len(chat') : i < j => chat'[i].number < chat'[j].number
      BY <1>1, <1>6, <1>7 DEF MessagesOK
    <2>2. ASSUME NEW i \in 1 .. Len(chat')
          PROVE  chat'[i].number <= written' /\ chat'[i].revision <= edits'
      <3>1. chat'[i].number <= written'
        BY <1>1, <1>2, <1>6, <1>7 DEF MessagesOK
      <3>2. chat[i] \in Message /\ chat[i].revision \in Nat /\ chat[i].revision <= edits
        BY <1>1, <1>6, EventsOf, NumbersOf DEF MessagesOK
      <3>3. chat'[i].revision <= edits'
        <4>1. CASE i = e
          <5>1. chat'[i].revision = chat[e].revision + 1
            BY <1>4, <1>6, <4>1
          <5>. QED
            BY ONLY <1>2, <1>3, <5>1
        <4>2. CASE i # e
          <5>1. chat'[i] = chat[i]
            BY <1>6, <4>2
          <5>. QED
            BY <1>2, <3>2, <5>1
        <4>. QED
          BY <4>1, <4>2
      <3>. QED
        BY <3>1, <3>3
    <2>. QED
      BY <1>2, <1>6, <2>1, <2>2 DEF MessagesOK
  <1>9. \A i \in 1 .. Len(chat') : \E j \in 1 .. Len(chat) : chat'[i].number = chat[j].number
    BY <1>6, <1>7
  <1>10. written <= written'
    BY <1>2
  <1>. QED
    BY <1>2, <1>8, <1>9, <1>10, MessagesMove

LEMMA DeleteMoves ==
    ASSUME CheckpointsInv, NEW d \in 1 .. Len(chat), Delete(d) PROVE CheckpointsInv'
  <1> DEFINE was(i) == IF i < d THEN i ELSE i + 1
  <1>1. MessagesOK /\ chat \in Seq(Message) /\ Len(chat) \in Nat
    BY DEF CheckpointsInv, MessagesOK
  <1>2. /\ written \in 0 .. MaxMessages /\ edits \in Nat /\ edits + 1 \in 0 .. MaxEdits
        /\ written' = written /\ edits' = edits + 1 /\ UNCHANGED ledgerVars
    BY FormationPolicyAssumption, <1>1 DEF MessagesOK, Delete
  <1>3. /\ chat' \in Seq(Message) /\ Len(chat') = Len(chat) - 1
        /\ \A i \in 1 .. Len(chat') : was(i) \in 1 .. Len(chat) /\ chat'[i] = chat[was(i)]
    <2> DEFINE s == SubSeq(chat, 1, d - 1)
               t == SubSeq(chat, d + 1, Len(chat))
    <2>1. d \in Nat /\ d >= 1 /\ d <= Len(chat)
      BY <1>1
    <2>2. /\ s \in Seq(Message) /\ Len(s) = d - 1
          /\ \A i \in 1 .. d - 1 : s[i] = chat[i]
      <3>1. \A i \in 1 .. d - 1 : chat[i] \in Message
        BY <1>1, <2>1, ElementOfSeq
      <3>2. 1 \in Int /\ d - 1 \in Int /\ (d - 1) - 1 + 1 = d - 1 /\ \A i \in 1 .. d - 1 : 1 + i - 1 = i
        BY <2>1
      <3>3. /\ s \in Seq(Message)
            /\ Len(s) = IF 1 <= d - 1 THEN (d - 1) - 1 + 1 ELSE 0
            /\ \A i \in 1 .. (d - 1) - 1 + 1 : s[i] = chat[1 + i - 1]
        BY <3>1, <3>2, SubSeqProperties
      <3>4. Len(s) = d - 1
        BY <2>1, <3>3
      <3>. QED
        BY <3>2, <3>3, <3>4
    <2>3. /\ t \in Seq(Message) /\ Len(t) = Len(chat) - d
          /\ \A i \in 1 .. Len(chat) - d : t[i] = chat[d + i]
      <3>1. \A i \in d + 1 .. Len(chat) : chat[i] \in Message
        BY <1>1, <2>1, ElementOfSeq
      <3>2. d + 1 \in Int /\ Len(chat) \in Int /\ Len(chat) - (d + 1) + 1 = Len(chat) - d
            /\ \A i \in 1 .. Len(chat) - d : (d + 1) + i - 1 = d + i
        BY <1>1, <2>1
      <3>3. /\ t \in Seq(Message)
            /\ Len(t) = IF d + 1 <= Len(chat) THEN Len(chat) - (d + 1) + 1 ELSE 0
            /\ \A i \in 1 .. Len(chat) - (d + 1) + 1 : t[i] = chat[(d + 1) + i - 1]
        BY <3>1, <3>2, SubSeqProperties
      <3>4. Len(t) = Len(chat) - d
        BY <1>1, <2>1, <3>3
      <3>. QED
        BY <3>2, <3>3, <3>4
    <2>4. chat' = s \o t
      BY DEF Delete
    <2> HIDE DEF s, t
    <2>5. /\ chat' \in Seq(Message) /\ Len(chat') = Len(s) + Len(t)
          /\ \A i \in 1 .. Len(s) + Len(t) :
                chat'[i] = IF i <= Len(s) THEN s[i] ELSE t[i - Len(s)]
      BY <2>2, <2>3, <2>4, ConcatProperties
    <2>6. Len(chat') = Len(chat) - 1
      BY <1>1, <2>1, <2>2, <2>3, <2>5
    <2>7. ASSUME NEW i \in 1 .. Len(chat')
          PROVE  was(i) \in 1 .. Len(chat) /\ chat'[i] = chat[was(i)]
      <3>1. i \in Nat /\ i >= 1 /\ i <= Len(chat) - 1
        BY <1>1, <2>6
      <3>2. was(i) \in 1 .. Len(chat)
        BY <1>1, <2>1, <3>1
      <3>3. CASE i < d
        <4>1. i \in 1 .. d - 1 /\ i <= d - 1 /\ i \in 1 .. Len(s) + Len(t)
          BY <2>1, <2>5, <3>1, <3>3
        <4>. QED
          BY <2>2, <2>5, <3>2, <3>3, <4>1
      <3>4. CASE ~(i < d)
        <4>1. /\ ~(i <= d - 1) /\ i \in 1 .. Len(s) + Len(t)
              /\ i - (d - 1) \in 1 .. Len(chat) - d /\ d + (i - (d - 1)) = i + 1
          BY <1>1, <2>1, <2>5, <3>1, <3>4
        <4>2. chat'[i] = t[i - (d - 1)]
          BY <2>2, <2>5, <4>1
        <4>. QED
          BY <2>3, <3>2, <3>4, <4>1, <4>2
      <3>. QED
        BY <3>3, <3>4
    <2>. QED
      BY <2>5, <2>6, <2>7
  <1>4. \A i, j \in 1 .. Len(chat') : i < j => was(i) < was(j)
    BY <1>1
  <1> HIDE DEF was
  <1>5. MessagesOK'
    <2>1. ASSUME NEW i \in 1 .. Len(chat'), NEW j \in 1 .. Len(chat'), i < j
          PROVE  chat'[i].number < chat'[j].number
      BY <1>1, <1>3, <1>4, <2>1 DEF MessagesOK
    <2>2. ASSUME NEW i \in 1 .. Len(chat')
          PROVE  chat'[i].number <= written' /\ chat'[i].revision <= edits'
      <3>1. /\ chat'[i].number <= written
            /\ chat'[i].revision <= edits /\ chat'[i].revision \in Nat
        BY <1>1, <1>3, EventsOf, NumbersOf DEF MessagesOK
      <3>. QED
        BY <1>2, <3>1
    <2>. QED
      BY <1>2, <1>3, <2>1, <2>2 DEF MessagesOK
  <1>6. \A i \in 1 .. Len(chat') : \E j \in 1 .. Len(chat) : chat'[i].number = chat[j].number
    BY <1>3
  <1>7. written <= written'
    BY <1>2
  <1>. QED
    BY <1>2, <1>5, <1>6, <1>7, MessagesMove

----------------------------------------------------------------------------
(* Lineages *)

LEMMA ParentsEarlier ==
    ASSUME CheckpointsInv, NEW n \in nodes
    PROVE  /\ LastNum(n) \in Nat /\ Num(n.sources[1]) \in Nat /\ n # None
           /\ n.parent # None => /\ n.parent \in nodes
                                 /\ LastNum(n.parent) \in Nat
                                 /\ LastNum(n.parent) < Num(n.sources[1])
           /\ Num(n.sources[1]) <= LastNum(n)
           /\ \A k \in 1 .. Len(n.sources) : /\ Num(n.sources[k]) \in Nat
                                             /\ Num(n.sources[1]) <= Num(n.sources[k])
                                             /\ Num(n.sources[k]) <= LastNum(n)
  <1>1. ASSUME NEW m \in nodes
        PROVE  /\ Len(m.sources) \in Nat /\ Len(m.sources) >= 1
               /\ \A k \in 1 .. Len(m.sources) : Num(m.sources[k]) \in Nat
               /\ LastNum(m) \in Nat
    <2>1. m.sources \in Seq(Ref \X Message) /\ m.sources # <<>>
      BY DEF CheckpointsInv, NodeOK, Fits, SourcesOK
    <2>2. Len(m.sources) \in Nat \ {0}
      BY <2>1, EmptySeq
    <2>3. \A k \in 1 .. Len(m.sources) : m.sources[k] \in Ref \X Message
      BY <2>1, ElementOfSeq
    <2>4. \A k \in 1 .. Len(m.sources) : Num(m.sources[k]) \in Nat
      BY <2>3, NumbersOf
    <2>5. Len(m.sources) \in 1 .. Len(m.sources)
      BY <2>2
    <2>. QED
      BY <2>2, <2>4, <2>5 DEF LastNum
  <1>2. /\ NodeOK(n) /\ \A j, k \in 1 .. Len(n.sources) : j < k => Num(n.sources[j]) < Num(n.sources[k])
    BY DEF CheckpointsInv, NodeOK, Fits, SourcesOK
  <1>3. 1 \in 1 .. Len(n.sources) /\ Len(n.sources) \in 1 .. Len(n.sources)
    BY <1>1
  <1>4. ASSUME NEW k \in 1 .. Len(n.sources)
        PROVE  Num(n.sources[1]) <= Num(n.sources[k]) /\ Num(n.sources[k]) <= LastNum(n)
    <2>1. /\ Num(n.sources[k]) \in Nat /\ Num(n.sources[1]) \in Nat
          /\ Num(n.sources[Len(n.sources)]) \in Nat
      BY <1>1, <1>3
    <2>2. Num(n.sources[1]) <= Num(n.sources[k])
      <3>1. CASE k = 1
        BY <2>1, <3>1
      <3>2. CASE k # 1
        BY <1>2, <1>3, <2>1, <3>2
      <3>. QED
        BY <3>1, <3>2
    <2>3. Num(n.sources[k]) <= Num(n.sources[Len(n.sources)])
      <3>1. CASE k = Len(n.sources)
        BY <2>1, <3>1
      <3>2. CASE k # Len(n.sources)
        <4>1. k < Len(n.sources)
          BY <1>1, <3>2
        <4>2. Num(n.sources[k]) < Num(n.sources[Len(n.sources)])
          BY <1>2, <1>3, <4>1
        <4>. QED
          BY ONLY <2>1, <4>2
      <3>. QED
        BY <3>1, <3>2
    <2>. QED
      BY <2>2, <2>3 DEF LastNum
  <1>5. n.parent # None => /\ n.parent \in nodes /\ LastNum(n.parent) < Num(n.sources[1])
    BY <1>2 DEF NodeOK, Fits
  <1>. QED
    BY <1>1, <1>2, <1>3, <1>4, <1>5 DEF NodeOK, Fits

LineAt(n, line) == IF n.parent = None THEN <<n>> ELSE Append(line[n.parent], n)

(* What Lineage recurs on: it is there, for a parent ends earlier. *)
LEMMA LineageIs ==
    ASSUME CheckpointsInv
    PROVE  \A n \in nodes :
               Lineage(n) = IF n.parent = None THEN <<n>> ELSE Append(Lineage(n.parent), n)
  <1> DEFINE D(m) == {n \in nodes : LastNum(n) < m}
             Is(m, f) == f = [n \in D(m) |-> LineAt(n, f)]
             Bad == {m \in 0 .. written + 1 : ~\E f : Is(m, f)}
             Lines == CHOOSE line : line = [n \in nodes |-> LineAt(n, line)]
  <1>0. written \in Nat /\ \A n \in nodes : LastNum(n) <= written
    <2>1. written \in Nat
      BY DEF CheckpointsInv, MessagesOK
    <2>2. ASSUME NEW n \in nodes PROVE LastNum(n) <= written
      <3>1. SourcesOK(n.sources)
        BY DEF CheckpointsInv, NodeOK, Fits
      <3>2. Len(n.sources) \in 1 .. Len(n.sources)
        BY <3>1, EmptySeq DEF SourcesOK
      <3>. QED
        BY <3>1, <3>2 DEF SourcesOK, LastNum
    <2>. QED
      BY <2>1, <2>2
  <1>1. ASSUME NEW m \in 1 .. written + 1, NEW f, Is(m - 1, f) PROVE \E g : Is(m, g)
    <2> DEFINE g == [n \in D(m) |-> LineAt(n, f)]
    <2>1. ASSUME NEW n \in D(m) PROVE LineAt(n, f) = LineAt(n, g)
      <3>1. CASE n.parent = None
        BY <3>1 DEF LineAt
      <3>2. CASE n.parent # None
        <4>1. /\ n.parent \in nodes /\ LastNum(n.parent) \in Nat /\ LastNum(n) \in Nat
              /\ LastNum(n.parent) < LastNum(n)
          BY <3>2, ParentsEarlier
        <4>2. LastNum(n.parent) < m - 1 /\ LastNum(n.parent) < m
          BY <1>0, <4>1
        <4>3. n.parent \in D(m) /\ n.parent \in D(m - 1)
          BY <4>1, <4>2
        <4>4. g[n.parent] = LineAt(n.parent, f)
          BY <4>3
        <4>5. f[n.parent] = LineAt(n.parent, f)
          <5> HIDE DEF D, g
          <5>. QED
            BY <1>1, <4>3
        <4>. QED
          BY <4>4, <4>5 DEF LineAt
      <3>. QED
        BY <3>1, <3>2
    <2>2. g = [n \in D(m) |-> LineAt(n, g)]
      BY <2>1
    <2>. QED
      BY <2>2
  <1>2. Bad = {}
    <2> SUFFICES ASSUME Bad # {} PROVE FALSE
      OBVIOUS
    <2>1. Bad \in SUBSET Nat
      OBVIOUS
    <2> DEFINE b == Min(Bad)
    <2>2. b \in Bad /\ \A m \in Bad : b <= m
      BY <2>1, SmallestIsThere
    <2> HIDE DEF b
    <2>3. b # 0
      <3>1. D(0) = {}
        BY ParentsEarlier
      <3> HIDE DEF D
      <3>2. Is(0, [n \in {} |-> 0])
        BY <3>1
      <3>. QED
        BY <2>2, <3>2
    <2>4. b \in 1 .. written + 1 /\ b - 1 \in 0 .. written + 1 /\ b - 1 \notin Bad
      <3>1. Bad \in SUBSET (0 .. written + 1) /\ written + 1 \in Nat
        BY <1>0
      <3> HIDE DEF Bad
      <3>2. b \in 1 .. written + 1 /\ b - 1 \in 0 .. written + 1
        BY <2>2, <2>3, <3>1
      <3>. QED
        BY <2>2, <3>1, <3>2
    <2> HIDE DEF Is
    <2>5. \E f : Is(b - 1, f)
      BY <2>4
    <2>. QED
      BY <1>1, <2>2, <2>4, <2>5
  <1>3. D(written + 1) = nodes
    BY <1>0, ParentsEarlier
  <1>4. PICK f : Is(written + 1, f)
    <2> HIDE DEF Is
    <2>1. written + 1 \in 0 .. written + 1
      BY ONLY <1>0
    <2>2. written + 1 \notin Bad
      BY <1>2
    <2>. QED
      BY <2>1, <2>2
  <1>5. f = [n \in nodes |-> LineAt(n, f)]
    BY <1>3, <1>4
  <1>6. Lines = [n \in nodes |-> LineAt(n, Lines)]
    BY <1>5
  <1>7. \A n \in nodes : Lineage(n) = Lines[n]
    BY DEF Lineage, LineAt
  <1> HIDE DEF Lines
  <1>8. ASSUME NEW n \in nodes
        PROVE  Lineage(n) = IF n.parent = None THEN <<n>> ELSE Append(Lineage(n.parent), n)
    <2>1. Lines[n] = LineAt(n, Lines)
      BY <1>6
    <2>2. n.parent # None => n.parent \in nodes
      BY ParentsEarlier
    <2>. QED
      BY <1>7, <2>1, <2>2 DEF LineAt
  <1>. QED
    BY <1>8

(* l goes from a root to n, each node the parent of the next. *)
Descends(l, n) ==
    /\ l \in Seq(nodes) /\ Len(l) \in Nat \ {0} /\ l[Len(l)] = n
    /\ l[1].parent = None
    /\ \A k \in 2 .. Len(l) : l[k].parent = l[k - 1]

LEMMA LineageDescends ==
    ASSUME CheckpointsInv, NEW n \in nodes PROVE Descends(Lineage(n), n)
  <1> DEFINE Bad == {LastNum(m) : m \in {x \in nodes : ~Descends(Lineage(x), x)}}
  <1>1. ASSUME NEW m \in nodes, m.parent # None => Descends(Lineage(m.parent), m.parent)
        PROVE  Descends(Lineage(m), m)
    <2>1. CASE m.parent = None
      <3>1. Lineage(m) = <<m>>
        BY <2>1, LineageIs
      <3>2. <<m>> \in Seq(nodes) /\ Len(<<m>>) = 1 /\ <<m>>[1] = m
        OBVIOUS
      <3>. QED
        BY <2>1, <3>1, <3>2 DEF Descends
    <2>2. CASE m.parent # None
      <3> DEFINE l == Lineage(m.parent)
                 t == Append(l, m)
      <3>1. Lineage(m) = t /\ Descends(l, m.parent)
        BY <1>1, <2>2, LineageIs
      <3> HIDE DEF l
      <3>2. /\ l \in Seq(nodes) /\ Len(l) \in Nat \ {0} /\ l[Len(l)] = m.parent
            /\ l[1].parent = None /\ \A k \in 2 .. Len(l) : l[k].parent = l[k - 1]
        BY <3>1 DEF Descends
      <3>3. /\ t \in Seq(nodes) /\ Len(t) = Len(l) + 1
            /\ \A i \in 1 .. Len(l) : t[i] = l[i]
            /\ t[Len(l) + 1] = m
        BY <3>2, AppendProperties
      <3> HIDE DEF t
      <3>4. Len(t) \in Nat \ {0} /\ t[Len(t)] = m /\ t[1].parent = None
        <4>1. 1 \in 1 .. Len(l)
          BY <3>2
        <4>. QED
          BY <3>2, <3>3, <4>1
      <3>5. ASSUME NEW k \in 2 .. Len(t) PROVE t[k].parent = t[k - 1]
        <4>1. CASE k = Len(t)
          <5>1. k - 1 = Len(l) /\ Len(l) \in 1 .. Len(l)
            BY <3>2, <3>3, <4>1
          <5>. QED
            BY <3>2, <3>3, <4>1, <5>1
        <4>2. CASE k # Len(t)
          <5>1. k \in 2 .. Len(l) /\ k \in 1 .. Len(l) /\ k - 1 \in 1 .. Len(l)
            BY <3>2, <3>3, <4>2
          <5>. QED
            BY <3>2, <3>3, <5>1
        <4>. QED
          BY <4>1, <4>2
      <3>. QED
        BY <3>1, <3>3, <3>4, <3>5 DEF Descends
    <2>. QED
      BY <2>1, <2>2
  <1>2. Bad = {}
    <2> SUFFICES ASSUME Bad # {} PROVE FALSE
      OBVIOUS
    <2>1. Bad \in SUBSET Nat
      BY ParentsEarlier
    <2> DEFINE b == Min(Bad)
    <2>2. b \in Bad /\ \A m \in Bad : b <= m
      BY <2>1, SmallestIsThere
    <2> HIDE DEF b
    <2>3. PICK m \in nodes : b = LastNum(m) /\ ~Descends(Lineage(m), m)
      BY <2>2
    <2>4. m.parent # None /\ ~Descends(Lineage(m.parent), m.parent)
      BY <1>1, <2>3
    <2>5. m.parent \in nodes
      BY <2>4, ParentsEarlier
    <2>6. LastNum(m.parent) \in Bad
      BY <2>4, <2>5
    <2>7. /\ LastNum(m.parent) \in Nat /\ LastNum(m) \in Nat /\ LastNum(m.parent) < LastNum(m)
      BY <2>4, ParentsEarlier
    <2>8. LastNum(m) <= LastNum(m.parent)
      BY <2>2, <2>3, <2>6
    <2>. QED
      BY ONLY <2>7, <2>8
  <1>. QED
    BY <1>2

LEMMA LatestIs ==
    ASSUME NEW n \in Nat, NEW S \in SUBSET (0 .. n), S # {}
    PROVE  Latest(S) \in S /\ \A j \in S : j <= Latest(S)
  <1> DEFINE T == {n - y : y \in S}
  <1>1. T \in SUBSET Nat /\ T # {}
    <2>1. \A y \in 0 .. n : n - y \in Nat
      OBVIOUS
    <2>. QED
      BY <2>1
  <1>2. Min(T) \in T /\ \A z \in T : Min(T) <= z
    BY <1>1, SmallestIsThere
  <1>3. PICK x \in S : Min(T) = n - x
    BY <1>2
  <1>4. ASSUME NEW y \in S PROVE y <= x
    <2>1. n - y \in T /\ x \in 0 .. n /\ y \in 0 .. n
      OBVIOUS
    <2>2. n - x <= n - y
      BY <1>2, <1>3, <2>1
    <2>. QED
      BY <2>1, <2>2
  <1>. QED
    BY <1>4 DEF Latest

LEMMA LatestValidIs ==
    ASSUME CheckpointsInv, LatestValid # None
    PROVE  LatestValid \in nodes /\ LineageIsValid(LatestValid)
  <1> DEFINE line == IF active = None THEN <<>> ELSE Lineage(active)
             valid == {k \in 1 .. Len(line) : LineageIsValid(line[k])}
  <1>1. valid # {} /\ LatestValid = line[Latest(valid)]
    BY DEF LatestValid
  <1>2. line \in Seq(nodes) /\ Len(line) \in Nat
    <2>1. CASE active = None
      BY <2>1
    <2>2. CASE active # None
      BY <2>2, LineageDescends DEF Descends, CheckpointsInv
    <2>. QED
      BY <2>1, <2>2
  <1> HIDE DEF line
  <1>3. Latest(valid) \in valid
    <2>1. valid \in SUBSET (0 .. Len(line))
      BY <1>2
    <2>. QED
      BY <1>1, <1>2, <2>1, LatestIs
  <1>4. Latest(valid) \in 1 .. Len(line) /\ LineageIsValid(line[Latest(valid)])
    BY <1>3
  <1>5. line[Latest(valid)] \in nodes
    BY <1>2, <1>4, ElementOfSeq
  <1>. QED
    BY <1>1, <1>4, <1>5

LEMMA CursorIs ==
    ASSUME CheckpointsInv, NEW n \in nodes, SourcesCurrent(n)
    PROVE  /\ Cursor(n) \in 1 .. Len(chat)
           /\ chat[Cursor(n)].number = LastNum(n)
  <1>1. Len(n.sources) \in 1 .. Len(n.sources)
    <2>1. n.sources \in Seq(Ref \X Message) /\ n.sources # <<>>
      BY DEF CheckpointsInv, NodeOK, Fits, SourcesOK
    <2>. QED
      BY <2>1, EmptySeq
  <1>2. \E i \in 1 .. Len(chat) : Event(chat, i) = n.sources[Len(n.sources)]
    BY <1>1 DEF SourcesCurrent
  <1>3. n # None
    BY ParentsEarlier
  <1>4. /\ Cursor(n) \in 1 .. Len(chat)
        /\ Event(chat, Cursor(n)) = n.sources[Len(n.sources)]
    BY <1>2, <1>3 DEF Cursor
  <1>5. Event(chat, Cursor(n))[2] = chat[Cursor(n)]
    BY <1>4, EventsOf DEF CheckpointsInv
  <1>. QED
    BY <1>4, <1>5 DEF LastNum, Num

----------------------------------------------------------------------------
(* New checkpoints *)

(* The digest of nothing is no checkpoint's. *)
NoCheckpoint == \A sources, parent, producer : Checkpoint(sources, parent, producer) # None

LEMMA NodesGrow ==
    ASSUME CheckpointsInv, UNCHANGED chatVars, nodes \subseteq nodes', active' \in nodes' \cup {None},
           \A n \in nodes' : n \in nodes \/ (Fits(n) /\ n.parent \in nodes' \cup {None})
    PROVE  CheckpointsInv'
  <1>1. chat' = chat /\ written' = written /\ edits' = edits
    BY DEF chatVars
  <1>2. \A n \in nodes' : Fits(n) /\ n.parent \in nodes' \cup {None}
    BY DEF CheckpointsInv, NodeOK
  <1>3. \A n \in nodes' : NodeOK(n)'
    BY <1>1, <1>2 DEF NodeOK, Fits, SourcesOK, Closes, LastNum, Num
  <1>4. MessagesOK'
    BY <1>1 DEF CheckpointsInv, MessagesOK
  <1>. QED
    BY <1>3, <1>4 DEF CheckpointsInv

LEMMA FormMoves ==
    ASSUME CheckpointsInv, NoCheckpoint, NEW force \in BOOLEAN, Form(force)
    PROVE  CheckpointsInv'
  <1> DEFINE parent == LatestValid
             a == Cursor(parent)
             batch == Selected(a, force)
             c == Checkpoint(batch, parent, "host")
  <1>1. /\ batch # <<>> /\ nodes' = nodes \cup {c} /\ active' = c /\ UNCHANGED chatVars
    BY DEF Form
  <1>2. MessagesOK
    BY DEF CheckpointsInv
  <1>3. /\ a \in 0 .. Len(chat) /\ parent \in nodes \cup {None}
        /\ parent = None => a = 0
        /\ parent # None => a >= 1 /\ LastNum(parent) = chat[a].number
    <2>1. CASE parent = None
      <3>1. a = 0
        BY <2>1 DEF Cursor
      <3>. QED
        BY <1>2, <2>1, <3>1, EventsOf
    <2>2. CASE parent # None
      <3>1. parent \in nodes /\ LineageIsValid(parent)
        BY <2>2, LatestValidIs
      <3>2. SourcesCurrent(parent)
        <4>1. Descends(Lineage(parent), parent)
          BY <3>1, LineageDescends
        <4>2. /\ Len(Lineage(parent)) \in 1 .. Len(Lineage(parent))
              /\ Lineage(parent)[Len(Lineage(parent))] = parent
          BY <4>1 DEF Descends
        <4>. QED
          BY <3>1, <4>2 DEF LineageIsValid
      <3>3. a \in 1 .. Len(chat) /\ LastNum(parent) = chat[a].number
        BY <3>1, <3>2, CursorIs
      <3>. QED
        BY <2>2, <3>1, <3>3
    <2>. QED
      BY <2>1, <2>2
  <1> HIDE DEF a, parent
  <1>4. PICK b \in a + 1 .. Len(chat) : batch = SubSeq(Events(chat), a + 1, b)
    BY <1>1, <1>2, <1>3, BatchIs
  <1> HIDE DEF batch
  <1>5. /\ SourcesOK(batch)
        /\ parent # None => LastNum(parent) < Num(batch[1])
        /\ Closes(batch, parent)
    <2>1. a \in 0 .. Len(chat) /\ EndsAt(parent, a)
      BY <1>3 DEF EndsAt
    <2>. QED
      BY ONLY <1>2, <1>4, <2>1, StretchCloses
  <1>6. c.sources = batch /\ c.parent = parent /\ c # None
    BY DEF Checkpoint, NoCheckpoint
  <1> HIDE DEF c
  <1>7. Fits(c)
    BY <1>5, <1>6 DEF Fits
  <1>8. \A n \in nodes' : n \in nodes \/ (Fits(n) /\ n.parent \in nodes' \cup {None})
    BY ONLY <1>1, <1>3, <1>6, <1>7
  <1>9. nodes \subseteq nodes' /\ active' \in nodes' \cup {None}
    BY ONLY <1>1
  <1>. QED
    BY <1>1, <1>8, <1>9, NodesGrow

ImportAt(i, made) ==
    IF Earlier(chat, i) = {}
    THEN Checkpoint(SubSeq(Events(chat), 1, i), None, "import")
    ELSE Checkpoint(SubSeq(Events(chat), Latest(Earlier(chat, i)) + 1, i),
                    made[Latest(Earlier(chat, i))], "import")

LEMMA EarlierIs ==
    ASSUME MessagesOK, NEW i \in Summarised(chat), Earlier(chat, i) # {}
    PROVE  /\ Latest(Earlier(chat, i)) \in Summarised(chat)
           /\ Latest(Earlier(chat, i)) < i
  <1>1. Len(chat) \in Nat
    BY EventsOf
  <1>2. Earlier(chat, i) \in SUBSET (0 .. Len(chat))
    BY <1>1 DEF Earlier, Summarised
  <1>3. Latest(Earlier(chat, i)) \in Earlier(chat, i)
    BY <1>1, <1>2, LatestIs
  <1>. QED
    BY <1>3 DEF Earlier

(* What Imported recurs on: it is there, for each goes back to an earlier one. *)
LEMMA ImportedIs ==
    ASSUME MessagesOK
    PROVE  Imported(chat) = [i \in Summarised(chat) |-> ImportAt(i, Imported(chat))]
  <1> DEFINE N == Len(chat)
             D(m) == {i \in Summarised(chat) : i <= m}
             Is(m, f) == f = [i \in D(m) |-> ImportAt(i, f)]
             Bad == {m \in 0 .. N : ~\E f : Is(m, f)}
  <1>0. N \in Nat /\ \A i \in Summarised(chat) : i \in 1 .. N
    BY EventsOf DEF Summarised
  <1>1. ASSUME NEW m \in 1 .. N, NEW f, Is(m - 1, f) PROVE \E g : Is(m, g)
    <2> DEFINE g == [i \in D(m) |-> ImportAt(i, f)]
    <2>1. ASSUME NEW i \in D(m) PROVE ImportAt(i, f) = ImportAt(i, g)
      <3>1. CASE Earlier(chat, i) = {}
        BY <3>1 DEF ImportAt
      <3>2. CASE Earlier(chat, i) # {}
        <4> DEFINE j == Latest(Earlier(chat, i))
        <4>1. j \in Summarised(chat) /\ j < i
          BY <3>2, EarlierIs
        <4> HIDE DEF j
        <4>2. j <= m - 1 /\ j <= m
          BY <1>0, <4>1
        <4>3. j \in D(m) /\ j \in D(m - 1)
          BY <4>1, <4>2
        <4>4. g[j] = ImportAt(j, f)
          BY <4>3
        <4>5. f[j] = ImportAt(j, f)
          <5> HIDE DEF D, g
          <5>. QED
            BY <1>1, <4>3
        <4> HIDE DEF g
        <4>. QED
          BY <4>4, <4>5 DEF ImportAt, j
      <3>. QED
        BY <3>1, <3>2
    <2>2. g = [i \in D(m) |-> ImportAt(i, g)]
      BY <2>1
    <2>. QED
      BY <2>2
  <1>2. Bad = {}
    <2> SUFFICES ASSUME Bad # {} PROVE FALSE
      OBVIOUS
    <2>1. Bad \in SUBSET Nat
      OBVIOUS
    <2> DEFINE b == Min(Bad)
    <2>2. b \in Bad /\ \A m \in Bad : b <= m
      BY <2>1, SmallestIsThere
    <2> HIDE DEF b
    <2>3. b # 0
      <3>1. D(0) = {}
        BY <1>0
      <3> HIDE DEF D
      <3>2. Is(0, [i \in {} |-> 0])
        BY <3>1
      <3>. QED
        BY <2>2, <3>2
    <2>4. b \in 1 .. N /\ b - 1 \in 0 .. N /\ b - 1 \notin Bad
      <3>1. Bad \in SUBSET (0 .. N) /\ N \in Nat
        BY <1>0
      <3> HIDE DEF Bad, N
      <3>2. b \in 1 .. N /\ b - 1 \in 0 .. N
        BY <2>2, <2>3, <3>1
      <3>. QED
        BY <2>2, <3>1, <3>2
    <2> HIDE DEF Is
    <2>5. \E f : Is(b - 1, f)
      BY <2>4
    <2>. QED
      BY <1>1, <2>2, <2>4, <2>5
  <1>3. D(N) = Summarised(chat)
    BY <1>0
  <1>4. PICK f : Is(N, f)
    <2> HIDE DEF Is
    <2>1. N \in 0 .. N /\ N \notin Bad
      BY <1>0, <1>2
    <2>. QED
      BY <2>1
  <1>5. f = [i \in Summarised(chat) |-> ImportAt(i, f)]
    BY <1>3, <1>4
  <1> HIDE DEF D, Is, Bad
  <1>. QED
    BY <1>5 DEF Imported, ImportAt

LEMMA ImportMoves ==
    ASSUME CheckpointsInv, NoCheckpoint, Import
    PROVE  CheckpointsInv'
  <1> DEFINE made == Imported(chat)
             S == Summarised(chat)
             all == {made[i] : i \in S}
             last(i) == IF Earlier(chat, i) = {} THEN 0 ELSE Latest(Earlier(chat, i))
  <1>1. all # {} /\ nodes' = nodes \cup all /\ active' = made[Latest(S)] /\ UNCHANGED chatVars
    BY DEF Import
  <1>2. MessagesOK /\ Len(chat) \in Nat /\ \A i \in S : i \in 1 .. Len(chat)
    BY EventsOf DEF CheckpointsInv, Summarised
  <1>3. made = [i \in S |-> ImportAt(i, made)]
    BY <1>2, ImportedIs
  <1>4. ASSUME NEW i \in S
        PROVE  /\ last(i) \in 0 .. Len(chat) /\ last(i) + 1 <= i
               /\ made[i].sources = SubSeq(Events(chat), last(i) + 1, i)
               /\ made[i] # None
               /\ IF last(i) = 0 THEN made[i].parent = None
                  ELSE last(i) \in S /\ made[i].parent = made[last(i)]
    <2> HIDE DEF made
    <2>1. made[i] = ImportAt(i, made)
      BY <1>3
    <2>2. CASE Earlier(chat, i) = {}
      <3>1. last(i) = 0 /\ 1 <= i /\ 0 + 1 = 1
        BY <1>2, <2>2
      <3>2. made[i] = Checkpoint(SubSeq(Events(chat), 1, i), None, "import")
        BY <2>1, <2>2 DEF ImportAt
      <3>. QED
        BY <1>2, <3>1, <3>2 DEF Checkpoint, NoCheckpoint
    <2>3. CASE Earlier(chat, i) # {}
      <3>1. last(i) \in S /\ last(i) < i
        BY <1>2, <2>3, EarlierIs
      <3>2. last(i) \in 1 .. Len(chat) /\ last(i) \in 0 .. Len(chat) /\ last(i) + 1 <= i
            /\ last(i) # 0
        BY <1>2, <3>1
      <3>3. made[i] = Checkpoint(SubSeq(Events(chat), last(i) + 1, i), made[last(i)], "import")
        BY <2>1, <2>3 DEF ImportAt
      <3> HIDE DEF last
      <3>4. made[i] # None
        BY <3>3 DEF NoCheckpoint
      <3>5. /\ made[i].sources = SubSeq(Events(chat), last(i) + 1, i)
            /\ made[i].parent = made[last(i)]
        <4>1. \A sources, parent, producer :
                  /\ Checkpoint(sources, parent, producer).sources = sources
                  /\ Checkpoint(sources, parent, producer).parent = parent
          BY DEF Checkpoint
        <4> DEFINE src == SubSeq(Events(chat), last(i) + 1, i)
                   up == made[last(i)]
                   this == made[i]
        <4>2. this = Checkpoint(src, up, "import")
          BY ONLY <3>3
        <4> HIDE DEF src, up, this
        <4>3. this.sources = src
          BY ONLY <4>1, <4>2
        <4>4. this.parent = up
          BY ONLY <4>1, <4>2
        <4>. QED
          BY ONLY <4>3, <4>4 DEF src, up, this
      <3>. QED
        BY <3>1, <3>2, <3>4, <3>5
    <2>. QED
      BY <2>2, <2>3
  <1> HIDE DEF made, last
  <1>5. ASSUME NEW i \in S PROVE i \in last(i) + 1 .. Len(chat)
    BY <1>2, <1>4
  <1>6. ASSUME NEW i \in S
        PROVE  made[i] # None /\ LastNum(made[i]) = chat[i].number
    <2> DEFINE s == made[i].sources
    <2>1. /\ s = SubSeq(Events(chat), last(i) + 1, i) /\ last(i) \in 0 .. Len(chat)
          /\ i \in last(i) + 1 .. Len(chat)
      BY <1>4, <1>5
    <2> HIDE DEF s
    <2>2. /\ Len(s) = i - last(i) /\ i - last(i) \in Nat /\ i - last(i) >= 1
          /\ \A k \in 1 .. i - last(i) : Num(s[k]) = chat[last(i) + k].number
      BY <1>2, <2>1, Stretch
    <2>3. i - last(i) \in 1 .. i - last(i) /\ last(i) + (i - last(i)) = i
      <3>1. last(i) \in Nat /\ i \in Nat
        BY <1>2, <2>1
      <3>. QED
        BY ONLY <2>2, <3>1
    <2>4. Num(s[Len(s)]) = chat[i].number
      BY <2>2, <2>3
    <2>. QED
      BY <1>4, <2>4 DEF s, LastNum
  <1>7. ASSUME NEW i \in S
        PROVE  Fits(made[i]) /\ made[i].parent \in nodes' \cup {None}
    <2> DEFINE s == made[i].sources
               parent == made[i].parent
    <2>1. /\ s = SubSeq(Events(chat), last(i) + 1, i) /\ last(i) \in 0 .. Len(chat)
          /\ i \in last(i) + 1 .. Len(chat)
      BY <1>4, <1>5
    <2>2. /\ parent = None => last(i) = 0
          /\ parent # None => last(i) >= 1 /\ LastNum(parent) = chat[last(i)].number
      <3>1. CASE last(i) = 0
        <4>1. parent = None
          BY <1>4, <3>1
        <4>. QED
          BY <3>1, <4>1
      <3>2. CASE last(i) # 0
        <4>1. last(i) \in S /\ parent = made[last(i)] /\ last(i) >= 1
          BY <1>2, <1>4, <3>2
        <4>. QED
          BY <1>6, <4>1
      <3>. QED
        BY <3>1, <3>2
    <2>3. parent \in nodes' \cup {None}
      <3>1. last(i) # 0 => last(i) \in S /\ parent = made[last(i)]
        BY <1>4
      <3>2. last(i) = 0 => parent = None
        BY <1>4
      <3>. QED
        BY <1>1, <3>1, <3>2
    <2> HIDE DEF s, parent
    <2>4. /\ SourcesOK(s)
          /\ parent # None => LastNum(parent) < Num(s[1])
          /\ Closes(s, parent)
      <3>1. EndsAt(parent, last(i))
        BY <2>2 DEF EndsAt
      <3>. QED
        BY ONLY <1>2, <2>1, <3>1, StretchCloses
    <2>. QED
      BY <1>6, <2>3, <2>4 DEF Fits, s, parent
  <1>8. active' \in nodes'
    <2>1. S # {} /\ S \in SUBSET (0 .. Len(chat))
      BY <1>1, <1>2
    <2>2. Latest(S) \in S
      BY <1>2, <2>1, LatestIs
    <2>. QED
      BY <1>1, <2>2
  <1>9. \A n \in nodes' : n \in nodes \/ (Fits(n) /\ n.parent \in nodes' \cup {None})
    BY <1>1, <1>7
  <1>. QED
    BY <1>1, <1>8, <1>9, NodesGrow

LEMMA CheckpointsStep ==
    ASSUME CheckpointsInv, NoCheckpoint, [NextCheckpoints]_<<chatVars, ledgerVars>>
    PROVE  CheckpointsInv'
  <1>1. ASSUME NEW host \in HostId \cup {None}, NEW memory \in BOOLEAN, Say(host, memory)
        PROVE  CheckpointsInv'
    BY <1>1, SayMoves
  <1>2. ASSUME NEW i \in 1 .. Len(chat), Edit(i) PROVE CheckpointsInv'
    BY <1>2, EditMoves
  <1>3. ASSUME NEW i \in 1 .. Len(chat), Delete(i) PROVE CheckpointsInv'
    BY <1>3, DeleteMoves
  <1>4. ASSUME NEW force \in BOOLEAN, Form(force) PROVE CheckpointsInv'
    BY <1>4, FormMoves
  <1>5. ASSUME Import PROVE CheckpointsInv'
    BY <1>5, ImportMoves
  <1>6. ASSUME NEW n \in nodes, Rollback(n) PROVE CheckpointsInv'
    <2>1. UNCHANGED chatVars /\ nodes' = nodes /\ active' = n
      BY <1>6 DEF Rollback, chatVars
    <2>. QED
      BY <2>1, NodesGrow
  <1>7. ASSUME UNCHANGED <<chatVars, ledgerVars>> PROVE CheckpointsInv'
    <2>1. UNCHANGED chatVars /\ nodes' = nodes /\ active' = active
      BY <1>7 DEF ledgerVars
    <2>2. active \in nodes \cup {None}
      BY DEF CheckpointsInv
    <2>. QED
      BY <2>1, <2>2, NodesGrow
  <1>. QED
    BY <1>1, <1>2, <1>3, <1>4, <1>5, <1>6, <1>7 DEF NextCheckpoints

----------------------------------------------------------------------------
(* What a valid lineage covers *)

(* f counts the numbers from a + 1 to b in their order. *)
Enumerates(f, m, a, b) ==
    /\ f \in [1 .. m -> a + 1 .. b]
    /\ \A j, k \in 1 .. m : j < k => f[j] < f[k]
    /\ \A i \in a + 1 .. b : \E k \in 1 .. m : f[k] = i

LEMMA ShiftIs ==
    ASSUME NEW m \in Nat, NEW a \in Nat, NEW b \in Nat, a < b,
           NEW f, Enumerates(f, m, a, b)
    PROVE  m = b - a /\ \A j \in 1 .. m : f[j] = a + j
  <1>0. /\ f \in [1 .. m -> a + 1 .. b]
        /\ \A j, k \in 1 .. m : j < k => f[j] < f[k]
        /\ \A i \in a + 1 .. b : \E k \in 1 .. m : f[k] = i
    BY DEF Enumerates
  <1> DEFINE Bad == {j \in 1 .. m : f[j] # a + j}
  <1>1. \A j \in 1 .. m : f[j] \in Nat /\ a + 1 <= f[j] /\ f[j] <= b
    BY <1>0
  <1>2. Bad = {}
    <2> SUFFICES ASSUME Bad # {} PROVE FALSE
      OBVIOUS
    <2>1. Bad \in SUBSET Nat
      OBVIOUS
    <2> DEFINE j == Min(Bad)
    <2>2. j \in Bad /\ \A k \in Bad : j <= k
      BY <2>1, SmallestIsThere
    <2> HIDE DEF j
    <2>3. j \in 1 .. m /\ f[j] # a + j
      BY <2>2
    <2>4. \A k \in 1 .. m : k < j => f[k] = a + k
      BY <2>2, <2>3
    <2>5. a + j <= f[j]
      <3>1. CASE j = 1
        BY <1>1, <2>3, <3>1
      <3>2. CASE j # 1
        <4>1. j - 1 \in 1 .. m /\ j - 1 < j
          BY <2>3, <3>2
        <4>2. f[j - 1] = a + (j - 1) /\ f[j - 1] < f[j]
          BY <1>0, <2>3, <2>4, <4>1
        <4>3. f[j] \in Nat /\ j \in Nat
          BY <1>1, <2>3
        <4>. QED
          BY ONLY <4>2, <4>3, a \in Nat
      <3>. QED
        BY <3>1, <3>2
    <2>6. a + j \in a + 1 .. b /\ a + j < f[j]
      <3>1. f[j] \in Nat /\ f[j] <= b /\ j \in Nat /\ j >= 1
        BY <1>1, <2>3
      <3>. QED
        BY ONLY <2>3, <2>5, <3>1, a \in Nat, b \in Nat
    <2>7. PICK k \in 1 .. m : f[k] = a + j
      BY <1>0, <2>6
    <2>8. k < j
      <3>1. ~(j < k)
        <4> SUFFICES ASSUME j < k PROVE FALSE
          OBVIOUS
        <4>1. f[j] < f[k] /\ f[j] \in Nat /\ f[k] \in Nat
          BY <1>0, <1>1, <2>3
        <4>. QED
          BY ONLY <2>6, <2>7, <4>1
      <3>2. k # j
        BY <2>3, <2>7
      <3>3. k \in Nat /\ j \in Nat
        BY <2>3
      <3>. QED
        BY ONLY <3>1, <3>2, <3>3
    <2>9. f[k] = a + k /\ k \in Nat /\ j \in Nat
      BY <2>3, <2>4, <2>8
    <2>. QED
      BY ONLY <2>7, <2>8, <2>9, a \in Nat
  <1>3. \A j \in 1 .. m : f[j] = a + j
    BY <1>2
  <1>4. PICK k \in 1 .. m : f[k] = b
    BY <1>0, a + 1 <= b /\ b \in a + 1 .. b
  <1>5. a + k = b /\ a + m <= b
    <2>1. m \in 1 .. m
      BY <1>4
    <2>. QED
      BY <1>1, <1>3, <1>4, <2>1
  <1>. QED
    BY <1>3, <1>4, <1>5

LEMMA ByNumber ==
    ASSUME MessagesOK, NEW i \in 1 .. Len(chat), NEW j \in 1 .. Len(chat)
    PROVE  /\ chat[i].number < chat[j].number <=> i < j
           /\ chat[i].number = chat[j].number <=> i = j
  <1>1. chat[i].number \in Nat /\ chat[j].number \in Nat
    BY EventsOf, NumbersOf
  <1>2. /\ i < j => chat[i].number < chat[j].number
        /\ j < i => chat[j].number < chat[i].number
    BY DEF MessagesOK
  <1>3. i \in Nat /\ j \in Nat
    BY EventsOf
  <1>. QED
    BY ONLY <1>1, <1>2, <1>3

(* The sources of a checkpoint that are all current, behind a current parent, *)
(* are a stretch of the chat.                                                 *)
LEMMA SourcesAreStretch ==
    ASSUME CheckpointsInv, NEW n \in nodes, SourcesCurrent(n),
           n.parent # None => SourcesCurrent(n.parent),
           NEW a, a = IF n.parent = None THEN 0 ELSE Cursor(n.parent)
    PROVE  /\ a \in 0 .. Len(chat) /\ Cursor(n) \in a + 1 .. Len(chat)
           /\ n.sources = SubSeq(Events(chat), a + 1, Cursor(n))
  <1> DEFINE s == n.sources
             b == Cursor(n)
             m == Len(s)
             f == [j \in 1 .. m |-> CHOOSE i \in 1 .. Len(chat) : Event(chat, i) = s[j]]
  <1>1. MessagesOK /\ Len(chat) \in Nat /\ NodeOK(n)
    BY EventsOf DEF CheckpointsInv
  <1>2. /\ s \in Seq(Ref \X Message) /\ m \in Nat /\ m >= 1
        /\ \A j, k \in 1 .. m : j < k => Num(s[j]) < Num(s[k])
    <2>1. SourcesOK(s)
      BY <1>1 DEF NodeOK, Fits
    <2>. QED
      BY <2>1, EmptySeq DEF SourcesOK
  <1>3. b \in 1 .. Len(chat) /\ chat[b].number = LastNum(n)
    BY CursorIs
  <1>4. ASSUME NEW j \in 1 .. m
        PROVE  /\ f[j] \in 1 .. Len(chat) /\ Event(chat, f[j]) = s[j]
               /\ chat[f[j]].number = Num(s[j])
    <2>1. \E i \in 1 .. Len(chat) : Event(chat, i) = s[j]
      BY DEF SourcesCurrent
    <2>2. f[j] \in 1 .. Len(chat) /\ Event(chat, f[j]) = s[j]
      BY <2>1
    <2>3. Event(chat, f[j])[2] = chat[f[j]]
      BY <1>1, <2>2, EventsOf
    <2>. QED
      BY <2>2, <2>3 DEF Num
  <1> HIDE DEF b, f
  <1>5. /\ a \in 0 .. Len(chat)
        /\ n.parent = None => a = 0
        /\ n.parent # None => a \in 1 .. Len(chat) /\ chat[a].number = LastNum(n.parent)
    <2>1. CASE n.parent = None
      BY <1>1, <2>1
    <2>2. CASE n.parent # None
      <3>1. n.parent \in nodes
        BY <2>2, ParentsEarlier
      <3>2. a \in 1 .. Len(chat) /\ chat[a].number = LastNum(n.parent)
        BY <2>2, <3>1, CursorIs
      <3>. QED
        BY <1>1, <2>2, <3>2
    <2>. QED
      BY <2>1, <2>2
  <1>6. ASSUME NEW j \in 1 .. m PROVE a < f[j] /\ f[j] <= b
    <2>1. /\ Num(s[1]) <= Num(s[j]) /\ Num(s[j]) <= LastNum(n)
          /\ n.parent # None => LastNum(n.parent) < Num(s[1])
          /\ Num(s[1]) \in Nat /\ Num(s[j]) \in Nat /\ LastNum(n) \in Nat
          /\ n.parent # None => LastNum(n.parent) \in Nat
      BY ParentsEarlier
    <2>2. a < f[j]
      <3>1. CASE n.parent = None
        BY <1>1, <1>4, <1>5, <3>1
      <3>2. CASE n.parent # None
        <4>1. chat[a].number < chat[f[j]].number
          <5>1. chat[a].number = LastNum(n.parent) /\ chat[f[j]].number = Num(s[j])
            BY <1>4, <1>5, <3>2
          <5>. QED
            BY ONLY <2>1, <3>2, <5>1
        <4>. QED
          BY <1>1, <1>4, <1>5, <3>2, <4>1, ByNumber
      <3>. QED
        BY <3>1, <3>2
    <2>3. ~(b < f[j])
      <3> SUFFICES ASSUME b < f[j] PROVE FALSE
        OBVIOUS
      <3>1. chat[b].number < chat[f[j]].number
        BY <1>1, <1>3, <1>4, ByNumber
      <3>2. chat[b].number = LastNum(n) /\ chat[f[j]].number = Num(s[j])
        BY <1>3, <1>4
      <3>. QED
        BY ONLY <2>1, <3>1, <3>2
    <2>. QED
      BY <1>1, <1>3, <1>4, <2>2, <2>3
  <1>7. \A j, k \in 1 .. m : j < k => f[j] < f[k]
    <2> SUFFICES ASSUME NEW j \in 1 .. m, NEW k \in 1 .. m, j < k PROVE f[j] < f[k]
      OBVIOUS
    <2>1. chat[f[j]].number < chat[f[k]].number
      BY <1>2, <1>4
    <2>. QED
      BY <1>1, <1>4, <2>1, ByNumber
  <1>8. a < b /\ a \in Nat /\ b \in Nat
    <2>1. 1 \in 1 .. m
      BY <1>2
    <2>2. a < f[1] /\ f[1] <= b /\ f[1] \in 1 .. Len(chat)
      BY <1>4, <1>6, <2>1
    <2>3. a \in Nat /\ b \in Nat /\ f[1] \in Nat
      BY <1>1, <1>3, <1>5, <2>2
    <2>. QED
      BY ONLY <2>2, <2>3
  <1>9. \A i \in a + 1 .. b : \E k \in 1 .. m : f[k] = i
    <2> SUFFICES ASSUME NEW i \in a + 1 .. b PROVE \E k \in 1 .. m : f[k] = i
      OBVIOUS
    <2>1. i \in 1 .. Len(chat) /\ a < i /\ i <= b
      BY <1>1, <1>3, <1>8
    <2>2. chat[i].number <= Num(s[Len(s)])
      <3>1. chat[i].number < chat[b].number \/ chat[i].number = chat[b].number
        <4>1. i < b \/ i = b
          BY <1>8, <2>1
        <4>. QED
          BY <1>1, <1>3, <2>1, <4>1, ByNumber
      <3>2. chat[i].number \in Nat /\ chat[b].number \in Nat /\ chat[b].number = Num(s[Len(s)])
        BY <1>1, <1>3, <2>1, EventsOf, NumbersOf DEF LastNum
      <3>. QED
        BY ONLY <3>1, <3>2
    <2>3. n.parent # None => LastNum(n.parent) < chat[i].number
      <3> SUFFICES ASSUME n.parent # None PROVE LastNum(n.parent) < chat[i].number
        OBVIOUS
      <3>1. a \in 1 .. Len(chat) /\ chat[a].number = LastNum(n.parent)
        BY <1>5
      <3>2. chat[a].number < chat[i].number
        BY <1>1, <2>1, <3>1, ByNumber
      <3>. QED
        BY <3>1, <3>2
    <2>4. PICK k \in 1 .. m : Num(s[k]) = chat[i].number
      BY <1>1, <2>1, <2>2, <2>3 DEF NodeOK, Fits, Closes
    <2>5. f[k] \in 1 .. Len(chat) /\ chat[f[k]].number = chat[i].number
      BY <1>4, <2>4
    <2>. QED
      BY <1>1, <2>1, <2>5, ByNumber
  <1>10. f \in [1 .. m -> a + 1 .. b]
    <2>1. \A j \in 1 .. m : f[j] \in a + 1 .. b
      BY <1>1, <1>4, <1>6, <1>8
    <2>2. f = [j \in 1 .. m |-> f[j]]
      BY DEF f
    <2>. QED
      BY <2>1, <2>2
  <1> HIDE DEF s, m
  <1>11. m = b - a /\ \A j \in 1 .. m : f[j] = a + j
    <2>1. m \in Nat
      BY <1>2
    <2>2. Enumerates(f, m, a, b)
      BY ONLY <1>7, <1>9, <1>10 DEF Enumerates
    <2>. QED
      BY ONLY <2>1, <2>2, <1>8, ShiftIs
  <1>12. b \in a + 1 .. Len(chat)
    BY <1>1, <1>3, <1>8
  <1> DEFINE t == SubSeq(Events(chat), a + 1, b)
  <1>13. /\ t \in Seq(Ref \X Message) /\ Len(t) = b - a
         /\ \A k \in 1 .. b - a : t[k] = Event(chat, a + k)
    <2>1. MessagesOK /\ a \in 0 .. Len(chat)
      BY <1>1, <1>5
    <2>2. ASSUME NEW u, u = SubSeq(Events(chat), a + 1, b)
          PROVE  /\ u \in Seq(Ref \X Message) /\ Len(u) = b - a
                 /\ \A k \in 1 .. b - a : u[k] = Event(chat, a + k)
      BY ONLY <1>12, <2>1, <2>2, Stretch
    <2>. QED
      BY ONLY <2>2
  <1> HIDE DEF t
  <1>14. \A j \in 1 .. Len(s) : s[j] = t[j]
    BY <1>4, <1>11, <1>13 DEF m
  <1>15. s = t
    <2>1. Len(s) = Len(t)
      BY <1>11, <1>13 DEF m
    <2>. QED
      BY <1>2, <1>13, <1>14, <2>1, SeqEqual
  <1>. QED
    BY <1>5, <1>12, <1>15 DEF s, t, b

(* A lineage that is valid covers the chat up to its cursor. *)
LEMMA LineageCovers ==
    ASSUME CheckpointsInv, NEW p \in nodes, LineageIsValid(p)
    PROVE  LET line == Lineage(p)
               covered[k \in 0 .. Len(line)] ==
                   IF k = 0 THEN <<>> ELSE covered[k - 1] \o line[k].sources
           IN covered[Len(line)] = SubSeq(Events(chat), 1, Cursor(p))
  <1> DEFINE l == Lineage(p)
             N == Len(l)
             E == Events(chat)
             c(k) == IF k = 0 THEN 0 ELSE Cursor(l[k])
             F == [k \in 0 .. N |-> SubSeq(E, 1, c(k))]
             Covered(g) == g = [k \in 0 .. N |-> IF k = 0 THEN <<>> ELSE g[k - 1] \o l[k].sources]
  <1>1. Descends(l, p)
    BY LineageDescends
  <1>2. \A k \in 1 .. N : SourcesCurrent(l[k])
    BY DEF LineageIsValid
  <1> HIDE DEF l
  <1>3. /\ N \in Nat \ {0} /\ l[N] = p /\ l[1].parent = None
        /\ \A k \in 1 .. N : l[k] \in nodes
        /\ \A k \in 2 .. N : l[k].parent = l[k - 1]
    BY <1>1, ElementOfSeq DEF Descends
  <1>4. MessagesOK /\ Len(chat) \in Nat /\ E \in Seq(Ref \X Message) /\ Len(E) = Len(chat)
    BY EventsOf DEF CheckpointsInv
  <1>5. ASSUME NEW k \in 1 .. N
        PROVE  /\ c(k - 1) \in 0 .. Len(chat) /\ c(k) \in c(k - 1) + 1 .. Len(chat)
               /\ l[k].sources = SubSeq(E, c(k - 1) + 1, c(k))
    <2>1. /\ l[k] \in nodes /\ SourcesCurrent(l[k])
          /\ l[k].parent # None => SourcesCurrent(l[k].parent)
          /\ c(k - 1) = IF l[k].parent = None THEN 0 ELSE Cursor(l[k].parent)
      <3>1. CASE k = 1
        BY <1>2, <1>3, <3>1
      <3>2. CASE k # 1
        <4>1. k \in 2 .. N /\ k - 1 \in 1 .. N /\ k - 1 # 0
          BY <1>3, <3>2
        <4>2. l[k - 1] # None
          BY <1>3, <4>1, ParentsEarlier
        <4>. QED
          BY <1>2, <1>3, <4>1, <4>2
      <3>. QED
        BY <3>1, <3>2
    <2>2. c(k) = Cursor(l[k])
      OBVIOUS
    <2> HIDE DEF c
    <2>. QED
      BY <2>1, <2>2, SourcesAreStretch
  <1>6. c(0) = 0
    OBVIOUS
  <1>7. c(N) = Cursor(p)
    BY <1>3
  <1> HIDE DEF c, E, N
  <1>8. F[0] = <<>>
    <2>1. SubSeq(E, 1, 0) = <<>>
      BY SubSeqEmpty
    <2>. QED
      BY <1>3, <1>6, <2>1
  <1>9. ASSUME NEW k \in 1 .. N PROVE F[k] = F[k - 1] \o l[k].sources
    <2>1. k \in 0 .. N /\ k - 1 \in 0 .. N
      BY <1>3
    <2>2. /\ 1 \in 1 .. Len(E) + 1 /\ c(k - 1) \in 1 - 1 .. Len(E) /\ c(k) \in c(k - 1) .. Len(E)
      BY <1>4, <1>5
    <2>3. SubSeq(E, 1, c(k - 1)) \o SubSeq(E, c(k - 1) + 1, c(k)) = SubSeq(E, 1, c(k))
      BY <1>4, <2>2, ConcatAdjacentSubSeq
    <2>4. F[k] = SubSeq(E, 1, c(k)) /\ F[k - 1] = SubSeq(E, 1, c(k - 1))
      BY <2>1
    <2>. QED
      BY <1>5, <2>3, <2>4
  <1>10. Covered(F)
    <2>1. F = [k \in 0 .. N |-> F[k]]
      OBVIOUS
    <2>2. \A k \in 0 .. N : k # 0 => k \in 1 .. N
      BY <1>3
    <2> HIDE DEF F
    <2>3. \A k \in 0 .. N : F[k] = IF k = 0 THEN <<>> ELSE F[k - 1] \o l[k].sources
      BY <1>8, <1>9, <2>2
    <2>. QED
      BY <2>1, <2>3
  <1>11. ASSUME NEW g, Covered(g) PROVE g[N] = F[N]
    <2> DEFINE Bad == {k \in 0 .. N : g[k] # F[k]}
    <2>1. Bad = {}
      <3> SUFFICES ASSUME Bad # {} PROVE FALSE
        OBVIOUS
      <3>1. Bad \in SUBSET Nat
        OBVIOUS
      <3> DEFINE b == Min(Bad)
      <3>2. b \in Bad /\ \A k \in Bad : b <= k
        BY <3>1, SmallestIsThere
      <3> HIDE DEF b
      <3>3. b \in 0 .. N /\ g[b] # F[b] /\ \A k \in 0 .. N : k < b => g[k] = F[k]
        BY <3>2
      <3> HIDE DEF Bad, F
      <3>4. g[b] = IF b = 0 THEN <<>> ELSE g[b - 1] \o l[b].sources
        BY <1>11, <3>3
      <3>5. b # 0
        BY <1>8, <3>3, <3>4
      <3>6. b \in 1 .. N /\ b - 1 \in 0 .. N /\ b - 1 < b
        BY <1>3, <3>3, <3>5
      <3>. QED
        BY <1>9, <3>3, <3>4, <3>5, <3>6
    <2>2. N \in 0 .. N
      BY <1>3
    <2>. QED
      BY <2>1, <2>2
  <1>12. F[N] = SubSeq(E, 1, Cursor(p))
    <2>1. N \in 0 .. N
      BY <1>3
    <2>2. F[N] = SubSeq(E, 1, c(N))
      BY <2>1
    <2>. QED
      BY <1>7, <2>2
  <1> HIDE DEF F
  <1>13. (CHOOSE g : Covered(g))[N] = F[N]
    <2> HIDE DEF Covered
    <2>1. Covered(CHOOSE g : Covered(g))
      BY <1>10
    <2>. QED
      BY <1>11, <2>1
  <1>. QED
    BY <1>12, <1>13 DEF l, N, E

LEMMA CheckpointsStart == InitCheckpoints => CheckpointsInv
  <1> SUFFICES ASSUME InitCheckpoints PROVE CheckpointsInv
    OBVIOUS
  <1>1. chat = <<>> /\ Len(chat) = 0 /\ chat \in Seq(Message) /\ written = 0 /\ edits = 0
    BY EmptySeq DEF InitCheckpoints
  <1>. QED
    BY FormationPolicyAssumption, <1>1 DEF InitCheckpoints, CheckpointsInv, MessagesOK

(* latest_valid never hands back a summary of something else than a        *)
(* beginning of the chat as it is: however messages were written, edited   *)
(* and deleted, and checkpoints formed, imported and rolled back, in any   *)
(* order and number, the sources along its lineage are the first events of *)
(* the chat, each once and none left out.                                  *)
THEOREM SummariesCoverAPrefix ==
    ASSUME NoCheckpoint PROVE CheckpointsSpec => []CoversThePrefix
  <1>1. CheckpointsInv /\ [NextCheckpoints]_<<chatVars, ledgerVars>> => CheckpointsInv'
    BY CheckpointsStep
  <1>2. CheckpointsInv => CoversThePrefix
    <2> SUFFICES ASSUME CheckpointsInv, LatestValid # None PROVE CoversThePrefix
      BY DEF CoversThePrefix
    <2>. QED
      BY LatestValidIs, LineageCovers DEF CoversThePrefix
  <1>. QED
    BY CheckpointsStart, <1>1, <1>2, PTL DEF CheckpointsSpec

(* append keeps the ledger a forest: each checkpoint has sources, and its  *)
(* parent is in the ledger; the active one is too.                         *)
THEOREM CheckpointsTypeCorrect ==
    ASSUME NoCheckpoint PROVE CheckpointsSpec => []CheckpointsTypeOK
  <1>1. CheckpointsInv /\ [NextCheckpoints]_<<chatVars, ledgerVars>> => CheckpointsInv'
    BY CheckpointsStep
  <1>2. CheckpointsInv => CheckpointsTypeOK
    BY DEF CheckpointsInv, MessagesOK, NodeOK, Fits, SourcesOK, CheckpointsTypeOK
  <1>. QED
    BY CheckpointsStart, <1>1, <1>2, PTL DEF CheckpointsSpec

----------------------------------------------------------------------------
(* Canonical mutations *)

(* The states and revisions that a ledger made again goes through: what an *)
(* invariant says of the log stands for an induction over it.              *)
IsReplay(after, log, start) ==
    after = [k \in 0 .. Len(log) |-> IF k = 0 THEN start ELSE Replay(after[k - 1], log[k])]

Start == [state |-> Restored, revision |-> RestoredRevision]
Ledger == [state |-> state, revision |-> revision]

(* The inductive invariant: every revision was known to a writer, and the log *)
(* leads from the snapshot to the state, in one way.                          *)
LedgerInv ==
    /\ MutationsTypeOK
    /\ IsFiniteSet(sent) /\ Cardinality(sent) <= MaxSent
    /\ \A b \in 0 .. revision - 1 : \E m \in sent : m.base = b
    /\ \A f \in Field : state[f] # Nothing => state[f].mutation.base < revision
    /\ \E after : IsReplay(after, mutations, Start)
    /\ \A after : IsReplay(after, mutations, Start) => after[Len(mutations)] = Ledger

USE SchemaAssumption, DraftAssumption, NothingAssumption

LEMMA ReplayedIsReplay ==
    ASSUME NEW log
    PROVE  Replayed(log) = (CHOOSE after : IsReplay(after, log, Start))[Len(log)]
  BY DEF Replayed, IsReplay, Start

(* A log that is one mutation longer leads one mutation further. *)
LEMMA ReplayExtends ==
    ASSUME NEW log \in Seq(Mutation), NEW m, NEW start, NEW after
    PROVE  LET longer == [k \in 0 .. Len(log) + 1 |->
                             IF k = Len(log) + 1 THEN Replay(after[Len(log)], m) ELSE after[k]]
           IN  IsReplay(after, log, start) => IsReplay(longer, Append(log, m), start)
  <1> DEFINE longer == [k \in 0 .. Len(log) + 1 |->
                           IF k = Len(log) + 1 THEN Replay(after[Len(log)], m) ELSE after[k]]
             whole == Append(log, m)
  <1> SUFFICES ASSUME IsReplay(after, log, start) PROVE IsReplay(longer, whole, start)
    OBVIOUS
  <1>1. Len(log) \in Nat /\ Len(whole) = Len(log) + 1 /\ whole[Len(log) + 1] = m
        /\ \A k \in 1 .. Len(log) : whole[k] = log[k]
    OBVIOUS
  <1>2. \A k \in 0 .. Len(log) : after[k] = IF k = 0 THEN start ELSE Replay(after[k - 1], log[k])
    BY DEF IsReplay
  <1>. HIDE DEF whole
  <1>3. ASSUME NEW k \in 0 .. Len(log) + 1
        PROVE  longer[k] = IF k = 0 THEN start ELSE Replay(longer[k - 1], whole[k])
    <2>1. CASE k = Len(log) + 1
      BY <1>1, <2>1
    <2>2. CASE k # Len(log) + 1
      BY <1>1, <1>2, <2>2
    <2>. QED
      BY <2>1, <2>2
  <1>. QED
    BY <1>1, <1>3 DEF IsReplay

LEMMA ReplayShortens ==
    ASSUME NEW log \in Seq(Mutation), NEW m, NEW start, NEW after,
           IsReplay(after, Append(log, m), start)
    PROVE  LET shorter == [k \in 0 .. Len(log) |-> after[k]]
           IN  /\ IsReplay(shorter, log, start)
               /\ after[Len(log) + 1] = Replay(shorter[Len(log)], m)
  <1> DEFINE shorter == [k \in 0 .. Len(log) |-> after[k]]
             whole == Append(log, m)
  <1>1. Len(log) \in Nat /\ Len(whole) = Len(log) + 1 /\ whole[Len(log) + 1] = m
        /\ \A k \in 1 .. Len(log) : whole[k] = log[k]
    OBVIOUS
  <1>2. \A k \in 0 .. Len(whole) : after[k] = IF k = 0 THEN start ELSE Replay(after[k - 1], whole[k])
    BY DEF IsReplay
  <1>. HIDE DEF whole
  <1>3. \A k \in 0 .. Len(log) : shorter[k] = IF k = 0 THEN start ELSE Replay(shorter[k - 1], log[k])
    BY <1>1, <1>2
  <1>4. after[Len(log) + 1] = Replay(shorter[Len(log)], m)
    BY <1>1, <1>2
  <1>. QED
    BY <1>3, <1>4 DEF IsReplay

(* A change is of its own type, whatever it changes. *)
LEMMA AppliedType ==
    ASSUME NEW m \in Mutation, NEW previous \in Materialized \cup {Nothing}
    PROVE  Applied(m, previous) \in Materialized /\ Applied(m, previous).mutation = m
           /\ Applied(m, previous).status = StatusAfter(m.change.operation)
  <1>1. m.change \in Draft
    BY DEF Mutation
  <1>2. m.change \in [operation : Operation, field : Field, value : Value \cup {Nothing},
                      schema : Schema, authority : Authority]
    BY <1>1
  <1> DEFINE value == IF m.change.value = Nothing /\ previous # Nothing THEN previous.value
                      ELSE m.change.value
  <1>3. value \in Value \cup {Nothing}
    BY <1>2 DEF Materialized
  <1>4. StatusAfter(m.change.operation) \in {"active", "disputed", "withdrawn"}
    BY <1>2 DEF StatusAfter, Operation
  <1>5. Retained[m.change.schema] \in RetentionClass
    BY <1>2
  <1>. HIDE DEF value
  <1>6. Applied(m, previous) =
          [status |-> StatusAfter(m.change.operation), value |-> value,
           authority |-> m.change.authority, mutation |-> m, retention |-> Retained[m.change.schema]]
    BY DEF Applied, value
  <1>. QED
    BY <1>2, <1>3, <1>4, <1>5, <1>6 DEF Materialized

(* There is a mutation for each revision, so there are no more than those. *)
LEMMA RevisionFits ==
    ASSUME LedgerInv, NEW m \in sent, m.base = revision
    PROVE  revision + 1 <= MaxSent
  <1>1. revision \in Nat /\ MaxSent \in Nat
    BY DEF LedgerInv, MutationsTypeOK
  <1> DEFINE T == {x \in sent : x.base \in 0 .. revision}
             base == [x \in T |-> x.base]
  <1>2. base \in Surjection(T, 0 .. revision)
    <2>1. base \in [T -> 0 .. revision]
      OBVIOUS
    <2>2. ASSUME NEW b \in 0 .. revision PROVE \E x \in T : base[x] = b
      <3>1. CASE b = revision
        BY <1>1, <3>1
      <3>2. CASE b # revision
        <4>1. b \in 0 .. revision - 1
          BY <1>1, <3>2
        <4>. QED
          BY <4>1 DEF LedgerInv
      <3>. QED
        BY <3>1, <3>2
    <2>. QED
      BY <2>1, <2>2 DEF Surjection
  <1>3. IsFiniteSet(sent) /\ Cardinality(sent) <= MaxSent /\ T \in SUBSET sent
    BY DEF LedgerInv
  <1>4. IsFiniteSet(T) /\ Cardinality(T) <= Cardinality(sent)
    BY <1>3, FS_Subset
  <1>5. Cardinality(0 .. revision) <= Cardinality(T)
    BY <1>2, <1>4, FS_Surjection
  <1>6. Cardinality(0 .. revision) = revision + 1
    BY <1>1, FS_Interval
  <1>7. Cardinality(T) \in Nat /\ Cardinality(sent) \in Nat
    BY <1>3, <1>4, FS_CardinalityType
  <1>. QED
    BY <1>1, <1>3, <1>4, <1>5, <1>6, <1>7

LEMMA LedgerStarts == InitMutations => LedgerInv
  <1> SUFFICES ASSUME InitMutations PROVE LedgerInv
    OBVIOUS
  <1>1. /\ state = [f \in Field |-> Nothing] /\ revision = 0 /\ mutations = <<>>
        /\ snapshot = Nothing /\ sent = {} /\ MaxSent \in Nat
    BY DEF InitMutations
  <1>2. MutationsTypeOK
    BY <1>1 DEF MutationsTypeOK
  <1>3. IsFiniteSet(sent) /\ Cardinality(sent) <= MaxSent
    BY <1>1, FS_EmptySet
  <1>4. Start = Ledger
    BY <1>1 DEF Start, Ledger, Restored, RestoredRevision
  <1>5. IsReplay([k \in 0 .. 0 |-> Start], mutations, Start)
    BY <1>1 DEF IsReplay
  <1>6. \A after : IsReplay(after, mutations, Start) => after[Len(mutations)] = Ledger
    BY <1>1, <1>4 DEF IsReplay
  <1>. QED
    BY <1>1, <1>2, <1>3, <1>5, <1>6 DEF LedgerInv

LEMMA BuildKeeps == ASSUME LedgerInv, NEW d \in Draft, Build(d) PROVE LedgerInv'
  <1>1. /\ Cardinality(sent) < MaxSent /\ sent' = sent \cup {[base |-> revision, change |-> d]}
        /\ UNCHANGED <<state, revision, mutations, snapshot>>
    BY DEF Build
  <1>2. revision \in 0 .. MaxSent /\ sent \subseteq Mutation
    BY DEF LedgerInv, MutationsTypeOK
  <1>3. MutationsTypeOK'
    <2>1. [base |-> revision, change |-> d] \in Mutation
      BY <1>2 DEF Mutation
    <2>. QED
      BY <1>1, <2>1 DEF LedgerInv, MutationsTypeOK
  <1>4. IsFiniteSet(sent') /\ Cardinality(sent') <= MaxSent
    <2>1. IsFiniteSet(sent)
      BY DEF LedgerInv
    <2>2. Cardinality(sent) \in Nat
      BY <2>1, FS_CardinalityType
    <2>3. /\ IsFiniteSet(sent')
          /\ Cardinality(sent') \in {Cardinality(sent), Cardinality(sent) + 1}
      BY <1>1, <2>1, FS_AddElement
    <2>4. MaxSent \in Nat
      OBVIOUS
    <2>. QED
      BY ONLY <1>1, <2>2, <2>3, <2>4
  <1>5. Start' = Start /\ Ledger' = Ledger
    BY <1>1 DEF Start, Ledger, Restored, RestoredRevision
  <1>. QED
    BY <1>1, <1>3, <1>4, <1>5 DEF LedgerInv

LEMMA CommitKeeps == ASSUME LedgerInv, NEW m \in sent, Commit(m) PROVE LedgerInv'
  <1>1. /\ m.base = revision /\ Admissible(m)
        /\ state' = [state EXCEPT ![m.change.field] = Applied(m, @)]
        /\ mutations' = Append(mutations, m) /\ revision' = revision + 1
        /\ UNCHANGED <<snapshot, sent>>
    BY DEF Commit, Accepted
  <1>2. /\ m \in Mutation /\ revision \in Nat /\ mutations \in Seq(Mutation)
        /\ state \in [Field -> Materialized \cup {Nothing}]
    BY DEF LedgerInv, MutationsTypeOK
  <1> DEFINE field == m.change.field
             new == Applied(m, state[field])
  <1>3. field \in Field
    BY <1>2 DEF Mutation
  <1>4. new \in Materialized /\ new.mutation = m
    BY <1>2, <1>3, AppliedType
  <1>5. state' = [state EXCEPT ![field] = new]
    BY <1>1, <1>2
  <1>. HIDE DEF new
  <1>6. state' \in [Field -> Materialized \cup {Nothing}] /\ state'[field] = new
        /\ \A f \in Field : f # field => state'[f] = state[f]
    BY <1>2, <1>3, <1>4, <1>5
  <1>7. MutationsTypeOK'
    <2>1. revision + 1 \in 0 .. MaxSent
      BY <1>1, <1>2, RevisionFits DEF LedgerInv
    <2>. QED
      BY <1>1, <1>2, <1>6, <2>1 DEF LedgerInv, MutationsTypeOK
  <1>8. \A b \in 0 .. revision' - 1 : \E x \in sent' : x.base = b
    <2> SUFFICES ASSUME NEW b \in 0 .. revision PROVE \E x \in sent : x.base = b
      BY <1>1, <1>2
    <2>1. CASE b = revision
      BY <1>1, <2>1
    <2>2. CASE b # revision
      <3>1. b \in 0 .. revision - 1
        BY <1>2, <2>2
      <3>. QED
        BY <3>1 DEF LedgerInv
    <2>. QED
      BY <2>1, <2>2
  <1>9. \A f \in Field : state'[f] # Nothing => state'[f].mutation.base < revision'
    <2> SUFFICES ASSUME NEW f \in Field, state'[f] # Nothing
                 PROVE  state'[f].mutation.base < revision + 1
      BY <1>1
    <2>1. CASE f = field
      BY <1>1, <1>2, <1>4, <1>6, <2>1
    <2>2. CASE f # field
      <3>1. state[f] \in Materialized /\ state[f].mutation.base < revision
        BY <1>2, <1>6, <2>2 DEF LedgerInv
      <3>2. state[f].mutation.base \in Nat
        BY <3>1 DEF Materialized, Mutation
      <3>. QED
        BY <1>2, <1>6, <2>2, <3>1, <3>2
    <2>. QED
      BY <2>1, <2>2
  <1>10. Start' = Start /\ Ledger' = Replay(Ledger, m)
    <2>1. Start' = Start
      BY <1>1 DEF Start, Restored, RestoredRevision
    <2>2. Ledger' = Replay(Ledger, m)
      BY <1>1, <1>2 DEF Ledger, Replay
    <2>. QED
      BY <2>1, <2>2
  <1>11. \E after : IsReplay(after, mutations', Start')
    BY <1>1, <1>2, <1>10, ReplayExtends DEF LedgerInv
  <1>12. ASSUME NEW after, IsReplay(after, mutations', Start')
         PROVE  after[Len(mutations')] = Ledger'
    <2> DEFINE shorter == [k \in 0 .. Len(mutations) |-> after[k]]
    <2>1. /\ IsReplay(shorter, mutations, Start)
          /\ after[Len(mutations) + 1] = Replay(shorter[Len(mutations)], m)
      BY <1>1, <1>2, <1>10, <1>12, ReplayShortens
    <2>. HIDE DEF shorter
    <2>2. shorter[Len(mutations)] = Ledger
      BY <2>1 DEF LedgerInv
    <2>3. Len(mutations') = Len(mutations) + 1
      BY <1>1, <1>2
    <2>. QED
      BY <1>10, <2>1, <2>2, <2>3
  <1>. QED
    BY <1>1, <1>7, <1>8, <1>9, <1>11, <1>12 DEF LedgerInv

LEMMA CompactKeeps == ASSUME LedgerInv, Compact PROVE LedgerInv'
  <1>1. /\ snapshot' = [through |-> revision, state |-> state] /\ mutations' = <<>>
        /\ UNCHANGED <<state, revision, sent>>
    BY DEF Compact
  <1>2. snapshot' \in Snapshot
    BY <1>1 DEF LedgerInv, MutationsTypeOK, Snapshot
  <1>3. snapshot' # Nothing
    BY <1>2
  <1>4. Start' = Ledger /\ Ledger' = Ledger
    BY <1>1, <1>3 DEF Start, Ledger, Restored, RestoredRevision
  <1>5. MutationsTypeOK'
    BY <1>1, <1>2 DEF LedgerInv, MutationsTypeOK
  <1>6. IsReplay([k \in 0 .. 0 |-> Start'], mutations', Start')
    BY <1>1 DEF IsReplay
  <1>7. \A after : IsReplay(after, mutations', Start') => after[Len(mutations')] = Ledger'
    BY <1>1, <1>4 DEF IsReplay
  <1>. QED
    BY <1>1, <1>5, <1>6, <1>7 DEF LedgerInv

(* A restart finds what there was. *)
LEMMA RestartStutters == ASSUME LedgerInv, Restart PROVE UNCHANGED mutationVars
  <1> DEFINE after == CHOOSE a : IsReplay(a, mutations, Start)
  <1>1. IsReplay(after, mutations, Start)
    BY DEF LedgerInv
  <1>. HIDE DEF after
  <1>2. after[Len(mutations)] = Ledger
    BY <1>1 DEF LedgerInv
  <1>3. Replayed(mutations) = Ledger
    BY <1>2, ReplayedIsReplay DEF after
  <1>. QED
    BY <1>3 DEF Restart, Ledger, mutationVars

LEMMA StutterKeepsLedger == ASSUME LedgerInv, UNCHANGED mutationVars PROVE LedgerInv'
  <1>1. UNCHANGED <<state, revision, mutations, snapshot, sent>>
    BY DEF mutationVars
  <1>2. Start' = Start /\ Ledger' = Ledger
    BY <1>1 DEF Start, Ledger, Restored, RestoredRevision
  <1>. QED
    BY <1>1, <1>2 DEF LedgerInv, MutationsTypeOK

LEMMA LedgerStep == LedgerInv /\ [NextMutations]_mutationVars => LedgerInv'
  BY BuildKeeps, CommitKeeps, CompactKeeps, RestartStutters, StutterKeepsLedger DEF NextMutations

LEMMA LedgerInvariant == MutationSpec => []LedgerInv
  BY LedgerStarts, LedgerStep, PTL DEF MutationSpec

(* The mutation ledger with its log, snapshots, restarts and late or repeated *)
(* deliveries is SemanticState, for any fields, values and schemas: no change *)
(* is lost, repeated or made on a state its writer did not know               *)
(* (MutationLedger.append, compact, __init__).                                 *)
THEOREM LedgerIsSemantic == MutationSpec => LedgerImplementsSemantic
  <1>1. InitMutations => Semantic!Init
    BY DEF InitMutations, Semantic!Init
  <1>2. LedgerInv /\ [NextMutations]_mutationVars => [Semantic!Next]_<<state, revision>>
    <2> SUFFICES ASSUME LedgerInv, [NextMutations]_mutationVars
                 PROVE  [Semantic!Next]_<<state, revision>>
      OBVIOUS
    <2>1. ASSUME NEW m \in sent, Commit(m) PROVE Semantic!Next
      <3>1. m \in Mutation
        BY DEF LedgerInv, MutationsTypeOK
      <3>2. Semantic!Change(m)
        BY <2>1 DEF Commit, Accepted, Semantic!Change
      <3>. QED
        BY <3>1, <3>2 DEF Semantic!Next
    <2>2. CASE Restart
      BY <2>2, RestartStutters DEF mutationVars
    <2>3. CASE (\E d \in Draft : Build(d)) \/ Compact \/ UNCHANGED mutationVars
      BY <2>3 DEF Build, Compact, mutationVars
    <2>. QED
      BY <2>1, <2>2, <2>3 DEF NextMutations
  <1>. QED
    BY <1>1, <1>2, LedgerInvariant, PTL DEF MutationSpec, LedgerImplementsSemantic, Semantic!Spec

(* What was withdrawn comes back only by a writer who knew that it was, after *)
(* any compactions and restarts (MutationLedger.append).                       *)
THEOREM ForgottenIsForgotten == MutationSpec => ForgottenStaysForgotten
  <1> DEFINE Kept(f) ==
        (state[f] # Nothing /\ state[f].status = "withdrawn") =>
            \/ state'[f] # Nothing /\ state'[f].status = "withdrawn"
            \/ state'[f] # Nothing /\ state'[f].mutation.base > state[f].mutation.base
  <1>1. ASSUME LedgerInv, NextMutations, NEW f \in Field PROVE Kept(f)
    <2>1. ASSUME NEW m \in sent, Commit(m) PROVE Kept(f)
      <3>1. /\ m \in Mutation /\ state \in [Field -> Materialized \cup {Nothing}]
            /\ revision \in Nat
        BY <1>1 DEF LedgerInv, MutationsTypeOK
      <3>2. m.base = revision /\ state' = [state EXCEPT ![m.change.field] = Applied(m, @)]
        BY <2>1 DEF Commit, Accepted
      <3>3. CASE f # m.change.field
        BY <1>1, <3>1, <3>2, <3>3
      <3>4. CASE f = m.change.field
        <4>1. state'[f] = Applied(m, state[f])
          BY <1>1, <3>1, <3>2, <3>4
        <4>2. state'[f] \in Materialized /\ state'[f].mutation = m
          BY <3>1, <4>1, AppliedType
        <4>3. ASSUME state[f] # Nothing PROVE state[f].mutation.base < revision
          BY <1>1, <4>3 DEF LedgerInv
        <4>4. ASSUME state[f] # Nothing PROVE state[f].mutation.base \in Nat
          BY <1>1, <3>1, <4>4 DEF Materialized, Mutation
        <4>. QED
          BY <3>1, <3>2, <4>2, <4>3, <4>4
      <3>. QED
        BY <3>3, <3>4
    <2>2. CASE Restart
      BY <1>1, <2>2, RestartStutters DEF mutationVars
    <2>3. CASE (\E d \in Draft : Build(d)) \/ Compact
      BY <2>3 DEF Build, Compact
    <2>. QED
      BY <1>1, <2>1, <2>2, <2>3 DEF NextMutations
  <1>2. LedgerInv /\ [NextMutations]_mutationVars => [\A f \in Field : Kept(f)]_mutationVars
    BY <1>1
  <1>. QED
    BY <1>2, LedgerInvariant, PTL DEF MutationSpec, ForgottenStaysForgotten

(* Every variable of the ledger has its type, the snapshot that compaction    *)
(* writes included.                                                           *)
THEOREM MutationsTypeCorrect == MutationSpec => []MutationsTypeOK
  <1>1. LedgerInv => MutationsTypeOK
    BY DEF LedgerInv
  <1>. QED
    BY <1>1, LedgerInvariant, PTL DEF MutationSpec
=============================================================================
