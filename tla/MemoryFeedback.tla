--------------------------- MODULE MemoryFeedback ---------------------------
(***************************************************************************)
(* memory_control.py and the tables of memory_store.py it keeps: a decision *)
(* to put memories into a prompt is recorded, its outcome is reported later, *)
(* and outcomes decide which memories the next decision leaves out.         *)
(***************************************************************************)
EXTENDS Integers, Sequences, FiniteSetsExt

CONSTANTS
    Agent,          \* processes that ask for memories and report outcomes
    Advice,         \* cards the retriever can return
    Score,          \* Advice -> score of the retriever, in hundredths
    MinUtility,     \* min_expected_utility, in hundredths
    MaxDecisions,   \* bound on the decisions
    NoDecision

ASSUME FeedbackAssumption ==
    /\ Score \in [Advice -> 0 .. 100] /\ MinUtility \in 0 .. 100 /\ MaxDecisions \in Nat

VARIABLES
    judged,     \* memory_decisions
    outcomes,   \* memory_outcomes
    agent,      \* Agent -> what it is doing
    told        \* Advice -> outcomes of prompts it was in (history)

feedbackVars == <<judged, outcomes, agent, told>>

Outcome == {"success", "failure", "harm"}

(* A shadow decision shows nothing, so its outcome says nothing. *)
Counts(d) == ~judged[d].shadow

(* memory_utility_stats: recomputed from both tables at every reading. *)
Tally(a) ==
    LET mine == {i \in 1 .. Len(outcomes) :
                    Counts(outcomes[i].decision) /\ a \in judged[outcomes[i].decision].cards}
        Of(what) == Cardinality({i \in mine : outcomes[i].what = what})
    IN  [uses |-> Cardinality(mine), successes |-> Of("success"), harmful |-> Of("harm")]

(* _expected_utility of a card that fits the budget, times 100 (uses + 2);  *)
(* rewards are 0 and the stage is "working".                                 *)
ScaledUtility(a, t) ==
    55 * Score[a] * (t.uses + 2) + 3500 * (t.successes + 1) - 5500 * t.harmful

WorthShowing(a, t) == ScaledUtility(a, t) >= 100 * MinUtility * (t.uses + 2)

Silent == [pc |-> "idle", found |-> {}, shadow |-> FALSE, decision |-> NoDecision]

AgentAt(p, pc) == agent[p].pc = pc

(* decide: the retriever answers; then the statistics are read and what is *)
(* worth showing is selected.                                              *)
Retrieve(p, found, shadow) ==
    /\ AgentAt(p, "idle") /\ Len(judged) < MaxDecisions
    /\ agent' = [agent EXCEPT ![p] = [Silent EXCEPT !.pc = "found", !.found = found, !.shadow = shadow]]
    /\ UNCHANGED <<judged, outcomes, told>>

Weigh(p) ==
    /\ AgentAt(p, "found")
    /\ agent' = [agent EXCEPT ![p].pc = "weighed",
                              ![p].found = {a \in @ : WorthShowing(a, Tally(a))}]
    /\ UNCHANGED <<judged, outcomes, told>>

(* record_memory_decision *)
Judge(p) ==
    /\ AgentAt(p, "weighed")
    /\ judged' = Append(judged, [cards |-> agent[p].found, shadow |-> agent[p].shadow])
    /\ agent' = [agent EXCEPT ![p].pc = "judged", ![p].decision = Len(judged) + 1]
    /\ UNCHANGED <<outcomes, told>>

\* A second report is a second row.
AnyReport(d) == TRUE

(* A decision has one outcome. *)
FirstReport(d) == \A i \in 1 .. Len(outcomes) : outcomes[i].decision # d

(* record_memory_outcome: the caller may lose the answer and report again, and *)
(* another process may have reported what it saw.                              *)
Report(p, d, what) ==
    /\ AgentAt(p, "judged") /\ d \in 1 .. Len(judged) /\ FirstReport(d)
    /\ outcomes' = Append(outcomes, [decision |-> d, what |-> what])
    /\ told' = [a \in Advice |-> IF a \in judged[d].cards /\ ~judged[d].shadow
                                 THEN told[a] \cup {d} ELSE told[a]]
    /\ UNCHANGED <<judged, agent>>

Finish(p) ==
    /\ ~AgentAt(p, "idle") /\ agent' = [agent EXCEPT ![p] = Silent]
    /\ UNCHANGED <<judged, outcomes, told>>

InitFeedback ==
    /\ judged = <<>> /\ outcomes = <<>> /\ told = [a \in Advice |-> {}]
    /\ agent = [p \in Agent |-> Silent]

NextFeedback ==
    \E p \in Agent :
        \/ \E found \in SUBSET Advice, shadow \in BOOLEAN : Retrieve(p, found, shadow)
        \/ Weigh(p) \/ Judge(p) \/ Finish(p)
        \/ \E d \in 1 .. Len(judged), what \in Outcome : Report(p, d, what)

FeedbackTypeOK ==
    /\ \A i \in 1 .. Len(judged) : judged[i].cards \subseteq Advice /\ judged[i].shadow \in BOOLEAN
    /\ \A i \in 1 .. Len(outcomes) :
          outcomes[i].decision \in 1 .. Len(judged) /\ outcomes[i].what \in Outcome
    /\ \A p \in Agent : agent[p].pc \in {"idle", "found", "weighed", "judged"}
----------------------------------------------------------------------------
(* The utility of a card rests on each prompt it was really in, once: not on   *)
(* shadow decisions, and not twice on an outcome that two processes report or  *)
(* one reports again (record_memory_outcome, memory_utility_stats).            *)
FeedbackCountedOnce == \A a \in Advice : Tally(a).uses = Cardinality(told[a])
=============================================================================
