-------------------------- MODULE ContextCompaction --------------------------
(***************************************************************************)
(* context.py as run and chat use it: a history of system, human, assistant *)
(* and tool messages grows by turns, and is compacted for every request and *)
(* for every save; a chat goes on from what it saved, a run is resumed from *)
(* it.  A message is its number of characters and the calls it makes or the *)
(* call it answers; what a summary says is left out.                        *)
(***************************************************************************)
EXTENDS Integers, Sequences, SequencesExt

CONSTANTS
    MaxToolCalls,   \* MAX_TOOL_CALLS_PER_MESSAGE
    ContextBudget,  \* context_char_budget
    Lengths,          \* lengths of what is said, answered and reasoned
    FanOut,         \* numbers of calls the model asks for
    MaxHistory      \* bound on the messages and on the calls

ASSUME ContextAssumption ==
    /\ MaxToolCalls \in Nat \ {0} /\ ContextBudget \in Nat \ {0}
    /\ FanOut \subseteq Nat /\ MaxHistory \in Nat

VARIABLES
    history,        \* the messages of the session
    preserve,       \* preserve_first_human: TRUE for a run, FALSE for a chat
    calls,          \* number of calls made so far
    answered        \* the calls whose results were once added (history)

contextVars == <<history, preserve, calls, answered>>

Entry(kind, chars, made, reasoning, args, answers) ==
    [kind |-> kind, chars |-> chars, calls |-> made, reasoning |-> reasoning,
     args |-> args, answers |-> answers]

Human(chars) == Entry("human", chars, <<>>, 0, 0, 0)

Least(a, b) == IF a < b THEN a ELSE b

Most(a, b) == IF a > b THEN a ELSE b

(* truncate_text: what says how much was left out comes on top of the limit. *)
Truncated(chars, limit) == IF chars <= limit THEN chars ELSE limit + 28

Size(m) == m.chars + Len(m.calls) * (70 + m.args) + m.reasoning + 68

Total(s) == FoldLeft(LAMBDA n, m : n + Size(m), 0, s)

FirstCalls(m) == SubSeq(m.calls, 1, Least(Len(m.calls), MaxToolCalls))

(* Reasoning is replayed whole with calls, or not at all. *)
CompactMessage(m, limit, argumentLimit) ==
    Entry(m.kind, Truncated(m.chars, Most(1, limit)), FirstCalls(m),
          IF m.calls = <<>> THEN 0 ELSE m.reasoning,
          Truncated(m.args, Most(16, argumentLimit)), m.answers)

(* Where the blocks of s from a position on begin, and where the last one ends. *)
LoneCuts(s, from) == from .. Len(s) + 1                              \* mutant
Cuts(s, from) == {from, Len(s) + 1} \cup {i \in from .. Len(s) : s[i].kind # "tool"}

NextCut(s, from, i) == Min({j \in Cuts(s, from) : j > i})

(* A message and the tool messages that come after it. *)
MessageBlock(s, from, i) == SubSeq(s, i, NextCut(s, from, i) - 1)

(* The results of calls that are left out go with them. *)
Filtered(block) ==
    LET Stays(m) == m.kind = "tool" => Contains(FirstCalls(block[1]), m.answers)
    IN  IF block[1].calls = <<>> \/ \A i \in 1 .. Len(block) : Stays(block[i])
        THEN block ELSE SelectSeq(block, Stays)

CompactEach(block, limit, argumentLimit) ==
    [i \in 1 .. Len(block) |-> CompactMessage(block[i], limit, argumentLimit)]

Share(budget, n) == Most(96, Least(5000, budget \div n - 96))

FirstFitting(fair, small, budget) ==
    IF Total(fair) <= budget THEN fair ELSE IF Total(small) <= budget THEN small ELSE <<>>

Shrunk(block, budget, share) ==
    FirstFitting(CompactEach(block, share, Least(1000, Most(64, share \div 2))),
                 CompactEach(block, 96, 48), budget)

(* The block compacted to the budget, or nothing when even its smallest form is more. *)
CompactBlock(block, budget) ==
    IF budget < 128 THEN <<>>
    ELSE Shrunk(Filtered(block), budget, Share(budget, Len(Filtered(block))))

(* What is kept of the blocks from each one on, the last one first, and whether *)
(* that is all of them: from the first that does not fit, nothing is.           *)
Keeping(s, from, budget) ==
    LET kept[i \in Cuts(s, from)] ==
            IF i = Len(s) + 1 THEN [all |-> TRUE, view |-> <<>>]
            ELSE LET later == kept[NextCut(s, from, i)]
                     block == CompactBlock(MessageBlock(s, from, i), budget - Total(later.view))
                 IN  [all |-> later.all /\ block # <<>>, view |-> block \o later.view]
    IN  kept

(* One line for each of the last twenty messages. *)
SummaryChars(omitted) ==
    Truncated(FoldLeft(LAMBDA n, m : n + 12 + Truncated(m.chars, 300), 140,
                       SubSeq(omitted, Most(1, Len(omitted) - 19), Len(omitted))), 4000)

FitsBudget(s) == Total(s) <= ContextBudget

SummaryReserve == Least(2500, Most(256, ContextBudget \div 8))

(* The first of the chosen blocks go until the rest fits; <<>> where it raises: a *)
(* summary that is too much with no block beside it is no less when it is cut to  *)
(* what the prefix leaves.                                                        *)
LongestFitting(head, kept, chosen) ==
    LET fitting == {i \in chosen : FitsBudget(head \o kept[i].view)}
    IN  IF fitting = {} THEN <<>> ELSE head \o kept[Min(fitting)].view

Summary(omitted) == Human(Truncated(SummaryChars(omitted), SummaryReserve))

WithSummary(prefix, s, from, kept) ==
    LET chosen == {i \in Cuts(s, from) : kept[i].all}
    IN  IF from \in chosen /\ FitsBudget(prefix \o kept[from].view)
        THEN prefix \o kept[from].view
        ELSE LongestFitting(prefix \o <<Summary(SubSeq(s, from, Min(chosen) - 1))>>, kept, chosen)

Behind(prefix, s, from) ==
    IF Total(prefix) >= ContextBudget THEN <<>>
    ELSE WithSummary(prefix, s, from,
                     Keeping(s, from, ContextBudget - Total(prefix) - SummaryReserve))

Prefix(s) ==
    IF preserve THEN <<s[1], CompactMessage(s[2], Least(4000, ContextBudget \div 4), 1000)>>
    ELSE <<s[1]>>

(* compact_messages *)
Compacted(s) ==
    IF FitsBudget(s) THEN s
    ELSE Behind(Prefix(s), s, Len(Prefix(s)) + 1)

----------------------------------------------------------------------------
(* The calls of the last message wait for their results. *)
Unanswered == Last(history).calls

MaySay(n) == Len(history) + n <= MaxHistory

(* A user's message, a correction, the notice of a resumption. *)
Ask(chars) ==
    /\ MaySay(1) /\ history' = Append(history, Human(chars))
    /\ UNCHANGED <<preserve, calls, answered>>

(* The request and limit_model_tool_calls: compact_messages must not have raised. *)
ModelResponds(n, chars, reasoning) ==
    /\ MaySay(1) /\ Unanswered = <<>> /\ calls + n <= MaxHistory /\ Compacted(history) # <<>>
    /\ LET made == [i \in 1 .. Least(n, MaxToolCalls) |-> calls + i]
           notice == IF n > MaxToolCalls THEN 80 ELSE 0
       IN  history' = Append(history, Entry("ai", chars + notice, made, reasoning, chars, 0))
    /\ calls' = calls + n
    /\ UNCHANGED <<preserve, answered>>

(* execute_tool_batch went through: a result for every call, in their order. *)
ToolsAnswer(chars) ==
    /\ Unanswered # <<>> /\ MaySay(Len(Unanswered))
    /\ history' = history \o [i \in 1 .. Len(Unanswered) |->
                                Entry("tool", chars, <<>>, 0, 0, Unanswered[i])]
    /\ answered' = answered \cup {Unanswered[i] : i \in 1 .. Len(Unanswered)}
    /\ UNCHANGED <<preserve, calls>>

(* _save of a chat, at any time: also when a batch was interrupted.  A run that *)
(* is resumed starts from its last checkpoint, which no unexecuted calls end.   *)
SaveHistory ==
    /\ preserve => Unanswered = <<>>
    /\ history' = Compacted(history) /\ history' \notin {<<>>, history}
    /\ UNCHANGED <<preserve, calls, answered>>

InitContext ==
    /\ preserve \in BOOLEAN /\ calls = 0 /\ answered = {}
    /\ history \in {<<Entry("system", 300, <<>>, 0, 0, 0)>>
                    \o (IF preserve THEN <<Human(chars)>> ELSE <<>>) : chars \in Lengths}

NextContext ==
    \/ SaveHistory
    \/ \E chars \in Lengths : Ask(chars) \/ ToolsAnswer(chars)
    \/ \E n \in FanOut, chars \in Lengths : ModelResponds(n, chars, 0) \/ ModelResponds(n, chars, chars)

ContextSpec == InitContext /\ [][NextContext]_contextVars

ContextTypeOK ==
    /\ preserve \in BOOLEAN /\ calls \in 0 .. MaxHistory /\ answered \subseteq 1 .. calls
    /\ \A i \in 1 .. Len(history) : history[i].kind \in {"system", "human", "ai", "tool"}

Made(view, i) == {view[i].calls[k] : k \in 1 .. Len(view[i].calls)}

Follows(view, i, j) == i < j /\ \A k \in i + 1 .. j : view[k].kind = "tool"

Paired(view) ==
    /\ \A j \in 1 .. Len(view) : view[j].kind = "tool" =>
          \E i \in 1 .. Len(view) : Follows(view, i, j) /\ view[j].answers \in Made(view, i)
    /\ \A i \in 1 .. Len(view) : \A call \in Made(view, i) \cap answered :
          \E j \in 1 .. Len(view) : Follows(view, i, j) /\ view[j].answers = call

(* The history a provider gets is one it accepts: a result comes after its call *)
(* with nothing but results in between, and a call that was answered still has  *)
(* its result, however often the history was compacted, saved and gone on from  *)
(* (compact_messages, _message_blocks).                                         *)
CallsKeepResults == Paired(Compacted(history))
=============================================================================
