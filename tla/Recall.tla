------------------------------- MODULE Recall -------------------------------
(***************************************************************************)
(* memory_retrieval.py, rendering.py and semantic.py of memory_core: what a *)
(* run or a chat turn is reminded of.  A recall reads the store in many      *)
(* statements and may wait for an embedding endpoint in between, while       *)
(* other processes record, correct and forget.  Scores are left open: any    *)
(* choice among the ranked memories is allowed.                              *)
(***************************************************************************)
EXTENDS MemoryStore

CONSTANTS
    Similar,        \* Anchor -> likeness to the query (_direct_similarity), in hundredths
    Meaning,        \* Anchor -> likeness of the embeddings, in hundredths
    MinExcluded, MinMargin, MinMeaning,     \* thresholds, in hundredths
    MaxItems,       \* query.limit and max_items
    MaxContext,     \* max_chars of the budget
    MaxChanges      \* bound on what other processes write

ASSUME RecallAssumption ==
    /\ Similar \in [Anchor -> 0 .. 100] /\ Meaning \in [Anchor -> 0 .. 100]
    /\ {MinExcluded, MinMargin, MinMeaning} \subseteq 0 .. 100
    /\ MaxItems \in Nat \ {0} /\ MaxContext \in Nat /\ MaxChanges \in Nat

VARIABLES
    recall,     \* the recall in progress
    selected,   \* selected cards of each row of memory_decisions
    vectors,    \* texts in the embedding cache
    gone,       \* cards that were not active when the recall began (history)
    changes

recallVars == <<recall, selected, vectors, gone, changes>>

NoRecall == [pc |-> "idle", ids |-> {}, rows |-> {}, active |-> {}, rest |-> {},
             moment |-> 0, scoped |-> {}, eligible |-> {}, near |-> {}, wanted |-> {},
             graph |-> {}, items |-> {}, shown |-> {}]

RecallAt(pc) == recall.pc = pc
TextOf(c) == store.cards[c].anchor
Touches(s, e, c) == e \in s.edges /\ (e[1] = c \/ e[2] = c)

(* The rest of the system while the recall takes a step. *)
Reads == UNCHANGED <<storeVars, selected, gone, changes>>

RecallGoes(r) == recall' = r /\ Reads /\ UNCHANGED vectors

----------------------------------------------------------------------------
(* verify: its statements do not share a transaction *)

(* Rows refer to cards, and every card has a state event and a source. *)
Intact(s) ==
    /\ \A i \in 1 .. Len(s.events) : s.events[i].card \in CardOf(s)
    /\ \A x \in s.sources : x.card \in CardOf(s)
    /\ s.edges \subseteq CardOf(s) \X CardOf(s)
    /\ \A c \in CardOf(s) : SourcesOf(s, c) # {} /\ \E i \in 1 .. Len(s.events) : s.events[i].card = c

(* retrieve_workspace_context verifies the store; a chat does not. *)
StartRecall(pc) ==
    /\ recall.pc \in {"idle", "done", "failed"} /\ store # EmptyStore
    /\ recall' = [NoRecall EXCEPT !.pc = pc]
    /\ gone' = CardOf(store) \ ActiveCards(store)
    /\ UNCHANGED <<storeVars, selected, vectors, changes>>

ListIds ==
    /\ RecallAt("verify")
    /\ RecallGoes([recall EXCEPT !.pc = IF Intact(store) THEN "decisions" ELSE "failed",
                             !.ids = CardOf(store)])

CheckDecisions ==
    /\ RecallAt("decisions")
    /\ RecallGoes([recall EXCEPT !.pc = IF \A cards \in selected : cards \subseteq recall.ids
                                    THEN "rows" ELSE "failed"])

----------------------------------------------------------------------------
(* retrieve *)

(* list_cards: the rows, then the status of each; then the clock is read. *)
ListRows ==
    /\ RecallAt("rows")
    /\ RecallGoes([recall EXCEPT !.pc = "statuses", !.rows = CardOf(store)])

ListStatuses ==
    /\ RecallAt("statuses")
    /\ RecallGoes([recall EXCEPT !.pc = "sources", !.rest = recall.rows, !.moment = now,
                             !.active = recall.rows \cap ActiveCards(store)])

ValidAt(c) == store.cards[c].from <= recall.moment

(* A card without evidence is left out; one that is retired or not valid is kept *)
(* to be compared with.  *)
LookAtSources ==
    /\ RecallAt("sources") /\ recall.rest # {}
    /\ LET c == Max(recall.rest)
           backed == IF SourcesOf(store, c) # {} THEN {c} ELSE {}
       IN  RecallGoes([recall EXCEPT !.rest = @ \ {c}, !.scoped = @ \cup backed,
                                 !.eligible = @ \cup {d \in backed : d \in recall.active /\ ValidAt(d)}])

(* _rank: matches of words and anchors, and the semantic route if there is one. *)
Match(semantic) ==
    /\ RecallAt("sources") /\ recall.rest = {}
    /\ RecallGoes([recall EXCEPT !.pc = IF semantic /\ recall.eligible # {} THEN "embed" ELSE "relations",
                             !.ids = {}, !.rows = {}, !.active = {},
                             !.near = {c \in recall.eligible : Similar[TextOf(c)] > 0},
                             !.rest = {c \in recall.eligible : Similar[TextOf(c)] > 0}])

(* EmbeddingCandidateProvider._rank: texts that are not in the cache are sent. *)
AskEndpoint ==
    /\ RecallAt("embed")
    /\ RecallGoes([recall EXCEPT !.pc = "cache", !.wanted = {TextOf(c) : c \in recall.eligible} \ vectors])

(* Each new vector is written to the cache by itself. *)
CacheVector ==
    /\ RecallAt("cache")
    /\ \E text \in recall.wanted :
          /\ vectors' = vectors \cup {text}
          /\ recall' = [recall EXCEPT !.wanted = @ \ {text}]
    /\ Reads

RankByMeaning ==
    /\ RecallAt("cache") /\ recall.wanted = {}
    /\ LET close == {c \in recall.eligible : Meaning[TextOf(c)] >= MinMeaning}
       IN  RecallGoes([recall EXCEPT !.pc = "relations", !.near = @ \cup close, !.rest = @ \cup close])

(* fail_open: without an answer, or with a cache that cannot be written, the *)
(* recall goes on without this route.                                        *)
FailOpen ==
    /\ recall.pc \in {"embed", "cache"}
    /\ RecallGoes([recall EXCEPT !.pc = "relations", !.wanted = {}])

\* A neighbour may be any card of the store.
AnyNeighbour(c) == {d \in CardOf(store) \ {c} : \E e \in store.edges : Touches(store, e, c) /\ Touches(store, e, d)}

Neighbour(c) ==
    {d \in recall.eligible \ {c} : \E e \in store.edges : Touches(store, e, c) /\ Touches(store, e, d)}

(* Relations of each seed are read by themselves; with three cards every match is *)
(* a seed.                                                                         *)
Expand ==
    /\ RecallAt("relations") /\ recall.rest # {}
    /\ LET c == Max(recall.rest)
       IN  RecallGoes([recall EXCEPT !.rest = @ \ {c}, !.graph = @ \cup (Neighbour(c) \ recall.near)])

Likeness(cards) == Max({0} \cup {Similar[TextOf(c)] : c \in cards})

(* A memory that is retired or not valid, and fits better than every other one. *)
Outdone ==
    LET best == Likeness(recall.scoped \ recall.eligible)
    IN  best >= MinExcluded /\ best > Likeness(recall.eligible) + MinMargin

(* Too low a score and too small a margin abstain as well. *)
Abstain ==
    /\ RecallAt("relations") /\ recall.rest = {}
    /\ RecallGoes([NoRecall EXCEPT !.pc = "done"])

Pick ==
    /\ RecallAt("relations") /\ recall.rest = {} /\ ~Outdone
    /\ \E items \in SUBSET (recall.near \cup recall.graph) :
          /\ items # {} /\ Cardinality(items) <= MaxItems
          /\ RecallGoes([NoRecall EXCEPT !.pc = "render", !.items = items])

(* render_context: items in order until one does not fit. *)
Render ==
    /\ RecallAt("render")
    /\ \E shown \in SUBSET recall.items :
          /\ CharsOf(store, shown) <= MaxContext
          /\ shown = recall.items
             \/ \E c \in recall.items \ shown : CharsOf(store, shown \cup {c}) > MaxContext
          /\ RecallGoes([NoRecall EXCEPT !.pc = "done", !.shown = shown])

(* The process is killed. *)
Forsake ==
    /\ recall.pc \notin {"idle", "done", "failed"}
    /\ RecallGoes(NoRecall)

----------------------------------------------------------------------------
(* Other processes *)

Changes(s, cards) ==
    /\ changes < MaxChanges /\ changes' = changes + 1
    /\ store' = s /\ selected' = selected \cup cards
    /\ UNCHANGED <<now, recall, vectors, gone>>

NewDraft(text, from) == CardDraft("explicit", text, from, 1)

Elsewhere ==
    \/ \E text \in Anchor, from \in {0, MaxNow} :
          Changes(OnceFor(store, NewDraft(text, from), "note", NextCard(store)).store, {})
    \/ \E c \in CardOf(store) :
          \/ Changes(WithEvent(store, c, "tombstoned"), {})
          \/ \E text \in Anchor : Changes(Replaced(store, c, NewDraft(text, now), "note", NextCard(store)), {})
          \/ \E d \in CardOf(store) : c < d /\ Changes([store EXCEPT !.edges = @ \cup {<<c, d>>}], {})
    \/ \E cards \in (SUBSET CardOf(store)) \ {{}} : Changes(store, {cards})

----------------------------------------------------------------------------
InitRecall ==
    /\ recall = NoRecall /\ selected = {} /\ vectors = {} /\ gone = {} /\ changes = 0

NextRecall ==
    \/ \E pc \in {"verify", "rows"} : StartRecall(pc)
    \/ ListIds \/ CheckDecisions \/ ListRows \/ ListStatuses \/ LookAtSources
    \/ \E semantic \in BOOLEAN : Match(semantic)
    \/ AskEndpoint \/ CacheVector \/ RankByMeaning \/ FailOpen
    \/ Expand \/ Abstain \/ Pick \/ Render \/ Forsake
    \/ Elsewhere
    \/ Tick /\ UNCHANGED recallVars

RecallTypeOK ==
    /\ recall.pc \in {"idle", "verify", "decisions", "rows", "statuses", "sources", "embed",
                     "cache", "relations", "render", "done", "failed"}
    /\ recall.eligible \subseteq recall.scoped
    /\ vectors \subseteq Anchor /\ changes \in 0 .. MaxChanges
    /\ \A cards \in selected : cards \subseteq CardOf(store)

----------------------------------------------------------------------------
(* Properties *)

(* Whatever is written while a recall reads the store, waits for an endpoint  *)
(* and follows relations: it brings back no memory that was forgotten or       *)
(* corrected before it began; it uses no memory in the place of one that was   *)
(* retired before it began and fits the query better by more than the margin;  *)
(* and it fails only where a decision names a card that was recorded after its *)
(* list of cards was read (EvidenceTemporalRetriever.retrieve, verify).        *)
RecallIsTrue ==
    /\ recall.shown \cap gone = {}
    /\ recall.shown # {} =>
          \A c \in gone : Similar[TextOf(c)] >= MinExcluded =>
              \E d \in CardOf(store) \ gone : Similar[TextOf(c)] <= Similar[TextOf(d)] + MinMargin
    /\ RecallAt("failed") => \E cards \in selected : Max(cards) > Max(recall.ids)
=============================================================================
