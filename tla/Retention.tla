----------------------------- MODULE Retention -----------------------------
(***************************************************************************)
(* memory_core.continuity: which memories stay active when a new one comes *)
(* and there is no room.  The planner only plans; the host marks what it   *)
(* names as retired, or forms the checkpoint it asks for, and asks again.  *)
(***************************************************************************)
EXTENDS Naturals, FiniteSets, FiniteSetsExt

CONSTANTS NoMemory,          \* no incoming memory
          NoAnchor,          \* a blank identity anchor
          Kind,              \* what memories can be like
          MaxRecords,        \* policy.max_active_records
          MaxChars,          \* policy.max_active_chars
          ProtectCore, ProtectDurable, ProtectPinned,   \* policy.protect_*
          PreserveAnchors,   \* policy.preserve_anchor_coverage
          BatchRecords,      \* policy.checkpoint_batch_records
          MaxTold, MaxToldChars,   \* ContinuityRecallPolicy.max_items, .max_chars
          CheckpointChars,   \* the lengths of the host's summaries
          MaxId              \* bound on the memories there are at a time

Class == {"transient", "episodic", "durable", "core"}

(* worth stands for importance, confidence, use and age: 0 to 4, twice the  *)
(* distance between two classes.                                            *)
KindType == [class : Class, worth : 0 .. 4, chars : Nat \ {0}, pinned : BOOLEAN,
             anchor : {k.anchor : k \in Kind}]

ASSUME RetentionPolicyAssumption ==
    /\ Kind \subseteq KindType
    /\ MaxRecords \in Nat \ {0} /\ MaxChars \in Nat \ {0}
    /\ {ProtectCore, ProtectDurable, ProtectPinned, PreserveAnchors} \subseteq BOOLEAN
    /\ BatchRecords \in Nat \ {0, 1}
    /\ MaxTold \in Nat \ {0} /\ MaxToldChars \in Nat \ {0}
    /\ CheckpointChars \subseteq Nat \ {0} /\ CheckpointChars # {}
    /\ MaxId \in Nat

VARIABLES
    records,   \* the active memories
    incoming   \* the memory to be admitted

retentionVars == <<records, incoming>>

Rank(class) ==
    CASE class = "transient" -> 0 [] class = "episodic" -> 1
      [] class = "durable" -> 2   [] class = "core" -> 3

RetentionTypeOK ==
    /\ \A r \in records \cup ({incoming} \ {NoMemory}) :
          r.id \in 1 .. MaxId /\ r.valid \in BOOLEAN /\ r.class \in Class
    /\ \A r, s \in records : r.id = s.id => r = s

----------------------------------------------------------------------------
(* The planner *)

Chars(R) == MapThenSumSet(LAMBDA r : r.chars, R)

Utility(r) == 2 * Rank(r.class) + r.worth

(* The order in which candidates go: by utility, then by id. *)
GoesBefore(r, s) ==
    Utility(r) < Utility(s) \/ (Utility(r) = Utility(s) /\ r.id < s.id)

(* Which record of an anchor survives: by class, then worth, then id. *)
Outlasts(r, s) ==
    \/ Rank(r.class) > Rank(s.class)
    \/ r.class = s.class /\ r.worth > s.worth
    \/ r.class = s.class /\ r.worth = s.worth /\ r.id >= s.id

Shielded(r) ==
    /\ r.valid
    /\ \/ ProtectCore /\ r.class = "core"
       \/ ProtectDurable /\ r.class = "durable"
       \/ ProtectPinned /\ r.pinned

AnchoredUnchecked(R, a) ==                                           \* mutant
    {r \in R : r.anchor = a /\ a # NoAnchor /\ r.class \in {"core", "durable"}}
Anchored(R, a) ==
    {r \in R : r.valid /\ r.anchor = a /\ a # NoAnchor /\ r.class \in {"core", "durable"}}

Survivors(R) ==
    {r \in R : /\ r \in Anchored(R, r.anchor)
               /\ \A s \in Anchored(R, r.anchor) : ~Shielded(s) /\ Outlasts(r, s)}

ProtectedIds(R) ==
    {r \in R : Shielded(r)} \cup (IF PreserveAnchors THEN Survivors(R) ELSE {})

FitsExactly(R, r) ==                                                 \* mutant
    Cardinality(R) <= MaxRecords /\ Chars(R) + r.chars <= MaxChars
Fits(R, r) ==
    Cardinality(R) + 1 <= MaxRecords /\ Chars(R) + r.chars <= MaxChars

Plan(reason, retire, compact) == [reason |-> reason, retire |-> retire, compact |-> compact]

Refusal(reason) == Plan(reason, {}, {})

(* The n candidates that go first. *)
Foremost(candidates, n) ==
    {r \in candidates : Cardinality({s \in candidates : GoesBefore(s, r)}) < n}

(* The batch of a compaction: the episodic candidates the loop chose; when   *)
(* records are too many, at least two, with the next one.                   *)
Batch(candidates, chosen) ==
    LET episodic == {r \in candidates : r.class = "episodic"}
        minimum == IF Cardinality(records) + 1 > MaxRecords THEN 2 ELSE 1
        wanted == IF chosen < minimum THEN minimum ELSE chosen
    IN IF Cardinality(episodic) < wanted THEN {}
       ELSE Foremost(episodic, IF wanted < BatchRecords THEN wanted ELSE BatchRecords)

PlanRetention(r) ==
    LET invalid == {s \in records : ~s.valid}
        valid == records \ invalid
        candidates == valid \ ProtectedIds(records)
        left(n) == valid \ Foremost(candidates, n)
        enough == {n \in 0 .. Cardinality(candidates) :
                      n = Cardinality(candidates) \/ Fits(left(n), r)}
        k == CHOOSE n \in enough : \A m \in enough : n <= m
        gone == Foremost(candidates, k)
        episodic == {s \in gone : s.class = "episodic"}
        batch == Batch(candidates, Cardinality(episodic))
    IN CASE ~r.valid           -> Refusal("incoming_source_invalid")
         [] r.valid /\ r.chars > MaxChars -> Refusal("incoming_exceeds_capacity")
         [] r.valid /\ r.chars <= MaxChars /\ ~Fits(left(k), r)
                               -> Refusal("protected_capacity_exhausted")
         [] r.valid /\ Fits(left(k), r) /\ episodic = {}
                               -> Plan("admit", invalid \cup gone, {})
         [] r.valid /\ Fits(left(k), r) /\ episodic # {} /\ batch = {}
                               -> Refusal("protected_capacity_exhausted")
         [] OTHER              -> Plan("checkpoint_compaction_required", {}, batch)

----------------------------------------------------------------------------
(* select_continuity_context: what a new session is told *)

(* With a separator between two texts. *)
ContextChars(R) == Chars(R) + (IF R = {} THEN 0 ELSE Cardinality(R) - 1)

(* Pinned memories come first, then core before durable, then worth. *)
Weight(r) == (IF r.pinned THEN 20 ELSE 0) + 5 * Rank(r.class) + r.worth

ToldBefore(r, s) == Weight(r) > Weight(s) \/ (Weight(r) = Weight(s) /\ r.id < s.id)

Lasting(R, durable) ==
    {r \in R : r.valid /\ (r.class = "core" \/ (durable /\ r.class = "durable"))}

(* A memory is taken if the prompt has room for it beside those taken before it. *)
HasRoom(told, r) ==
    LET above == {s \in told : ToldBefore(s, r)}
    IN  Cardinality(above) < MaxTold /\ ContextChars(above \cup {r}) <= MaxToldChars

Told(R, durable) ==
    CHOOSE told \in SUBSET Lasting(R, durable) :
        \A r \in Lasting(R, durable) : r \in told <=> HasRoom(told, r)

OmittedCore(R, told) == Lasting(R, FALSE) \ told

----------------------------------------------------------------------------
(* The host *)

InitRetention == records = {} /\ incoming = NoMemory

FreeId == CHOOSE n \in 1 .. MaxId : \A r \in records \cup ({incoming} \ {NoMemory}) : r.id # n

Memory(kind, id) ==
    [id |-> id, class |-> kind.class, worth |-> kind.worth, chars |-> kind.chars,
     pinned |-> kind.pinned, anchor |-> kind.anchor, valid |-> TRUE]

Offer(kind) ==
    /\ incoming = NoMemory
    /\ Cardinality(records) < MaxId
    /\ incoming' = Memory(kind, FreeId)
    /\ UNCHANGED records

(* The host applies a plan that admits, and forgets one that refuses. *)
Decide ==
    /\ incoming # NoMemory
    /\ LET plan == PlanRetention(incoming)
       IN /\ plan.reason # "checkpoint_compaction_required"
          /\ records' = IF plan.reason = "admit"
                        THEN (records \ plan.retire) \cup {incoming} ELSE records
    /\ incoming' = NoMemory

(* It forms the checkpoint: one episode, shorter than those it is of, in     *)
(* place of them; then it plans again.                                       *)
FormCheckpoint(chars) ==
    /\ incoming # NoMemory
    /\ LET plan == PlanRetention(incoming)
           summary == [id |-> (CHOOSE r \in plan.compact : TRUE).id, class |-> "episodic",
                       worth |-> 0, chars |-> chars, pinned |-> FALSE,
                       anchor |-> NoAnchor, valid |-> TRUE]
       IN /\ plan.reason = "checkpoint_compaction_required"
          /\ chars <= Chars(plan.compact)
          /\ records' = (records \ plan.compact) \cup {summary}
    /\ UNCHANGED incoming

(* A message that a memory rests on is edited: invalid_source_bindings names it. *)
SourceEdited(r) ==
    /\ r.valid
    /\ records' = (records \ {r}) \cup {[r EXCEPT !.valid = FALSE]}
    /\ UNCHANGED incoming

(* The user withdraws what was remembered. *)
Withdraw(r) == records' = records \ {r} /\ UNCHANGED incoming

NextRetention ==
    \/ \E k \in Kind : Offer(k)
    \/ Decide
    \/ \E c \in CheckpointChars : FormCheckpoint(c)
    \/ \E r \in records : SourceEdited(r) \/ Withdraw(r)

----------------------------------------------------------------------------
(* Properties *)

(* A session is told every core memory where those, with what is pinned, fit *)
(* the prompt, however large the other memories are.                         *)
CoreIsTold(durable) ==
    LET first == {r \in Lasting(records, durable) : r.class = "core" \/ r.pinned}
    IN  Cardinality(first) <= MaxTold /\ ContextChars(first) <= MaxToldChars
        => OmittedCore(records, Told(records, durable)) = {}

(* However memories come and go, the active ones never exceed the capacity,  *)
(* and none of the core is left out of a prompt that has room for it         *)
(* (plan_long_term_retention, select_continuity_context).                    *)
WithinCapacity ==
    /\ Cardinality(records) <= MaxRecords /\ Chars(records) <= MaxChars
    /\ \A durable \in BOOLEAN : CoreIsTold(durable)

Covered(R) == {a \in {r.anchor : r \in R} : Anchored(R, a) # {}}

(* No planning decision, and no compaction it asks for, forgets the last    *)
(* core or durable memory of an identity anchor: only an edit of its source *)
(* or the user's own withdrawal ends it.                                    *)
AnchorsKept ==
    [][(\E c \in CheckpointChars : Decide \/ FormCheckpoint(c))
           => Covered(records) \subseteq Covered(records')]_retentionVars
=============================================================================
