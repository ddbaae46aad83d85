--------------------------- MODULE MutationLedger ---------------------------
(***************************************************************************)
(* memory_core.mutations: an append-only log of semantic changes to the    *)
(* fields of a stream, with optimistic revisions, snapshots that replace   *)
(* the log, and a restart from the snapshot and the log a durable host     *)
(* kept.  Several writers build mutations from the revision they read; a   *)
(* mutation may reach the ledger late, twice, or never.                    *)
(* A mutation's id is a digest of it: the mutation stands for its id.      *)
(***************************************************************************)
EXTENDS Naturals, Sequences, FiniteSets

CONSTANTS Nothing,      \* a field that no mutation has touched, no value, no snapshot
          Field,        \* (entity, predicate) pairs
          Value,        \* JSON values
          Schema,       \* (schema id, version) pairs that mutations may name
          Draft,        \* what writers want to change
          Fields,       \* Fields[s]: the predicates schema s of the ledger is for
          Typed,        \* Typed[s]: the values of its value_type
          Limit,        \* Limit[s]: its max_authority
          Retained,     \* Retained[s]: its retention class
          MaxSent       \* bound on the mutations that writers build

Authority == 0 .. 2     \* none, inform, act: _AUTHORITY_RANK
Operation == {"assert", "dispute", "withdraw"}
RetentionClass == {"transient", "episodic", "durable", "core"}

ASSUME SchemaAssumption ==
    /\ Fields \in [Schema -> SUBSET Field]
    /\ Typed \in [Schema -> SUBSET Value]
    /\ Limit \in [Schema -> Authority]
    /\ Retained \in [Schema -> RetentionClass]
    /\ Nothing \notin Value
    /\ MaxSent \in Nat

(* __post_init__ asks for a value to assert; the other operations may have one. *)
ASSUME DraftAssumption ==
    \A d \in Draft :
        /\ d \in [operation : Operation, field : Field, value : Value \cup {Nothing},
                  schema : Schema, authority : Authority]
        /\ d.operation = "assert" => d.value # Nothing

VARIABLES
    state,      \* MutationLedger._state
    revision,   \* MutationLedger._revision
    mutations,  \* MutationLedger._mutations: the active log segment
    snapshot,   \* MutationLedger._snapshot
    sent        \* the mutations that writers built

mutationVars == <<state, revision, mutations, snapshot, sent>>

(* A draft on a revision. *)
Mutation == [base : 0 .. MaxSent, change : Draft]

Materialized == [status : {"active", "disputed", "withdrawn"}, value : Value \cup {Nothing},
                 authority : Authority, mutation : Mutation, retention : RetentionClass]

Snapshot == [through : 0 .. MaxSent, state : [Field -> Materialized \cup {Nothing}]]

ASSUME NothingAssumption == Nothing \notin Materialized /\ Nothing \notin Snapshot

MutationsTypeOK ==
    /\ state \in [Field -> Materialized \cup {Nothing}]
    /\ revision \in 0 .. MaxSent
    /\ mutations \in Seq(Mutation)
    /\ snapshot \in Snapshot \cup {Nothing}
    /\ sent \subseteq Mutation

----------------------------------------------------------------------------
(* append *)

(* The schema is the ledger's, its authority suffices, and what is asserted *)
(* has its type.                                                            *)
Admissible(m) ==
    /\ m.change.field \in Fields[m.change.schema]
    /\ m.change.authority <= Limit[m.change.schema]
    /\ m.change.operation = "assert" => m.change.value \in Typed[m.change.schema]

StatusAsWritten(operation) == operation                              \* mutant
StatusAfter(operation) ==
    CASE operation = "assert"   -> "active"
      [] operation = "dispute"  -> "disputed"
      [] operation = "withdraw" -> "withdrawn"

(* A change without a value keeps the one that is there. *)
Applied(m, previous) ==
    [status |-> StatusAfter(m.change.operation),
     value |-> IF m.change.value = Nothing /\ previous # Nothing THEN previous.value ELSE m.change.value,
     authority |-> m.change.authority,
     mutation |-> m,
     retention |-> Retained[m.change.schema]]

Logged(m) == \E k \in 1 .. Len(mutations) : mutations[k] = m

StaleAccepted(m) == ~Logged(m) /\ m.base <= revision /\ Admissible(m)     \* mutant
Accepted(m) == ~Logged(m) /\ m.base = revision /\ Admissible(m)

(* Any other delivery is answered already_committed, conflict or rejected, *)
(* and changes nothing.                                                    *)
Commit(m) ==
    /\ Accepted(m)
    /\ state' = [state EXCEPT ![m.change.field] = Applied(m, @)]
    /\ mutations' = Append(mutations, m)
    /\ revision' = m.base + 1
    /\ UNCHANGED <<snapshot, sent>>

----------------------------------------------------------------------------
(* Writers, snapshots and restarts *)

InitMutations ==
    /\ state = [f \in Field |-> Nothing] /\ revision = 0
    /\ mutations = <<>> /\ snapshot = Nothing
    /\ sent = {}

(* A writer builds a mutation on the revision it reads, and sends it later. *)
Build(d) ==
    /\ Cardinality(sent) < MaxSent
    /\ sent' = sent \cup {[base |-> revision, change |-> d]}
    /\ UNCHANGED <<state, revision, mutations, snapshot>>

(* The state goes to the snapshot, the log and its ids are cleared. *)
Compact ==
    /\ snapshot' = [through |-> revision, state |-> state]
    /\ mutations' = <<>>
    /\ UNCHANGED <<state, revision, sent>>

Restored == IF snapshot = Nothing THEN [f \in Field |-> Nothing] ELSE snapshot.state

RestoredFromStart == 0                                               \* mutant
RestoredRevision == IF snapshot = Nothing THEN 0 ELSE snapshot.through

(* One mutation of a log is appended to a ledger made again; one that it would *)
(* not accept is left out.                                                     *)
Replay(before, m) ==
    IF m.base = before.revision /\ Admissible(m)
    THEN [state |-> [before.state EXCEPT ![m.change.field] = Applied(m, @)],
          revision |-> m.base + 1]
    ELSE before

(* State and revision after the mutations of a log are appended to a ledger *)
(* made from the snapshot.                                                  *)
Replayed(log) ==
    LET after[k \in 0 .. Len(log)] ==
            IF k = 0 THEN [state |-> Restored, revision |-> RestoredRevision]
            ELSE Replay(after[k - 1], log[k])
    IN after[Len(log)]

(* A durable host makes the ledger again from the snapshot and the log. *)
Restart ==
    /\ state' = Replayed(mutations).state
    /\ revision' = Replayed(mutations).revision
    /\ UNCHANGED <<mutations, snapshot, sent>>

NextMutations ==
    \/ \E d \in Draft : Build(d)
    \/ \E m \in sent : Commit(m)
    \/ Compact
    \/ Restart

MutationSpec == InitMutations /\ [][NextMutations]_mutationVars

----------------------------------------------------------------------------
(* Properties *)

(* The ledger, with its log, its snapshots, restarts and repeated           *)
(* deliveries, does what SemanticState says: no change is lost, repeated or *)
(* made on a state its writer did not know.                                 *)
Semantic == INSTANCE SemanticState WITH
    facts <- state, version <- revision, Nothing <- Nothing,
    MayChange <- Admissible, Changed <- Applied

LedgerImplementsSemantic == Semantic!Spec

(* A field that was withdrawn comes back only by a writer who knew that:    *)
(* a delivery that was built before the withdrawal cannot undo it, in this  *)
(* log segment, after a compaction or after a restart.                      *)
ForgottenStaysForgotten ==
    [][\A f \in Field :
          (state[f] # Nothing /\ state[f].status = "withdrawn") =>
              \/ state'[f] # Nothing /\ state'[f].status = "withdrawn"
              \/ state'[f] # Nothing /\ state'[f].mutation.base > state[f].mutation.base
      ]_mutationVars
=============================================================================
