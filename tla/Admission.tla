----------------------------- MODULE Admission -----------------------------
(***************************************************************************)
(* memory_admission.py with memory_core/experience.py and lifecycle.py:     *)
(* what a committed transaction leaves in the memory store.  An admission   *)
(* is several writes of the store (the workflow, the repair, one transition *)
(* for each card the capacity retires); other admissions come between them, *)
(* and it may be killed after any of them and be run again.                 *)
(***************************************************************************)
EXTENDS MemoryStore

CONSTANTS
    Admitter,       \* processes that admit
    Receipt,        \* committed transactions with a valid receipt
    IssuedAt,       \* Receipt -> when it was issued
    Checks,         \* Receipt -> the anchor of its verification matrix
    PatchChars,     \* Receipt -> length of its repair draft, 0 when there is none
    MaxRepairs,     \* CapacityPolicy.max_active_records_per_scope
    MaxRepairChars, \* CapacityPolicy.max_active_chars_per_scope
    MaxEvents,      \* an admission starts while card_events has fewer rows (bound)
    NoReceipt

ASSUME AdmissionAssumption ==
    /\ MaxRepairs \in Nat \ {0} /\ MaxRepairChars \in Nat \ {0}
    /\ IssuedAt \in [Receipt -> Nat] /\ PatchChars \in [Receipt -> Nat]
    /\ Checks \in [Receipt -> Anchor]

VARIABLES
    admission,  \* Admitter -> where it is
    admitted,   \* receipts whose workflow was admitted (history)
    settled     \* for each finished repair, the repairs its list named, and itself (history)

admissionVars == <<admission, admitted, settled>>

NoAdmission == [pc |-> "idle", receipt |-> NoReceipt, card |-> Nobody, retire |-> {}, listed |-> {}]

AdmissionAt(p, pc) == admission[p].pc = pc

(* ExperienceFactory.workflow and .repair *)
WorkflowDraft(r) == CardDraft("workflow", Checks[r], IssuedAt[r], 1)

RepairDraft(r) == CardDraft("repair", Checks[r], IssuedAt[r], PatchChars[r])

HasRepair(r) == PatchChars[r] > 0 /\ PatchChars[r] <= MaxRepairChars

----------------------------------------------------------------------------
(* select_retirements: the records are taken away, the oldest first, until   *)
(* the others fit together with the incoming one, or none is left.           *)
\* Leaves out the length of the incoming record.
FitWithout(s, cards, incoming) ==
    Cardinality(cards) + 1 <= MaxRepairs /\ CharsOf(s, cards) <= MaxRepairChars

FitBeside(s, cards, incoming) ==
    /\ Cardinality(cards) + 1 <= MaxRepairs
    /\ CharsOf(s, cards) + s.cards[incoming].chars <= MaxRepairChars

NewerThan(cards, k) == {c \in cards : Cardinality({d \in cards : d > c}) < k}

Retirements(s, cards, incoming) ==
    LET kept == Max({0} \cup {k \in 0 .. Cardinality(cards) :
                                  FitBeside(s, NewerThan(cards, k), incoming)})
    IN  cards \ NewerThan(cards, kept)

----------------------------------------------------------------------------
(* form_committed_transaction_memories: the receipt is valid and its checks   *)
(* passed, so the workflow is admitted.                                       *)
AdmitWorkflow(p, r) ==
    /\ AdmissionAt(p, "idle") /\ Len(store.events) < MaxEvents
    /\ store' = Upserted(store, WorkflowDraft(r), "receipt", r)
    /\ admission' = [admission EXCEPT ![p] = [NoAdmission EXCEPT !.pc = "repair", !.receipt = r]]
    /\ admitted' = admitted \cup {r}
    /\ UNCHANGED <<now, settled>>

(* A patch that is empty, binary, too long or looks like a secret leaves none. *)
NoRepair(p) ==
    /\ AdmissionAt(p, "repair") /\ ~HasRepair(admission[p].receipt)
    /\ admission' = [admission EXCEPT ![p] = NoAdmission]
    /\ UNCHANGED <<storeVars, admitted, settled>>

AddRepair(p) ==
    LET r == admission[p].receipt
        added == OnceFor(store, RepairDraft(r), "receipt", r)
    IN  /\ AdmissionAt(p, "repair") /\ HasRepair(r)
        /\ store' = added.store
        /\ admission' = [admission EXCEPT ![p].pc = "list", ![p].card = added.card]
        /\ UNCHANGED <<now, admitted, settled>>

(* _enforce_repair_capacity reads the active repairs once. *)
ListRepairs(p) ==
    LET mine == admission[p].card
        others == {c \in ActiveCards(store) : store.cards[c].kind = "repair"} \ {mine}
    IN  /\ AdmissionAt(p, "list")
        /\ admission' = [admission EXCEPT ![p].pc = "retire", ![p].listed = others \cup {mine},
                                          ![p].retire = Retirements(store, others, mine)]
        /\ UNCHANGED <<storeVars, admitted, settled>>

(* One after the other, the oldest first. *)
RetireNext(p) ==
    LET oldest == Min(admission[p].retire)
    IN  /\ AdmissionAt(p, "retire") /\ admission[p].retire # {}
        /\ store' = WithEvent(store, oldest, "stale")
        /\ admission' = [admission EXCEPT ![p].retire = @ \ {oldest}]
        /\ UNCHANGED <<now, admitted, settled>>

Settle(p) ==
    /\ AdmissionAt(p, "retire") /\ admission[p].retire = {}
    /\ settled' = settled \cup {admission[p].listed}
    /\ admission' = [admission EXCEPT ![p] = NoAdmission]
    /\ UNCHANGED <<storeVars, admitted>>

(* The process dies, or a write fails: the caller skips what is left *)
(* (transaction_cli.py:455-459).                                     *)
Abandon(p) ==
    /\ ~AdmissionAt(p, "idle")
    /\ admission' = [admission EXCEPT ![p] = NoAdmission]
    /\ UNCHANGED <<storeVars, admitted, settled>>

(* The user forgets a card (conversation_memory.py:399-408), which may have *)
(* been retired since it was looked up.  At most once, to bound the model.  *)
UserForgets(c) ==
    /\ \A i \in 1 .. Len(store.events) : store.events[i].status # "tombstoned"
    /\ store' = WithEvent(store, c, "tombstoned")
    /\ UNCHANGED <<now, admissionVars>>

----------------------------------------------------------------------------
InitAdmission ==
    admission = [p \in Admitter |-> NoAdmission] /\ admitted = {} /\ settled = {}

AdmissionStep(p) ==
    \/ NoRepair(p) \/ AddRepair(p) \/ ListRepairs(p) \/ RetireNext(p) \/ Settle(p) \/ Abandon(p)

NextAdmission ==
    \/ \E p \in Admitter :
          \/ AdmissionStep(p)
          \/ \E r \in Receipt : AdmitWorkflow(p, r)
    \/ \E c \in CardOf(store) : UserForgets(c)
    \/ Tick /\ UNCHANGED admissionVars

AdmissionTypeOK ==
    /\ \A p \in Admitter :
          /\ admission[p].pc \in {"idle", "repair", "list", "retire"}
          /\ admission[p].receipt \in Receipt \cup {NoReceipt}
          /\ admission[p].card \in CardOf(store) \cup {Nobody}
          /\ admission[p].listed \subseteq CardOf(store)
    /\ admitted \subseteq Receipt
    /\ \A cards \in settled : cards \subseteq CardOf(store)

----------------------------------------------------------------------------
(* Properties *)

(* A workspace has at most one active verified workflow, however receipts of  *)
(* old and new check matrices arrive, repeat and cross with what the user     *)
(* forgets (upsert_scoped_singleton); and a receipt has at most one repair    *)
(* card, though its admission is killed, repeated or run twice at once, and   *)
(* though the first card was retired meanwhile (add_card_once_for_source).    *)
ObservedOnce ==
    /\ Cardinality({c \in ActiveCards(store) : store.cards[c].kind = "workflow"}) <= 1
    /\ \A x, y \in store.sources :
           x.ref = y.ref /\ store.cards[x.card].kind = "repair" /\ store.cards[y.card].kind = "repair"
           => x.card = y.card

(* Once _enforce_repair_capacity has finished, the repairs it listed and its  *)
(* own that are still active fit the capacity together, whatever was killed   *)
(* or added between its reading and its writes.                               *)
SettledRepairsFit ==
    \A cards \in settled :
        LET left == cards \cap ActiveCards(store)
        IN  Cardinality(left) <= MaxRepairs /\ CharsOf(store, left) <= MaxRepairChars

(* docs/memory.md:233: versions are ordered by the receipts' issue times and a *)
(* late older receipt does not replace the newer active configuration.  Until  *)
(* the user forgets a card, the active workflow is the one observed last of    *)
(* those admitted.                                                             *)
NewestWorkflowActive ==
    (\A i \in 1 .. Len(store.events) : store.events[i].status # "tombstoned") =>
        \A c \in ActiveCards(store) : \A r \in admitted :
            store.cards[c].kind = "workflow" /\ (\A q \in admitted : IssuedAt[q] <= IssuedAt[r])
            => store.cards[c].anchor = Checks[r]
=============================================================================
