---------------------------- MODULE MCMemory --------------------------------
(* Instances of memory_core and of the local memory store for TLC.  The     *)
(* parts of memory_core share no state, and admissions, chats, backups and  *)
(* feedback are looked at one by one: a behaviour is one of a single part.  *)
EXTENDS Checkpoints, MutationLedger, Retention, Admission, MemoryBackup, MemoryFeedback, TLC

CONSTANTS name, mood, Eddy, Lin, identity, scene, alice,
          r1, r2, r3, pytest, ruff, p1, p2, tip,
          Part      \* the parts of the run

VARIABLE part

coreVars == <<chatVars, ledgerVars, mutationVars, retentionVars>>
localVars == <<conversationVars, backupVars>>
vars == <<coreVars, storeVars, admissionVars, localVars, feedbackVars, part>>

(* Two fields, a schema with text values and one with any. *)
MCFields == (identity :> {name}) @@ (scene :> {name, mood})
MCTyped == (identity :> {Eddy}) @@ (scene :> {Eddy, Lin})
MCLimit == (identity :> 1) @@ (scene :> 0)
MCRetained == (identity :> "core") @@ (scene :> "episodic")

Wish(operation, field, value, schema, authority) ==
    [operation |-> operation, field |-> field, value |-> value, schema |-> schema,
     authority |-> authority]

(* Changes that the schemas admit, and one of a wrong type, one of too much *)
(* authority and one whose schema is not for the field.                     *)
MCDraft ==
    {Wish("assert", name, Eddy, identity, 1), Wish("assert", name, Lin, scene, 0),
     Wish("withdraw", name, Nothing, identity, 0), Wish("dispute", name, Nothing, scene, 0),
     Wish("assert", name, Lin, identity, 1), Wish("assert", mood, Lin, scene, 1),
     Wish("assert", mood, Eddy, identity, 0)}

Like(class, worth, chars, pinned, anchor) ==
    [class |-> class, worth |-> worth, chars |-> chars, pinned |-> pinned, anchor |-> anchor]

(* Memories of every class; the cheap ones that are worth more than the dear *)
(* ones among them, and two classes for one anchor.                          *)
MCKind ==
    {Like("transient", 4, 2, FALSE, NoAnchor), Like("transient", 0, 1, TRUE, NoAnchor),
     Like("episodic", 0, 1, FALSE, NoAnchor), Like("episodic", 1, 2, FALSE, alice),
     Like("durable", 0, 1, FALSE, alice), Like("durable", 2, 2, FALSE, alice),
     Like("core", 0, 1, FALSE, alice)}

(* Three receipts: the checks of the first were changed and changed back. *)
MCIssuedAt == (r1 :> 1) @@ (r2 :> 2) @@ (r3 :> 3)
MCChecks == (r1 :> pytest) @@ (r2 :> ruff) @@ (r3 :> pytest)
MCPatchChars == (r1 :> 2) @@ (r2 :> 2) @@ (r3 :> 0)

MCScore == (tip :> 80)

(* Processes are interchangeable. *)
Symmetric == Permutations({p1, p2})

Init ==
    /\ InitCheckpoints /\ InitMutations /\ InitRetention
    /\ InitStore /\ InitAdmission /\ InitConversation /\ InitBackup /\ InitFeedback
    /\ part \in Part

NextCore ==
    \/ /\ part = "summaries" /\ NextCheckpoints
       /\ UNCHANGED <<mutationVars, retentionVars>>
    \/ /\ part = "facts" /\ NextMutations
       /\ UNCHANGED <<chatVars, ledgerVars, retentionVars>>
    \/ /\ part = "retention" /\ NextRetention
       /\ UNCHANGED <<chatVars, ledgerVars, mutationVars>>

OneChat == Cardinality({p \in Chat : ~ChatAt(p, "closed")}) <= 1

(* Two chats, or one while an archive is made. *)
NextLocal ==
    \/ part = "chats" /\ NextChats
    \/ part = "backup" /\ NextBackup /\ OneChat'

Next ==
    /\ UNCHANGED part
    /\ \/ NextCore /\ UNCHANGED <<storeVars, admissionVars, localVars, feedbackVars>>
       \/ part = "admission" /\ NextAdmission /\ UNCHANGED <<coreVars, localVars, feedbackVars>>
       \/ NextLocal /\ UNCHANGED <<coreVars, admissionVars, feedbackVars>>
       \/ part = "feedback" /\ NextFeedback
          /\ UNCHANGED <<coreVars, storeVars, admissionVars, localVars>>

Spec == Init /\ [][Next]_vars

(* Every variable has its type. *)
TypeOK ==
    /\ CheckpointsTypeOK /\ MutationsTypeOK /\ RetentionTypeOK
    /\ StoreTypeOK /\ AdmissionTypeOK /\ ConversationTypeOK /\ BackupTypeOK /\ FeedbackTypeOK
=============================================================================
