----------------------------- MODULE MCSession -----------------------------
(* Instances for TLC of a chat session, and of the scan of the workspace    *)
(* behind each fingerprint that the session compares, of the log of messages *)
(* and of the memories that a turn is reminded of.  They share no state, and *)
(* a behaviour is one of a single part.                                      *)
EXTENDS ChatSession, WorkspaceScan, SignedLog, Recall, TLC

CONSTANTS one,              \* the content of the files that are there at first
          words, sense,     \* texts of memories
          Part              \* the parts of the run

VARIABLE part

partVars == <<scanVars, logVars, storeVars, recallVars>>

(* One text has words of the query, the other its meaning. *)
MCSimilar == (words :> 60) @@ (sense :> 0)
MCMeaning == (words :> 40) @@ (sense :> 80)

SessionInit ==
    /\ Init /\ InitScan /\ InitLog /\ InitStore /\ InitRecall /\ part \in Part
    /\ \A n \in Listed : IsFile(n) /\ disk[n].target = one
    /\ \A n \in Control : ~Exists(n)
    /\ part # "chat" => workspace = CHOOSE c \in Content : TRUE
    /\ part # "log" => protocol = "ledger" /\ log = <<>>

SessionNext ==
    /\ UNCHANGED part
    /\ \/ part = "chat" /\ Next /\ UNCHANGED partVars
       \/ part = "scan" /\ NextScan /\ UNCHANGED <<vars, logVars, storeVars, recallVars>>
       \/ part = "log" /\ NextLog /\ UNCHANGED <<vars, scanVars, storeVars, recallVars>>
       \/ part = "recall" /\ NextRecall /\ UNCHANGED <<vars, scanVars, logVars>>

SessionSpec == SessionInit /\ [][SessionNext]_<<vars, partVars, part>> /\ WF_vars(Step)

(* Every variable has its type. *)
SessionTypeOK == TypeOK /\ ScanTypeOK /\ LogTypeOK /\ StoreTypeOK /\ RecallTypeOK
=============================================================================
