----------------------------- MODULE MCAgentRun -----------------------------
(* Instances for TLC of an agent run, of the undo of its edits, of the      *)
(* history it compacts and of the commands it runs.  What AgentRun says of  *)
(* the workspace and the messages is an abstraction of these, no state is   *)
(* shared, and a behaviour is one of a single part.                         *)
EXTENDS AgentRun, Undo, ContextCompaction, CommandProcess, TLC

CONSTANTS src, doc, one, two,  \* two files and two contents
          Part              \* the parts of the run

VARIABLE part

toolVars == <<undoVars, contextVars, commandVars>>

(* The undo starts with one file of the two; the other parts do not vary it. *)
HostInit ==
    /\ Init /\ InitUndo /\ InitContext /\ InitCommand /\ part \in Part
    /\ files = (src :> one) @@ (doc :> Absent)
    /\ part # "context" => ~preserve
    /\ part # "run" => workspace = CHOOSE c \in Content : TRUE

HostNext ==
    /\ UNCHANGED part
    /\ \/ part = "run" /\ Next /\ UNCHANGED toolVars
       \/ part = "undo" /\ NextUndo /\ UNCHANGED <<vars, contextVars, commandVars>>
       \/ part = "context" /\ NextContext /\ UNCHANGED <<vars, undoVars, commandVars>>
       \/ part = "command" /\ NextCommandStep /\ UNCHANGED <<vars, undoVars, contextVars>>

HostSpec == HostInit /\ [][HostNext]_<<vars, toolVars, part>> /\ WF_vars(Step)

(* Every variable has its type. *)
HostTypeOK == TypeOK /\ UndoTypeOK /\ ContextTypeOK /\ CommandTypeOK
=============================================================================
