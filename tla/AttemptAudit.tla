---------------------------- MODULE AttemptAudit ----------------------------
(***************************************************************************)
(* transaction_cli.py over agent.py: the audit of the attempts of one      *)
(* transaction.  The agent writes checkpoints that know nothing of it; the *)
(* command adds it to the last one when the agent returns, from the        *)
(* trajectory that the attempt was started with.                           *)
(***************************************************************************)
EXTENDS Naturals, Sequences, FiniteSets

CONSTANTS
    StepCeiling,    \* --max-steps as given
    StepMargin,     \* the steps a generated command adds
    MaxTries,       \* bound on attempts
    MaxBreaks,      \* bound on Ctrl-C and kills
    MaxEdits        \* bound on changes of the workspace

ASSUME AuditAssumption ==
    /\ StepCeiling \in Nat \ {0} /\ StepMargin \in Nat \ {0}
    /\ MaxTries \in Nat /\ MaxBreaks \in Nat /\ MaxEdits \in Nat

VARIABLES
    saved,      \* the trajectory on disk
    agent,      \* the attempt
    tree,       \* fingerprint of the workspace: edits never restore one
    offered,    \* --max-steps of the "next:" command, 0 for none
    whole,      \* the attempts since the last one that was cut off (history)
    tries, breaks    \* counters against the bounds

auditVars == <<saved, agent, tree, offered, whole, tries, breaks>>

Answers(events) == Cardinality({k \in 1 .. Len(events) : events[k] = "answer"})

Unaudited(exit, steps, events, current) ==
    [exit |-> exit, steps |-> steps, events |-> events, tree |-> current,
     audited |-> FALSE, audit |-> <<>>]

NoTrajectory == Unaudited("none", 0, <<>>, 0)

NoAgent == [pc |-> "off", previous |-> NoTrajectory, limit |-> 0, steps |-> 0, events |-> <<>>,
            safe |-> <<>>, safeTree |-> 0, from |-> 0, fromTree |-> 0]

(* _checkpoint: what the file had beside is gone. *)
SaveHere(exit) ==
    saved' = Unaudited(exit, agent'.steps, agent'.events, tree')

----------------------------------------------------------------------------
(* agent_command: a new transaction, or the trajectory of an open one, with *)
(* the limit of its first command or the one it was offered.                *)
Load ==
    /\ agent.pc = "off" /\ tries < MaxTries /\ tries' = tries + 1
    /\ saved.exit # "Submitted"
    /\ \E limit \in {StepCeiling, offered} \ {0} :
          agent' = [NoAgent EXCEPT !.pc = "loaded", !.previous = saved, !.limit = limit,
                                   !.steps = saved.steps, !.events = saved.events,
                                   !.safe = saved.events, !.safeTree = tree,
                                   !.from = saved.steps, !.fromTree = tree]
    /\ UNCHANGED <<saved, tree, offered, whole, breaks>>

(* The first checkpoint of MiniCodeAgent.run *)
Enter ==
    /\ agent.pc = "loaded" /\ agent' = [agent EXCEPT !.pc = "model"]
    /\ tree' = tree /\ SaveHere("Running")
    /\ UNCHANGED <<offered, whole, tries, breaks>>

Answer ==
    /\ agent.pc = "model" /\ agent.steps < agent.limit
    /\ agent' = [agent EXCEPT !.pc = "tools", !.steps = @ + 1, !.events = Append(@, "answer")]
    /\ UNCHANGED <<saved, tree, offered, whole, tries, breaks>>

(* A tool, or the user, changes the workspace. *)
EditTree ==
    /\ agent.pc \in {"off", "tools"} /\ tree < MaxEdits /\ tree' = tree + 1
    /\ UNCHANGED <<saved, agent, offered, whole, tries, breaks>>

(* The end of a batch: a checkpoint, and the end if it submitted. *)
EndTools(exit) ==
    /\ agent.pc = "tools"
    /\ agent' = [agent EXCEPT !.pc = IF exit = "Submitted" THEN "returned" ELSE "model",
                              !.safe = agent.events, !.safeTree = tree]
    /\ tree' = tree /\ SaveHere(exit)
    /\ UNCHANGED <<offered, whole, tries, breaks>>

(* The model's call fails: the steps are counted again, in the events. *)
FailModel ==
    /\ agent.pc = "model" /\ agent.steps < agent.limit
    /\ agent' = [agent EXCEPT !.pc = "returned", !.steps = Answers(agent.events),
                              !.events = Append(@, "error")]
    /\ tree' = tree /\ SaveHere("Error")
    /\ UNCHANGED <<offered, whole, tries, breaks>>

MeetLimit ==
    /\ agent.pc = "model" /\ agent.steps >= agent.limit
    /\ agent' = [agent EXCEPT !.pc = "returned"]
    /\ tree' = tree /\ SaveHere("StepLimitExceeded")
    /\ UNCHANGED <<offered, whole, tries, breaks>>

(* Ctrl-C while the agent runs: the last safe state, and no audit. *)
InterruptTry ==
    /\ agent.pc \in {"model", "tools"} /\ breaks < MaxBreaks /\ breaks' = breaks + 1
    /\ saved' = Unaudited("Interrupted", Answers(agent.events), agent.safe, agent.safeTree)
    /\ agent' = NoAgent /\ whole' = <<>>
    /\ UNCHANGED <<tree, offered, tries>>

(* A kill: what the first checkpoint of the attempt replaced is gone. *)
KillTry ==
    /\ agent.pc # "off" /\ breaks < MaxBreaks /\ breaks' = breaks + 1
    /\ agent' = NoAgent
    /\ whole' = IF agent.pc \in {"loaded", "audited"} THEN whole ELSE <<>>
    /\ UNCHANGED <<saved, tree, offered, tries>>

----------------------------------------------------------------------------
EventsOfAll(previous, events) == events                          \* mutant
EventsOfAttempt(previous, events) == SubSeq(events, Len(previous.events) + 1, Len(events))

Monus(a, b) == IF a > b THEN a - b ELSE 0

(* _recovery_audit: the attempts of the earlier audit and this one. *)
AuditOf(previous, current) ==
    LET resumed == previous.exit # "none"
        changed == resumed /\ previous.tree # current.tree
    IN  Append(previous.audit,
          [resumed  |-> resumed,
           started  |-> previous.steps,
           advanced |-> Monus(current.steps, previous.steps),
           changed  |-> changed,
           progress |-> current.steps > previous.steps \/ changed,
           failed   |-> \E k \in 1 .. Len(EventsOfAttempt(previous, current.events)) :
                            EventsOfAttempt(previous, current.events)[k] = "error"])

(* The failures without progress at the end of the audit. *)
Stuck(audit) ==
    {i \in 1 .. Len(audit) : \A k \in i .. Len(audit) : audit[k].failed /\ ~audit[k].progress}

WriteAudit ==
    /\ agent.pc = "returned"
    /\ saved' = [saved EXCEPT !.audited = TRUE, !.audit = AuditOf(agent.previous, saved)]
    /\ whole' = Append(whole, [from    |-> agent.from,
                               answers |-> Answers(agent.events) - Answers(agent.previous.events),
                               edited  |-> tree # agent.fromTree,
                               failed  |-> saved.exit = "Error"])
    /\ agent' = [agent EXCEPT !.pc = "audited"]
    /\ UNCHANGED <<tree, offered, tries, breaks>>

(* _next_resume_max_steps *)
NextLimit(limit, steps) ==
    IF steps < limit THEN limit
    ELSE IF 2 * limit > steps + StepMargin THEN 2 * limit ELSE steps + StepMargin

(* prepare leaves it open; the command says how to go on. *)
Offer ==
    /\ agent.pc = "audited"
    /\ offered' = IF saved.exit = "Submitted" THEN 0 ELSE NextLimit(agent.limit, saved.steps)
    /\ agent' = NoAgent
    /\ UNCHANGED <<saved, tree, whole, tries, breaks>>

----------------------------------------------------------------------------
InitAudit ==
    /\ saved = NoTrajectory /\ agent = NoAgent /\ tree = 0 /\ offered = 0
    /\ whole = <<>> /\ tries = 0 /\ breaks = 0

NextAudit ==
    \/ Load \/ Enter \/ Answer \/ EditTree \/ FailModel \/ MeetLimit
    \/ \E exit \in {"Running", "Submitted"} : EndTools(exit)
    \/ InterruptTry \/ KillTry \/ WriteAudit \/ Offer

AuditSpec == InitAudit /\ [][NextAudit]_auditVars

AuditTypeOK ==
    /\ saved.exit \in {"none", "Running", "Submitted", "Error", "StepLimitExceeded", "Interrupted"}
    /\ saved.steps \in Nat /\ saved.audited \in BOOLEAN
    /\ agent.pc \in {"off", "loaded", "model", "tools", "returned", "audited"}
    /\ tree \in 0 .. MaxEdits /\ offered \in Nat
    /\ tries \in 0 .. MaxTries /\ breaks \in 0 .. MaxBreaks

(* The audit has every attempt since the last one that was killed or           *)
(* interrupted, each with the steps it started from, no error of another       *)
(* attempt, no more steps than the model answered (and, nothing having been    *)
(* cut off, no fewer), and progress wherever the attempt changed the           *)
(* workspace; and the command that it is offered with never meets its limit    *)
(* before its first answer (_recovery_audit, _next_resume_max_steps).          *)
AuditIsTrue ==
    /\ AuditTypeOK
    /\ saved.audited =>
          /\ Len(saved.audit) = Len(whole)
          /\ \A i \in 1 .. Len(whole) :
                LET told == saved.audit[i] IN
                LET real == whole[i] IN
                /\ told.started = real.from
                /\ told.failed = real.failed
                /\ told.advanced <= real.answers
                /\ breaks = 0 => told.advanced = real.answers
                /\ told.resumed /\ real.edited => told.progress
                /\ i \in Stuck(saved.audit) => real.failed
    /\ agent.pc = "model" /\ agent.limit = offered /\ breaks = 0
          => agent.steps < agent.limit \/ agent.steps > agent.from
=============================================================================
