--------------------------- MODULE CommandProcess ---------------------------
(***************************************************************************)
(* executor.py, _run_argv on POSIX: a command runs in a process group of its *)
(* own, directly or as the client of a container, the agent waits for its   *)
(* leader, and then terminates whatever is left of the group and removes    *)
(* the container.  The command may leave processes behind, which may ignore *)
(* SIGTERM and multiply; the wait is ended by the leader, by the timeout, by *)
(* Ctrl-C or by SIGTERM.  A process that leaves the group and a docker rm   *)
(* that fails are not modelled.                                             *)
(***************************************************************************)
EXTENDS Integers, FiniteSets

CONSTANTS
    Leader,         \* the process that Popen starts
    Descendant      \* the processes that it may leave behind

VARIABLES
    runArgv,        \* the step of _run_argv, and why the wait ended
    group,          \* the processes of the group that run
    deaf,           \* those that ignore SIGTERM
    reaped,         \* the agent has waited for the leader
    container       \* the container of the command, if it has one

commandVars == <<runArgv, group, deaf, reaped, container>>

CommandAt(pc) == runArgv.pc = pc

CommandGoes(pc) == runArgv' = [runArgv EXCEPT !.pc = pc]

(* The leader stays in the group as a zombie until it is waited for. *)
GroupExists == group # {} \/ ~reaped

----------------------------------------------------------------------------
(* Popen, after a command that went before. *)
StartCommand(docker) ==
    /\ CommandAt("idle")
    /\ runArgv' = [pc |-> "wait", ended |-> "no", interrupted |-> FALSE]
    /\ group' = {Leader} /\ reaped' = FALSE /\ deaf' \in SUBSET {Leader}
    /\ container' = IF docker THEN "wanted" ELSE "none"

(* A process of the command starts another one, with SIGTERM ignored or not. *)
Fork(p, ignores) ==
    /\ group # {} /\ p \in Descendant \ group
    /\ group' = group \cup {p}
    /\ deaf' = IF ignores THEN deaf \cup {p} ELSE deaf \ {p}
    /\ UNCHANGED <<runArgv, reaped, container>>

Exit(p) ==
    /\ p \in group /\ group' = group \ {p} /\ deaf' = deaf \ {p}
    /\ UNCHANGED <<runArgv, reaped, container>>

(* The client has the container made and started. *)
StartContainer ==
    /\ Leader \in group /\ container = "wanted" /\ container' = "running"
    /\ UNCHANGED <<runArgv, group, deaf, reaped>>

(* process.wait returns, times out, or is left by Ctrl-C or _TerminationSignal. *)
WaitReturns ==
    /\ CommandAt("wait") /\ Leader \notin group /\ reaped' = TRUE
    /\ runArgv' = [runArgv EXCEPT !.pc = "terminate", !.ended = "exit"]
    /\ UNCHANGED <<group, deaf, container>>

WaitEnds(why) ==
    /\ CommandAt("wait")
    /\ runArgv' = [runArgv EXCEPT !.pc = "terminate", !.ended = why]
    /\ UNCHANGED <<group, deaf, reaped, container>>

\* Only a command that did not return by itself is cleaned up.
TerminateUnlessReturned ==
    /\ CommandAt("terminate")
    /\ IF runArgv.ended # "exit" /\ GroupExists
       THEN group' = group \cap deaf /\ CommandGoes("grace")
       ELSE UNCHANGED group /\ CommandGoes("reap")
    /\ UNCHANGED <<deaf, reaped, container>>

(* _terminate_process_group: SIGTERM, *)
Terminate ==
    /\ CommandAt("terminate")
    /\ IF GroupExists
       THEN group' = group \cap deaf /\ CommandGoes("grace")
       ELSE UNCHANGED group /\ CommandGoes("reap")
    /\ UNCHANGED <<deaf, reaped, container>>

(* a time of grace, *)
GraceOver ==
    /\ CommandAt("grace") /\ CommandGoes("kill")
    /\ UNCHANGED <<group, deaf, reaped, container>>

(* SIGKILL to what is left, *)
Kill ==
    /\ CommandAt("kill") /\ CommandGoes("reap")
    /\ group' = {}
    /\ UNCHANGED <<deaf, reaped, container>>

(* and the leader is waited for; when a handler of its own let it live on after *)
(* an exception, this wait times out.                                           *)
Reap ==
    /\ CommandAt("reap") /\ CommandGoes("remove")
    /\ reaped' = (Leader \notin group)
    /\ UNCHANGED <<group, deaf, container>>

(* A second Ctrl-C leaves the group and the container as they are: the *)
(* exception passes over _cleanup_docker_run, or ends it.              *)
InterruptCleanup ==
    /\ \/ runArgv.pc \in {"terminate", "grace", "kill"}
       \/ CommandAt("remove") /\ container # "none"
    /\ runArgv' = [runArgv EXCEPT !.pc = "returned", !.interrupted = TRUE]
    /\ reaped' = (Leader \notin group)
    /\ UNCHANGED <<group, deaf, container>>

(* _cleanup_docker_run *)
RemoveContainer ==
    /\ CommandAt("remove") /\ CommandGoes("returned")
    /\ container' = "none"
    /\ UNCHANGED <<group, deaf, reaped>>

(* SIGTERM when it is not deferred kills the agent. *)
AgentKilled ==
    /\ runArgv.pc \in {"terminate", "grace", "kill", "reap", "remove"}
    /\ CommandGoes("killed")
    /\ UNCHANGED <<group, deaf, reaped, container>>

(* The result is read, or the exception goes on, and the agent runs another *)
(* command; not followed any further after a second Ctrl-C.                 *)
NextCommand ==
    /\ CommandAt("returned") /\ CommandGoes("idle") /\ ~runArgv.interrupted
    /\ UNCHANGED <<group, deaf, reaped, container>>

----------------------------------------------------------------------------
InitCommand ==
    /\ runArgv = [pc |-> "idle", ended |-> "no", interrupted |-> FALSE]
    /\ group = {} /\ deaf = {} /\ reaped = TRUE /\ container = "none"

NextCommandStep ==
    \/ WaitReturns \/ Terminate \/ GraceOver \/ Kill \/ Reap \/ InterruptCleanup \/ RemoveContainer
    \/ AgentKilled \/ NextCommand \/ StartContainer
    \/ \E docker \in BOOLEAN : StartCommand(docker)
    \/ \E p \in Descendant, ignores \in BOOLEAN : Fork(p, ignores)
    \/ \E p \in {Leader} \cup Descendant : Exit(p)
    \/ \E why \in {"timeout", "interrupt", "signal"} : WaitEnds(why)

CommandTypeOK ==
    /\ group \subseteq {Leader} \cup Descendant /\ deaf \subseteq {Leader} \cup Descendant
    /\ container \in {"none", "wanted", "running"} /\ reaped \in BOOLEAN

(* When a command is over, whether it returned, timed out, or was left by Ctrl-C *)
(* or SIGTERM, nothing that it started still runs, neither a process it left in  *)
(* the background nor its container, unless a second Ctrl-C came during the      *)
(* clean-up (_run_argv, _terminate_process_group, _cleanup_docker_run).          *)
CommandIsGone ==
    runArgv.pc = "returned" /\ ~runArgv.interrupted => group = {} /\ reaped /\ container = "none"
=============================================================================
