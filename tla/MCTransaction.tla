--------------------------- MODULE MCTransaction ---------------------------
(* Instances of Transaction for TLC: one file of the top directory, one file *)
(* in a directory, or one ignored file, and the contents they can have.      *)
EXTENDS TransactionInv, TLC

CONSTANTS f, g, d, v1, v2, p1, p2

(* Where the files are: f at the top, g in directory d where there is one. *)
MCDirOf == [x \in File |-> IF x = g /\ d \in Dir THEN d ELSE Root]

Workspace(files, dirs) == [files |-> files, dirs |-> dirs]

(* One file with either of two values. *)
OneFile == {Workspace([x \in File |-> v], {}) : v \in {v1, v2}}

(* Two files; a transaction may change the first or the second. *)
EitherFile ==
    {Workspace((f :> v1) @@ (g :> v1), {}),
     Workspace((f :> v2) @@ (g :> v1), {}),
     Workspace((f :> v1) @@ (g :> v2), {})}

(* f constant, g in its directory, absent with the directory or without. *)
OneDirectory ==
    {Workspace((f :> v1) @@ (g :> v1), {d}),
     Workspace((f :> v1) @@ (g :> Absent), {d}),
     Workspace((f :> v1) @@ (g :> Absent), {})}

(* g is ignored: it may appear in the source and in a worktree. *)
OneIgnored == {Workspace((f :> v) @@ (g :> w), {}) : v \in {v1, v2}, w \in {v1, Absent}}

(* Which invocation may be which command. *)
AnyCommand == [p \in Proc |-> {"run", "resume", "commit", "abort"}]

(* p1 begins and p2 resumes a transaction; p3 finishes it. *)
TwoAgents ==
    [p \in Proc |-> CASE p = p1 -> {"run"}
                      [] p = p2 -> {"resume"}
                      [] OTHER  -> {"commit", "abort"}]

(* Invocations that may be the same commands are interchangeable. *)
Symmetric == {s \in Permutations(Proc) : \A p \in Proc : Menu[s[p]] = Menu[p]}
=============================================================================
