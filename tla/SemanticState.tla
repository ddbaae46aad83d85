--------------------------- MODULE SemanticState ---------------------------
(***************************************************************************)
(* What memory_core's mutation protocol promises: one state per revision,  *)
(* and each change made by a writer who knew the revision it changes.      *)
(* There is no log, no snapshot and no second delivery here.               *)
(***************************************************************************)
EXTENDS Naturals

CONSTANTS Field, Mutation, MayChange(_), Changed(_, _), Nothing

VARIABLES facts,    \* facts[f]: what is remembered of field f
          version   \* how many changes made it so

Init == facts = [f \in Field |-> Nothing] /\ version = 0

Change(m) ==
    /\ m.base = version
    /\ MayChange(m)
    /\ facts' = [facts EXCEPT ![m.change.field] = Changed(m, @)]
    /\ version' = version + 1

Next == \E m \in Mutation : Change(m)

Spec == Init /\ [][Next]_<<facts, version>>
=============================================================================
