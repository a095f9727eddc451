------------------------------- MODULE Slices -------------------------------
(***************************************************************************)
(* What the code's filtering loops make of a slice: they append to a new   *)
(* slice the elements that pass, one after the other.                      *)
(***************************************************************************)
EXTENDS Integers, Sequences

\* The objects of a slice that are in set, in their order.
Keep(objs, set) ==
    LET kept[i \in 0..Len(objs)] ==
            IF i = 0 THEN <<>>
            ELSE IF objs[i] \in set THEN Append(kept[i - 1], objs[i]) ELSE kept[i - 1]
    IN  kept[Len(objs)]
=============================================================================
