---------------------------- MODULE MCCallbacks ----------------------------
(* A document and two elements; listeners that capture and that do not,    *)
(* two and three on a node; an observer of the subtree and one of a node.  *)
EXTENDS Callbacks

CONSTANTS d, x, f, g, m1, m2

(* Events are interchangeable. *)
Symmetry == Permutations(EventObjects)

C(cb) == [cb |-> cb, capture |-> TRUE]
B(cb) == [cb |-> cb, capture |-> FALSE]
MCLists == {(d :> <<C(f), B(g)>>) @@ (x :> <<B(f), C(g), B(g)>>),
            (d :> <<B(g)>>) @@ (x :> <<B(f), B(g)>>)}

All == [types |-> Types, subtree |-> TRUE]
Here == [types |-> {"attributes"}, subtree |-> FALSE]
MCOptions == {All, Here}
MCRegistry == {(d :> <<[mo |-> m1, options |-> All]>>) @@ (x :> <<[mo |-> m2, options |-> Here]>>),
               (d :> <<[mo |-> m1, options |-> All], [mo |-> m2, options |-> All]>>) @@ (x :> <<[mo |-> m1, options |-> Here]>>)}

=============================================================================
