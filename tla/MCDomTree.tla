----------------------------- MODULE MCDomTree -----------------------------
(***************************************************************************)
(* DomTree for TLC: nodes of one kind are interchangeable.                 *)
(***************************************************************************)
EXTENDS DomTree, TLC

Symmetry == Permutations(Elements) \cup Permutations(Texts)

=============================================================================
