------------------------------ MODULE NodePath ------------------------------
(* The way from a node up to its root, which dispatchEvent and             *)
(* notifyObservers walk.                                                   *)
EXTENDS Sequences

CONSTANTS Nodes, None

VARIABLE parent     \* ParentNode of each node, or None

Path(node) ==
    LET up[n \in Nodes] == <<n>> \o IF parent[n] = None THEN <<>> ELSE up[parent[n]]
    IN up[node]

=============================================================================
