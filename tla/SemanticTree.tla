---------------------------- MODULE SemanticTree ----------------------------
(***************************************************************************)
(* The semantic tree of a document (src/internal/semantic): how Builder    *)
(* makes it from the elements (builder.go, content.go) and what            *)
(* CompressTree leaves of it (compress.go).                                *)
(*                                                                         *)
(* A tree is the sequence of its nodes in document order, each with its    *)
(* depth.  What an element means to the builder is its kind: "region"      *)
(* (landmarks, most roles), "widget" (a role that one can interact with),  *)
(* "text" and "blank" (role text, with and without a name), "link" (links, *)
(* buttons, inputs), "heading" (images and tables too), "list", "item"     *)
(* (li), "plain".  Names and values are left out.                          *)
(***************************************************************************)
EXTENDS Sublists, FiniteSets

Kinds == {"region", "widget", "text", "blank", "link", "heading", "list", "item", "plain"}

Opens(kind) == kind \in {"region", "widget", "text", "blank"}     \* its children are walked
Leaf(kind) == kind \in {"link", "heading", "list"}      \* they are not
MakesNode(kind) == Opens(kind) \/ Leaf(kind)

(* cut: the depth of the element whose children are not walked, if any;    *)
(* levels: the depths of the open nodes that the walk is in.               *)
BuilderStart == [nodes |-> <<>>, map |-> <<>>, cut |-> 0, list |-> FALSE, levels |-> <<>>]

CameTo(b, e) == [b EXCEPT !.cut = IF e.depth > @ THEN @ ELSE 0,
                          !.levels = Sublist(@, {k \in DOMAIN @ : @[k] < e.depth})]

MakeNode(b, e) ==
    [b EXCEPT !.nodes = Append(@, [role |-> e.kind, id |-> Len(b.map) + 1, el |-> e.el,
                                   hidden |-> e.hidden, depth |-> Len(b.levels) + 1]),
              !.map = Append(@, e.el)]

(* An item of a list has no number, and so no entry in the map.            *)
ListItem(b, e) ==
    [b EXCEPT !.nodes = Append(@, [role |-> "listitem", id |-> 0, el |-> e.el,
                                   hidden |-> FALSE, depth |-> Len(b.levels) + 2])]

(* Bug: what stands in a list is walked as well. *)
ProcessNode_Deep(b, e) ==
    LET here == CameTo(b, e) IN
    IF here.cut # 0
    THEN IF e.kind = "item" /\ here.list /\ e.depth = here.cut + 1 THEN ListItem(here, e) ELSE here
    ELSE CASE Opens(e.kind) \/ e.kind = "list" -> [MakeNode(here, e) EXCEPT !.levels = Append(@, e.depth)]
           [] Leaf(e.kind) /\ e.kind # "list" -> [MakeNode(here, e) EXCEPT !.cut = e.depth, !.list = FALSE]
           [] OTHER -> here

ProcessHere(here, e) ==
    IF here.cut # 0
    THEN IF e.kind = "item" /\ here.list /\ e.depth = here.cut + 1 THEN ListItem(here, e) ELSE here
    ELSE CASE Opens(e.kind) -> [MakeNode(here, e) EXCEPT !.levels = Append(@, e.depth)]
           [] Leaf(e.kind) -> [MakeNode(here, e) EXCEPT !.cut = e.depth, !.list = e.kind = "list"]
           [] OTHER -> here

ProcessNode(b, e) == ProcessHere(CameTo(b, e), e)

BuildUpTo(doc) ==
    LET upTo[n \in 0..Len(doc)] ==
          IF n = 0 THEN BuilderStart ELSE ProcessNode(upTo[n - 1], doc[n])
    IN upTo

Build(doc) == BuildUpTo(doc)[Len(doc)]

-----------------------------------------------------------------------------
(* CompressTree *)

(* j is i or what i stands in. *)
Holds(tree, j, i) == j <= i /\ \A k \in (j + 1)..i : tree[j].depth < tree[k].depth

(* A node that is dropped takes along what it holds. *)
Without(tree, dropped) ==
    Sublist(tree, {i \in DOMAIN tree : \A j \in 1..i : Holds(tree, j, i) => j \notin dropped})

RemoveHiddenDOM(tree) == Without(tree, {i \in DOMAIN tree : tree[i].hidden})
RemoveEmptyText(tree) == Without(tree, {i \in DOMAIN tree : tree[i].role = "blank"})

(* Of texts that stand beside each other the first remains. *)
Sibling(tree, j, i) == j < i /\ tree[j].depth = tree[i].depth /\ \A k \in j..i : tree[k].depth >= tree[i].depth
Merged(tree, i) ==
    /\ tree[i].role = "text"
    /\ \E j \in 1..(i - 1) :
          /\ Sibling(tree, j, i) /\ tree[j].role = "text"
          /\ \A k \in (j + 1)..(i - 1) : ~Sibling(tree, k, i)
MergeAdjacentText(tree) == Without(tree, {i \in DOMAIN tree : Merged(tree, i)})

EnforceDepth(tree, maxDepth) == Sublist(tree, {i \in DOMAIN tree : tree[i].depth <= maxDepth})

CompressTree(tree, maxDepth) ==
    EnforceDepth(MergeAdjacentText(RemoveEmptyText(RemoveHiddenDOM(tree))), maxDepth)

(* Format shows the number of a node that one can interact with.           *)
HasInteractableRole(role) == role \in {"link", "widget"}
(* Bug: the numbers are those of what is left. *)
Shown_Renumbered(tree) == {[id |-> i, el |-> tree[i].el] : i \in {i \in DOMAIN tree : HasInteractableRole(tree[i].role)}}
Shown(tree) == {[id |-> tree[i].id, el |-> tree[i].el] : i \in {i \in DOMAIN tree : HasInteractableRole(tree[i].role)}}

-----------------------------------------------------------------------------
(* What is shown, said of the document: what one can interact with that    *)
(* stands in no leaf, where fewer than maxDepth nodes hold it, neither it  *)
(* nor one of those is hidden or a text without a name, and none is a text *)
(* whose neighbour before it is a text.                                    *)
Above(doc, i) == {j \in 1..(i - 1) : Holds(doc, j, i)}
NodesAbove(doc, i) == {j \in Above(doc, i) : Opens(doc[j].kind)}

Level(doc, i) == Cardinality(NodesAbove(doc, i))
HasNode(doc, i) ==
    MakesNode(doc[i].kind) /\ \A j \in Above(doc, i) : ~Leaf(doc[j].kind)
Stays(doc, i) ==
    HasNode(doc, i) /\ \A j \in NodesAbove(doc, i) \cup {i} : ~doc[j].hidden /\ doc[j].kind # "blank"

(* The node before that of i, under the same node. *)
NodeBefore(doc, j, i) ==
    /\ j < i /\ Stays(doc, j) /\ NodesAbove(doc, j) = NodesAbove(doc, i)
    /\ \A k \in (j + 1)..(i - 1) : Stays(doc, k) => NodesAbove(doc, k) # NodesAbove(doc, i)

ShouldShow(doc, maxDepth) ==
    {doc[i].el : i \in {i \in DOMAIN doc :
        /\ HasInteractableRole(doc[i].kind) /\ Stays(doc, i) /\ Level(doc, i) < maxDepth
        /\ \A j \in NodesAbove(doc, i) : doc[j].kind = "text" =>
              ~\E k \in DOMAIN doc : NodeBefore(doc, k, j) /\ doc[k].kind = "text"}}

=============================================================================
