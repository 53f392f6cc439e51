------------------------------ MODULE NodeTree ------------------------------
(***************************************************************************)
(* What the calls that change a tree of nodes promise                      *)
(* (src/internal/dom/node.go): each node has a list of children, and a     *)
(* call, when it returns, has changed the lists as one sentence about them *)
(* says.  DomTree.tla implements this module with pointers.                *)
(***************************************************************************)
EXTENDS Sublists

CONSTANTS
    Nodes,
    Fragments,  \* nodes that stand for their children when they are inserted
    Texts,
    None        \* no node

VARIABLES
    children,   \* the list of the children of each node
    empty,      \* Text nodes whose data is empty
    call        \* the call that is being made

NoCall == [op |-> "none"]

Members(list) == {list[i] : i \in DOMAIN list}
Without(list, S) == Sublist(list, {i \in DOMAIN list : list[i] \notin S})

Before(list, nodes, ref) ==
    IF ref = None THEN list \o nodes
    ELSE LET i == CHOOSE i \in DOMAIN list : list[i] = ref
         IN SubSeq(list, 1, i - 1) \o nodes \o SubSeq(list, i, Len(list))

(* The nodes that an insertion of n inserts. *)
Inserted(n) == IF n \in Fragments THEN children[n] ELSE <<n>>

Init ==
    /\ children = [n \in Nodes |-> <<>>]
    /\ empty = {}
    /\ call = NoCall

(* The caller may give a Text its data between two calls.  Nodes made for  *)
(* a call have theirs from the beginning.                                  *)
SetData ==
    /\ call = NoCall
    /\ empty' \subseteq Texts
    /\ UNCHANGED <<children, call>>

Begin ==
    /\ call = NoCall /\ call' # NoCall
    /\ empty' \subseteq empty
    /\ UNCHANGED children

Return ==
    /\ call' = NoCall
    /\ UNCHANGED empty

(* The nodes leave the place they have and stand before ref. *)
Moved(nodes, ref) ==
    [n \in Nodes |->
        LET rest == Without(children[n], Members(nodes))
        IN IF n = call.parent THEN Before(rest, nodes, ref) ELSE rest]

Insert ==
    /\ call.op = "insert"
    /\ children' = Moved(Inserted(call.child), call.ref)
    /\ Return

Replace ==
    /\ call.op = "replace"
    /\ children' = [n \in Nodes |->
                        Without(Moved(Inserted(call.child), call.old)[n], {call.old})]
    /\ Return

Remove(c) ==
    /\ call = NoCall
    /\ children' = [n \in Nodes |-> Without(children[n], {c})]
    /\ UNCHANGED <<empty, call>>

Refill ==
    /\ call.op = "refill"
    /\ children' = [children EXCEPT ![call.parent] = call.new]
    /\ Return

(* Of the Texts that stand side by side, the first that is not empty stays. *)
Stays(list, i) ==
    \/ list[i] \notin Texts
    \/ /\ list[i] \notin empty
       /\ \A j \in 1 .. i - 1 :
             list[j] \in Texts \ empty => \E k \in j .. i : list[k] \notin Texts

Merged(list) == Sublist(list, {i \in DOMAIN list : Stays(list, i)})

(* A set that holds n, and the children of whatever it holds. *)
Below(n) ==
    {m \in Nodes : \A S \in SUBSET Nodes :
        n \in S /\ (\A k \in S : Members(children[k]) \subseteq S) => m \in S}

Normalize ==
    /\ call.op = "normalize"
    /\ children' = [n \in Nodes |->
                        IF n \in Below(call.parent) THEN Merged(children[n]) ELSE children[n]]
    /\ Return

Next ==
    \/ SetData \/ Begin
    \/ Insert \/ Replace \/ Refill \/ Normalize
    \/ \E c \in Nodes : Remove(c)

Spec == Init /\ [][Next]_<<children, empty, call>>

=============================================================================
