------------------------------- MODULE DomTree -------------------------------
(***************************************************************************)
(* The tree of nodes (src/internal/dom/node.go, with the methods of        *)
(* element.go, document.go, document_fragment.go and element_traversal.go  *)
(* that change it).  A node knows its parent, its first and last child and *)
(* its siblings; every call keeps five links per node in step, and reports *)
(* what it did to the mutation observers.                                  *)
(*                                                                         *)
(* The tree is used by one goroutine at a time.  A call is nevertheless    *)
(* several steps, one for each time it links or unlinks a node: the loops  *)
(* of the code are steps of a job, and no other call starts before the job *)
(* is done.                                                                *)
(*                                                                         *)
(* Not here: calls on Text and Comment nodes, which have no children and   *)
(* do nothing; CloneNode and ImportNode, which append copies to copies;    *)
(* attributes; ownerDocument.                                              *)
(***************************************************************************)
EXTENDS Naturals, Sequences

CONSTANTS
    Documents, Elements, Fragments, Texts,  \* the nodes, by kind
    None                                    \* no node

Containers == Documents \cup Elements \cup Fragments
Nodes == Containers \cup Texts

ASSUME NoneIsNoNode == None \notin Nodes
ASSUME KindsAreDisjoint ==
    /\ Documents \cap (Elements \cup Fragments \cup Texts) = {}
    /\ Elements \cap (Fragments \cup Texts) = {}
    /\ Fragments \cap Texts = {}

VARIABLES
    parent, first, last, prev, next,    \* the fields of baseNode
    empty,      \* Text nodes whose Data is empty
    job,        \* what is left to do of the call
    call,       \* history: the call, as NodeTree sees it ...
    before,     \* history: ... and the children lists when it began
    seen        \* history: each node's children, as told by mutation records

links == <<parent, first, last, prev, next>>
vars == <<links, empty, job, call, before, seen>>

NoCall == [op |-> "none"]

(* A job links child into node before ref (at the end if that is None) or, *)
(* for "swap", in the place of ref.  "splice" does it with each child of   *)
(* the fragment from.  "clear" first removes the children of node.  todo   *)
(* are nodes that come after child.  "normalize" looks at ref, a child of  *)
(* node, and has the containers in scope to come to.                       *)
Job(op, node, child, ref) ==
    [op |-> op, node |-> node, child |-> child, ref |-> ref,
     from |-> None, todo |-> <<>>, scope |-> {}]

Idle == Job("idle", None, None, None)
Ops == {"idle", "place", "splice", "swap", "clear", "normalize"}
Doing(op) == job.op = op

Init ==
    /\ parent = [n \in Nodes |-> None]
    /\ first = [n \in Nodes |-> None]
    /\ last = [n \in Nodes |-> None]
    /\ prev = [n \in Nodes |-> None]
    /\ next = [n \in Nodes |-> None]
    /\ empty = {}
    /\ job = Idle
    /\ call = NoCall
    /\ before = None
    /\ seen = [n \in Nodes |-> <<>>]

(* baseNode.ChildNodes *)
ChildNodes(n) ==
    LET from[c \in Nodes \cup {None}] ==
            IF c = None THEN <<>> ELSE <<c>> \o from[next[c]]
    IN from[first[n]]

-----------------------------------------------------------------------------
(* Mutation records.  An observer of node n that knows its list of         *)
(* children learns from a record of n what has become of the list: removed *)
(* stood, and added stands, between the two siblings.                      *)

After(list, added, removed, pr, nx) ==
    LET IsCut(i, j) ==
            /\ IF pr = None THEN i = 0 ELSE i > 0 /\ list[i] = pr
            /\ IF nx = None THEN j = Len(list) + 1 ELSE j <= Len(list) /\ list[j] = nx
            /\ SubSeq(list, i + 1, j - 1) = removed
        cuts == {ij \in (0 .. Len(list)) \X (1 .. Len(list) + 1) : IsCut(ij[1], ij[2])}
    IN IF cuts = {} THEN <<None>>
       ELSE LET cut == CHOOSE ij \in cuts : TRUE
            IN SubSeq(list, 1, cut[1]) \o added \o SubSeq(list, cut[2], Len(list))

(* queueChildListMutation: nothing is told of a node without a parent.     *)
Tell(target, added, removed, pr, nx) ==
    seen' = IF target = None THEN seen
            ELSE [seen EXCEPT ![target] = After(@, added, removed, pr, nx)]

-----------------------------------------------------------------------------
(* Links.  A write to a sibling that is nil is left out. *)
Set(f, n, v) == IF n = None THEN f ELSE [f EXCEPT ![n] = v]

(* Bug: the last child of the parent is not looked after. *)
Unlink_KeepsLast(c) ==
    /\ parent' = [parent EXCEPT ![c] = None]
    /\ prev' = [Set(prev, next[c], prev[c]) EXCEPT ![c] = None]
    /\ next' = [Set(next, prev[c], next[c]) EXCEPT ![c] = None]
    /\ first' = IF prev[c] = None THEN [first EXCEPT ![parent[c]] = next[c]] ELSE first
    /\ Tell(parent[c], <<>>, <<c>>, prev[c], next[c])
    /\ UNCHANGED last

(* baseNode.removeChild of the parent of c *)
Unlink(c) ==
    /\ parent' = [parent EXCEPT ![c] = None]
    /\ prev' = [Set(prev, next[c], prev[c]) EXCEPT ![c] = None]
    /\ next' = [Set(next, prev[c], next[c]) EXCEPT ![c] = None]
    /\ first' = IF prev[c] = None THEN [first EXCEPT ![parent[c]] = next[c]] ELSE first
    /\ last' = IF next[c] = None THEN [last EXCEPT ![parent[c]] = prev[c]] ELSE last
    /\ Tell(parent[c], <<>>, <<c>>, prev[c], next[c])

(* baseNode.appendSingleChild *)
LinkLast(p, c) ==
    /\ parent' = [parent EXCEPT ![c] = p]
    /\ first' = IF first[p] = None THEN [first EXCEPT ![p] = c] ELSE first
    /\ next' = IF first[p] = None THEN next ELSE [next EXCEPT ![last[p]] = c]
    /\ prev' = IF first[p] = None THEN prev ELSE [prev EXCEPT ![c] = last[p]]
    /\ last' = [last EXCEPT ![p] = c]
    /\ Tell(p, <<c>>, <<>>, last[p], None)

(* Bug: the record is made when the siblings have changed. *)
LinkBefore_TellsLate(p, c, ref) ==
    /\ parent' = [parent EXCEPT ![c] = p]
    /\ prev' = [prev EXCEPT ![c] = prev[ref], ![ref] = c]
    /\ next' = Set([next EXCEPT ![c] = ref], prev[ref], c)
    /\ first' = IF prev[ref] = None THEN [first EXCEPT ![p] = c] ELSE first
    /\ Tell(p, <<c>>, <<>>, prev'[ref], ref)
    /\ UNCHANGED last

(* baseNode.insertSingleBefore *)
LinkBefore(p, c, ref) ==
    /\ parent' = [parent EXCEPT ![c] = p]
    /\ prev' = [prev EXCEPT ![c] = prev[ref], ![ref] = c]
    /\ next' = Set([next EXCEPT ![c] = ref], prev[ref], c)
    /\ first' = IF prev[ref] = None THEN [first EXCEPT ![p] = c] ELSE first
    /\ Tell(p, <<c>>, <<>>, prev[ref], ref)
    /\ UNCHANGED last

(* The rest of baseNode.replaceChild *)
Swap(p, new, old) ==
    /\ parent' = [parent EXCEPT ![new] = p, ![old] = None]
    /\ prev' = [Set([prev EXCEPT ![new] = prev[old]], next[old], new) EXCEPT ![old] = None]
    /\ next' = [Set([next EXCEPT ![new] = next[old]], prev[old], new) EXCEPT ![old] = None]
    /\ first' = IF prev[old] = None THEN [first EXCEPT ![p] = new] ELSE first
    /\ last' = IF next[old] = None THEN [last EXCEPT ![p] = new] ELSE last
    /\ Tell(p, <<new>>, <<old>>, prev[old], next[old])

-----------------------------------------------------------------------------
(* The calls. *)

Begin(request, todo) ==
    /\ Doing("idle")
    /\ job' = todo
    /\ call' = request
    /\ before' = [n \in Nodes |-> ChildNodes(n)]

Inserting(p, c, ref) ==
    IF c \in Fragments THEN [Job("splice", p, None, ref) EXCEPT !.from = c]
    ELSE Job("place", p, c, ref)

AppendChild(p, c) ==
    /\ Begin([op |-> "insert", parent |-> p, child |-> c, ref |-> None],
             Inserting(p, c, None))
    /\ UNCHANGED <<links, empty, seen>>

InsertBefore(p, c, ref) ==
    /\ Begin([op |-> "insert", parent |-> p, child |-> c, ref |-> ref],
             Inserting(p, c, ref))
    /\ UNCHANGED <<links, empty, seen>>

(* The node after old is looked up before old is removed, for a fragment. *)
ReplaceChild(p, c, old) ==
    /\ Begin([op |-> "replace", parent |-> p, child |-> c, old |-> old],
             IF c \in Fragments THEN Inserting(p, c, next[old])
             ELSE Job("swap", p, c, old))
    /\ \/ c \in Fragments /\ Unlink(old)
       \/ c \notin Fragments /\ UNCHANGED <<links, seen>>
    /\ UNCHANGED empty

RemoveChild(c) ==
    /\ Doing("idle")
    /\ Unlink(c)
    /\ UNCHANGED <<empty, job, call, before>>

(* The children are removed one by one, and the new ones appended. *)
Refill(p, new) ==
    /\ Begin([op |-> "refill", parent |-> p, new |-> new],
             [Job("clear", p, None, None) EXCEPT !.todo = new])
    /\ empty' = empty \ {new[i] : i \in DOMAIN new}
    /\ UNCHANGED <<links, seen>>

(* A node that was made for the call, or is as good as new. *)
Fresh(n) == parent[n] = None /\ first[n] = None

(* A Text is made unless the text is empty. *)
SetTextContent(p) ==
    \/ Refill(p, <<>>)
    \/ \E t \in Texts : Fresh(t) /\ Refill(p, <<t>>)

(* The nodes that the HTML says, at most two here, without descendants. *)
SetInnerHTML(p) ==
    LET parsed == {n \in (Texts \cup Elements) \ {p} : Fresh(n)}
    IN \/ Refill(p, <<>>)
       \/ \E n \in parsed : Refill(p, <<n>>)
       \/ \E m \in parsed : \E n \in parsed \ {m} : Refill(p, <<m, n>>)

Normalize(p) ==
    /\ Begin([op |-> "normalize", parent |-> p],
             Job("normalize", p, None, first[p]))
    /\ UNCHANGED <<links, empty, seen>>

(* Text.SetTextContent, or the data that a Text is made with. *)
SetData(t) ==
    /\ Doing("idle")
    /\ empty' \in {empty \cup {t}, empty \ {t}}
    /\ UNCHANGED <<links, job, call, before, seen>>

-----------------------------------------------------------------------------
(* The steps of a call. *)

Return == job' = Idle /\ call' = NoCall /\ before' = None
Go(todo) == job' = todo /\ UNCHANGED <<call, before>>

(* What comes after child is in its place. *)
Placed ==
    \/ job.from # None /\ Go([job EXCEPT !.op = "splice", !.child = None])
    \/ job.todo # <<>> /\ Go([job EXCEPT !.child = Head(job.todo), !.todo = Tail(@)])
    \/ job.from = None /\ job.todo = <<>> /\ Return

(* A node that has a parent is removed from it first. *)
Detach ==
    /\ Doing("place") \/ Doing("swap")
    /\ parent[job.child] # None
    /\ Unlink(job.child)
    /\ UNCHANGED <<empty, job, call, before>>

PlaceLast ==
    /\ Doing("place") /\ parent[job.child] = None /\ job.ref = None
    /\ LinkLast(job.node, job.child)
    /\ Placed
    /\ UNCHANGED empty

PlaceBefore ==
    /\ Doing("place") /\ parent[job.child] = None /\ job.ref # None
    /\ LinkBefore(job.node, job.child, job.ref)
    /\ Placed
    /\ UNCHANGED empty

SwapIn ==
    /\ Doing("swap") /\ parent[job.child] = None
    /\ Swap(job.node, job.child, job.ref)
    /\ Return
    /\ UNCHANGED empty

(* The loop over the children of a fragment removes each before it is      *)
(* inserted.                                                               *)
SpliceNext ==
    LET c == first[job.from]
    IN /\ Doing("splice") /\ c # None
       /\ Unlink(c)
       /\ Go([job EXCEPT !.op = "place", !.child = c])
       /\ UNCHANGED empty

SpliceDone ==
    /\ Doing("splice") /\ first[job.from] = None
    /\ Return
    /\ UNCHANGED <<links, empty, seen>>

ClearNext ==
    /\ Doing("clear") /\ first[job.node] # None
    /\ Unlink(first[job.node])
    /\ UNCHANGED <<empty, job, call, before>>

ClearDone ==
    /\ Doing("clear") /\ first[job.node] = None
    /\ \/ job.todo = <<>> /\ Return
       \/ job.todo # <<>>
          /\ Go([Job("place", job.node, Head(job.todo), None) EXCEPT !.todo = Tail(job.todo)])
    /\ UNCHANGED <<links, empty, seen>>

-----------------------------------------------------------------------------
(* The loop of baseNode.normalize.  A child that is a container is         *)
(* normalized at once in the code, and later here, which no list tells.    *)
LooksAt(kind) == Doing("normalize") /\ job.ref \in kind

(* Bug: the node after the removed one is looked up too late. *)
DropEmpty_LooksLate ==
    /\ LooksAt(empty)
    /\ Unlink(job.ref)
    /\ Go([job EXCEPT !.ref = next'[@]])
    /\ UNCHANGED empty

DropEmpty ==
    /\ LooksAt(empty)
    /\ Unlink(job.ref)
    /\ Go([job EXCEPT !.ref = next[@]])
    /\ UNCHANGED empty

(* The data of the next Text is added to that of this one. *)
MergeNext ==
    /\ LooksAt(Texts \ empty)
    /\ next[job.ref] \in Texts
    /\ Unlink(next[job.ref])
    /\ UNCHANGED <<empty, job, call, before>>

PassOn ==
    /\ LooksAt(Nodes \ empty)
    /\ job.ref \in Texts => next[job.ref] \notin Texts
    /\ Go([job EXCEPT !.ref = next[@], !.scope = @ \cup ({job.ref} \cap Containers)])
    /\ UNCHANGED <<links, empty, seen>>

EnterNext ==
    /\ Doing("normalize") /\ job.ref = None
    /\ \/ \E n \in job.scope :
             Go([Job("normalize", n, None, first[n]) EXCEPT !.scope = job.scope \ {n}])
       \/ job.scope = {} /\ Return
    /\ UNCHANGED <<links, empty, seen>>

-----------------------------------------------------------------------------
(* n and its ancestors: what is in every set that holds n and the parent   *)
(* of whatever it holds.                                                   *)
Upward(S) == \A m \in S : parent[m] \in S \cup {None}
Up(n) == {m \in Nodes : \A S \in SUBSET Nodes : n \in S /\ Upward(S) => m \in S}

(* The code checks none of what the DOM standard says of the arguments of  *)
(* a call.  These are the arguments that are right: what is inserted does  *)
(* not hold the node it is inserted into, and a reference is a child.      *)
MayHold(p, c) == c \notin Documents /\ c \notin Up(p)
Call ==
    \/ \E p \in Containers, c \in Nodes :
          /\ MayHold(p, c)
          /\ \/ AppendChild(p, c)
             \/ \E r \in Nodes \ {c} :
                   parent[r] = p /\ (InsertBefore(p, c, r) \/ ReplaceChild(p, c, r))
    \/ \E c \in Nodes : parent[c] # None /\ RemoveChild(c)
    \/ \E p \in Elements \cup Fragments : SetTextContent(p)
    \/ \E p \in Elements : SetInnerHTML(p)
    \/ \E p \in Containers : Normalize(p)
    \/ \E t \in Texts : SetData(t)

Step ==
    \/ Detach \/ PlaceLast \/ PlaceBefore \/ SwapIn
    \/ SpliceNext \/ SpliceDone \/ ClearNext \/ ClearDone
    \/ DropEmpty \/ MergeNext \/ PassOn \/ EnterNext

Next == Call \/ Step
Spec == Init /\ [][Next]_vars

(* The DOM standard also defines the insertion of a node before itself and *)
(* its replacement by itself, which leave the lists as they are.           *)
CallWithSelf ==
    \E p \in Containers, c \in Nodes :
        parent[c] = p /\ (InsertBefore(p, c, c) \/ ReplaceChild(p, c, c))

SelfSpec == Init /\ [][Next \/ CallWithSelf]_vars

-----------------------------------------------------------------------------
TypeOK ==
    /\ parent \in [Nodes -> Containers \cup {None}]
    /\ first \in [Nodes -> Nodes \cup {None}] /\ last \in [Nodes -> Nodes \cup {None}]
    /\ prev \in [Nodes -> Nodes \cup {None}] /\ next \in [Nodes -> Nodes \cup {None}]
    /\ empty \subseteq Texts
    /\ job \in [op : Ops, node : Containers \cup {None}, child : Nodes \cup {None},
                 ref : Nodes \cup {None}, from : Fragments \cup {None},
                 todo : Seq(Nodes), scope : SUBSET Containers]
    /\ call = NoCall <=> Doing("idle")

(* The five links of a node agree with those of its parent, its siblings   *)
(* and its children, also between the steps of a call; Text nodes have no  *)
(* children, and documents and fragments no parent.                        *)
Agrees(n) ==
    /\ parent[n] = None => prev[n] = None /\ next[n] = None
    /\ parent[n] # None => (prev[n] = None <=> first[parent[n]] = n)
    /\ parent[n] # None => (next[n] = None <=> last[parent[n]] = n)
    /\ prev[n] # None => next[prev[n]] = n /\ parent[prev[n]] = parent[n]
    /\ next[n] # None => prev[next[n]] = n /\ parent[next[n]] = parent[n]
    /\ first[n] # None => parent[first[n]] = n
    /\ last[n] # None => parent[last[n]] = n
    /\ first[n] = None <=> last[n] = None
    /\ n \in Texts => first[n] = None
    /\ n \in Documents \cup Fragments => parent[n] = None

LinksAgree == \A n \in Nodes : Agrees(n)

(* The mutation records of a node, applied in turn to the list of children *)
(* that an observer knows, give the list that a walk over the siblings     *)
(* finds, and that list has every node whose parent it is.                 *)
RecordsTellAll ==
    \A n \in Nodes :
        /\ seen[n] = ChildNodes(n)
        /\ {c \in Nodes : parent[c] = n} = {seen[n][i] : i \in DOMAIN seen[n]}

(* Each call, when it returns, has done to the lists of children what      *)
(* NodeTree says, whatever the steps in between.                           *)
Tree == INSTANCE NodeTree
    WITH children <- IF call = NoCall THEN [n \in Nodes |-> ChildNodes(n)] ELSE before
ImplementsNodeTree == Tree!Spec

=============================================================================
