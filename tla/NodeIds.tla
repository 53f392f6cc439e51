------------------------------ MODULE NodeIds -------------------------------
(***************************************************************************)
(* The DOM domain of a CDP session (src/internal/cdp/domain_dom.go) and    *)
(* the numbers it gives to nodes (node_store.go).                          *)
(*                                                                         *)
(* NodeStore.mu is taken for each Bind, Lookup and Reset.  A command that  *)
(* describes a tree binds one node after the other as it walks, with no    *)
(* lock on the tree, while other commands of the same session bind, start  *)
(* the numbering anew, or change the tree.                                 *)
(*                                                                         *)
(* Not here: which elements a selector matches, attributes and text, on    *)
(* which no number depends.                                                *)
(***************************************************************************)
EXTENDS SessionCommands

CONSTANTS
    Nodes,      \* nodes of all documents, those not yet made included
    Elements,   \* nodes that are elements
    Docs,       \* nodes that are documents
    DocOf,      \* the document in whose tree a node is made
    FirstKids,  \* the children that parsed documents have
    Shows,      \* the documents that the page shows, one after the other
    Depths,     \* depths that clients ask for
    MaxId       \* bound on the numbers given between two resets

ASSUME NodesAssumption ==
    /\ Elements \cup Docs \subseteq Nodes /\ Elements \cap Docs = {}
    /\ DocOf \in [Nodes -> Docs]
    /\ Shows \in Seq(Docs)
    /\ FirstKids \in [Nodes -> Seq(Nodes)]
    /\ None \notin Nodes
ASSUME MaxIdIsNat == MaxId \in Nat
ASSUME DepthsAreInts == Depths \subseteq -1..2

(* The children of one document's nodes, each in one place, and none of    *)
(* them above itself as deep as clients ask.                               *)
Trees(ks) ==
    /\ \A p, q \in Nodes : \A i \in DOMAIN ks[p], j \in DOMAIN ks[q] :
          ks[p][i] = ks[q][j] => p = q /\ i = j
    /\ \A p \in Nodes : \A i \in DOMAIN ks[p] :
          /\ DocOf[ks[p][i]] = DocOf[p]
          /\ ks[p][i] # p
          /\ \A j \in DOMAIN ks[ks[p][i]] : ks[ks[p][i]][j] # p

Parsed == Docs \cup {n \in Nodes : \E p \in Nodes : \E i \in DOMAIN FirstKids[p] :
                                     FirstKids[p][i] = n}

ASSUME DocumentsAreTrees ==
    Trees(FirstKids) /\ \A p \in Nodes : FirstKids[p] # <<>> => p \in Parsed

Ids == 1..MaxId

VARIABLES
    nextID, nodeToID, idToNode, \* NodeStore; 0 and None where the maps have no entry
    epoch,      \* history: how often the store was reset
    kids,       \* the children of each node
    made,       \* nodes that exist
    shown,      \* Page.doc
    cmd,        \* what each command is doing
    torn        \* history: commands since whose start the numbering or a tree changed

store == <<nextID, nodeToID, idToNode, epoch>>
tree == <<kids, made>>
nodeVars == <<store, tree, shown, cmd, torn>>

(* stack is what is left to walk, next first; root what the command is     *)
(* about; ans the nodes that the answer names, with numbers and epochs.    *)
Idle == [pc |-> "idle", op |-> "none", root |-> None, depth |-> 0, stack |-> <<>>, ans |-> <<>>]

NodeInit ==
    /\ nextID = 1 /\ epoch = 0
    /\ nodeToID = [n \in Nodes |-> 0]
    /\ idToNode = [i \in Ids |-> None]
    /\ kids = FirstKids
    /\ made = Parsed
    /\ shown = None
    /\ cmd = [c \in Cmds |-> Idle]
    /\ torn = {}

At(c, pc) == cmd[c].pc = pc
Goto(c, pc) == cmd' = [cmd EXCEPT ![c].pc = pc]
Begun == {c \in Cmds : At(c, "walk") \/ At(c, "done")}

NextSiblings(n) ==
    {m \in Nodes : \E p \in Nodes : \E i \in 1..(Len(kids[p]) - 1) :
                       kids[p][i] = n /\ kids[p][i + 1] = m}
HasParent(n) == \E p \in Nodes : \E i \in DOMAIN kids[p] : kids[p][i] = n

Bindings(n, d) == <<[do |-> "bind", n |-> n, d |-> d, sib |-> FALSE]>>
WithSiblings(n, d) == <<[do |-> "bind", n |-> n, d |-> d, sib |-> TRUE]>>

-----------------------------------------------------------------------------
(* NodeStore *)

Bound(n) == nodeToID[n] # 0
(* Bug: the counter is answered for a node that has a number. *)
IdAfterBind_Counter(n) == nextID

IdAfterBind(n) == IF Bound(n) THEN nodeToID[n] ELSE nextID

Bind(n) ==
    \/ /\ Bound(n)
       /\ UNCHANGED store
    \/ /\ ~Bound(n) /\ nextID \in Ids
       /\ nextID' = nextID + 1
       /\ nodeToID' = [nodeToID EXCEPT ![n] = nextID]
       /\ idToNode' = [idToNode EXCEPT ![nextID] = n]
       /\ UNCHANGED epoch

Reset ==
    /\ nextID' = 1 /\ epoch' = epoch + 1
    /\ nodeToID' = [n \in Nodes |-> 0]
    /\ idToNode' = [i \in Ids |-> None]

-----------------------------------------------------------------------------
(* The commands *)

Begin(c, pc, op, root, d, stack) ==
    /\ cmd' = [cmd EXCEPT ![c] = [pc |-> pc, op |-> op, root |-> root, depth |-> d,
                                  stack |-> stack, ans |-> <<>>]]
    /\ UNCHANGED torn

(* An error, or an answer that names no node. *)
Nothing(c) == Begin(c, "done", "none", None, 0, <<>>)

GetDocument(c, d) ==
    /\ At(c, "idle")
    /\ IF shown = None THEN Nothing(c)
                       ELSE Begin(c, "reset", "getDocument", shown, d, <<>>)
    /\ UNCHANGED <<store, tree, shown>>

(* Bug: the document is asked for again. *)
ResetStore_Rereads(c) ==
    /\ At(c, "reset")
    /\ Reset
    /\ cmd' = [cmd EXCEPT ![c].pc = "walk", ![c].stack = Bindings(shown, cmd[c].depth)]
    /\ torn' = torn \cup Begun
    /\ UNCHANGED <<tree, shown>>

ResetStore(c) ==
    /\ At(c, "reset")
    /\ Reset
    /\ cmd' = [cmd EXCEPT ![c].pc = "walk", ![c].stack = Bindings(cmd[c].root, cmd[c].depth)]
    /\ torn' = torn \cup Begun
    /\ UNCHANGED <<tree, shown>>

Children(parents) ==
    {m \in Nodes : \E p \in parents : \E i \in DOMAIN kids[p] : kids[p][i] = m}

(* A selector may match any of the elements below the node. *)
Below(n) ==
    LET sons == Children({n})
        grandsons == Children(sons)
    IN (sons \cup grandsons \cup Children(grandsons)) \cap Elements

QuerySelector(c, n) ==
    IF n \in Elements \cup Docs
    THEN \/ Nothing(c)
         \/ \E m \in Below(n) : Begin(c, "walk", "query", n, 0, Bindings(m, 0))
    ELSE Nothing(c)

QuerySelectorAll(c, n) ==
    IF n \in Elements \cup Docs
    THEN \/ Nothing(c)
         \/ \E m1, m2 \in Below(n) : m1 # m2 /\
               Begin(c, "walk", "query", n, 0, Bindings(m1, 0) \o Bindings(m2, 0))
    ELSE Nothing(c)

(* getOuterHTML takes any node, the attribute commands refuse one that is  *)
(* no element; what they read and write is left out.                       *)
OuterHTML(c, n) == Nothing(c)
OfElement(c, n) == Nothing(c)

SetOuterHTML(c, n) ==
    IF n \in Elements /\ HasParent(n) THEN Begin(c, "parse", "setOuterHTML", n, 0, <<>>)
                                      ELSE Nothing(c)

(* serializeChildren lists the children at any depth. *)
RequestChildNodes(c, n, d) ==
    IF kids[n] = <<>> THEN Begin(c, "done", "children", n, d, <<>>)
    ELSE Begin(c, "walk", "children", n, d, WithSiblings(kids[n][1], d - 1))

DescribeNode(c, n, d) == Begin(c, "walk", "describe", n, d, Bindings(n, d))

WithNode(c, i) ==
    LET n == idToNode[i]
    IN /\ n # None
       /\ \/ QuerySelector(c, n) \/ QuerySelectorAll(c, n)
          \/ OuterHTML(c, n) \/ OfElement(c, n) \/ SetOuterHTML(c, n)
          \/ \E d \in Depths : RequestChildNodes(c, n, d) \/ DescribeNode(c, n, d)

(* A number that names nothing: 0, which is never given, or one that is    *)
(* not given yet.  describeNode alone is content with it, and describes    *)
(* the document.                                                           *)
WithoutNode(c) ==
    \/ Nothing(c)
    \/ shown # None /\ \E d \in Depths : DescribeNode(c, shown, d)

Command(c) ==
    /\ At(c, "idle")
    /\ WithoutNode(c) \/ \E i \in Ids : WithNode(c, i)
    /\ UNCHANGED <<store, tree, shown>>

(* Element.SetInnerHTML, which module DomTree takes apart: the outer HTML  *)
(* becomes the children of the element.                                    *)
Parse(c) ==
    /\ At(c, "parse")
    /\ \E new \in {<<>>} \cup {<<m>> : m \in {x \in Elements \ made :
                                              DocOf[x] = DocOf[cmd[c].root]}} :
          /\ kids' = [kids EXCEPT ![cmd[c].root] = new]
          /\ made' = made \cup {m \in Nodes : new = <<m>>}
    /\ torn' = torn \cup Begun
    /\ Goto(c, "done")
    /\ UNCHANGED <<store, shown>>

-----------------------------------------------------------------------------
(* serializeNode and serializeChildren.  Each step binds a node or goes    *)
(* to the sibling that a node has by then.                                 *)

Kids(f) ==
    IF f.d > 0 /\ kids[f.n] # <<>> THEN WithSiblings(kids[f.n][1], f.d - 1) ELSE <<>>

SerializeNode(c) ==
    LET f == cmd[c].stack[1]
    IN /\ At(c, "walk") /\ cmd[c].stack # <<>> /\ f.do = "bind"
       /\ Bind(f.n)
       /\ cmd' = [cmd EXCEPT
             ![c].ans = Append(@, [n |-> f.n, id |-> IdAfterBind(f.n), at |-> epoch]),
             ![c].stack = Kids(f) \o (IF f.sib THEN <<[f EXCEPT !.do = "next"]>> ELSE <<>>)
                                  \o Tail(@)]
       /\ UNCHANGED <<tree, shown, torn>>

NextSibling(c) ==
    LET f == cmd[c].stack[1]
    IN /\ At(c, "walk") /\ cmd[c].stack # <<>> /\ f.do = "next"
       /\ \/ \E m \in NextSiblings(f.n) :
                cmd' = [cmd EXCEPT ![c].stack = WithSiblings(m, f.d) \o Tail(@)]
          \/ NextSiblings(f.n) = {} /\ cmd' = [cmd EXCEPT ![c].stack = Tail(@)]
       /\ UNCHANGED <<store, tree, shown, torn>>

Answer(c) ==
    /\ At(c, "walk") /\ cmd[c].stack = <<>>
    /\ Goto(c, "done")
    /\ UNCHANGED <<store, tree, shown, torn>>

-----------------------------------------------------------------------------
(* The page shows another document; the store is not told. *)
Navigated ==
    /\ \E k \in DOMAIN Shows :
          /\ shown = IF k = 1 THEN None ELSE Shows[k - 1]
          /\ shown' = Shows[k]
    /\ UNCHANGED <<store, tree, cmd, torn>>

DomCommand(c) ==
    \/ \E d \in Depths : GetDocument(c, d)
    \/ Command(c)
    \/ ResetStore(c) \/ Parse(c) \/ SerializeNode(c) \/ NextSibling(c) \/ Answer(c)

NodeNext == Navigated \/ \E c \in Cmds : DomCommand(c)

NodeSpec == NodeInit /\ [][NodeNext]_nodeVars

-----------------------------------------------------------------------------
Frames == [do : {"bind", "next"}, n : Nodes, d : -2..2, sib : BOOLEAN]
Named == [n : Nodes, id : Ids, at : Nat]
CmdRecords ==
    [pc : {"idle", "reset", "walk", "parse", "done"},
     op : {"none", "getDocument", "query", "setOuterHTML", "children", "describe"},
     root : Nodes \cup {None}, depth : -1..2, stack : Seq(Frames), ans : Seq(Named)]

NodeTypeOK ==
    /\ nextID \in 1..(MaxId + 1) /\ epoch \in Nat
    /\ nodeToID \in [Nodes -> 0..MaxId]
    /\ idToNode \in [Ids -> Nodes \cup {None}]
    /\ kids \in [Nodes -> Seq(Nodes)] /\ made \subseteq Nodes
    /\ shown \in Docs \cup {None}
    /\ cmd \in [Cmds -> CmdRecords]
    /\ torn \subseteq Cmds

(* The two maps are inverse to each other and hold the numbers given since *)
(* the last reset, whatever commands bind and reset at once.               *)
MapsInverse ==
    /\ \A n \in Nodes : Bound(n) => idToNode[nodeToID[n]] = n
    /\ \A i \in Ids : idToNode[i] # None => nodeToID[idToNode[i]] = i
    /\ \A i \in Ids : idToNode[i] # None <=> i < nextID

(* A number in an answer, also one that is still being put together, names *)
(* its node until the numbering starts anew.                               *)
AnswersStand ==
    \A c \in Cmds : \A k \in DOMAIN cmd[c].ans :
        cmd[c].ans[k].at = epoch => idToNode[cmd[c].ans[k].id] = cmd[c].ans[k].n

(* What a tree to this depth has, level by level: a definition that knows  *)
(* nothing of the walk.                                                    *)
Levels(root, d) ==
    {root} \cup (IF d > 0 THEN Children({root}) ELSE {})
           \cup (IF d > 1 THEN Children(Children({root})) ELSE {})

Expected(c) ==
    LET r == cmd[c]
    IN IF r.op = "children" THEN Levels(r.root, IF r.depth < 1 THEN 1 ELSE r.depth) \ {r.root}
       ELSE Levels(r.root, r.depth)

(* The answer to a command that no other one disturbs has every node of    *)
(* the tree to the depth that was asked for, once, and each has a number   *)
(* of its own.                                                             *)
AnswerIsWhole ==
    \A c \in Cmds : (At(c, "done") /\ c \notin torn
                       /\ cmd[c].op \in {"getDocument", "describe", "children"}) =>
        LET ans == cmd[c].ans
        IN /\ {ans[k].n : k \in DOMAIN ans} = Expected(c)
           /\ \A j, k \in DOMAIN ans : j # k => ans[j].n # ans[k].n /\ ans[j].id # ans[k].id

(* No answer, disturbed or not, mixes the trees of two documents, although *)
(* the page may show another one meanwhile.                                *)
OneDocument ==
    \A c \in Cmds : \A k \in DOMAIN cmd[c].ans :
        DocOf[cmd[c].ans[k].n] = DocOf[cmd[c].root]

=============================================================================
