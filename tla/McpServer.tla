----------------------------- MODULE McpServer -----------------------------
(***************************************************************************)
(* The MCP server (src/internal/mcp): it reads a message, handles it and   *)
(* writes the answer before it reads the next (transport.go).  The tools   *)
(* work on pages that a session keeps by URL (session.go); the numbers of  *)
(* the last semantic tree name elements for interact, which marks the      *)
(* element for its script to find (handler_interact.go).                   *)
(*                                                                         *)
(* A document is the sequence of its elements in document order, as        *)
(* SemanticTree has them.  Scripts, of evaluate and of listeners that      *)
(* interact makes run, do one thing to it.  Left out: text, other          *)
(* attributes, what browse and query return, the JSON of messages.         *)
(***************************************************************************)
EXTENDS SemanticTree

CONSTANTS
    Urls,
    Served,         \* the document that each URL serves: [depth, kind, hidden]
    Depths,         \* max_depth that a client may give
    MaxMessages     \* bound on the messages of a client

ASSUME ServedAreDocuments ==
    Served \in [Urls -> Seq([depth : Nat \ {0}, kind : Kinds, hidden : BOOLEAN])]
ASSUME DepthsAreNumbers == Depths \subseteq Nat
ASSUME MaxMessagesIsNat == MaxMessages \in Nat

VARIABLES
    pages,          \* PageSession.pages: whether there is one, and its document
    nodeMap,        \* PageSession.nodeMap
    marked,         \* elements with the attribute data-uzura-tmp
    elements,       \* how many elements there have been
    messages,
    seen,           \* history: the numbers that the last semantic tree showed
    compressed,     \* history: what was shown was all that should be
    made,           \* history: elements that scripts made of others
    loads,          \* history: how often each URL was loaded
    act             \* history: the last interact: what it named and what it reached

mcpVars == <<pages, nodeMap, marked, elements, messages, seen, compressed, made, loads, act>>
session == <<pages, nodeMap, marked, elements>>
history == <<seen, compressed, made, loads, act>>

Nothing == 0
NoAct == [by |-> "none", wanted |-> Nothing, hit |-> Nothing, clean |-> TRUE, there |-> FALSE]

McpInit ==
    /\ pages = [u \in Urls |-> [cached |-> FALSE, doc |-> <<>>]]
    /\ nodeMap = <<>> /\ marked = {} /\ elements = 0 /\ messages = 0
    /\ seen = {} /\ compressed = TRUE /\ made = {} /\ loads = [u \in Urls |-> 0] /\ act = NoAct

Els(doc) == {doc[i].el : i \in DOMAIN doc}

-----------------------------------------------------------------------------
(* Messages *)

Message == messages < MaxMessages /\ messages' = messages + 1

(* It cannot be parsed, has no version or method, is a notification, names *)
(* no method or tool, or the tool refuses its arguments.                   *)
NoTool == Message /\ UNCHANGED <<session, history>>

(* GetOrNavigate: the page of the URL and how many elements there are then. *)
GetOrNavigate(u) ==
    IF pages[u].cached THEN [doc |-> pages[u].doc, next |-> elements, loaded |-> 0]
    ELSE [doc |-> [i \in DOMAIN Served[u] |-> [el |-> elements + i, depth |-> Served[u][i].depth,
                                               kind |-> Served[u][i].kind, hidden |-> Served[u][i].hidden]],
          next |-> elements + Len(Served[u]), loaded |-> 1]

Keep(u, doc, next) ==
    /\ pages' = [pages EXCEPT ![u] = [cached |-> TRUE, doc |-> doc]]
    /\ elements' = next
    /\ loads' = [loads EXCEPT ![u] = @ + GetOrNavigate(u).loaded]

(* It fails, and leaves no page behind. *)
NavigateFails(u) ==
    /\ Message
    /\ ~pages[u].cached
    /\ UNCHANGED <<session, history>>

(* What these two return is left out. *)
Browse(u) ==
    /\ Message
    /\ Keep(u, GetOrNavigate(u).doc, GetOrNavigate(u).next)
    /\ UNCHANGED <<nodeMap, marked, seen, compressed, made, act>>

Query(u) ==
    /\ Message
    /\ Keep(u, GetOrNavigate(u).doc, GetOrNavigate(u).next)
    /\ UNCHANGED <<nodeMap, marked, seen, compressed, made, act>>

SemanticTree(u, depth) ==
    LET page == GetOrNavigate(u)
        built == Build(page.doc)
        tree == CompressTree(built.nodes, depth)
    IN /\ Message
       /\ Keep(u, page.doc, page.next)
       /\ nodeMap' = built.map
       /\ seen' = Shown(tree)
       /\ compressed' = ({n.el : n \in Shown(tree)} = ShouldShow(page.doc, depth))
       /\ UNCHANGED <<marked, made, act>>

-----------------------------------------------------------------------------
(* Scripts.  What a script leaves of a document, of the marks and of the   *)
(* elements: nothing changed; an element removed; or the HTML of an        *)
(* element read and written, which makes its content anew, with the        *)
(* attributes it had.                                                      *)
Below(doc, i) == {k \in DOMAIN doc : k > i /\ Holds(doc, i, k)}

Removed(state, i) ==
    [state EXCEPT !.doc = Without(@, {i})]

Rewritten(state, i) ==
    LET Copy(k) == state.next + (k - i)
        below == Below(state.doc, i)
    IN [doc |-> [k \in DOMAIN state.doc |->
                    IF k \in below THEN [state.doc[k] EXCEPT !.el = Copy(k)] ELSE state.doc[k]],
        marks |-> state.marks \cup {Copy(k) : k \in {k \in below : state.doc[k].el \in state.marks}},
        next |-> state.next + Cardinality(below)]

Effects(state) ==
    {state} \cup {Removed(state, i) : i \in DOMAIN state.doc}
            \cup {Rewritten(state, i) : i \in {i \in DOMAIN state.doc : Below(state.doc, i) # {}}}

Evaluate(u) ==
    LET page == GetOrNavigate(u) IN
    /\ Message
    /\ \E after \in Effects([doc |-> page.doc, marks |-> marked, next |-> page.next]) :
          /\ Keep(u, after.doc, after.next)
          /\ marked' = after.marks
          /\ made' = made \cup ((page.next + 1)..after.next)
    /\ UNCHANGED <<nodeMap, seen, compressed, act>>

(* querySelector *)
First(doc, S) ==
    LET found == {i \in DOMAIN doc : doc[i].el \in S}
    IN IF found = {} THEN Nothing ELSE doc[CHOOSE i \in found : \A j \in found : i <= j].el

(* The script of interact: the element is found or not, and its listeners  *)
(* run.                                                                    *)
Dispatch(u, page, marks, hit, unmark) ==
    \E after \in IF hit = Nothing THEN {[doc |-> page.doc, marks |-> marks, next |-> page.next]}
                 ELSE Effects([doc |-> page.doc, marks |-> marks, next |-> page.next]) :
       /\ Keep(u, after.doc, after.next)
       /\ marked' = after.marks \ unmark
       /\ made' = made \cup ((page.next + 1)..after.next)

(* The selector is one of CSS: any element may be its first match, or none. *)
InteractCss(u) ==
    LET page == GetOrNavigate(u) IN
    /\ Message
    /\ \E hit \in Els(page.doc) \cup {Nothing} : Dispatch(u, page, marked, hit, {})
    /\ act' = NoAct
    /\ UNCHANGED <<nodeMap, seen, compressed>>

(* node:N without an element *)
NoElement(u, n) ==
    /\ Message
    /\ n \notin DOMAIN nodeMap
    /\ Keep(u, GetOrNavigate(u).doc, GetOrNavigate(u).next)
    /\ act' = NoAct
    /\ UNCHANGED <<nodeMap, marked, seen, compressed, made>>

InteractNode(u, n) ==
    LET page == GetOrNavigate(u)
        el == nodeMap[n]
        marks == marked \cup {el}
        hit == First(page.doc, marks)
        named == {s.el : s \in {s \in seen : s.id = n}}
    IN /\ Message
       /\ n \in DOMAIN nodeMap
       /\ Dispatch(u, page, marks, hit, {el})
       /\ act' = IF named = {} THEN NoAct
                 ELSE [by |-> "node", wanted |-> CHOOSE w \in named : TRUE, hit |-> hit,
                       clean |-> marked \cap Els(page.doc) = {}, there |-> named \subseteq Els(page.doc)]
       /\ UNCHANGED <<nodeMap, seen, compressed>>

McpNext ==
    \/ NoTool
    \/ \E u \in Urls :
          \/ NavigateFails(u) \/ Browse(u) \/ Query(u) \/ Evaluate(u) \/ InteractCss(u)
          \/ \E depth \in Depths : SemanticTree(u, depth)
          \/ \E n \in 1..(Len(nodeMap) + 1) : NoElement(u, n) \/ InteractNode(u, n)

McpSpec == McpInit /\ [][McpNext]_mcpVars

-----------------------------------------------------------------------------
(* Types of the variables. *)
McpTypeOK ==
    /\ \A u \in Urls : /\ pages[u].cached \in BOOLEAN
                       /\ \A el \in Els(pages[u].doc) : el \in 1..elements
    /\ \A n \in DOMAIN nodeMap : nodeMap[n] \in 1..elements
    /\ marked \subseteq 1..elements /\ messages \in 0..MaxMessages

(* What the semantic tree shows, once made and compressed in six passes    *)
(* over it, are the links that ShouldShow finds in the document.           *)
TreeAsRead == compressed

(* node:N reaches the element that the client was shown as N, or none when *)
(* that is no longer in the document of the URL, whatever other calls and  *)
(* scripts came between, unless the document has a mark of before.         *)
NodeReached ==
    act.by = "node" /\ act.clean => act.hit = IF act.there THEN act.wanted ELSE Nothing

(* Between two messages only copies that scripts made have a mark.         *)
MarksCleared == marked \subseteq made

(* A URL is loaded once; its page stays as scripts left it.                *)
LoadedOnce == \A u \in Urls : loads[u] <= 1

(* handler_interact.go:95 "Support "node:N" syntax for semantic tree       *)
(* NodeID-based selection": what it reaches is what the number names.      *)
NodeReachedAlways ==
    act.by = "node" => act.hit \in {act.wanted, Nothing}

(* compress_test.go:126: "Hidden elements should not appear at all."       *)
HiddenStayOut ==
    \A u \in Urls : LET doc == pages[u].doc IN
        \A i, j \in DOMAIN doc : doc[j].hidden /\ Holds(doc, j, i) => \A s \in seen : s.el # doc[i].el

(* node:N stands for one element, however tools and scripts are called in  *)
(* between: what it reaches, the mark it goes by, and the page it is on.   *)
NumbersReach == McpTypeOK /\ NodeReached /\ MarksCleared /\ LoadedOnce

=============================================================================
