---------------------------- MODULE DomTreeProofs ----------------------------
(***************************************************************************)
(* Theorems about DomTree, for any sets of nodes and any number of calls.  *)
(*                                                                         *)
(* LinksAgree alone is not inductive: a call in progress keeps nodes in    *)
(* its job, of which the next step relies on what JobOK says; and siblings *)
(* that form a ring agree with each other, so that a node removed from     *)
(* such a ring could be the one that the loop of normalize goes on with.   *)
(* NoRing rules rings out.                                                 *)
(*                                                                         *)
(* Of the lists that observers know, ListsOK says that the next sibling of *)
(* each node is the node that follows in the list of its parent; what the  *)
(* walk of ChildNodes finds is the list then, and the walk is the only     *)
(* function that its recursive definition admits, again by NoRing.         *)
(*                                                                         *)
(* That the tree implements NodeTree is told by WayOK, which says in the   *)
(* middle of a call what is left to do: which list each list is to become, *)
(* given the nodes that are still to be placed, and where; and, while      *)
(* normalize is on its way, which lists are done, and that what has been   *)
(* dropped from the others is nothing that would have stayed.  Lists are   *)
(* spoken of by what they have and in which order (Has, Goes), so that a   *)
(* step is a matter of logic and not of positions; a list without doubles  *)
(* is told by its order (OrderTells).                                      *)
(***************************************************************************)
EXTENDS DomTree, Sublists, SequenceTheorems, WellFoundedInduction, TLAPS

LinksTyped ==
    /\ parent \in [Nodes -> Containers \cup {None}]
    /\ first \in [Nodes -> Nodes \cup {None}]
    /\ last \in [Nodes -> Nodes \cup {None}]
    /\ prev \in [Nodes -> Nodes \cup {None}]
    /\ next \in [Nodes -> Nodes \cup {None}]

(* Every set of nodes has one whose next sibling is not in the set. *)
NoRing == \A S \in SUBSET Nodes : S # {} => \E n \in S : next[n] \notin S

LinksOK == LinksTyped /\ LinksAgree /\ NoRing

Inner == Texts \cup Elements

Jobs == [op : Ops, node : Containers \cup {None}, child : Nodes \cup {None},
         ref : Nodes \cup {None}, from : Fragments \cup {None},
         todo : Seq(Nodes), scope : SUBSET Containers]

JobOK ==
    /\ job \in Jobs
    /\ job.op # "idle" => job.node \in Containers
    /\ job.op \in {"place", "swap"} =>
          job.child \in Inner /\ job.ref # job.child
    /\ job.op \in {"place", "swap", "splice", "normalize"} =>
          (job.ref # None => parent[job.ref] = job.node)
    /\ job.op = "swap" => job.ref # None
    /\ job.op = "splice" => job.from # None
    /\ job.op \in {"place", "splice"} => job.from # job.node
    /\ job.todo \in Seq(Inner)
    /\ job.todo # <<>> => job.op = "clear" \/ (job.op = "place" /\ job.ref = None /\ job.from = None)

CallOK == call = NoCall <=> job.op = "idle"

IInv == LinksOK /\ JobOK /\ CallOK /\ empty \subseteq Texts

-----------------------------------------------------------------------------
(* What the writes to links do, node by node. *)

LEMMA UnlinkLinks ==
  ASSUME LinksTyped, NEW c \in Nodes, Unlink(c)
  PROVE  /\ parent' = [parent EXCEPT ![c] = None]
         /\ \A n \in Nodes : next'[n] = IF n = c THEN None
                                        ELSE IF n = prev[c] THEN next[c] ELSE next[n]
         /\ \A n \in Nodes : prev'[n] = IF n = c THEN None
                                        ELSE IF n = next[c] THEN prev[c] ELSE prev[n]
         /\ \A n \in Nodes : first'[n] = IF prev[c] = None /\ n = parent[c]
                                         THEN next[c] ELSE first[n]
         /\ \A n \in Nodes : last'[n] = IF next[c] = None /\ n = parent[c]
                                        THEN prev[c] ELSE last[n]
         /\ LinksTyped'
<1>1. /\ parent' = [parent EXCEPT ![c] = None]
      /\ prev' = [Set(prev, next[c], prev[c]) EXCEPT ![c] = None]
      /\ next' = [Set(next, prev[c], next[c]) EXCEPT ![c] = None]
      /\ first' = IF prev[c] = None THEN [first EXCEPT ![parent[c]] = next[c]] ELSE first
      /\ last' = IF next[c] = None THEN [last EXCEPT ![parent[c]] = prev[c]] ELSE last
  BY DEF Unlink
<1>2. /\ prev[c] \in Nodes \cup {None} /\ next[c] \in Nodes \cup {None}
      /\ parent[c] \in Containers \cup {None}
  BY DEF LinksTyped
<1>3. /\ Set(next, prev[c], next[c]) \in [Nodes -> Nodes \cup {None}]
      /\ Set(prev, next[c], prev[c]) \in [Nodes -> Nodes \cup {None}]
  BY <1>2 DEF LinksTyped, Set
<1>4. \A n \in Nodes : next'[n] = IF n = c THEN None
                                  ELSE IF n = prev[c] THEN next[c] ELSE next[n]
  BY <1>1, <1>2, <1>3, NoneIsNoNode DEF LinksTyped, Set
<1>5. \A n \in Nodes : prev'[n] = IF n = c THEN None
                                  ELSE IF n = next[c] THEN prev[c] ELSE prev[n]
  BY <1>1, <1>2, <1>3, NoneIsNoNode DEF LinksTyped, Set
<1>6. \A n \in Nodes : first'[n] = IF prev[c] = None /\ n = parent[c]
                                   THEN next[c] ELSE first[n]
  BY <1>1, <1>2 DEF LinksTyped
<1>7. \A n \in Nodes : last'[n] = IF next[c] = None /\ n = parent[c]
                                  THEN prev[c] ELSE last[n]
  BY <1>1, <1>2 DEF LinksTyped
<1>8. LinksTyped'
  <2>1. parent' \in [Nodes -> Containers \cup {None}]
    BY <1>1 DEF LinksTyped
  <2>2. prev' \in [Nodes -> Nodes \cup {None}] /\ next' \in [Nodes -> Nodes \cup {None}]
    BY <1>1, <1>3
  <2>3. first' \in [Nodes -> Nodes \cup {None}] /\ last' \in [Nodes -> Nodes \cup {None}]
    BY <1>1, <1>2 DEF LinksTyped
  <2> QED
    BY <2>1, <2>2, <2>3 DEF LinksTyped
<1> QED
  BY <1>1, <1>4, <1>5, <1>6, <1>7, <1>8

(* A node that has a parent leaves it: the links agree, no ring appears,   *)
(* and the other nodes keep their parents.                                 *)
LEMMA UnlinkKeeps ==
  ASSUME LinksOK, NEW c \in Nodes, parent[c] # None, Unlink(c)
  PROVE  /\ LinksOK'
         /\ \A n \in Nodes : parent'[n] = IF n = c THEN None ELSE parent[n]
         /\ \A n \in Nodes : next'[n] = IF n = c THEN None
                                        ELSE IF n = prev[c] THEN next[c] ELSE next[n]
<1> USE NoneIsNoNode
<1>1. /\ LinksTyped'
      /\ \A n \in Nodes : parent'[n] = IF n = c THEN None ELSE parent[n]
      /\ \A n \in Nodes : next'[n] = IF n = c THEN None
                                     ELSE IF n = prev[c] THEN next[c] ELSE next[n]
      /\ \A n \in Nodes : prev'[n] = IF n = c THEN None
                                     ELSE IF n = next[c] THEN prev[c] ELSE prev[n]
      /\ \A n \in Nodes : first'[n] = IF prev[c] = None /\ n = parent[c]
                                      THEN next[c] ELSE first[n]
      /\ \A n \in Nodes : last'[n] = IF next[c] = None /\ n = parent[c]
                                     THEN prev[c] ELSE last[n]
  BY UnlinkLinks DEF LinksOK, LinksTyped
<1>2. \A n \in Nodes : Agrees(n)
  BY DEF LinksOK, LinksAgree
<1>3. \A n \in Nodes : /\ parent[n] \in Nodes \cup {None} /\ prev[n] \in Nodes \cup {None}
                       /\ next[n] \in Nodes \cup {None} /\ first[n] \in Nodes \cup {None}
                       /\ last[n] \in Nodes \cup {None}
  BY DEF LinksOK, LinksTyped, Nodes
<1>4. next[c] # c
  <2>1. {c} \in SUBSET Nodes /\ {c} # {}
    OBVIOUS
  <2>2. \E n \in {c} : next[n] \notin {c}
    BY <2>1 DEF LinksOK, NoRing
  <2> QED
    BY <2>2
<1>5. LinksAgree'
  <2> SUFFICES ASSUME NEW n \in Nodes
               PROVE  Agrees(n)'
    BY DEF LinksAgree
  <2>1. (parent[n] = None => prev[n] = None /\ next[n] = None)'
    BY <1>1, <1>2, <1>3, <1>4 DEF Agrees
  <2>2. (parent[n] # None => (prev[n] = None <=> first[parent[n]] = n))'
    BY <1>1, <1>2, <1>3, <1>4 DEF Agrees
  <2>3. (parent[n] # None => (next[n] = None <=> last[parent[n]] = n))'
    BY <1>1, <1>2, <1>3, <1>4 DEF Agrees
  <2>4. (prev[n] # None => next[prev[n]] = n /\ parent[prev[n]] = parent[n])'
    BY <1>1, <1>2, <1>3, <1>4 DEF Agrees
  <2>5. (next[n] # None => prev[next[n]] = n /\ parent[next[n]] = parent[n])'
    BY <1>1, <1>2, <1>3, <1>4 DEF Agrees
  <2>6. (first[n] # None => parent[first[n]] = n)'
    BY <1>1, <1>2, <1>3, <1>4 DEF Agrees
  <2>7. (last[n] # None => parent[last[n]] = n)'
    BY <1>1, <1>2, <1>3, <1>4 DEF Agrees
  <2>8. (first[n] = None <=> last[n] = None)'
    BY <1>1, <1>2, <1>3, <1>4 DEF Agrees
  <2>9. (n \in Texts => first[n] = None)'
    BY <1>1, <1>2, <1>3, <1>4 DEF Agrees
  <2>10. (n \in Documents \cup Fragments => parent[n] = None)'
    BY <1>1, <1>2 DEF Agrees
  <2> QED
    BY <2>1, <2>2, <2>3, <2>4, <2>5, <2>6, <2>7, <2>8, <2>9, <2>10 DEF Agrees
<1>6. NoRing'
  <2> SUFFICES ASSUME NEW S \in SUBSET Nodes, S # {}
               PROVE  \E n \in S : next'[n] \notin S
    BY DEF NoRing
  <2>1. CASE c \in S
    BY <2>1, <1>1
  <2>2. CASE c \notin S
    <3>1. PICK n \in S \cup {c} : next[n] \notin S \cup {c}
      BY DEF LinksOK, NoRing
    <3>2. CASE n = c /\ prev[c] \in S
      BY <2>2, <3>1, <3>2, <1>1
    <3>3. CASE n = c /\ prev[c] \notin S
      <4>1. PICK m \in S : next[m] \notin S
        BY DEF LinksOK, NoRing
      <4> QED
        BY <2>2, <3>3, <4>1, <1>1
    <3>4. CASE n # c
      BY <2>2, <3>1, <3>4, <1>1, <1>2, <1>3 DEF Agrees
    <3> QED
      BY <3>2, <3>3, <3>4
  <2> QED
    BY <2>1, <2>2
<1> QED
  BY <1>1, <1>5, <1>6 DEF LinksOK

(* A node without a parent becomes the last child of p. *)
LEMMA LinkLastKeeps ==
  ASSUME LinksOK, NEW p \in Containers, NEW c \in Inner, parent[c] = None, LinkLast(p, c)
  PROVE  /\ LinksOK'
         /\ \A n \in Nodes : parent'[n] = IF n = c THEN p ELSE parent[n]
         /\ \A n \in Nodes : next'[n] = IF first[p] # None /\ n = last[p] THEN c ELSE next[n]
<1> USE NoneIsNoNode
<1>4. /\ p \in Nodes /\ p \notin Texts /\ c \in Nodes /\ c \notin Documents \cup Fragments
  BY KindsAreDisjoint DEF Nodes, Containers, Inner
<1>2. \A n \in Nodes : Agrees(n)
  BY DEF LinksOK, LinksAgree
<1>3. \A n \in Nodes : /\ parent[n] \in Nodes \cup {None} /\ prev[n] \in Nodes \cup {None}
                       /\ next[n] \in Nodes \cup {None} /\ first[n] \in Nodes \cup {None}
                       /\ last[n] \in Nodes \cup {None}
  BY DEF LinksOK, LinksTyped, Nodes
<1>5. /\ parent' = [parent EXCEPT ![c] = p]
      /\ first' = IF first[p] = None THEN [first EXCEPT ![p] = c] ELSE first
      /\ next' = IF first[p] = None THEN next ELSE [next EXCEPT ![last[p]] = c]
      /\ prev' = IF first[p] = None THEN prev ELSE [prev EXCEPT ![c] = last[p]]
      /\ last' = [last EXCEPT ![p] = c]
  BY DEF LinkLast
<1>6. LinksTyped'
  BY <1>3, <1>4, <1>5 DEF LinksOK, LinksTyped
<1>1. /\ \A n \in Nodes : parent'[n] = IF n = c THEN p ELSE parent[n]
      /\ \A n \in Nodes : next'[n] = IF first[p] # None /\ n = last[p] THEN c ELSE next[n]
      /\ \A n \in Nodes : prev'[n] = IF first[p] # None /\ n = c THEN last[p] ELSE prev[n]
      /\ \A n \in Nodes : first'[n] = IF first[p] = None /\ n = p THEN c ELSE first[n]
      /\ \A n \in Nodes : last'[n] = IF n = p THEN c ELSE last[n]
  BY <1>3, <1>4, <1>5 DEF LinksOK, LinksTyped
<1>7. LinksAgree'
  <2> SUFFICES ASSUME NEW n \in Nodes
               PROVE  Agrees(n)'
    BY DEF LinksAgree
  <2>1. (parent[n] = None => prev[n] = None /\ next[n] = None)'
    BY <1>1, <1>2, <1>3, <1>4 DEF Agrees
  <2>2. (parent[n] # None => (prev[n] = None <=> first[parent[n]] = n))'
    BY <1>1, <1>2, <1>3, <1>4 DEF Agrees
  <2>3. (parent[n] # None => (next[n] = None <=> last[parent[n]] = n))'
    BY <1>1, <1>2, <1>3, <1>4 DEF Agrees
  <2>4. (prev[n] # None => next[prev[n]] = n /\ parent[prev[n]] = parent[n])'
    BY <1>1, <1>2, <1>3, <1>4 DEF Agrees
  <2>5. (next[n] # None => prev[next[n]] = n /\ parent[next[n]] = parent[n])'
    BY <1>1, <1>2, <1>3, <1>4 DEF Agrees
  <2>6. (first[n] # None => parent[first[n]] = n)'
    BY <1>1, <1>2, <1>3, <1>4 DEF Agrees
  <2>7. (last[n] # None => parent[last[n]] = n)'
    BY <1>1, <1>2, <1>3, <1>4 DEF Agrees
  <2>8. (first[n] = None <=> last[n] = None)'
    BY <1>1, <1>2, <1>3, <1>4 DEF Agrees
  <2>9. (n \in Texts => first[n] = None)'
    BY <1>1, <1>2, <1>3, <1>4 DEF Agrees
  <2>10. (n \in Documents \cup Fragments => parent[n] = None)'
    BY <1>1, <1>2, <1>3, <1>4 DEF Agrees
  <2> QED
    BY <2>1, <2>2, <2>3, <2>4, <2>5, <2>6, <2>7, <2>8, <2>9, <2>10 DEF Agrees
<1>8. NoRing'
  <2> SUFFICES ASSUME NEW S \in SUBSET Nodes, S # {}
               PROVE  \E n \in S : next'[n] \notin S
    BY DEF NoRing
  <2>1. CASE c \in S
    BY <2>1, <1>1, <1>2, <1>3, <1>4 DEF Agrees
  <2>2. CASE c \notin S
    <3>1. PICK n \in S : next[n] \notin S
      BY DEF LinksOK, NoRing
    <3> QED
      BY <2>2, <3>1, <1>1
  <2> QED
    BY <2>1, <2>2
<1> QED
  BY <1>1, <1>6, <1>7, <1>8 DEF LinksOK

(* A node without a parent becomes a child of p, before another. *)
LEMMA LinkBeforeKeeps ==
  ASSUME LinksOK, NEW p \in Containers, NEW c \in Inner, parent[c] = None,
         NEW ref \in Nodes, ref # c, parent[ref] = p, LinkBefore(p, c, ref)
  PROVE  /\ LinksOK'
         /\ \A n \in Nodes : parent'[n] = IF n = c THEN p ELSE parent[n]
         /\ \A n \in Nodes : next'[n] = IF n = prev[ref] THEN c
                                        ELSE IF n = c THEN ref ELSE next[n]
<1> USE NoneIsNoNode
<1>4. /\ p \in Nodes /\ p \notin Texts /\ c \in Nodes /\ c \notin Documents \cup Fragments
  BY KindsAreDisjoint DEF Nodes, Containers, Inner
<1>2. \A n \in Nodes : Agrees(n)
  BY DEF LinksOK, LinksAgree
<1>3. \A n \in Nodes : /\ parent[n] \in Nodes \cup {None} /\ prev[n] \in Nodes \cup {None}
                       /\ next[n] \in Nodes \cup {None} /\ first[n] \in Nodes \cup {None}
                       /\ last[n] \in Nodes \cup {None}
  BY DEF LinksOK, LinksTyped, Nodes
<1>5. /\ parent' = [parent EXCEPT ![c] = p]
      /\ prev' = [prev EXCEPT ![c] = prev[ref], ![ref] = c]
      /\ next' = Set([next EXCEPT ![c] = ref], prev[ref], c)
      /\ first' = IF prev[ref] = None THEN [first EXCEPT ![p] = c] ELSE first
      /\ last' = last
  BY DEF LinkBefore
<1>6. LinksTyped'
  BY <1>3, <1>4, <1>5 DEF LinksOK, LinksTyped, Set
<1>1. /\ \A n \in Nodes : parent'[n] = IF n = c THEN p ELSE parent[n]
      /\ \A n \in Nodes : next'[n] = IF n = prev[ref] THEN c
                                     ELSE IF n = c THEN ref ELSE next[n]
      /\ \A n \in Nodes : prev'[n] = IF n = ref THEN c
                                     ELSE IF n = c THEN prev[ref] ELSE prev[n]
      /\ \A n \in Nodes : first'[n] = IF prev[ref] = None /\ n = p THEN c ELSE first[n]
      /\ \A n \in Nodes : last'[n] = last[n]
  <2>1. \A n \in Nodes : next'[n] = IF n = prev[ref] THEN c
                                   ELSE IF n = c THEN ref ELSE next[n]
    <3>1. CASE prev[ref] = None
      BY <1>3, <1>4, <1>5, <3>1 DEF LinksOK, LinksTyped, Set
    <3>2. CASE prev[ref] # None
      BY <1>3, <1>4, <1>5, <3>2 DEF LinksOK, LinksTyped, Set
    <3> QED
      BY <3>1, <3>2
  <2> QED
    BY <2>1, <1>3, <1>4, <1>5, ZenonT(60) DEF LinksOK, LinksTyped
<1>7. LinksAgree'
  <2> SUFFICES ASSUME NEW n \in Nodes
               PROVE  Agrees(n)'
    BY DEF LinksAgree
  <2>1. (parent[n] = None => prev[n] = None /\ next[n] = None)'
    BY <1>1, <1>2, <1>3, <1>4 DEF Agrees
  <2>2. (parent[n] # None => (prev[n] = None <=> first[parent[n]] = n))'
    BY <1>1, <1>2, <1>3, <1>4 DEF Agrees
  <2>3. (parent[n] # None => (next[n] = None <=> last[parent[n]] = n))'
    BY <1>1, <1>2, <1>3, <1>4 DEF Agrees
  <2>4. (prev[n] # None => next[prev[n]] = n /\ parent[prev[n]] = parent[n])'
    BY <1>1, <1>2, <1>3, <1>4 DEF Agrees
  <2>5. (next[n] # None => prev[next[n]] = n /\ parent[next[n]] = parent[n])'
    BY <1>1, <1>2, <1>3, <1>4 DEF Agrees
  <2>6. (first[n] # None => parent[first[n]] = n)'
    BY <1>1, <1>2, <1>3, <1>4 DEF Agrees
  <2>7. (last[n] # None => parent[last[n]] = n)'
    BY <1>1, <1>2, <1>3, <1>4 DEF Agrees
  <2>8. (first[n] = None <=> last[n] = None)'
    BY <1>1, <1>2, <1>3, <1>4 DEF Agrees
  <2>9. (n \in Texts => first[n] = None)'
    BY <1>1, <1>2, <1>3, <1>4 DEF Agrees
  <2>10. (n \in Documents \cup Fragments => parent[n] = None)'
    BY <1>1, <1>2, <1>3, <1>4 DEF Agrees
  <2> QED
    BY <2>1, <2>2, <2>3, <2>4, <2>5, <2>6, <2>7, <2>8, <2>9, <2>10 DEF Agrees
<1>8. NoRing'
  <2> SUFFICES ASSUME NEW S \in SUBSET Nodes, S # {}
               PROVE  \E n \in S : next'[n] \notin S
    BY DEF NoRing
  <2>1. CASE S = {c}
    BY <2>1, <1>1, <1>2, <1>3, <1>4 DEF Agrees
  <2>2. CASE S # {c}
    <3>1. PICK n \in S \ {c} : next[n] \notin S \ {c}
      <4>1. S \ {c} \in SUBSET Nodes /\ S \ {c} # {}
        BY <2>2
      <4> QED
        BY <4>1 DEF LinksOK, NoRing
    <3>2. next[n] # c
      BY <3>1, <1>2, <1>4 DEF Agrees
    <3>3. prev[ref] # c
      BY <1>2, <1>3, <1>4 DEF Agrees
    <3>4. CASE n = prev[ref]
      BY <3>1, <3>2, <3>3, <3>4, <1>1, <1>2, <1>3, <1>4 DEF Agrees
    <3>5. CASE n # prev[ref]
      BY <3>1, <3>2, <3>5, <1>1
    <3> QED
      BY <3>4, <3>5
  <2> QED
    BY <2>1, <2>2
<1> QED
  BY <1>1, <1>6, <1>7, <1>8 DEF LinksOK

(* A node without a parent takes the place of a child of p. *)
LEMMA SwapKeeps ==
  ASSUME LinksOK, NEW p \in Containers, NEW new \in Inner, parent[new] = None,
         NEW old \in Nodes, old # new, parent[old] = p, Swap(p, new, old)
  PROVE  /\ LinksOK'
         /\ \A n \in Nodes : parent'[n] = IF n = new THEN p
                                         ELSE IF n = old THEN None ELSE parent[n]
         /\ \A n \in Nodes : next'[n] = IF n = old THEN None
                                        ELSE IF n = prev[old] THEN new
                                        ELSE IF n = new THEN next[old] ELSE next[n]
<1> USE NoneIsNoNode
<1>4. /\ p \in Nodes /\ p \notin Texts /\ new \in Nodes /\ new \notin Documents \cup Fragments
  BY KindsAreDisjoint DEF Nodes, Containers, Inner
<1>2. \A n \in Nodes : Agrees(n)
  BY DEF LinksOK, LinksAgree
<1>3. \A n \in Nodes : /\ parent[n] \in Nodes \cup {None} /\ prev[n] \in Nodes \cup {None}
                       /\ next[n] \in Nodes \cup {None} /\ first[n] \in Nodes \cup {None}
                       /\ last[n] \in Nodes \cup {None}
  BY DEF LinksOK, LinksTyped, Nodes
<1>5. /\ parent' = [parent EXCEPT ![new] = p, ![old] = None]
      /\ prev' = [Set([prev EXCEPT ![new] = prev[old]], next[old], new) EXCEPT ![old] = None]
      /\ next' = [Set([next EXCEPT ![new] = next[old]], prev[old], new) EXCEPT ![old] = None]
      /\ first' = IF prev[old] = None THEN [first EXCEPT ![p] = new] ELSE first
      /\ last' = IF next[old] = None THEN [last EXCEPT ![p] = new] ELSE last
  BY DEF Swap
<1>6. /\ Set([prev EXCEPT ![new] = prev[old]], next[old], new) \in [Nodes -> Nodes \cup {None}]
      /\ Set([next EXCEPT ![new] = next[old]], prev[old], new) \in [Nodes -> Nodes \cup {None}]
  BY <1>3, <1>4 DEF LinksOK, LinksTyped, Set
<1>7. LinksTyped'
  BY <1>3, <1>4, <1>5, <1>6 DEF LinksOK, LinksTyped
<1>1. /\ \A n \in Nodes : parent'[n] = IF n = new THEN p
                                       ELSE IF n = old THEN None ELSE parent[n]
      /\ \A n \in Nodes : next'[n] = IF n = old THEN None
                                     ELSE IF n = prev[old] THEN new
                                     ELSE IF n = new THEN next[old] ELSE next[n]
      /\ \A n \in Nodes : prev'[n] = IF n = old THEN None
                                     ELSE IF n = next[old] THEN new
                                     ELSE IF n = new THEN prev[old] ELSE prev[n]
      /\ \A n \in Nodes : first'[n] = IF prev[old] = None /\ n = p THEN new ELSE first[n]
      /\ \A n \in Nodes : last'[n] = IF next[old] = None /\ n = p THEN new ELSE last[n]
  <2>1. \A n \in Nodes : parent'[n] = IF n = new THEN p
                                     ELSE IF n = old THEN None ELSE parent[n]
    BY <1>4, <1>5 DEF LinksOK, LinksTyped
  <2>2. \A n \in Nodes : next'[n] = IF n = old THEN None
                                   ELSE IF n = prev[old] THEN new
                                   ELSE IF n = new THEN next[old] ELSE next[n]
    BY <1>3, <1>4, <1>5, <1>6 DEF LinksOK, LinksTyped, Set
  <2>3. \A n \in Nodes : prev'[n] = IF n = old THEN None
                                   ELSE IF n = next[old] THEN new
                                   ELSE IF n = new THEN prev[old] ELSE prev[n]
    BY <1>3, <1>4, <1>5, <1>6 DEF LinksOK, LinksTyped, Set
  <2> QED
    BY <2>1, <2>2, <2>3, <1>4, <1>5 DEF LinksOK, LinksTyped
<1>8. next[old] # old
  <2>1. \E n \in {old} : next[n] \notin {old}
    BY DEF LinksOK, NoRing
  <2> QED
    BY <2>1
<1>9. LinksAgree'
  <2> SUFFICES ASSUME NEW n \in Nodes
               PROVE  Agrees(n)'
    BY DEF LinksAgree
  <2>1. (parent[n] = None => prev[n] = None /\ next[n] = None)'
    BY <1>1, <1>2, <1>3, <1>4, <1>8 DEF Agrees
  <2>2. (parent[n] # None => (prev[n] = None <=> first[parent[n]] = n))'
    BY <1>1, <1>2, <1>3, <1>4, <1>8 DEF Agrees
  <2>3. (parent[n] # None => (next[n] = None <=> last[parent[n]] = n))'
    BY <1>1, <1>2, <1>3, <1>4, <1>8 DEF Agrees
  <2>4. (prev[n] # None => next[prev[n]] = n /\ parent[prev[n]] = parent[n])'
    BY <1>1, <1>2, <1>3, <1>4, <1>8 DEF Agrees
  <2>5. (next[n] # None => prev[next[n]] = n /\ parent[next[n]] = parent[n])'
    BY <1>1, <1>2, <1>3, <1>4, <1>8 DEF Agrees
  <2>6. (first[n] # None => parent[first[n]] = n)'
    BY <1>1, <1>2, <1>3, <1>4, <1>8 DEF Agrees
  <2>7. (last[n] # None => parent[last[n]] = n)'
    BY <1>1, <1>2, <1>3, <1>4, <1>8 DEF Agrees
  <2>8. (first[n] = None <=> last[n] = None)'
    BY <1>1, <1>2, <1>3, <1>4, <1>8 DEF Agrees
  <2>9. (n \in Texts => first[n] = None)'
    BY <1>1, <1>2, <1>3, <1>4, <1>8 DEF Agrees
  <2>10. (n \in Documents \cup Fragments => parent[n] = None)'
    BY <1>1, <1>2, <1>3, <1>4, <1>8 DEF Agrees
  <2> QED
    BY <2>1, <2>2, <2>3, <2>4, <2>5, <2>6, <2>7, <2>8, <2>9, <2>10 DEF Agrees
<1>10. NoRing'
  <2> SUFFICES ASSUME NEW S \in SUBSET Nodes, S # {}
               PROVE  \E n \in S : next'[n] \notin S
    BY DEF NoRing
  <2>1. CASE old \in S
    BY <2>1, <1>1
  <2>2. CASE old \notin S /\ new \notin S
    <3>1. PICK n \in S : next[n] \notin S
      BY DEF LinksOK, NoRing
    <3> QED
      BY <2>2, <3>1, <1>1
  <2>3. CASE old \notin S /\ new \in S
    <3>1. PICK n \in (S \ {new}) \cup {old} : next[n] \notin (S \ {new}) \cup {old}
      <4>1. (S \ {new}) \cup {old} \in SUBSET Nodes
        OBVIOUS
      <4> QED
        BY <4>1 DEF LinksOK, NoRing
    <3>2. next[n] # new
      BY <3>1, <1>2, <1>4 DEF Agrees
    <3>3. prev[old] # new
      BY <1>2, <1>3, <1>4 DEF Agrees
    <3>4. CASE n = old
      BY <2>3, <3>1, <3>2, <3>3, <3>4, <1>1
    <3>5. CASE n # old
      BY <2>3, <3>1, <3>2, <3>5, <1>1, <1>2, <1>3, <1>4 DEF Agrees
    <3> QED
      BY <3>4, <3>5
  <2> QED
    BY <2>1, <2>2, <2>3
<1> QED
  BY <1>1, <1>7, <1>9, <1>10 DEF LinksOK

-----------------------------------------------------------------------------
(* The job of a call. *)

LEMMA NextSiblingIsAnother ==
  ASSUME LinksOK, NEW c \in Nodes
  PROVE  next[c] # c
<1>1. \E n \in {c} : next[n] \notin {c}
  BY DEF LinksOK, NoRing
<1> QED
  BY <1>1

LEMMA RequestIsCall ==
  ASSUME NEW op, op # "none", NEW request, request.op = op
  PROVE  request # NoCall
BY DEF NoCall

LEMMA IdleOK == Idle \in Jobs /\ Idle.op = "idle" /\ Idle.todo = <<>>
BY DEF Idle, Job, Jobs, Ops

LEMMA PlaceIsInner ==
  ASSUME NEW p \in Containers, NEW c \in Nodes, MayHold(p, c)
  PROVE  /\ c # p
         /\ c \notin Fragments => c \in Inner
<1>1. p \in Up(p)
  BY DEF Up, Nodes
<1> QED
  BY <1>1 DEF MayHold, Nodes, Containers, Inner

LEMMA InsertingOK ==
  ASSUME LinksOK, NEW p \in Containers, NEW c \in Nodes, MayHold(p, c),
         NEW r \in Nodes \cup {None}, r # c, r # None => parent[r] = p,
         links' = links, empty' = empty, empty \subseteq Texts,
         call' # NoCall, job' = Inserting(p, c, r)
  PROVE  IInv'
<1> USE NoneIsNoNode
<1>1. c # p /\ (c \notin Fragments => c \in Inner)
  BY PlaceIsInner
<1>2. LinksOK'
  BY DEF LinksOK, LinksTyped, LinksAgree, Agrees, NoRing, links
<1>3. p \in Containers \cup {None} /\ <<>> \in Seq(Nodes) /\ <<>> \in Seq(Inner)
      /\ {} \in SUBSET Containers /\ None \in Nodes \cup {None}
      /\ None \in Fragments \cup {None}
  OBVIOUS
<1>4. parent' = parent
  BY DEF links
<1>5. CASE c \in Fragments
  <2>1. job' = [op |-> "splice", node |-> p, child |-> None, ref |-> r,
                from |-> c, todo |-> <<>>, scope |-> {}]
    BY <1>5 DEF Inserting, Job
  <2>2. job' \in Jobs
    BY <1>3, <1>5, <2>1 DEF Jobs, Ops
  <2>3. JobOK'
    BY <1>1, <1>3, <1>4, <1>5, <2>1, <2>2 DEF JobOK
  <2> QED
    BY <1>2, <2>1, <2>3 DEF IInv, CallOK
<1>6. CASE c \notin Fragments
  <2>1. job' = [op |-> "place", node |-> p, child |-> c, ref |-> r,
                from |-> None, todo |-> <<>>, scope |-> {}]
    BY <1>6 DEF Inserting, Job
  <2>2. job' \in Jobs
    BY <1>3, <1>6, <2>1 DEF Jobs, Ops
  <2>3. p # None
    BY DEF Nodes
  <2>4. JobOK'
    BY <1>1, <1>3, <1>4, <1>6, <2>1, <2>2, <2>3 DEF JobOK
  <2> QED
    BY <1>2, <2>1, <2>4 DEF IInv, CallOK
<1> QED
  BY <1>5, <1>6

LEMMA RefillOK ==
  ASSUME IInv, NEW p \in Containers, NEW new \in Seq(Inner), Refill(p, new)
  PROVE  IInv'
<1> USE NoneIsNoNode
<1>1. /\ job' = [op |-> "clear", node |-> p, child |-> None, ref |-> None,
                 from |-> None, todo |-> new, scope |-> {}]
      /\ call' = [op |-> "refill", parent |-> p, new |-> new]
      /\ links' = links /\ empty' \subseteq empty
  BY DEF Refill, Begin, Job
<1>2. LinksOK'
  BY <1>1 DEF IInv, LinksOK, LinksTyped, LinksAgree, Agrees, NoRing, links
<1>3. new \in Seq(Nodes)
  BY DEF Inner, Nodes, Containers
<1>4. job' \in Jobs
  <2>1. p \in Containers \cup {None} /\ {} \in SUBSET Containers
        /\ None \in Nodes \cup {None} /\ None \in Fragments \cup {None}
    OBVIOUS
  <2> QED
    BY <1>1, <1>3, <2>1 DEF Jobs, Ops
<1>5. JobOK'
  BY <1>1, <1>4 DEF JobOK
<1>6. call' # NoCall
  BY <1>1, RequestIsCall
<1> QED
  BY <1>1, <1>2, <1>5, <1>6 DEF IInv, CallOK

LEMMA CallKeeps ==
  ASSUME IInv, Call
  PROVE  IInv'
<1> USE NoneIsNoNode
<1>0. LinksOK /\ JobOK /\ CallOK /\ empty \subseteq Texts
  BY DEF IInv
<1>1. ASSUME NEW p \in Containers, NEW c \in Nodes, MayHold(p, c), AppendChild(p, c)
      PROVE  IInv'
  <2>1. /\ job' = Inserting(p, c, None) /\ links' = links /\ empty' = empty
        /\ call' = [op |-> "insert", parent |-> p, child |-> c, ref |-> None]
    BY <1>1 DEF AppendChild, Begin
  <2>2. call' # NoCall
    BY <2>1, RequestIsCall
  <2>3. None \in Nodes \cup {None} /\ None # c
    OBVIOUS
  <2> QED
    BY <1>0, <1>1, <2>1, <2>2, <2>3, InsertingOK
<1>2. ASSUME NEW p \in Containers, NEW c \in Nodes, MayHold(p, c),
             NEW r \in Nodes \ {c}, parent[r] = p, InsertBefore(p, c, r)
      PROVE  IInv'
  <2>1. /\ job' = Inserting(p, c, r) /\ links' = links /\ empty' = empty
        /\ call' = [op |-> "insert", parent |-> p, child |-> c, ref |-> r]
    BY <1>2 DEF InsertBefore, Begin
  <2>2. call' # NoCall
    BY <2>1, RequestIsCall
  <2>3. r \in Nodes \cup {None} /\ r # c
    OBVIOUS
  <2> QED
    BY <1>0, <1>2, <2>1, <2>2, <2>3, InsertingOK
<1>3. ASSUME NEW p \in Containers, NEW c \in Nodes, MayHold(p, c),
             NEW r \in Nodes \ {c}, parent[r] = p, ReplaceChild(p, c, r)
      PROVE  IInv'
  <2>1. c # p /\ (c \notin Fragments => c \in Inner)
    BY <1>3, PlaceIsInner
  <2>2. call' # NoCall /\ empty' = empty
    <3>1. call' = [op |-> "replace", parent |-> p, child |-> c, old |-> r]
      BY <1>3 DEF ReplaceChild, Begin
    <3> QED
      BY <1>3, <3>1, RequestIsCall DEF ReplaceChild
  <2>3. p \in Containers \cup {None} /\ p # None /\ <<>> \in Seq(Nodes) /\ <<>> \in Seq(Inner)
        /\ {} \in SUBSET Containers /\ None \in Nodes \cup {None}
        /\ None \in Fragments \cup {None} /\ r \in Nodes
    BY DEF Nodes
  <2>4. CASE c \in Fragments
    <3>1. Unlink(r)
      BY <1>3, <2>4 DEF ReplaceChild
    <3>2. /\ LinksOK'
          /\ \A n \in Nodes : parent'[n] = IF n = r THEN None ELSE parent[n]
      BY <1>0, <1>3, <2>3, <3>1, UnlinkKeeps
    <3>3. job' = [op |-> "splice", node |-> p, child |-> None, ref |-> next[r],
                  from |-> c, todo |-> <<>>, scope |-> {}]
      BY <1>3, <2>4 DEF ReplaceChild, Begin, Inserting, Job
    <3>4. next[r] \in Nodes \cup {None}
      BY <1>0, <2>3 DEF LinksOK, LinksTyped
    <3>5. next[r] # None => parent'[next[r]] = p
      BY <1>0, <1>3, <2>3, <3>2, <3>4, NextSiblingIsAnother DEF LinksOK, LinksAgree, Agrees
    <3>6. job' \in Jobs
      BY <2>3, <2>4, <3>3, <3>4 DEF Jobs, Ops
    <3>7. JobOK'
      BY <2>1, <2>3, <2>4, <3>3, <3>5, <3>6 DEF JobOK
    <3> QED
      BY <1>0, <2>2, <3>2, <3>3, <3>7 DEF IInv, CallOK
  <2>5. CASE c \notin Fragments
    <3>1. links' = links
      BY <1>3, <2>5 DEF ReplaceChild
    <3>2. LinksOK'
      BY <1>0, <3>1 DEF LinksOK, LinksTyped, LinksAgree, Agrees, NoRing, links
    <3>3. job' = [op |-> "swap", node |-> p, child |-> c, ref |-> r,
                  from |-> None, todo |-> <<>>, scope |-> {}]
      BY <1>3, <2>5 DEF ReplaceChild, Begin, Job
    <3>4. job' \in Jobs
      BY <2>3, <2>5, <3>3 DEF Jobs, Ops
    <3>5. parent' = parent
      BY <3>1 DEF links
    <3>6. JobOK'
      BY <1>3, <2>1, <2>3, <2>5, <3>3, <3>4, <3>5 DEF JobOK
    <3> QED
      BY <1>0, <2>2, <3>2, <3>3, <3>6 DEF IInv, CallOK
  <2> QED
    BY <2>4, <2>5
<1>4. ASSUME NEW c \in Nodes, parent[c] # None, RemoveChild(c)
      PROVE  IInv'
  <2>1. Unlink(c) /\ empty' = empty /\ job' = job /\ call' = call /\ job.op = "idle"
    BY <1>4 DEF RemoveChild, Doing
  <2>2. LinksOK'
    BY <1>0, <1>4, <2>1, UnlinkKeeps
  <2>3. JobOK'
    BY <1>0, <2>1 DEF JobOK
  <2> QED
    BY <1>0, <2>1, <2>2, <2>3 DEF IInv, CallOK
<1>5. ASSUME NEW p \in Elements \cup Fragments, SetTextContent(p)
      PROVE  IInv'
  <2>1. p \in Containers /\ <<>> \in Seq(Inner) /\ \A t \in Texts : <<t>> \in Seq(Inner)
    BY DEF Containers, Inner
  <2>2. \E new \in Seq(Inner) : Refill(p, new)
    BY <1>5, <2>1 DEF SetTextContent
  <2> QED
    BY <2>1, <2>2, RefillOK
<1>6. ASSUME NEW p \in Elements, SetInnerHTML(p)
      PROVE  IInv'
  <2>1. p \in Containers /\ <<>> \in Seq(Inner)
    BY DEF Containers
  <2>2. \A m, n \in Inner : <<m>> \in Seq(Inner) /\ <<m, n>> \in Seq(Inner)
    OBVIOUS
  <2>3. \E new \in Seq(Inner) : Refill(p, new)
    BY <1>6, <2>1, <2>2 DEF SetInnerHTML, Inner
  <2> QED
    BY <2>1, <2>3, RefillOK
<1>7. ASSUME NEW p \in Containers, Normalize(p)
      PROVE  IInv'
  <2>1. /\ job' = [op |-> "normalize", node |-> p, child |-> None, ref |-> first[p],
                   from |-> None, todo |-> <<>>, scope |-> {}]
        /\ call' = [op |-> "normalize", parent |-> p]
        /\ links' = links /\ empty' = empty
    BY <1>7 DEF Normalize, Begin, Job
  <2>2. LinksOK'
    BY <1>0, <2>1 DEF LinksOK, LinksTyped, LinksAgree, Agrees, NoRing, links
  <2>3. /\ p \in Nodes /\ parent' = parent /\ first[p] \in Nodes \cup {None}
        /\ first[p] # None => parent[first[p]] = p
    BY <1>0, <2>1 DEF LinksOK, LinksTyped, LinksAgree, Agrees, Nodes, links
  <2>4. p \in Containers \cup {None} /\ <<>> \in Seq(Nodes) /\ <<>> \in Seq(Inner)
        /\ {} \in SUBSET Containers /\ None \in Nodes \cup {None}
        /\ None \in Fragments \cup {None}
    OBVIOUS
  <2>5. job' \in Jobs
    BY <2>1, <2>3, <2>4 DEF Jobs, Ops
  <2>6. JobOK'
    BY <2>1, <2>3, <2>4, <2>5 DEF JobOK
  <2>7. call' # NoCall
    BY <2>1, RequestIsCall
  <2> QED
    BY <1>0, <2>1, <2>2, <2>6, <2>7 DEF IInv, CallOK
<1>8. ASSUME NEW t \in Texts, SetData(t)
      PROVE  IInv'
  <2>1. links' = links /\ job' = job /\ call' = call /\ empty' \subseteq Texts
    BY <1>0, <1>8 DEF SetData
  <2>2. LinksOK' /\ parent' = parent
    BY <1>0, <2>1 DEF LinksOK, LinksTyped, LinksAgree, Agrees, NoRing, links
  <2>3. JobOK'
    BY <1>0, <2>1, <2>2 DEF JobOK
  <2> QED
    BY <1>0, <2>1, <2>2, <2>3 DEF IInv, CallOK
<1> QED
  BY <1>1, <1>2, <1>3, <1>4, <1>5, <1>6, <1>7, <1>8 DEF Call

-----------------------------------------------------------------------------
(* The steps of a job. *)

(* What comes after a node was linked, whose parent is then the job's.     *)
LEMMA PlacedOK ==
  ASSUME IInv, job.op = "place", Placed, LinksOK', empty' = empty,
         \A n \in Nodes : parent'[n] = IF n = job.child THEN job.node ELSE parent[n]
  PROVE  IInv'
<1> USE NoneIsNoNode
<1>0. LinksOK /\ JobOK /\ CallOK /\ empty \subseteq Texts
  BY DEF IInv
<1>1. job \in Jobs
  BY <1>0 DEF JobOK
<1>2. job.ref # None => parent'[job.ref] = job.node
  BY <1>0, <1>1 DEF JobOK, Jobs
<1>3. CASE job.from # None /\ Go([job EXCEPT !.op = "splice", !.child = None])
  <2>1. job' = [op |-> "splice", node |-> job.node, child |-> None, ref |-> job.ref,
                from |-> job.from, todo |-> job.todo, scope |-> job.scope]
    BY <1>1, <1>3 DEF Go, Jobs
  <2>2. job' \in Jobs
    BY <1>1, <2>1 DEF Jobs, Ops
  <2>3. JobOK'
    BY <1>0, <1>2, <1>3, <2>1, <2>2 DEF JobOK
  <2> QED
    BY <1>0, <1>3, <2>1, <2>3 DEF IInv, CallOK, Go
<1>4. CASE job.todo # <<>> /\ Go([job EXCEPT !.child = Head(job.todo), !.todo = Tail(job.todo)])
  <2>1. job' = [op |-> "place", node |-> job.node, child |-> Head(job.todo), ref |-> job.ref,
                from |-> job.from, todo |-> Tail(job.todo), scope |-> job.scope]
    BY <1>1, <1>4 DEF Go, Jobs
  <2>2. /\ Head(job.todo) \in Inner /\ Tail(job.todo) \in Seq(Inner)
        /\ Tail(job.todo) \in Seq(Nodes)
    <3>1. job.todo \in Seq(Inner) /\ job.todo \in Seq(Nodes)
      BY <1>0, <1>1 DEF JobOK, Jobs
    <3> QED
      BY <1>4, <3>1
  <2>3. Head(job.todo) \in Nodes /\ job.ref = None /\ job.from = None
    BY <1>0, <1>4, <2>2 DEF JobOK, Inner, Nodes, Containers
  <2>4. job' \in Jobs
    BY <1>1, <2>1, <2>2, <2>3 DEF Jobs, Ops
  <2>5. job.node \in Containers /\ job.from # job.node
    BY <1>0 DEF JobOK
  <2>6. JobOK'
    BY <2>1, <2>2, <2>3, <2>4, <2>5 DEF JobOK
  <2> QED
    BY <1>0, <1>4, <2>1, <2>6 DEF IInv, CallOK, Go
<1>5. CASE Return
  <2>1. JobOK'
    <3>1. job' \in Jobs /\ job'.op = "idle" /\ job'.todo = <<>>
      BY <1>5, IdleOK DEF Return
    <3>2. job'.todo \in Seq(Inner)
      BY <3>1
    <3> QED
      BY <3>1, <3>2 DEF JobOK
  <2> QED
    BY <1>0, <1>5, <2>1, IdleOK DEF IInv, CallOK, Return
<1> QED
  BY <1>3, <1>4, <1>5 DEF Placed

(* The end of a call. *)
LEMMA ReturnOK ==
  ASSUME IInv, Return, LinksOK', empty' = empty
  PROVE  IInv'
<1>1. job' \in Jobs /\ job'.op = "idle" /\ job'.todo = <<>>
  BY IdleOK DEF Return
<1>2. job'.todo \in Seq(Inner)
  BY <1>1
<1>3. JobOK'
  BY <1>1, <1>2 DEF JobOK
<1> QED
  BY <1>1, <1>3 DEF IInv, CallOK, Return

LEMMA StepKeeps ==
  ASSUME IInv, Step
  PROVE  IInv'
<1> USE NoneIsNoNode
<1>0. LinksOK /\ JobOK /\ CallOK /\ empty \subseteq Texts /\ job \in Jobs
  BY DEF IInv, JobOK
<1>l. links' = links => LinksOK' /\ parent' = parent /\ first' = first /\ next' = next
  BY <1>0 DEF LinksOK, LinksTyped, LinksAgree, Agrees, NoRing, links
<1>n. Inner \subseteq Nodes /\ Containers \subseteq Nodes
  BY DEF Inner, Nodes, Containers
<1>1. CASE Detach
  <2>1. job.child \in Nodes /\ job' = job /\ call' = call /\ empty' = empty
    BY <1>0, <1>1, <1>n DEF Detach, JobOK, Doing
  <2>2. /\ LinksOK'
        /\ \A n \in Nodes : parent'[n] = IF n = job.child THEN None ELSE parent[n]
    BY <1>0, <1>1, <2>1, UnlinkKeeps DEF Detach
  <2>3. JobOK'
    BY <1>0, <1>1, <2>1, <2>2 DEF JobOK, Jobs, Detach, Doing
  <2> QED
    BY <1>0, <2>1, <2>2, <2>3 DEF IInv, CallOK
<1>2. CASE PlaceLast
  <2>1. job.node \in Containers /\ job.child \in Inner /\ job.op = "place"
    BY <1>0, <1>2 DEF PlaceLast, JobOK, Doing
  <2>2. /\ LinksOK'
        /\ \A n \in Nodes : parent'[n] = IF n = job.child THEN job.node ELSE parent[n]
    BY <1>0, <1>2, <2>1, LinkLastKeeps DEF PlaceLast
  <2> QED
    BY <1>2, <2>1, <2>2, PlacedOK DEF PlaceLast
<1>3. CASE PlaceBefore
  <2>1. /\ job.node \in Containers /\ job.child \in Inner /\ job.op = "place"
        /\ job.ref \in Nodes /\ job.ref # job.child /\ parent[job.ref] = job.node
    BY <1>0, <1>3 DEF PlaceBefore, JobOK, Jobs, Doing
  <2>2. /\ LinksOK'
        /\ \A n \in Nodes : parent'[n] = IF n = job.child THEN job.node ELSE parent[n]
    BY <1>0, <1>3, <2>1, LinkBeforeKeeps DEF PlaceBefore
  <2> QED
    BY <1>3, <2>1, <2>2, PlacedOK DEF PlaceBefore
<1>4. CASE SwapIn
  <2>1. /\ job.node \in Containers /\ job.child \in Inner
        /\ job.ref \in Nodes /\ job.ref # job.child /\ parent[job.ref] = job.node
    BY <1>0, <1>4 DEF SwapIn, JobOK, Jobs, Doing
  <2>2. LinksOK'
    BY <1>0, <1>4, <2>1, SwapKeeps DEF SwapIn
  <2> QED
    BY <1>4, <2>2, ReturnOK DEF SwapIn
<1>5. CASE SpliceNext
  <2> DEFINE c == first[job.from]
  <2>1. /\ job.from \in Fragments /\ job.from \in Nodes /\ job.node \in Containers
        /\ job.from # job.node /\ job.todo = <<>>
        /\ job.ref # None => parent[job.ref] = job.node
    BY <1>0, <1>5, <1>n DEF SpliceNext, JobOK, Jobs, Doing, Containers
  <2>2. c \in Nodes /\ parent[c] = job.from
    BY <1>0, <1>5, <2>1 DEF SpliceNext, LinksOK, LinksTyped, LinksAgree, Agrees
  <2>3. c \in Inner /\ job.ref # c
    <3>1. job.ref # c
      BY <2>1, <2>2
    <3>2. c \notin Documents \cup Fragments
      BY <1>0, <2>1, <2>2 DEF LinksOK, LinksAgree, Agrees
    <3> QED
      BY <2>2, <3>1, <3>2 DEF Inner, Nodes, Containers
  <2>4. /\ LinksOK'
        /\ \A n \in Nodes : parent'[n] = IF n = c THEN None ELSE parent[n]
    <3>1. Unlink(c)
      BY <1>5 DEF SpliceNext
    <3>2. parent[c] # None
      BY <2>1, <2>2
    <3> QED
      BY <1>0, <2>2, <3>1, <3>2, UnlinkKeeps
  <2>5. job' = [op |-> "place", node |-> job.node, child |-> c, ref |-> job.ref,
                from |-> job.from, todo |-> job.todo, scope |-> job.scope]
    BY <1>0, <1>5 DEF SpliceNext, Go, Jobs
  <2>6. job' \in Jobs
    BY <1>0, <2>2, <2>5 DEF Jobs, Ops
  <2>7. job.ref # None => parent'[job.ref] = job.node
    BY <1>0, <2>1, <2>3, <2>4 DEF Jobs
  <2>8. JobOK'
    <3>1. <<>> \in Seq(Inner)
      OBVIOUS
    <3> HIDE DEF c
    <3> QED
      BY <2>1, <2>3, <2>5, <2>6, <2>7, <3>1 DEF JobOK
  <2>9. call' = call /\ empty' = empty /\ job.op = "splice"
    BY <1>5 DEF SpliceNext, Go, Doing
  <2> QED
    BY <1>0, <2>4, <2>5, <2>8, <2>9 DEF IInv, CallOK
<1>6. CASE SpliceDone
  BY <1>6, <1>l, ReturnOK DEF SpliceDone
<1>7. CASE ClearNext
  <2>1. job.node \in Nodes /\ job.op = "clear"
    BY <1>0, <1>7, <1>n DEF ClearNext, JobOK, Doing
  <2>2. first[job.node] \in Nodes /\ parent[first[job.node]] = job.node
    BY <1>0, <1>7, <2>1 DEF ClearNext, LinksOK, LinksTyped, LinksAgree, Agrees
  <2>3. LinksOK'
    BY <1>0, <1>7, <2>1, <2>2, UnlinkKeeps DEF ClearNext
  <2>4. job' = job /\ call' = call /\ empty' = empty
    BY <1>7 DEF ClearNext
  <2>5. JobOK'
    BY <1>0, <2>1, <2>4 DEF JobOK
  <2> QED
    BY <1>0, <2>3, <2>4, <2>5 DEF IInv, CallOK
<1>8. CASE ClearDone
  <2>1. LinksOK' /\ empty' = empty
    BY <1>8, <1>l DEF ClearDone
  <2>2. CASE Return
    BY <2>1, <2>2, ReturnOK
  <2>3. CASE /\ job.todo # <<>>
             /\ Go([Job("place", job.node, Head(job.todo), None) EXCEPT !.todo = Tail(job.todo)])
    <3>1. job' = [op |-> "place", node |-> job.node, child |-> Head(job.todo), ref |-> None,
                  from |-> None, todo |-> Tail(job.todo), scope |-> {}]
      BY <2>3 DEF Go, Job
    <3>2. /\ Head(job.todo) \in Inner /\ Tail(job.todo) \in Seq(Inner)
          /\ Tail(job.todo) \in Seq(Nodes)
      <4>1. job.todo \in Seq(Inner) /\ job.todo \in Seq(Nodes)
        BY <1>0 DEF JobOK, Jobs
      <4> QED
        BY <2>3, <4>1
    <3>3. job.node \in Containers /\ job.op = "clear" /\ Head(job.todo) \in Nodes
      BY <1>0, <1>8, <1>n, <3>2 DEF ClearDone, JobOK, Doing
    <3>4. job' \in Jobs
      <4>1. job.node \in Containers \cup {None} /\ {} \in SUBSET Containers
            /\ Head(job.todo) \in Nodes \cup {None} /\ None \in Nodes \cup {None}
            /\ None \in Fragments \cup {None}
        BY <3>3
      <4> QED
        BY <3>1, <3>2, <4>1 DEF Jobs, Ops
    <3>5. None # job.node /\ None # Head(job.todo)
      BY <1>n, <3>3
    <3>6. JobOK'
      BY <3>1, <3>2, <3>3, <3>4, <3>5 DEF JobOK
    <3> QED
      BY <1>0, <2>1, <2>3, <3>1, <3>3, <3>6 DEF IInv, CallOK, Go
  <2> QED
    BY <1>8, <2>2, <2>3 DEF ClearDone
<1>9. CASE DropEmpty
  <2>1. job.ref \in Nodes /\ job.op = "normalize" /\ job.node \in Containers
        /\ parent[job.ref] = job.node /\ job.todo = <<>>
    BY <1>0, <1>9 DEF DropEmpty, LooksAt, Doing, JobOK, Nodes
  <2>2. /\ LinksOK'
        /\ \A n \in Nodes : parent'[n] = IF n = job.ref THEN None ELSE parent[n]
    BY <1>0, <1>9, <1>n, <2>1, UnlinkKeeps DEF DropEmpty
  <2>3. next[job.ref] \in Nodes \cup {None}
    BY <1>0, <2>1 DEF LinksOK, LinksTyped
  <2>4. next[job.ref] # None => parent'[next[job.ref]] = job.node
    BY <1>0, <2>1, <2>2, <2>3, NextSiblingIsAnother DEF LinksOK, LinksAgree, Agrees
  <2>5. job' = [op |-> "normalize", node |-> job.node, child |-> job.child,
                ref |-> next[job.ref], from |-> job.from, todo |-> job.todo,
                scope |-> job.scope]
    BY <1>0, <1>9, <2>1 DEF DropEmpty, Go, Jobs
  <2>6. job' \in Jobs
    BY <1>0, <2>3, <2>5 DEF Jobs, Ops
  <2>7. JobOK'
    BY <1>0, <2>1, <2>4, <2>5, <2>6 DEF JobOK
  <2> QED
    BY <1>0, <1>9, <2>1, <2>2, <2>5, <2>7 DEF IInv, CallOK, DropEmpty, Go
<1>10. CASE MergeNext
  <2>1. job.ref \in Nodes /\ job.op = "normalize" /\ parent[job.ref] = job.node
        /\ job.node \in Containers
    BY <1>0, <1>10 DEF MergeNext, LooksAt, Doing, JobOK, Nodes
  <2>2. next[job.ref] \in Nodes /\ parent[next[job.ref]] = job.node /\ next[job.ref] # job.ref
    BY <1>0, <1>10, <2>1, NextSiblingIsAnother
       DEF MergeNext, LinksOK, LinksTyped, LinksAgree, Agrees, Nodes
  <2>3. /\ LinksOK'
        /\ \A n \in Nodes : parent'[n] = IF n = next[job.ref] THEN None ELSE parent[n]
    BY <1>0, <1>10, <1>n, <2>1, <2>2, UnlinkKeeps DEF MergeNext
  <2>4. job' = job /\ call' = call /\ empty' = empty
    BY <1>10 DEF MergeNext
  <2>5. parent'[job.ref] = job.node
    BY <2>1, <2>2, <2>3
  <2>6. JobOK'
    BY <1>0, <2>1, <2>4, <2>5 DEF JobOK
  <2> QED
    BY <1>0, <2>3, <2>4, <2>6 DEF IInv, CallOK
<1>11. CASE PassOn
  <2>1. job.ref \in Nodes /\ job.op = "normalize" /\ job.node \in Containers
        /\ parent[job.ref] = job.node /\ job.todo = <<>>
    BY <1>0, <1>11 DEF PassOn, LooksAt, Doing, JobOK, Nodes
  <2>2. LinksOK' /\ parent' = parent
    BY <1>11, <1>l DEF PassOn
  <2>3. /\ next[job.ref] \in Nodes \cup {None}
        /\ next[job.ref] # None => parent[next[job.ref]] = job.node
    BY <1>0, <2>1 DEF LinksOK, LinksTyped, LinksAgree, Agrees
  <2>4. job' = [op |-> "normalize", node |-> job.node, child |-> job.child,
                ref |-> next[job.ref], from |-> job.from, todo |-> job.todo,
                scope |-> job.scope \cup ({job.ref} \cap Containers)]
    BY <1>0, <1>11, <2>1 DEF PassOn, Go, Jobs
  <2>5. job' \in Jobs
    <3>1. job.scope \cup ({job.ref} \cap Containers) \in SUBSET Containers
      BY <1>0 DEF Jobs
    <3> QED
      BY <1>0, <2>3, <2>4, <3>1 DEF Jobs, Ops
  <2>6. JobOK'
    BY <1>0, <2>1, <2>2, <2>3, <2>4, <2>5 DEF JobOK
  <2> QED
    BY <1>0, <1>11, <2>1, <2>2, <2>4, <2>6 DEF IInv, CallOK, PassOn, Go
<1>12. CASE EnterNext
  <2>1. job.op = "normalize" /\ LinksOK' /\ parent' = parent /\ empty' = empty
    BY <1>12, <1>l DEF EnterNext, Doing
  <2>2. ASSUME NEW n \in job.scope,
               Go([Job("normalize", n, None, first[n]) EXCEPT !.scope = job.scope \ {n}])
        PROVE  IInv'
    <3>1. n \in Containers /\ n \in Nodes
      BY <1>0, <1>n DEF Jobs
    <3>2. job' = [op |-> "normalize", node |-> n, child |-> None, ref |-> first[n],
                  from |-> None, todo |-> <<>>, scope |-> job.scope \ {n}]
      BY <2>2 DEF Go, Job
    <3>3. /\ first[n] \in Nodes \cup {None}
          /\ first[n] # None => parent[first[n]] = n
      BY <1>0, <3>1 DEF LinksOK, LinksTyped, LinksAgree, Agrees
    <3>4. job' \in Jobs
      <4>1. job.scope \ {n} \in SUBSET Containers /\ <<>> \in Seq(Nodes)
            /\ None \in Nodes \cup {None} /\ None \in Fragments \cup {None}
            /\ n \in Containers \cup {None}
        BY <1>0, <3>1 DEF Jobs
      <4> QED
        BY <3>2, <3>3, <4>1 DEF Jobs, Ops
    <3>5. <<>> \in Seq(Inner)
      OBVIOUS
    <3>6. JobOK'
      BY <2>1, <3>1, <3>2, <3>3, <3>4, <3>5 DEF JobOK
    <3> QED
      BY <1>0, <2>1, <2>2, <3>2, <3>6 DEF IInv, CallOK, Go
  <2>3. CASE Return
    BY <2>1, <2>3, ReturnOK
  <2> QED
    BY <1>12, <2>2, <2>3 DEF EnterNext
<1> QED
  BY <1>1, <1>2, <1>3, <1>4, <1>5, <1>6, <1>7, <1>8, <1>9, <1>10, <1>11, <1>12 DEF Step

-----------------------------------------------------------------------------
LEMMA InitOK == Init => IInv
<1> SUFFICES ASSUME Init
             PROVE  IInv
  OBVIOUS
<1> USE NoneIsNoNode
<1>1. LinksTyped /\ NoRing
  BY DEF Init, LinksTyped, NoRing
<1>2. LinksAgree
  BY DEF Init, LinksAgree, Agrees, Nodes, Containers
<1>3. JobOK
  BY IdleOK DEF Init, JobOK
<1>4. CallOK /\ empty \subseteq Texts
  BY IdleOK DEF Init, CallOK
<1> QED
  BY <1>1, <1>2, <1>3, <1>4 DEF IInv, LinksOK

LEMMA NextOK == IInv /\ [Next]_vars => IInv'
<1>1. ASSUME IInv, UNCHANGED vars
      PROVE  IInv'
  BY <1>1 DEF vars, links, IInv, LinksOK, LinksTyped, LinksAgree, Agrees, NoRing, JobOK, CallOK
<1> QED
  BY <1>1, CallKeeps, StepKeeps DEF Next

THEOREM AlwaysIInv == Spec => []IInv
BY InitOK, NextOK, PTL DEF Spec

(* Every variable has its type; a call is in progress exactly while there  *)
(* is a job.                                                               *)
THEOREM TypeCorrect == Spec => []TypeOK
<1>1. IInv => TypeOK
  BY DEF IInv, LinksOK, LinksTyped, JobOK, Jobs, CallOK, TypeOK, Doing
<1> QED
  BY <1>1, AlwaysIInv, PTL

(* However many nodes and calls there are, the five links of every node    *)
(* agree with those around it after each time the code links or unlinks a  *)
(* node, so also wherever a loop of the code goes on from.                 *)
THEOREM LinksAlwaysAgree == Spec => []LinksAgree
<1>1. IInv => LinksAgree
  BY DEF IInv, LinksOK
<1> QED
  BY <1>1, AlwaysIInv, PTL

(* No siblings form a ring: from any of finitely many nodes, the walk      *)
(* along nextSibling ends (ChildNodes, the loops of node.go).              *)
THEOREM WalksEnd == Spec => []NoRing
<1>1. IInv => NoRing
  BY DEF IInv, LinksOK
<1> QED
  BY <1>1, AlwaysIInv, PTL

-----------------------------------------------------------------------------
(* The lists of children, as an observer believes in them.                 *)

NoDoubles(s) == \A i, j \in DOMAIN s : s[i] = s[j] => i = j
Lists(s, n) ==
    /\ s \in Seq(Nodes) /\ NoDoubles(s)
    /\ \A c \in Nodes : parent[c] = n <=> \E i \in DOMAIN s : s[i] = c
    /\ \A i \in DOMAIN s : next[s[i]] = IF i = Len(s) THEN None ELSE s[i + 1]
ListsOK == seen \in [Nodes -> Seq(Nodes)] /\ \A n \in Nodes : Lists(seen[n], n)

LEMMA ListEnds ==
    ASSUME LinksOK, NEW n \in Nodes, NEW s, Lists(s, n)
    PROVE  /\ Len(s) \in Nat /\ DOMAIN s = 1..Len(s) /\ \A i \in 1..Len(s) : s[i] \in Nodes
           /\ first[n] = IF Len(s) = 0 THEN None ELSE s[1]
           /\ last[n] = IF Len(s) = 0 THEN None ELSE s[Len(s)]
           /\ \A i \in 1..Len(s) : prev[s[i]] = IF i = 1 THEN None ELSE s[i - 1]
           /\ \A i \in 1..Len(s) : parent[s[i]] = n
<1>0. PICK N : N = Len(s)
  OBVIOUS
<1>1. N \in Nat /\ DOMAIN s = 1..N /\ \A i \in 1..N : s[i] \in Nodes
  BY <1>0 DEF Lists
<1>2. \A i \in 1..N : parent[s[i]] = n
  BY <1>1 DEF Lists
<1>3. /\ \A i, j \in 1..N : s[i] = s[j] => i = j
      /\ \A c \in Nodes : parent[c] = n => \E i \in 1..N : s[i] = c
      /\ \A i \in 1..N : next[s[i]] = IF i = N THEN None ELSE s[i + 1]
  BY <1>0, <1>1 DEF Lists, NoDoubles
<1>4. /\ \A x \in Nodes : Agrees(x)
      /\ \A x \in Nodes : prev[x] \in Nodes \cup {None} /\ first[x] \in Nodes \cup {None}
                          /\ last[x] \in Nodes \cup {None}
  BY DEF LinksOK, LinksAgree, LinksTyped
<1>5. ASSUME NEW i \in 1..N PROVE prev[s[i]] = IF i = 1 THEN None ELSE s[i - 1]
  <2>1. CASE i = 1
    <3> SUFFICES ASSUME prev[s[1]] # None PROVE FALSE
      BY <2>1
    <3> DEFINE p == prev[s[1]]
    <3>1. p \in Nodes /\ next[p] = s[1] /\ parent[p] = n
      BY <1>1, <1>2, <1>4, <2>1 DEF Agrees
    <3>2. PICK k \in 1..N : s[k] = p
      BY <1>3, <3>1
    <3>3. s[1] # None
      BY <1>1, <2>1, NoneIsNoNode
    <3>4. k # N /\ s[k + 1] = s[1]
      BY <1>3, <3>1, <3>2, <3>3
    <3>5. k + 1 \in 1..N /\ 1 \in 1..N /\ k + 1 # 1
      BY <1>1, <3>2, <3>4
    <3> QED
      BY <1>3, <3>4, <3>5
  <2>2. CASE i # 1
    <3>1. i - 1 \in 1..N /\ i - 1 # N /\ i - 1 + 1 = i
      BY <1>1, <2>2
    <3>2. s[i] # None /\ s[i - 1] \in Nodes
      BY <1>1, <3>1, NoneIsNoNode
    <3>3. next[s[i - 1]] = s[i]
      BY <1>3, <3>1
    <3> QED
      BY <1>4, <2>2, <3>2, <3>3 DEF Agrees
  <2> QED
    BY <2>1, <2>2
<1>6. CASE N = 0
  <2>1. \A c \in Nodes : parent[c] # n
    BY <1>3, <1>6
  <2> QED
    BY <1>1, <1>2, <1>4, <1>5, <1>6, <2>1 DEF Agrees
<1>7. CASE N # 0
  <2>1. 1 \in 1..N /\ N \in 1..N
    BY <1>1, <1>7
  <2>2. prev[s[1]] = None /\ next[s[N]] = None /\ n # None
    BY <1>3, <1>5, <2>1, NoneIsNoNode
  <2>3. first[n] = s[1] /\ last[n] = s[N]
    BY <1>1, <1>2, <1>4, <2>1, <2>2 DEF Agrees
  <2> QED
    BY <1>1, <1>2, <1>5, <1>7, <2>3
<1> QED
  BY <1>0, <1>1, <1>6, <1>7

(* What a record of a list without doubles says, and the list t that has a *)
(* in the place of what stood between i and j.                             *)
CutAt(s, removed, pr, nx, i, j) ==
    /\ s \in Seq(Nodes) /\ NoDoubles(s)
    /\ i \in 0..Len(s) /\ j \in 1..(Len(s) + 1) /\ i < j
    /\ pr = IF i = 0 THEN None ELSE s[i]
    /\ nx = IF j = Len(s) + 1 THEN None ELSE s[j]
    /\ SubSeq(s, i + 1, j - 1) = removed
Recut(s, a, i, j) == SubSeq(s, 1, i) \o a \o SubSeq(s, j, Len(s))
PutAt(t, s, a, i, j) ==
    /\ t \in Seq(Nodes) /\ Len(t) = i + Len(a) + (Len(s) + 1 - j)
    /\ \A k \in 1..i : t[k] = s[k]
    /\ \A k \in 1..Len(a) : t[i + k] = a[k]
    /\ \A k \in j..Len(s) : t[k + i + Len(a) + 1 - j] = s[k]

(* A record leaves no choice where the list is cut. *)
LEMMA CutIs ==
    ASSUME NEW s, NEW added \in Seq(Nodes), NEW removed, NEW pr, NEW nx, NEW i0, NEW j0,
           CutAt(s, removed, pr, nx, i0, j0)
    PROVE  After(s, added, removed, pr, nx) = Recut(s, added, i0, j0)
<1> DEFINE IsCut(i, j) ==
               /\ IF pr = None THEN i = 0 ELSE i > 0 /\ s[i] = pr
               /\ IF nx = None THEN j = Len(s) + 1 ELSE j <= Len(s) /\ s[j] = nx
               /\ SubSeq(s, i + 1, j - 1) = removed
           cuts == {ij \in (0 .. Len(s)) \X (1 .. Len(s) + 1) : IsCut(ij[1], ij[2])}
<1>0. /\ s \in Seq(Nodes) /\ NoDoubles(s)
      /\ i0 \in 0..Len(s) /\ j0 \in 1..(Len(s) + 1)
      /\ pr = IF i0 = 0 THEN None ELSE s[i0]
      /\ nx = IF j0 = Len(s) + 1 THEN None ELSE s[j0]
      /\ SubSeq(s, i0 + 1, j0 - 1) = removed
  BY DEF CutAt
<1>1. /\ Len(s) \in Nat /\ DOMAIN s = 1..Len(s)
      /\ \A i \in 1..Len(s) : s[i] \in Nodes /\ s[i] # None
      /\ j0 \in 1..(Len(s) + 1)
  BY <1>0, NoneIsNoNode
<1>2. IsCut(i0, j0)
  BY <1>0, <1>1
<1>3. ASSUME NEW i \in 0..Len(s), NEW j \in 1..(Len(s) + 1), IsCut(i, j) PROVE i = i0 /\ j = j0
  <2>1. i = i0
    <3>1. pr = IF i0 = 0 THEN None ELSE s[i0]
      BY <1>0
    <3>2. IF pr = None THEN i = 0 ELSE i > 0 /\ s[i] = pr
      BY <1>3
    <3>3. i0 \in 0..Len(s) /\ \A k, m \in 1..Len(s) : s[k] = s[m] => k = m
      BY <1>0, <1>1 DEF NoDoubles
    <3> QED
      BY <1>1, <3>1, <3>2, <3>3
  <2>2. CASE nx = None
    BY <1>0, <1>1, <1>3, <2>2
  <2>3. CASE nx # None
    <3>1. j \in 1..Len(s) /\ j0 \in 1..Len(s) /\ s[j] = s[j0]
      <4>1. j <= Len(s) /\ s[j] = nx
        BY <1>3, <2>3
      <4>2. j0 # Len(s) + 1 /\ nx = s[j0]
        BY <1>0, <2>3
      <4> QED
        BY <1>1, <4>1, <4>2
    <3>2. j = j0
      BY <1>0, <1>1, <3>1 DEF NoDoubles
    <3> QED
      BY <2>1, <3>2
  <2> QED
    BY <2>1, <2>2, <2>3
<1>4. cuts = {<<i0, j0>>}
  <2>1. i0 \in 0..Len(s) /\ j0 \in 1..Len(s) + 1
    BY <1>0
  <2> HIDE DEF IsCut
  <2> QED
    BY <1>2, <1>3, <2>1
<1>5. PICK ij : ij = CHOOSE x \in cuts : TRUE
  OBVIOUS
<1>6. cuts # {} /\ ij \in cuts
  <2> HIDE DEF cuts
  <2> QED
    BY <1>4, <1>5
<1>7. ij = <<i0, j0>>
  BY <1>4, <1>6
<1>8. ij[1] = i0 /\ ij[2] = j0
  BY <1>7
<1>9. After(s, added, removed, pr, nx) =
          IF cuts = {} THEN <<None>>
          ELSE SubSeq(s, 1, (CHOOSE x \in cuts : TRUE)[1]) \o added \o SubSeq(s, (CHOOSE x \in cuts : TRUE)[2], Len(s))
  BY DEF After
<1> HIDE DEF cuts
<1> QED
  BY <1>5, <1>6, <1>8, <1>9 DEF Recut

LEMMA Joined ==
    ASSUME NEW S, NEW u \in Seq(S), NEW v \in Seq(S)
    PROVE  /\ u \o v \in Seq(S) /\ Len(u \o v) = Len(u) + Len(v)
           /\ \A k \in 1..Len(u) : (u \o v)[k] = u[k]
           /\ \A k \in 1..Len(v) : (u \o v)[Len(u) + k] = v[k]
<1>1. Len(u) \in Nat /\ Len(v) \in Nat
  OBVIOUS
<1>2. /\ u \o v \in Seq(S) /\ Len(u \o v) = Len(u) + Len(v)
      /\ \A i \in 1 .. Len(u) + Len(v) :
            (u \o v)[i] = IF i <= Len(u) THEN u[i] ELSE v[i - Len(u)]
  BY ConcatProperties
<1>3. ASSUME NEW k \in 1..Len(v) PROVE (u \o v)[Len(u) + k] = v[k]
  <2>1. Len(u) + k \in 1 .. Len(u) + Len(v) /\ ~ (Len(u) + k <= Len(u)) /\ Len(u) + k - Len(u) = k
    BY <1>1
  <2> QED
    BY <1>2, <2>1
<1>4. ASSUME NEW k \in 1..Len(u) PROVE (u \o v)[k] = u[k]
  <2>1. k \in 1 .. Len(u) + Len(v) /\ k <= Len(u)
    BY <1>1
  <2> QED
    BY <1>2, <2>1
<1> QED
  BY <1>2, <1>3, <1>4

(* What is where when a part of a list was cut out and another put there. *)
LEMMA CutAndPut ==
    ASSUME NEW s, NEW a \in Seq(Nodes), NEW removed, NEW pr, NEW nx, NEW i0, NEW j0,
           CutAt(s, removed, pr, nx, i0, j0),
           NEW t, t = Recut(s, a, i0, j0)
    PROVE  PutAt(t, s, a, i0, j0)
<1> DEFINE u == SubSeq(s, 1, i0)
           v == SubSeq(s, j0, Len(s))
           w == u \o a
<1>0. s \in Seq(Nodes) /\ i0 \in 0..Len(s) /\ j0 \in 1..(Len(s) + 1) /\ i0 < j0
  BY DEF CutAt
<1>1. Len(s) \in Nat /\ Len(a) \in Nat /\ DOMAIN s = 1..Len(s) /\ DOMAIN a = 1..Len(a)
  BY <1>0
<1>2. u \in Seq(Nodes) /\ Len(u) = i0 /\ \A k \in 1..i0 : u[k] = s[k]
  BY <1>0, <1>1
<1>3. v \in Seq(Nodes) /\ Len(v) = Len(s) + 1 - j0 /\ \A k \in 1..Len(v) : v[k] = s[j0 + k - 1]
  BY <1>0, <1>1
<1> HIDE DEF u, v
<1>4. /\ w \in Seq(Nodes) /\ Len(w) = i0 + Len(a)
      /\ \A k \in 1..i0 : w[k] = s[k]
      /\ \A k \in 1..Len(a) : w[i0 + k] = a[k]
  <2>0. u \in Seq(Nodes) /\ a \in Seq(Nodes)
    BY <1>2
  <2>1. w \in Seq(Nodes) /\ Len(w) = Len(u) + Len(a)
    BY <2>0, Joined
  <2>2. \A k \in 1..Len(u) : w[k] = u[k]
    BY <2>0, Joined
  <2>3. \A k \in 1..Len(a) : w[Len(u) + k] = a[k]
    BY <2>0, Joined
  <2> HIDE DEF w
  <2> QED
    BY <1>0, <1>2, <2>1, <2>2, <2>3
<1> HIDE DEF w
<1>5. t = w \o v
  BY DEF u, v, w, Recut
<1>6. /\ t \in Seq(Nodes) /\ Len(t) = Len(w) + Len(v)
      /\ \A k \in 1..Len(w) : t[k] = w[k]
      /\ \A k \in 1..Len(v) : t[Len(w) + k] = v[k]
  <2>0. w \in Seq(Nodes) /\ v \in Seq(Nodes)
    BY <1>3, <1>4
  <2>1. w \o v \in Seq(Nodes) /\ Len(w \o v) = Len(w) + Len(v)
    BY <2>0, Joined
  <2>2. \A k \in 1..Len(w) : (w \o v)[k] = w[k]
    BY <2>0, Joined
  <2>3. \A k \in 1..Len(v) : (w \o v)[Len(w) + k] = v[k]
    BY <2>0, Joined
  <2> QED
    BY <1>5, <2>1, <2>2, <2>3
<1>7. ASSUME NEW k \in j0..Len(s) PROVE t[k + i0 + Len(a) + 1 - j0] = s[k]
  <2>1. k + 1 - j0 \in 1..Len(v) /\ j0 + (k + 1 - j0) - 1 = k
        /\ Len(w) + (k + 1 - j0) = k + i0 + Len(a) + 1 - j0
    BY <1>0, <1>1, <1>3, <1>4
  <2> QED
    BY <1>0, <1>3, <1>6, <2>1
<1>8. ASSUME NEW k \in 1..i0 PROVE t[k] = s[k]
  <2>1. k \in 1..Len(w)
    BY <1>0, <1>1, <1>4
  <2> QED
    BY <1>0, <1>4, <1>6, <2>1
<1>9. ASSUME NEW k \in 1..Len(a) PROVE t[i0 + k] = a[k]
  <2>1. i0 + k \in 1..Len(w)
    BY <1>0, <1>1, <1>4
  <2> QED
    BY <1>0, <1>4, <1>6, <2>1
<1>10. Len(t) = i0 + Len(a) + (Len(s) + 1 - j0)
  BY <1>0, <1>3, <1>4, <1>6
<1> QED
  BY <1>6, <1>7, <1>8, <1>9, <1>10 DEF PutAt

(* So a record does to the list of an observer. *)
LEMMA RecordDoes ==
    ASSUME NEW s, NEW added \in Seq(Nodes), NEW removed, NEW pr, NEW nx, NEW i0, NEW j0,
           CutAt(s, removed, pr, nx, i0, j0)
    PROVE  PutAt(After(s, added, removed, pr, nx), s, added, i0, j0)
<1>1. PICK t : t = After(s, added, removed, pr, nx)
  OBVIOUS
<1>2. t = Recut(s, added, i0, j0)
  BY <1>1, CutIs
<1>3. PutAt(t, s, added, i0, j0)
  BY <1>2, CutAndPut
<1> QED
  BY <1>1, <1>3

LEMMA OneOf ==
    ASSUME NEW S, NEW s \in Seq(S), NEW k \in 1..Len(s)
    PROVE  SubSeq(s, k, k) = <<s[k]>>
<1> DEFINE u == SubSeq(s, k, k)
<1>1. Len(s) \in Nat /\ k \in Int /\ s[k] \in S /\ \A i \in k..k : s[i] \in S
  OBVIOUS
<1>2. u \in Seq(S) /\ Len(u) = 1 /\ u[1] = s[k]
  BY <1>1, SubSeqProperties
<1> HIDE DEF u
<1>3. u = <<u[1]>>
  BY <1>2
<1> QED
  BY <1>2, <1>3 DEF u

-----------------------------------------------------------------------------
(* What the writes to links do to the lists. *)

LEMMA ListsKeep ==
    ASSUME ListsOK, NEW p \in Nodes, NEW t, seen' = [seen EXCEPT ![p] = t], Lists(t, p)',
           \A n \in Nodes \ {p} : \A x \in Nodes :
               /\ parent'[x] = n <=> parent[x] = n
               /\ parent[x] = n => next'[x] = next[x]
    PROVE  ListsOK'
<1>1. t \in Seq(Nodes) /\ seen \in [Nodes -> Seq(Nodes)] /\ \A n \in Nodes : Lists(seen[n], n)
  BY DEF Lists, ListsOK
<1>2. seen' \in [Nodes -> Seq(Nodes)] /\ \A n \in Nodes : seen'[n] = IF n = p THEN t ELSE seen[n]
  BY <1>1
<1>3. ASSUME NEW n \in Nodes \ {p}, NEW s, s = seen[n] PROVE Lists(s, n)'
  <2>1. /\ s \in Seq(Nodes) /\ NoDoubles(s)
        /\ \A c \in Nodes : parent[c] = n <=> \E i \in DOMAIN s : s[i] = c
        /\ \A i \in DOMAIN s : next[s[i]] = IF i = Len(s) THEN None ELSE s[i + 1]
    BY <1>1, <1>3 DEF Lists
  <2>2. \A i \in DOMAIN s : s[i] \in Nodes /\ parent[s[i]] = n
    BY <2>1
  <2>3. \A i \in DOMAIN s : next'[s[i]] = IF i = Len(s) THEN None ELSE s[i + 1]
    BY <2>1, <2>2
  <2>4. \A c \in Nodes : parent'[c] = n <=> \E i \in DOMAIN s : s[i] = c
    BY <2>1
  <2> QED
    BY <2>1, <2>3, <2>4 DEF Lists
<1>4. ASSUME NEW n \in Nodes PROVE Lists(seen[n], n)'
  <2>1. CASE n = p
    BY <1>2, <2>1
  <2>2. CASE n # p
    <3>1. PICK s : s = seen[n]
      OBVIOUS
    <3>2. seen'[n] = s /\ Lists(s, n)'
      BY <1>2, <1>3, <2>2, <3>1
    <3> QED
      BY <3>2
  <2> QED
    BY <2>1, <2>2
<1> QED
  BY <1>2, <1>4 DEF ListsOK

(* The N children of p are s, and the links say so. *)
Row(p, s, N) ==
    /\ s \in Seq(Nodes) /\ NoDoubles(s) /\ p # None
    /\ N \in Nat /\ N = Len(s) /\ DOMAIN s = 1..N
    /\ \A i \in 1..N : s[i] \in Nodes
    /\ \A i, j \in 1..N : s[i] = s[j] => i = j
    /\ \A x \in Nodes : parent[x] = p <=> \E i \in 1..N : s[i] = x
    /\ \A i \in 1..N : next[s[i]] = IF i = N THEN None ELSE s[i + 1]
    /\ \A i \in 1..N : prev[s[i]] = IF i = 1 THEN None ELSE s[i - 1]
    /\ last[p] = IF N = 0 THEN None ELSE s[N]
    /\ first[p] = IF N = 0 THEN None ELSE s[1]

LEMMA ListFacts ==
    ASSUME LinksOK, ListsOK, NEW p \in Nodes
    PROVE  Row(p, seen[p], Len(seen[p]))
<1>s. PICK s : s = seen[p]
  OBVIOUS
<1>N. PICK N : N = Len(s)
  OBVIOUS
<1>0. Lists(s, p) /\ p # None
  BY <1>s, NoneIsNoNode DEF ListsOK
<1>1. s \in Seq(Nodes) /\ NoDoubles(s)
  BY <1>0 DEF Lists
<1>2. DOMAIN s = 1..N /\ N \in Nat
  BY <1>1, <1>N
<1>3. /\ \A i \in 1..N : prev[s[i]] = IF i = 1 THEN None ELSE s[i - 1]
      /\ last[p] = IF N = 0 THEN None ELSE s[N]
      /\ first[p] = IF N = 0 THEN None ELSE s[1]
  BY <1>0, <1>N, ListEnds
<1>4. /\ \A i, j \in DOMAIN s : s[i] = s[j] => i = j
      /\ \A x \in Nodes : parent[x] = p <=> \E i \in DOMAIN s : s[i] = x
      /\ \A i \in DOMAIN s : next[s[i]] = IF i = Len(s) THEN None ELSE s[i + 1]
  BY <1>0, <1>1 DEF Lists, NoDoubles
<1>5. \A i \in DOMAIN s : s[i] \in Nodes
  BY <1>1
<1>6. /\ \A i \in 1..N : s[i] \in Nodes
      /\ \A i, j \in 1..N : s[i] = s[j] => i = j
      /\ \A x \in Nodes : parent[x] = p <=> \E i \in 1..N : s[i] = x
      /\ \A i \in 1..N : next[s[i]] = IF i = N THEN None ELSE s[i + 1]
  BY <1>N, <1>2, <1>4, <1>5
<1>7. Row(p, s, N)
  BY <1>0, <1>N, <1>1, <1>2, <1>3, <1>6 DEF Row
<1> QED
  BY <1>s, <1>N, <1>7
LEMMA UnlinkLists ==
    ASSUME LinksOK, ListsOK, NEW c \in Nodes, parent[c] # None, Unlink(c)
    PROVE  ListsOK'
<1>1. PICK p \in Nodes : p = parent[c]
  BY DEF LinksOK, LinksTyped, Nodes
<1>2. PICK s : s = seen[p]
  OBVIOUS
<1>r. Row(p, s, Len(s))
  BY <1>2, ListFacts
<1>4. PICK N \in Nat : N = Len(s)
  BY <1>r DEF Row
<1>3. s \in Seq(Nodes) /\ NoDoubles(s) /\ p # None
  BY <1>r DEF Row
<1>5. /\ DOMAIN s = 1..N /\ \A i \in 1..N : s[i] \in Nodes
      /\ \A i, j \in 1..N : s[i] = s[j] => i = j
      /\ \A x \in Nodes : parent[x] = p <=> \E i \in 1..N : s[i] = x
      /\ \A i \in 1..N : next[s[i]] = IF i = N THEN None ELSE s[i + 1]
      /\ \A i \in 1..N : prev[s[i]] = IF i = 1 THEN None ELSE s[i - 1]
  BY <1>r, <1>4 DEF Row
<1>6. PICK k \in 1..N : s[k] = c
  BY <1>1, <1>5
<1>7. /\ prev[c] = IF k = 1 THEN None ELSE s[k - 1]
      /\ next[c] = IF k = N THEN None ELSE s[k + 1]
  BY <1>5, <1>6
<1>8. PICK t : t = After(s, <<>>, <<c>>, prev[c], next[c])
  OBVIOUS
<1>9. seen' = [seen EXCEPT ![p] = t]
  BY <1>1, <1>2, <1>3, <1>8 DEF Unlink, Tell
<1>10. t \in Seq(Nodes) /\ Len(t) = N - 1 /\ \A i \in 1..N - 1 : t[i] = s[IF i < k THEN i ELSE i + 1]
  <2>1. CutAt(s, <<c>>, prev[c], next[c], k - 1, k + 1)
    <3>1. SubSeq(s, k, k) = <<c>>
      BY <1>3, <1>4, <1>6, OneOf
    <3>2. /\ k - 1 \in 0..Len(s) /\ k + 1 \in 1..(Len(s) + 1) /\ k - 1 < k + 1
          /\ k - 1 + 1 = k /\ k + 1 - 1 = k /\ (k - 1 = 0 <=> k = 1) /\ (k + 1 = Len(s) + 1 <=> k = N)
      BY <1>4
    <3> QED
      BY <1>3, <1>7, <3>1, <3>2 DEF CutAt
  <2>2. <<>> \in Seq(Nodes) /\ Len(<<>>) = 0
    OBVIOUS
  <2>3. PutAt(t, s, <<>>, k - 1, k + 1)
    BY <1>8, <2>1, <2>2, RecordDoes
  <2>4. t \in Seq(Nodes) /\ Len(t) = N - 1 /\ \A i \in 1..k - 1 : t[i] = s[i]
    <3>1. /\ t \in Seq(Nodes) /\ Len(t) = k - 1 + Len(<<>>) + (Len(s) + 1 - (k + 1))
          /\ \A i \in 1..k - 1 : t[i] = s[i]
      BY <2>3 DEF PutAt
    <3>2. k - 1 + 0 + (N + 1 - (k + 1)) = N - 1
      OBVIOUS
    <3> QED
      BY <1>4, <2>2, <3>1, <3>2
  <2>5. \A i \in k + 1..N : t[i + (k - 1) + 0 + 1 - (k + 1)] = s[i]
    BY <1>4, <2>2, <2>3 DEF PutAt
  <2>6. ASSUME NEW i \in 1..N - 1, i >= k PROVE t[i] = s[i + 1]
    <3>1. i + 1 \in k + 1..N /\ i + 1 + (k - 1) + 0 + 1 - (k + 1) = i
      BY <2>6
    <3> QED
      BY <2>5, <3>1
  <2> QED
    BY <2>4, <2>6
<1>11. /\ \A n \in Nodes : parent'[n] = IF n = c THEN None ELSE parent[n]
       /\ \A n \in Nodes : next'[n] = IF n = c THEN None
                                      ELSE IF n = prev[c] THEN next[c] ELSE next[n]
  BY UnlinkKeeps
<1>12. Lists(t, p)'
  <2>1. DOMAIN t = 1..N - 1
    BY <1>10
  <2>2. NoDoubles(t)
    BY <1>5, <1>10, <2>1 DEF NoDoubles
  <2>3. ASSUME NEW x \in Nodes PROVE parent'[x] = p <=> \E i \in 1..N - 1 : t[i] = x
    <3>1. CASE x = c
      BY <1>3, <1>5, <1>6, <1>10, <1>11, <3>1
    <3>2. ASSUME x # c, parent[x] = p PROVE \E i \in 1..N - 1 : t[i] = x
      <4>1. PICK j \in 1..N : s[j] = x /\ j # k
        BY <1>5, <1>6, <3>2
      <4>2. CASE j < k
        BY <1>10, <4>1, <4>2
      <4>3. CASE j > k
        <5>1. j - 1 \in 1..N - 1 /\ ~ (j - 1 < k) /\ j - 1 + 1 = j
          BY <4>3
        <5> QED
          BY <1>10, <4>1, <5>1
      <4> QED
        BY <4>1, <4>2, <4>3
    <3>3. ASSUME NEW i \in 1..N - 1, t[i] = x, x # c PROVE parent[x] = p
      BY <1>5, <1>10, <3>3
    <3> QED
      BY <1>11, <3>1, <3>2, <3>3
  <2>4. ASSUME NEW i \in 1..N - 1 PROVE next'[t[i]] = IF i = N - 1 THEN None ELSE t[i + 1]
    <3>1. CASE i < k - 1
      <4>1. i + 1 \in 1..N - 1 /\ i + 1 < k /\ i # N - 1 /\ i # N /\ k # 1 /\ k - 1 \in 1..N /\ i \in 1..N
        BY <3>1
      <4>2. t[i] = s[i] /\ t[i + 1] = s[i + 1]
        BY <1>10, <3>1, <4>1
      <4>3. s[i] # c /\ s[i] # prev[c]
        BY <1>5, <1>6, <1>7, <3>1, <4>1
      <4> QED
        BY <1>5, <1>11, <4>1, <4>2, <4>3
    <3>2. CASE i = k - 1
      <4>1. k # 1 /\ k - 1 \in 1..N /\ i < k /\ (i = N - 1 <=> k = N) /\ i + 1 = k
        BY <3>2
      <4>2. t[i] = prev[c] /\ t[i] # c /\ t[i] \in Nodes
        BY <1>5, <1>6, <1>7, <1>10, <3>2, <4>1
      <4>3. k # N => t[i + 1] = s[k + 1]
        BY <1>10, <4>1
      <4> QED
        BY <1>7, <1>11, <4>1, <4>2, <4>3
    <3>3. CASE i >= k
      <4>1. i + 1 \in 1..N /\ i + 1 # k /\ i + 1 # k - 1 /\ (i = N - 1 <=> i + 1 = N)
        BY <3>3
      <4>2. t[i] = s[i + 1] /\ (i + 1 # N => t[i + 1] = s[i + 1 + 1])
        BY <1>10, <3>3
      <4>3. s[i + 1] # c /\ s[i + 1] # prev[c] /\ s[i + 1] \in Nodes
        BY <1>5, <1>6, <1>7, <4>1, NoneIsNoNode
      <4> QED
        BY <1>5, <1>11, <4>1, <4>2, <4>3
    <3> QED
      BY <3>1, <3>2, <3>3
  <2> QED
    BY <1>10, <2>1, <2>2, <2>3, <2>4 DEF Lists
<1>13. ASSUME NEW n \in Nodes \ {p}, NEW x \in Nodes
       PROVE  /\ parent'[x] = n <=> parent[x] = n
              /\ parent[x] = n => next'[x] = next[x]
  <2>1. n # None
    BY NoneIsNoNode
  <2>2. prev[c] # x \/ parent[x] = p
    BY <1>1, NoneIsNoNode DEF LinksOK, LinksAgree, Agrees
  <2> QED
    BY <1>1, <1>11, <2>1, <2>2
<1> QED
  BY <1>9, <1>12, <1>13, ListsKeep

(* A list that c was put into, as number k. *)
LEMMA PutIn ==
    ASSUME NEW p, NEW s, NEW N, Row(p, s, N),
           NEW c \in Nodes, parent[c] = None, NEW k \in 1..(N + 1),
           NEW t, PutAt(t, s, <<c>>, k - 1, k),
           \A n \in Nodes : parent'[n] = IF n = c THEN p ELSE parent[n],
           \A n \in Nodes : next'[n] = IF k # 1 /\ n = s[k - 1] THEN c
                                       ELSE IF n = c THEN IF k = N + 1 THEN None ELSE s[k]
                                       ELSE next[n]
    PROVE  Lists(t, p)'
<1>1. s \in Seq(Nodes) /\ NoDoubles(s) /\ p # None /\ N \in Nat
  BY DEF Row
<1>2. /\ DOMAIN s = 1..N /\ N = Len(s) /\ \A i \in 1..N : s[i] \in Nodes
      /\ \A i, j \in 1..N : s[i] = s[j] => i = j
      /\ \A x \in Nodes : parent[x] = p <=> \E i \in 1..N : s[i] = x
      /\ \A i \in 1..N : next[s[i]] = IF i = N THEN None ELSE s[i + 1]
  BY DEF Row
<1>3. \A i \in 1..N : s[i] # c
  BY <1>1, <1>2
<1>4. /\ t \in Seq(Nodes) /\ Len(t) = N + 1
      /\ \A i \in 1..N + 1 : t[i] = IF i < k THEN s[i] ELSE IF i = k THEN c ELSE s[i - 1]
  <2>1. Len(<<c>>) = 1 /\ <<c>>[1] = c
    OBVIOUS
  <2>2. /\ t \in Seq(Nodes) /\ Len(t) = k - 1 + Len(<<c>>) + (Len(s) + 1 - k)
        /\ \A i \in 1..k - 1 : t[i] = s[i]
        /\ \A i \in 1..Len(<<c>>) : t[k - 1 + i] = <<c>>[i]
        /\ \A i \in k..Len(s) : t[i + (k - 1) + Len(<<c>>) + 1 - k] = s[i]
    BY DEF PutAt
  <2>3. k - 1 + 1 = k /\ 1 \in 1..1 /\ k - 1 + 1 + (N + 1 - k) = N + 1
    BY <1>1
  <2>4. t[k] = c
    BY <2>1, <2>2, <2>3
  <2>5. ASSUME NEW i \in 1..N + 1, i > k PROVE t[i] = s[i - 1]
    <3>1. i - 1 \in k..N /\ i - 1 + (k - 1) + 1 + 1 - k = i
      BY <1>1, <2>5
    <3> QED
      BY <2>1, <1>2, <2>2, <3>1
  <2>6. ASSUME NEW i \in 1..N + 1, i < k PROVE t[i] = s[i]
    <3>1. i \in 1..k - 1
      BY <1>1, <2>6
    <3> QED
      BY <2>2, <3>1
  <2>7. Len(t) = N + 1
    BY <2>1, <1>2, <2>2, <2>3
  <2> QED
    <3> SUFFICES ASSUME NEW i \in 1..N + 1
                 PROVE  t[i] = IF i < k THEN s[i] ELSE IF i = k THEN c ELSE s[i - 1]
      BY <2>2, <2>7
    <3>1. i < k \/ i = k \/ (i > k /\ ~ (i < k) /\ i # k)
      OBVIOUS
    <3> QED
      BY <2>4, <2>5, <2>6, <3>1
<1>5. DOMAIN t = 1..N + 1
  BY <1>4
<1>6. NoDoubles(t)
  <2> SUFFICES ASSUME NEW i \in 1..N + 1, NEW j \in 1..N + 1, t[i] = t[j] PROVE i = j
    BY <1>5 DEF NoDoubles
  <2>1. ASSUME NEW m \in 1..N + 1
        PROVE  \/ m < k /\ m \in 1..N /\ t[m] = s[m]
               \/ m = k /\ t[m] = c
               \/ m > k /\ m - 1 \in 1..N /\ t[m] = s[m - 1]
    BY <1>1, <1>4
  <2>2. CASE i = k \/ j = k
    BY <1>3, <2>1, <2>2
  <2>3. CASE i # k /\ j # k
    <3>1. PICK a \in 1..N, b \in 1..N :
             /\ t[i] = s[a] /\ t[j] = s[b]
             /\ (i < k /\ a = i) \/ (i > k /\ a = i - 1)
             /\ (j < k /\ b = j) \/ (j > k /\ b = j - 1)
      BY <2>1, <2>3
    <3>2. a = b
      <4>1. s[a] = s[b]
        BY <3>1
      <4> QED
        BY <1>2, <4>1
    <3> QED
      BY <3>1, <3>2
  <2> QED
    BY <2>2, <2>3
<1>7. ASSUME NEW x \in Nodes PROVE parent'[x] = p <=> \E i \in 1..N + 1 : t[i] = x
  <2>1. CASE x = c
    BY <1>1, <1>4, <2>1
  <2>2. ASSUME x # c, parent[x] = p PROVE \E i \in 1..N + 1 : t[i] = x
    <3>1. PICK j \in 1..N : s[j] = x
      BY <1>2, <2>2
    <3>2. CASE j < k
      BY <1>1, <1>4, <3>1, <3>2
    <3>3. CASE j >= k
      <4>1. j + 1 \in 1..N + 1 /\ ~ (j + 1 < k) /\ j + 1 # k /\ j + 1 - 1 = j
        BY <1>1, <3>3
      <4> QED
        BY <1>4, <3>1, <4>1
    <3> QED
      BY <1>1, <3>2, <3>3
  <2>3. ASSUME NEW i \in 1..N + 1, t[i] = x, x # c PROVE parent[x] = p
    <3>1. i # k
      BY <1>4, <2>3
    <3>2. PICK a \in 1..N : t[i] = s[a]
      <4>1. CASE i < k
        BY <1>1, <1>4, <4>1
      <4>2. CASE i > k
        <5>1. i - 1 \in 1..N
          BY <1>1, <4>2
        <5> QED
          BY <1>4, <4>2, <5>1
      <4> QED
        BY <1>1, <3>1, <4>1, <4>2
    <3> QED
      BY <1>2, <2>3, <3>2
  <2> QED
    BY <2>1, <2>2, <2>3
<1>8. ASSUME NEW i \in 1..N + 1 PROVE next'[t[i]] = IF i = N + 1 THEN None ELSE t[i + 1]
  <2>1. CASE i < k - 1
    <3>1. i + 1 \in 1..N + 1 /\ i + 1 < k /\ i # N + 1 /\ i # N /\ k # 1 /\ k - 1 \in 1..N /\ i \in 1..N
          /\ i < k /\ i # k - 1
      BY <1>1, <2>1
    <3>2. t[i] = s[i] /\ t[i + 1] = s[i + 1]
      BY <1>4, <3>1
    <3>3. s[i] # c /\ s[i] # s[k - 1] /\ s[i] \in Nodes /\ next[s[i]] = s[i + 1]
      <4>1. s[i] # c
        BY <1>3, <3>1
      <4>2. s[i] # s[k - 1]
        BY <1>2, <3>1
      <4> QED
        BY <1>2, <3>1, <4>1, <4>2
    <3>4. next'[s[i]] = next[s[i]]
      BY <3>3
    <3> QED
      BY <3>1, <3>2, <3>3, <3>4
  <2>2. CASE i = k - 1
    <3>1. k # 1 /\ k - 1 \in 1..N /\ i < k /\ i # N + 1 /\ i + 1 = k /\ k \in 1..N + 1 /\ ~ (k < k)
      BY <1>1, <2>2
    <3>2. t[i] = s[k - 1] /\ t[i] \in Nodes /\ t[i + 1] = c
      BY <1>2, <1>4, <2>2, <3>1
    <3> QED
      BY <3>1, <3>2
  <2>3. CASE i = k
    <3>1. t[i] = c /\ k - 1 + 1 = k /\ (k # 1 => k - 1 \in 1..N)
      BY <1>1, <1>4, <2>3
    <3>2. k # N + 1 => t[i + 1] = s[k]
      <4> HAVE k # N + 1
      <4>1. k + 1 \in 1..N + 1 /\ ~ (k + 1 < k) /\ k + 1 # k /\ k + 1 - 1 = k
        BY <1>1
      <4> QED
        BY <1>4, <2>3, <4>1
    <3>3. k # 1 => s[k - 1] # c
      BY <1>3, <3>1
    <3> QED
      BY <2>3, <3>1, <3>2, <3>3
  <2>4. CASE i > k
    <3>1. /\ i - 1 \in 1..N /\ (i = N + 1 <=> i - 1 = N) /\ i - 1 + 1 = i /\ ~ (i < k) /\ i # k
          /\ k # 1 => k - 1 \in 1..N /\ i - 1 # k - 1
      BY <1>1, <2>4
    <3>2. t[i] = s[i - 1]
      BY <1>4, <3>1
    <3>3. i # N + 1 => t[i + 1] = s[i]
      <4> HAVE i # N + 1
      <4>1. i + 1 \in 1..N + 1 /\ ~ (i + 1 < k) /\ i + 1 # k /\ i + 1 - 1 = i
        BY <1>1, <2>4
      <4> QED
        BY <1>4, <4>1
    <3>4. s[i - 1] # c /\ s[i - 1] \in Nodes /\ (k # 1 => s[i - 1] # s[k - 1])
      BY <1>2, <1>3, <3>1
    <3>5. next'[s[i - 1]] = next[s[i - 1]]
      BY <3>4
    <3>6. next[s[i - 1]] = IF i = N + 1 THEN None ELSE s[i]
      <4>1. next[s[i - 1]] = IF i - 1 = N THEN None ELSE s[i - 1 + 1]
        BY <1>2, <3>1
      <4> QED
        BY <3>1, <4>1
    <3> QED
      BY <3>2, <3>3, <3>5, <3>6
  <2> QED
    BY <1>1, <2>1, <2>2, <2>3, <2>4
<1> QED
  BY <1>4, <1>5, <1>6, <1>7, <1>8 DEF Lists

LEMMA LinkLastLists ==
    ASSUME LinksOK, ListsOK, NEW p \in Containers, NEW c \in Inner, parent[c] = None,
           LinkLast(p, c)
    PROVE  ListsOK'
<1>1. p \in Nodes /\ c \in Nodes
  BY DEF Nodes, Containers, Inner
<1>2. PICK s, N : s = seen[p] /\ N = Len(s)
  OBVIOUS
<1>3. Row(p, s, N)
  BY <1>1, <1>2, ListFacts
<1>4. /\ s \in Seq(Nodes) /\ NoDoubles(s) /\ N \in Nat /\ N = Len(s) /\ p # None
      /\ last[p] = IF N = 0 THEN None ELSE s[N]
      /\ first[p] = IF N = 0 THEN None ELSE s[1]
      /\ \A i \in 1..N : s[i] \in Nodes
  BY <1>3 DEF Row
<1>5. PICK t : t = After(s, <<c>>, <<>>, last[p], None)
  OBVIOUS
<1>6. seen' = [seen EXCEPT ![p] = t]
  BY <1>2, <1>4, <1>5 DEF LinkLast, Tell
<1>7. PutAt(t, s, <<c>>, N, N + 1)
  <2>1. SubSeq(s, N + 1, N) = <<>>
    BY <1>4, SubSeqEmpty
  <2>2. N \in 0..N /\ N + 1 \in 1..N + 1 /\ N < N + 1 /\ N + 1 - 1 = N
    BY <1>4
  <2>3. CutAt(s, <<>>, last[p], None, N, N + 1)
    BY <1>4, <2>1, <2>2 DEF CutAt
  <2>4. <<c>> \in Seq(Nodes)
    BY <1>1
  <2> QED
    BY <1>5, <2>3, <2>4, RecordDoes
<1>8. /\ \A n \in Nodes : parent'[n] = IF n = c THEN p ELSE parent[n]
      /\ \A n \in Nodes : next'[n] = IF first[p] # None /\ n = last[p] THEN c ELSE next[n]
  BY LinkLastKeeps
<1>9. next[c] = None
  BY <1>1 DEF LinksOK, LinksAgree, Agrees
<1>10. PICK k \in 1..(N + 1) : k = N + 1 /\ k - 1 = N /\ (k # 1 <=> N # 0)
  BY <1>4
<1>11. first[p] = None <=> k = 1
  <2>1. N # 0 => 1 \in 1..N
    BY <1>4
  <2> QED
    BY <1>4, <1>10, <2>1, NoneIsNoNode
<1>12. \A n \in Nodes : next'[n] = IF k # 1 /\ n = s[k - 1] THEN c
                                  ELSE IF n = c THEN IF k = N + 1 THEN None ELSE s[k]
                                  ELSE next[n]
  BY <1>4, <1>8, <1>9, <1>10, <1>11
<1>13. PutAt(t, s, <<c>>, k - 1, k)
  BY <1>7, <1>10
<1>14. Lists(t, p)'
  BY <1>1, <1>3, <1>8, <1>12, <1>13, PutIn
<1>15. ASSUME NEW n \in Nodes \ {p}, NEW x \in Nodes
       PROVE  /\ parent'[x] = n <=> parent[x] = n
              /\ parent[x] = n => next'[x] = next[x]
  <2>1. n # None
    BY NoneIsNoNode
  <2>2. last[p] = x /\ first[p] # None => parent[x] = p
    BY <1>1, NoneIsNoNode DEF LinksOK, LinksAgree, Agrees
  <2> QED
    BY <1>8, <2>1, <2>2
<1> QED
  BY <1>1, <1>6, <1>14, <1>15, ListsKeep

LEMMA LinkBeforeLists ==
    ASSUME LinksOK, ListsOK, NEW p \in Containers, NEW c \in Inner, parent[c] = None,
           NEW ref \in Nodes, ref # c, parent[ref] = p, LinkBefore(p, c, ref)
    PROVE  ListsOK'
<1>1. p \in Nodes /\ c \in Nodes
  BY DEF Nodes, Containers, Inner
<1>2. PICK s, N : s = seen[p] /\ N = Len(s)
  OBVIOUS
<1>3. Row(p, s, N)
  BY <1>1, <1>2, ListFacts
<1>4. /\ s \in Seq(Nodes) /\ NoDoubles(s) /\ N \in Nat /\ N = Len(s) /\ p # None
      /\ \A i \in 1..N : s[i] \in Nodes
      /\ \A x \in Nodes : parent[x] = p <=> \E i \in 1..N : s[i] = x
      /\ \A i \in 1..N : prev[s[i]] = IF i = 1 THEN None ELSE s[i - 1]
  BY <1>3 DEF Row
<1>5. PICK k \in 1..N : s[k] = ref
  BY <1>4
<1>6. prev[ref] = IF k = 1 THEN None ELSE s[k - 1]
  BY <1>4, <1>5
<1>7. PICK t : t = After(s, <<c>>, <<>>, prev[ref], ref)
  OBVIOUS
<1>8. seen' = [seen EXCEPT ![p] = t]
  BY <1>2, <1>4, <1>7 DEF LinkBefore, Tell
<1>9. k \in 1..(N + 1) /\ k # N + 1 /\ (k = 1 \/ k - 1 \in 1..N)
  BY <1>4
<1>10. PutAt(t, s, <<c>>, k - 1, k)
  <2>1. SubSeq(s, k, k - 1) = <<>>
    BY <1>4, SubSeqEmpty
  <2>2. k - 1 \in 0..N /\ k - 1 < k /\ k - 1 + 1 = k /\ (k - 1 = 0 <=> k = 1)
    BY <1>4
  <2>3. CutAt(s, <<>>, prev[ref], ref, k - 1, k)
    BY <1>4, <1>5, <1>6, <1>9, <2>1, <2>2 DEF CutAt
  <2>4. <<c>> \in Seq(Nodes)
    BY <1>1
  <2> QED
    BY <1>7, <2>3, <2>4, RecordDoes
<1>11. /\ \A n \in Nodes : parent'[n] = IF n = c THEN p ELSE parent[n]
       /\ \A n \in Nodes : next'[n] = IF n = prev[ref] THEN c
                                      ELSE IF n = c THEN ref ELSE next[n]
  BY LinkBeforeKeeps
<1>12. \A n \in Nodes : next'[n] = IF k # 1 /\ n = s[k - 1] THEN c
                                  ELSE IF n = c THEN IF k = N + 1 THEN None ELSE s[k]
                                  ELSE next[n]
  BY <1>5, <1>6, <1>9, <1>11, NoneIsNoNode
<1>13. Lists(t, p)'
  BY <1>1, <1>3, <1>9, <1>10, <1>11, <1>12, PutIn
<1>14. ASSUME NEW n \in Nodes \ {p}, NEW x \in Nodes
       PROVE  /\ parent'[x] = n <=> parent[x] = n
              /\ parent[x] = n => next'[x] = next[x]
  <2>1. n # None
    BY NoneIsNoNode
  <2>2. prev[ref] = x => parent[x] = p
    BY NoneIsNoNode DEF LinksOK, LinksAgree, Agrees
  <2> QED
    BY <1>11, <2>1, <2>2
<1> QED
  BY <1>1, <1>8, <1>13, <1>14, ListsKeep

LEMMA SwapLists ==
    ASSUME LinksOK, ListsOK, NEW p \in Containers, NEW new \in Inner, parent[new] = None,
           NEW old \in Nodes, old # new, parent[old] = p, Swap(p, new, old)
    PROVE  ListsOK'
<1>1. p \in Nodes /\ new \in Nodes
  BY DEF Nodes, Containers, Inner
<1>2. PICK s, N : s = seen[p] /\ N = Len(s)
  OBVIOUS
<1>3. Row(p, s, N)
  BY <1>1, <1>2, ListFacts
<1>4. /\ s \in Seq(Nodes) /\ NoDoubles(s) /\ N \in Nat /\ N = Len(s) /\ p # None
      /\ \A i \in 1..N : s[i] \in Nodes
      /\ \A i, j \in 1..N : s[i] = s[j] => i = j
      /\ \A x \in Nodes : parent[x] = p <=> \E i \in 1..N : s[i] = x
      /\ \A i \in 1..N : next[s[i]] = IF i = N THEN None ELSE s[i + 1]
      /\ \A i \in 1..N : prev[s[i]] = IF i = 1 THEN None ELSE s[i - 1]
  BY <1>3 DEF Row
<1>5. PICK k \in 1..N : s[k] = old
  BY <1>4
<1>6. /\ prev[old] = IF k = 1 THEN None ELSE s[k - 1]
      /\ next[old] = IF k = N THEN None ELSE s[k + 1]
  BY <1>4, <1>5
<1>7. PICK t : t = After(s, <<new>>, <<old>>, prev[old], next[old])
  OBVIOUS
<1>8. seen' = [seen EXCEPT ![p] = t]
  BY <1>2, <1>4, <1>7 DEF Swap, Tell
<1>9. \A i \in 1..N : s[i] # new
  BY <1>1, <1>4
<1>10. /\ t \in Seq(Nodes) /\ Len(t) = N /\ DOMAIN t = 1..N
       /\ \A i \in 1..N : t[i] = IF i = k THEN new ELSE s[i]
  <2>1. CutAt(s, <<old>>, prev[old], next[old], k - 1, k + 1)
    <3>1. SubSeq(s, k, k) = <<old>>
      BY <1>4, <1>5, OneOf
    <3>2. /\ k - 1 \in 0..N /\ k + 1 \in 1..(N + 1) /\ k - 1 < k + 1
          /\ k - 1 + 1 = k /\ k + 1 - 1 = k /\ (k - 1 = 0 <=> k = 1) /\ (k + 1 = N + 1 <=> k = N)
      BY <1>4
    <3> QED
      BY <1>4, <1>6, <3>1, <3>2 DEF CutAt
  <2>2. <<new>> \in Seq(Nodes) /\ Len(<<new>>) = 1 /\ <<new>>[1] = new
    BY <1>1
  <2>3. PutAt(t, s, <<new>>, k - 1, k + 1)
    BY <1>7, <2>1, <2>2, RecordDoes
  <2>4. /\ t \in Seq(Nodes) /\ Len(t) = k - 1 + 1 + (N + 1 - (k + 1))
        /\ \A i \in 1..k - 1 : t[i] = s[i]
        /\ \A i \in 1..1 : t[k - 1 + i] = <<new>>[i]
        /\ \A i \in k + 1..N : t[i + (k - 1) + 1 + 1 - (k + 1)] = s[i]
    BY <1>4, <2>2, <2>3 DEF PutAt
  <2>5. k - 1 + 1 + (N + 1 - (k + 1)) = N /\ 1 \in 1..1 /\ k - 1 + 1 = k
    BY <1>4
  <2>6. t[k] = new
    BY <2>2, <2>4, <2>5
  <2>7. ASSUME NEW i \in 1..N, i > k PROVE t[i] = s[i]
    <3>1. i \in k + 1..N /\ i + (k - 1) + 1 + 1 - (k + 1) = i
      BY <1>4, <2>7
    <3> QED
      BY <2>4, <3>1
  <2>8. ASSUME NEW i \in 1..N, i < k PROVE t[i] = s[i]
    <3>1. i \in 1..k - 1
      BY <1>4, <2>8
    <3> QED
      BY <2>4, <3>1
  <2>9. Len(t) = N /\ DOMAIN t = 1..N
    BY <2>4, <2>5
  <2>10. ASSUME NEW i \in 1..N PROVE t[i] = IF i = k THEN new ELSE s[i]
    <3>1. i < k \/ i = k \/ i > k
      BY <1>4
    <3> QED
      BY <2>6, <2>7, <2>8, <3>1
  <2> QED
    BY <2>4, <2>9, <2>10
<1>11. /\ \A n \in Nodes : parent'[n] = IF n = new THEN p
                                        ELSE IF n = old THEN None ELSE parent[n]
       /\ \A n \in Nodes : next'[n] = IF n = old THEN None
                                      ELSE IF n = prev[old] THEN new
                                      ELSE IF n = new THEN next[old] ELSE next[n]
  BY SwapKeeps
<1>12. NoDoubles(t)
  <2> SUFFICES ASSUME NEW i \in 1..N, NEW j \in 1..N, t[i] = t[j] PROVE i = j
    BY <1>10 DEF NoDoubles
  <2>1. CASE i = k \/ j = k
    BY <1>9, <1>10, <2>1
  <2>2. CASE i # k /\ j # k
    <3>1. s[i] = s[j]
      BY <1>10, <2>2
    <3> QED
      BY <1>4, <3>1
  <2> QED
    BY <2>1, <2>2
<1>13. ASSUME NEW x \in Nodes PROVE parent'[x] = p <=> \E i \in 1..N : t[i] = x
  <2>1. CASE x = new
    BY <1>5, <1>10, <1>11, <2>1
  <2>2. CASE x # new /\ x = old
    <3>1. parent'[x] # p
      BY <1>4, <1>11, <2>2
    <3>2. ASSUME NEW i \in 1..N, t[i] = old PROVE FALSE
      <4>1. i # k /\ s[i] = s[k]
        BY <1>5, <1>10, <2>2, <3>2
      <4> QED
        BY <1>4, <4>1
    <3> QED
      BY <2>2, <3>1, <3>2
  <2>3. CASE x # new /\ x # old
    <3>1. parent'[x] = parent[x]
      BY <1>11, <2>3
    <3>2. ASSUME parent[x] = p PROVE \E i \in 1..N : t[i] = x
      <4>1. PICK i \in 1..N : s[i] = x
        BY <1>4, <3>2
      <4>2. i # k
        BY <1>5, <2>3, <4>1
      <4> QED
        BY <1>10, <4>1, <4>2
    <3>3. ASSUME NEW i \in 1..N, t[i] = x PROVE parent[x] = p
      <4>1. i # k
        BY <1>10, <2>3, <3>3
      <4>2. s[i] = x
        BY <1>10, <3>3, <4>1
      <4> QED
        BY <1>4, <4>2
    <3> QED
      BY <3>1, <3>2, <3>3
  <2> QED
    BY <2>1, <2>2, <2>3
<1>14. ASSUME NEW i \in 1..N PROVE next'[t[i]] = IF i = N THEN None ELSE t[i + 1]
  <2>1. CASE i = k
    <3>1. t[i] = new /\ new # prev[old] /\ new # old
      <4>1. k # 1 => k - 1 \in 1..N
        BY <1>4
      <4> QED
        BY <1>1, <1>6, <1>9, <1>10, <2>1, <4>1, NoneIsNoNode
    <3>2. next'[t[i]] = next[old]
      BY <1>1, <1>11, <3>1
    <3>3. i # N => t[i + 1] = s[k + 1]
      <4> HAVE i # N
      <4>1. k + 1 \in 1..N /\ k + 1 # k
        BY <1>4, <2>1
      <4> QED
        BY <1>10, <2>1, <4>1
    <3> QED
      BY <1>6, <2>1, <3>2, <3>3
  <2>2. CASE i = k - 1
    <3>1. k # 1 /\ i # k /\ i # N /\ i + 1 = k
      BY <1>4, <2>2
    <3>2. t[i] = prev[old] /\ t[i] \in Nodes /\ t[i + 1] = new
      BY <1>4, <1>6, <1>10, <2>2, <3>1
    <3>3. t[i] # old
      BY <1>4, <1>5, <1>10, <3>1
    <3> QED
      BY <1>11, <3>1, <3>2, <3>3
  <2>3. CASE i # k /\ i # k - 1
    <3>1. t[i] = s[i] /\ s[i] \in Nodes /\ s[i] # new
      BY <1>4, <1>9, <1>10, <2>3
    <3>2. s[i] # old
      BY <1>4, <1>5, <2>3
    <3>3. s[i] # prev[old]
      <4>1. CASE k = 1
        BY <1>6, <3>1, <4>1, NoneIsNoNode
      <4>2. CASE k # 1
        <5>1. k - 1 \in 1..N
          BY <1>4, <4>2
        <5>2. s[i] # s[k - 1]
          BY <1>4, <2>3, <5>1
        <5> QED
          BY <1>6, <4>2, <5>2
      <4> QED
        BY <4>1, <4>2
    <3>4. next'[s[i]] = next[s[i]]
      BY <1>11, <3>1, <3>2, <3>3
    <3>5. i # N => t[i + 1] = s[i + 1]
      <4> HAVE i # N
      <4>1. i + 1 \in 1..N /\ i + 1 # k
        BY <1>4, <2>3
      <4> QED
        BY <1>10, <4>1
    <3>6. next[s[i]] = IF i = N THEN None ELSE s[i + 1]
      BY <1>4
    <3> QED
      BY <3>1, <3>4, <3>5, <3>6
  <2> QED
    BY <2>1, <2>2, <2>3
<1>15. Lists(t, p)'
  BY <1>10, <1>12, <1>13, <1>14 DEF Lists
<1>16. ASSUME NEW n \in Nodes \ {p}, NEW x \in Nodes
       PROVE  /\ parent'[x] = n <=> parent[x] = n
              /\ parent[x] = n => next'[x] = next[x]
  <2>1. n # None
    BY NoneIsNoNode
  <2>2. prev[old] = x => parent[x] = p
    BY NoneIsNoNode DEF LinksOK, LinksAgree, Agrees
  <2> QED
    BY <1>11, <2>1, <2>2
<1> QED
  BY <1>1, <1>8, <1>15, <1>16, ListsKeep

-----------------------------------------------------------------------------
(* Whatever the step, the lists stay what they are by the links. *)

LEMMA ListsInit == Init => ListsOK
<1> SUFFICES ASSUME Init PROVE ListsOK
  OBVIOUS
<1>1. \A n \in Nodes : seen[n] = <<>> /\ parent[n] = None
  BY DEF Init
<1>2. seen \in [Nodes -> Seq(Nodes)]
  BY DEF Init
<1>3. ASSUME NEW n \in Nodes PROVE Lists(<<>>, n)
  <2>1. <<>> \in Seq(Nodes) /\ DOMAIN <<>> = {} /\ n # None
    BY NoneIsNoNode
  <2> QED
    BY <1>1, <2>1 DEF Lists, NoDoubles
<1> QED
  BY <1>1, <1>2, <1>3 DEF ListsOK

LEMMA ListsUnchanged ==
    ASSUME ListsOK, UNCHANGED <<links, seen>>
    PROVE  ListsOK'
BY DEF ListsOK, Lists, links

LEMMA CallKeepsLists ==
    ASSUME IInv, ListsOK, Call
    PROVE  ListsOK'
<1>0. LinksOK
  BY DEF IInv
<1>1. ASSUME NEW p \in Containers, NEW c \in Nodes, NEW r \in Nodes, parent[r] = p, ReplaceChild(p, c, r)
      PROVE  ListsOK'
  <2>1. p # None
    BY NoneIsNoNode DEF Nodes
  <2>2. CASE Unlink(r)
    BY <1>0, <1>1, <2>1, <2>2, UnlinkLists
  <2>3. CASE UNCHANGED <<links, seen>>
    BY <2>3, ListsUnchanged
  <2> QED
    BY <1>1, <2>2, <2>3 DEF ReplaceChild
<1>2. ASSUME NEW c \in Nodes, parent[c] # None, RemoveChild(c)
      PROVE  ListsOK'
  BY <1>0, <1>2, UnlinkLists DEF RemoveChild
<1>3. ASSUME NEW p, NEW new, Refill(p, new)
      PROVE  UNCHANGED <<links, seen>>
  BY <1>3 DEF Refill
<1>4. \/ UNCHANGED <<links, seen>>
      \/ \E p \in Containers, c, r \in Nodes : parent[r] = p /\ ReplaceChild(p, c, r)
      \/ \E c \in Nodes : parent[c] # None /\ RemoveChild(c)
  <2>1. ASSUME NEW p \in Elements \cup Fragments, SetTextContent(p) PROVE UNCHANGED <<links, seen>>
    BY <1>3, <2>1 DEF SetTextContent
  <2>2. ASSUME NEW p \in Elements, SetInnerHTML(p) PROVE UNCHANGED <<links, seen>>
    BY <1>3, <2>2 DEF SetInnerHTML
  <2>3. ASSUME NEW p, NEW c, NEW r, AppendChild(p, c) \/ InsertBefore(p, c, r) PROVE UNCHANGED <<links, seen>>
    BY <2>3 DEF AppendChild, InsertBefore
  <2>4. ASSUME NEW p, Normalize(p) \/ SetData(p) PROVE UNCHANGED <<links, seen>>
    BY <2>4 DEF Normalize, SetData
  <2> QED
    BY <2>1, <2>2, <2>3, <2>4 DEF Call
<1> QED
  BY <1>1, <1>2, <1>4, ListsUnchanged

LEMMA StepKeepsLists ==
    ASSUME IInv, ListsOK, Step
    PROVE  ListsOK'
<1>0. LinksOK /\ JobOK /\ job \in Jobs /\ empty \subseteq Texts
  BY DEF IInv, JobOK
<1>n. Inner \subseteq Nodes /\ Containers \subseteq Nodes /\ None \notin Nodes
  BY NoneIsNoNode DEF Inner, Nodes, Containers
<1>1. CASE Detach
  <2>1. job.child \in Nodes
    BY <1>0, <1>1, <1>n DEF Detach, JobOK, Doing
  <2> QED
    BY <1>0, <1>1, <2>1, UnlinkLists DEF Detach
<1>2. CASE PlaceLast
  <2>1. job.node \in Containers /\ job.child \in Inner
    BY <1>0, <1>2 DEF PlaceLast, JobOK, Doing
  <2> QED
    BY <1>0, <1>2, <2>1, LinkLastLists DEF PlaceLast
<1>3. CASE PlaceBefore
  <2>1. /\ job.node \in Containers /\ job.child \in Inner
        /\ job.ref \in Nodes /\ job.ref # job.child /\ parent[job.ref] = job.node
    BY <1>0, <1>3 DEF PlaceBefore, JobOK, Jobs, Doing
  <2> QED
    BY <1>0, <1>3, <2>1, LinkBeforeLists DEF PlaceBefore
<1>4. CASE SwapIn
  <2>1. /\ job.node \in Containers /\ job.child \in Inner
        /\ job.ref \in Nodes /\ job.ref # job.child /\ parent[job.ref] = job.node
    BY <1>0, <1>4 DEF SwapIn, JobOK, Jobs, Doing
  <2> QED
    BY <1>0, <1>4, <2>1, SwapLists DEF SwapIn
<1>5. CASE SpliceNext
  <2> DEFINE c == first[job.from]
  <2>1. job.from \in Fragments /\ job.from \in Nodes
    BY <1>0, <1>5, <1>n DEF SpliceNext, JobOK, Jobs, Doing, Containers
  <2>2. c \in Nodes /\ parent[c] = job.from
    BY <1>0, <1>5, <2>1 DEF SpliceNext, LinksOK, LinksTyped, LinksAgree, Agrees
  <2>3. Unlink(c) /\ parent[c] # None
    BY <1>5, <1>n, <2>1, <2>2 DEF SpliceNext
  <2> QED
    BY <1>0, <2>2, <2>3, UnlinkLists
<1>6. CASE ClearNext
  <2>1. job.node \in Nodes
    BY <1>0, <1>6, <1>n DEF ClearNext, JobOK, Doing
  <2>2. first[job.node] \in Nodes /\ parent[first[job.node]] = job.node
    BY <1>0, <1>6, <2>1 DEF ClearNext, LinksOK, LinksTyped, LinksAgree, Agrees
  <2> QED
    BY <1>0, <1>6, <1>n, <2>1, <2>2, UnlinkLists DEF ClearNext
<1>7. CASE DropEmpty
  <2>1. /\ job.ref \in Nodes /\ job.op = "normalize"
        /\ job.node \in Containers /\ parent[job.ref] = job.node
    BY <1>0, <1>7, <1>n DEF DropEmpty, LooksAt, Doing, JobOK, Nodes
  <2> QED
    BY <1>0, <1>7, <1>n, <2>1, UnlinkLists DEF DropEmpty
<1>8. CASE MergeNext
  <2>1. /\ job.ref \in Nodes /\ job.op = "normalize"
        /\ job.node \in Containers /\ parent[job.ref] = job.node
    BY <1>0, <1>8, <1>n DEF MergeNext, LooksAt, Doing, JobOK, Nodes
  <2>2. next[job.ref] \in Nodes /\ parent[next[job.ref]] = job.node
    BY <1>0, <1>8, <1>n, <2>1 DEF MergeNext, LinksOK, LinksTyped, LinksAgree, Agrees, Nodes
  <2> QED
    BY <1>0, <1>8, <1>n, <2>1, <2>2, UnlinkLists DEF MergeNext
<1>9. CASE SpliceDone \/ ClearDone \/ PassOn \/ EnterNext
  BY <1>9, ListsUnchanged DEF SpliceDone, ClearDone, PassOn, EnterNext
<1> QED
  BY <1>1, <1>2, <1>3, <1>4, <1>5, <1>6, <1>7, <1>8, <1>9 DEF Step

(* Observers always know lists that agree with the links of the nodes.     *)
THEOREM AlwaysLists == Spec => [](IInv /\ ListsOK)
<1>1. Init => IInv /\ ListsOK
  BY InitOK, ListsInit
<1>2. IInv /\ ListsOK /\ [Next]_vars => (IInv /\ ListsOK)'
  <2>1. ASSUME ListsOK, UNCHANGED vars PROVE ListsOK'
    BY <2>1, ListsUnchanged DEF vars
  <2>2. ASSUME IInv, ListsOK, Next PROVE ListsOK'
    BY <2>2, CallKeepsLists, StepKeepsLists DEF Next
  <2> QED
    BY <2>1, <2>2, NextOK
<1> QED
  BY <1>1, <1>2, PTL DEF Spec

-----------------------------------------------------------------------------
(* The walk over the siblings. *)

LEMMA OneMore ==
    ASSUME NEW s \in Seq(Nodes), NEW k \in 1..Len(s), k # Len(s)
    PROVE  <<s[k]>> \o SubSeq(s, k + 1, Len(s)) = SubSeq(s, k, Len(s))
<1>1. Len(s) \in Nat /\ k \in 1..Len(s) + 1 /\ k \in k - 1..Len(s) /\ Len(s) \in k..Len(s)
  OBVIOUS
<1>2. SubSeq(s, k, k) \o SubSeq(s, k + 1, Len(s)) = SubSeq(s, k, Len(s))
  BY <1>1, ConcatAdjacentSubSeq
<1>3. SubSeq(s, k, k) = <<s[k]>>
  BY OneOf
<1> QED
  BY <1>2, <1>3

(* The walk finds the nodes of the list. *)
LEMMA ChildNodesAre ==
    ASSUME LinksOK, ListsOK, NEW n \in Nodes
    PROVE  ChildNodes(n) = seen[n]
<1> DEFINE D == Nodes \cup {None}
           F(f) == [c \in D |-> IF c = None THEN <<>> ELSE <<c>> \o f[next[c]]]
           IsAt(c, k) == k \in 1..Len(seen[parent[c]]) /\ seen[parent[c]][k] = c
           at(c) == CHOOSE k : IsAt(c, k)
           w == [c \in D |-> IF c = None THEN <<>> ELSE IF parent[c] = None THEN <<c>>
                             ELSE SubSeq(seen[parent[c]], at(c), Len(seen[parent[c]]))]
<1>1. ASSUME NEW p \in Nodes PROVE Row(p, seen[p], Len(seen[p]))
  BY ListFacts
<1>2. ASSUME NEW p \in Nodes, NEW k \in 1..Len(seen[p])
      PROVE  /\ seen[p][k] \in Nodes /\ parent[seen[p][k]] = p /\ p # None
             /\ at(seen[p][k]) = k
  <2>1. PICK s, N, c : s = seen[p] /\ N = Len(s) /\ c = s[k]
    OBVIOUS
  <2>2. /\ c \in Nodes /\ p # None
        /\ \A i, j \in 1..N : s[i] = s[j] => i = j
        /\ \A x \in Nodes : parent[x] = p <=> \E i \in 1..N : s[i] = x
    BY <1>1, <2>1 DEF Row
  <2>3. parent[c] = p
    BY <2>1, <2>2
  <2>4. IsAt(c, k) /\ \A j : IsAt(c, j) => j = k
    BY <2>1, <2>2, <2>3
  <2>5. at(c) = k
    <3> HIDE DEF IsAt
    <3> QED
      BY <2>4
  <2> QED
    BY <2>1, <2>2, <2>3, <2>5
<1>3. ASSUME NEW p \in Nodes, NEW k \in 1..Len(seen[p])
      PROVE  w[seen[p][k]] = SubSeq(seen[p], k, Len(seen[p]))
  <2>1. /\ seen[p][k] \in Nodes /\ parent[seen[p][k]] = p /\ p # None
        /\ at(seen[p][k]) = k
    BY <1>2
  <2> HIDE DEF at
  <2> QED
    BY <2>1, NoneIsNoNode
<1>4. /\ w[None] = <<>>
      /\ \A c \in Nodes : parent[c] = None => w[c] = <<c>>
      /\ DOMAIN w = D /\ w = [c \in D |-> w[c]]
  BY NoneIsNoNode
<1> HIDE DEF w, at, IsAt
<1>5. ASSUME NEW c \in Nodes PROVE w[c] = <<c>> \o w[next[c]]
  <2>1. <<c>> \in Seq(Nodes) /\ <<c>> \o <<>> = <<c>>
    OBVIOUS
  <2>2. CASE parent[c] = None
    <3>1. next[c] = None
      BY <2>2 DEF LinksOK, LinksAgree, Agrees
    <3> QED
      BY <1>4, <2>1, <2>2, <3>1
  <2>3. CASE parent[c] # None
    <3>1. PICK p \in Nodes : p = parent[c]
      BY <2>3 DEF LinksOK, LinksTyped, Nodes
    <3>2. PICK s, N : s = seen[p] /\ N = Len(s)
      OBVIOUS
    <3>3. /\ s \in Seq(Nodes) /\ N \in Nat
          /\ \A x \in Nodes : parent[x] = p <=> \E i \in 1..N : s[i] = x
          /\ \A i \in 1..N : next[s[i]] = IF i = N THEN None ELSE s[i + 1]
      BY <1>1, <3>2 DEF Row
    <3>4. PICK k \in 1..N : s[k] = c
      BY <3>1, <3>3
    <3>5. w[c] = SubSeq(s, k, N)
      BY <1>3, <3>2, <3>4
    <3>6. CASE k = N
      <4>1. SubSeq(s, k, N) = <<c>>
        BY <3>2, <3>3, <3>4, <3>6, OneOf
      <4>2. next[c] = None
        BY <3>3, <3>4, <3>6
      <4> QED
        BY <1>4, <2>1, <3>5, <4>1, <4>2
    <3>7. CASE k # N
      <4>1. next[c] = s[k + 1] /\ k + 1 \in 1..N
        BY <3>3, <3>4, <3>7
      <4>2. w[next[c]] = SubSeq(s, k + 1, N)
        BY <1>3, <3>2, <4>1
      <4>3. <<c>> \o SubSeq(s, k + 1, N) = SubSeq(s, k, N)
        BY <3>2, <3>3, <3>4, <3>7, OneMore
      <4> QED
        BY <3>5, <4>2, <4>3
    <3> QED
      BY <3>6, <3>7
  <2> QED
    BY <2>2, <2>3
<1>6. w = F(w)
  <2>1. \A c \in D : w[c] = IF c = None THEN <<>> ELSE <<c>> \o w[next[c]]
    BY <1>4, <1>5
  <2> QED
    BY <1>4, <2>1
<1>7. PICK f : f = CHOOSE g : g = F(g)
  OBVIOUS
<1>8. f = F(f)
  <2> HIDE DEF F
  <2> QED
    BY <1>6, <1>7
<1>9. /\ f[None] = <<>>
      /\ \A c \in Nodes : f[c] = <<c>> \o f[next[c]]
  BY <1>8, NoneIsNoNode
<1>10. \A c \in Nodes : f[c] = w[c]
  <2> DEFINE S == {c \in Nodes : f[c] # w[c]}
  <2> SUFFICES ASSUME S # {} PROVE FALSE
    OBVIOUS
  <2>1. PICK c \in S : next[c] \notin S
    BY DEF LinksOK, NoRing
  <2>2. next[c] \in Nodes \cup {None}
    BY <2>1 DEF LinksOK, LinksTyped
  <2>3. f[next[c]] = w[next[c]]
    BY <1>4, <1>9, <2>1, <2>2
  <2>4. c \in Nodes /\ f[c] # w[c]
    BY <2>1
  <2> QED
    BY <1>5, <1>9, <2>3, <2>4
<1>11. ChildNodes(n) = f[first[n]]
  BY <1>7 DEF ChildNodes
<1>12. PICK s, N : s = seen[n] /\ N = Len(s)
  OBVIOUS
<1>13. /\ s \in Seq(Nodes) /\ N \in Nat
       /\ first[n] = IF N = 0 THEN None ELSE s[1]
       /\ \A i \in 1..N : s[i] \in Nodes
  <2>1. Row(n, s, N)
    BY <1>1, <1>12
  <2> QED
    BY <2>1 DEF Row
<1>14. CASE N = 0
  <2>1. s = <<>>
    <3>1. Len(s) = 0
      BY <1>12, <1>14
    <3> QED
      BY <1>13, <3>1, EmptySeq
  <2> QED
    BY <1>9, <1>11, <1>12, <1>13, <1>14, <2>1
<1>15. CASE N # 0
  <2>1. 1 \in 1..N /\ first[n] = s[1] /\ s[1] \in Nodes
    BY <1>13, <1>15
  <2>2. w[s[1]] = SubSeq(s, 1, N)
    BY <1>3, <1>12, <2>1
  <2>3. SubSeq(s, 1, N) = s
    BY <1>12, <1>13
  <2> QED
    BY <1>10, <1>11, <1>12, <2>1, <2>2, <2>3
<1> QED
  BY <1>13, <1>14, <1>15

(* However many nodes there are, whatever calls are made on them: the      *)
(* records of a node tell an observer the children that the walk over the  *)
(* siblings finds, in their order, and these are all the nodes whose       *)
(* parent it is.                                                           *)
THEOREM RecordsAlwaysTellAll == Spec => []RecordsTellAll
<1>1. ASSUME IInv, ListsOK PROVE RecordsTellAll
  <2> SUFFICES ASSUME NEW n \in Nodes
               PROVE  /\ seen[n] = ChildNodes(n)
                      /\ {c \in Nodes : parent[c] = n} = {seen[n][i] : i \in DOMAIN seen[n]}
    BY DEF RecordsTellAll
  <2>1. seen[n] = ChildNodes(n)
    BY <1>1, ChildNodesAre DEF IInv
  <2>2. PICK s : s = seen[n]
    OBVIOUS
  <2>3. /\ \A c \in Nodes : parent[c] = n <=> \E i \in DOMAIN s : s[i] = c
        /\ \A i \in DOMAIN s : s[i] \in Nodes
    <3>1. Lists(s, n)
      BY <1>1, <2>2 DEF ListsOK
    <3> QED
      BY <3>1 DEF Lists
  <2>4. {c \in Nodes : parent[c] = n} = {s[i] : i \in DOMAIN s}
    BY <2>3
  <2> QED
    BY <2>1, <2>2, <2>4
<1> QED
  BY <1>1, AlwaysLists, PTL

-----------------------------------------------------------------------------
(* Lists, by what they have and in which order.                            *)

(* The library's induction, said of sets of numbers.                       *)
LEMMA Least ==
    ASSUME NEW S \in SUBSET Nat, S # {}
    PROVE  \E n \in S : \A m \in S : n <= m
<1> DEFINE R == OpToRel(<, Nat)
<1>1. \A x, y \in Nat : <<x, y>> \in R <=> x < y
  BY DEF OpToRel
<1>2. IsWellFoundedOn(R, Nat)
  BY NatLessThanWellFounded
<1> HIDE DEF R
<1>3. PICK n \in S : \A m \in S : ~(<<m, n>> \in R)
  BY <1>2, WFMin
<1>4. \A m \in S : ~(m < n) /\ m \in Nat /\ n \in Nat
  BY <1>1, <1>3, Zenon
<1> QED
  BY <1>4, SMT

LEMMA Induct ==
    ASSUME NEW P, 0 \in P, \A n \in Nat : n \in P => n + 1 \in P
    PROVE  Nat \subseteq P
<1> DEFINE S == Nat \ P
<1> SUFFICES ASSUME S # {} PROVE FALSE
  OBVIOUS
<1>1. PICK n \in S : \A m \in S : n <= m
  <2>1. S \in SUBSET Nat
    OBVIOUS
  <2> QED
    BY <2>1, Least
<1>2. n \in Nat /\ n # 0 /\ n \notin P
  BY <1>1
<1>3. n - 1 \in Nat /\ n - 1 + 1 = n /\ n - 1 < n
  BY <1>2
<1>4. n - 1 \in P
  BY <1>1, <1>3
<1> QED
  BY <1>2, <1>3, <1>4

(* What Sublist does with the next element.                                *)
Take(list, S, upTo, n) == IF n \in S THEN Append(upTo, list[n]) ELSE upTo

LEMMA SublistUpToIs ==
    ASSUME NEW T, NEW list \in Seq(T), NEW S
    PROVE  /\ SublistUpTo(list, S)[0] = <<>>
           /\ \A n \in 1..Len(list) : SublistUpTo(list, S)[n] = Take(list, S, SublistUpTo(list, S)[n - 1], n)
<1> DEFINE N == Len(list)
           Upto(g, n) == g[0] = <<>> /\ \A i \in 1..n : g[i] = Take(list, S, g[i - 1], i)
           P == {n \in Nat : \E g : Upto(g, n)}
<1>1. 0 \in P
  <2>1. Upto([i \in {0} |-> <<>>], 0)
    OBVIOUS
  <2> QED
    BY <2>1
<1>2. ASSUME NEW n \in Nat, n \in P PROVE n + 1 \in P
  <2>1. PICK g : Upto(g, n)
    BY <1>2
  <2> DEFINE h == [i \in 0..(n + 1) |-> IF i = n + 1 THEN Take(list, S, g[n], n + 1) ELSE g[i]]
  <2>2. h[0] = <<>> /\ h[n + 1] = Take(list, S, g[n], n + 1) /\ \A i \in 0..n : h[i] = g[i]
    BY <2>1
  <2> HIDE DEF h
  <2>3. ASSUME NEW i \in 1..(n + 1) PROVE h[i] = Take(list, S, h[i - 1], i)
    <3>1. CASE i = n + 1
      <4>1. i - 1 = n /\ n \in 0..n
        BY <3>1
      <4> QED
        BY <2>2, <3>1, <4>1
    <3>2. CASE i # n + 1
      <4>1. i \in 1..n /\ i \in 0..n /\ i - 1 \in 0..n
        BY <3>2
      <4> QED
        BY <2>1, <2>2, <4>1
    <3> QED
      BY <3>1, <3>2
  <2> QED
    BY <2>2, <2>3
<1>3. N \in Nat
  OBVIOUS
<1>4. PICK g : Upto(g, N)
  <2> HIDE DEF P
  <2>1. N \in P
    BY <1>1, <1>2, <1>3, Induct
  <2> QED
    BY <2>1 DEF P
<1> DEFINE h == [i \in 0..N |-> g[i]]
           F(f) == [n \in 0..N |-> IF n = 0 THEN <<>> ELSE IF n \in S THEN Append(f[n - 1], list[n]) ELSE f[n - 1]]
<1>5. h = F(h)
  <2>1. ASSUME NEW n \in 0..N PROVE h[n] = IF n = 0 THEN <<>> ELSE Take(list, S, h[n - 1], n)
    <3>1. CASE n = 0
      BY <1>4, <3>1
    <3>2. CASE n # 0
      <4>1. n \in 1..N /\ n - 1 \in 0..N
        BY <3>2
      <4> QED
        BY <1>4, <3>2, <4>1
    <3> QED
      BY <3>1, <3>2
  <2> QED
    BY <2>1 DEF Take
<1>6. SublistUpTo(list, S) = CHOOSE f : f = F(f)
  BY DEF SublistUpTo
<1>7. SublistUpTo(list, S) = F(SublistUpTo(list, S))
  <2> HIDE DEF h, F
  <2> QED
    BY <1>5, <1>6
<1>8. ASSUME NEW n \in 0..N
      PROVE  SublistUpTo(list, S)[n] = IF n = 0 THEN <<>> ELSE Take(list, S, SublistUpTo(list, S)[n - 1], n)
  BY <1>7, Zenon DEF Take
<1> QED
  BY <1>3, <1>8


Has(s, x) == \E i \in DOMAIN s : s[i] = x
Goes(s, x, y) == \E i, j \in DOMAIN s : i < j /\ s[i] = x /\ s[j] = y

(* A list without doubles is known by these.                               *)
SameOrder(s, t) ==
    /\ \A x : Has(s, x) <=> Has(t, x)
    /\ \A x, y : Goes(s, x, y) <=> Goes(t, x, y)

LEMMA NotBefore ==
    ASSUME NEW T, NEW s \in Seq(T), NEW t \in Seq(T), NoDoubles(s), NoDoubles(t), SameOrder(s, t),
           NEW i \in DOMAIN s, \A k \in 1..(i - 1) : k \in DOMAIN t /\ s[k] = t[k]
    PROVE  i \in DOMAIN t /\ s[i] = t[i]
<1>1. /\ DOMAIN s = 1..Len(s) /\ DOMAIN t = 1..Len(t) /\ Len(s) \in Nat /\ Len(t) \in Nat
  OBVIOUS
<1>2. PICK j \in DOMAIN t : t[j] = s[i]
  BY DEF SameOrder, Has
<1>3. j >= i
  <2> SUFFICES ASSUME j < i PROVE FALSE
    BY <1>1
  <2>1. j \in 1..(i - 1) /\ j \in DOMAIN s
    BY <1>1
  <2>2. s[j] = s[i]
    BY <1>2, <2>1
  <2> QED
    BY <1>1, <2>1, <2>2 DEF NoDoubles
<1>4. i \in DOMAIN t
  BY <1>1, <1>3
<1>5. i = j
  <2> SUFFICES ASSUME i < j PROVE FALSE
    BY <1>1, <1>3
  <2>1. Goes(t, t[i], s[i])
    BY <1>2, <1>4 DEF Goes
  <2>2. PICK k, m \in DOMAIN s : k < m /\ s[k] = t[i] /\ s[m] = s[i]
    BY <2>1 DEF SameOrder, Goes
  <2>3. m = i
    BY <2>2 DEF NoDoubles
  <2>4. k \in 1..(i - 1)
    BY <1>1, <2>2, <2>3
  <2>5. k \in DOMAIN t /\ t[k] = t[i]
    BY <2>2, <2>4
  <2>6. k = i
    BY <1>4, <2>5 DEF NoDoubles
  <2> QED
    BY <1>1, <2>4, <2>6
<1> QED
  BY <1>2, <1>4, <1>5

LEMMA OrderTells ==
    ASSUME NEW T, NEW s \in Seq(T), NEW t \in Seq(T), NoDoubles(s), NoDoubles(t), SameOrder(s, t)
    PROVE  s = t
<1>1. /\ DOMAIN s = 1..Len(s) /\ DOMAIN t = 1..Len(t) /\ Len(s) \in Nat /\ Len(t) \in Nat
  OBVIOUS
<1> DEFINE Differ == {i \in DOMAIN s \cup DOMAIN t : ~(i \in DOMAIN s /\ i \in DOMAIN t /\ s[i] = t[i])}
<1>2. Differ = {}
  <2> SUFFICES ASSUME Differ # {} PROVE FALSE
    OBVIOUS
  <2>1. Differ \in SUBSET Nat
    BY <1>1
  <2>2. PICK i \in Differ : \A m \in Differ : i <= m
    <3> HIDE DEF Differ
    <3> QED
      BY <2>1, Least
  <2>3. \A k \in 1..(i - 1) : k \in DOMAIN s /\ k \in DOMAIN t /\ s[k] = t[k]
    <3> SUFFICES ASSUME NEW k \in 1..(i - 1) PROVE k \in DOMAIN s /\ k \in DOMAIN t /\ s[k] = t[k]
      OBVIOUS
    <3>1. k \in Nat /\ i \in Nat /\ k < i /\ k \in DOMAIN s \cup DOMAIN t
      BY <1>1, <2>2
    <3>2. k \notin Differ
      BY <2>2, <3>1
    <3> QED
      BY <3>1, <3>2
  <2>4. i \in DOMAIN s \/ i \in DOMAIN t
    OBVIOUS
  <2>5. SameOrder(t, s)
    BY DEF SameOrder
  <2>6. i \in DOMAIN s => i \in DOMAIN t /\ s[i] = t[i]
    BY <2>3, NotBefore
  <2>7. i \in DOMAIN t => i \in DOMAIN s /\ t[i] = s[i]
    <3> SUFFICES ASSUME i \in DOMAIN t PROVE i \in DOMAIN s /\ t[i] = s[i]
      OBVIOUS
    <3>1. \A k \in 1..(i - 1) : k \in DOMAIN s /\ t[k] = s[k]
      BY <2>3
    <3> HIDE DEF Differ
    <3> QED
      BY <2>5, <3>1, NotBefore
  <2> QED
    BY <2>4, <2>6, <2>7
<1>3. DOMAIN s = DOMAIN t /\ \A i \in DOMAIN s : s[i] = t[i]
  BY <1>2
<1> HIDE DEF Differ
<1>4. Len(s) = Len(t)
  <2>1. 1..Len(s) = 1..Len(t)
    BY <1>1, <1>3
  <2> QED
    <3> DEFINE n == Len(s)
               m == Len(t)
    <3>1. n \in Nat /\ m \in Nat /\ 1..n = 1..m
      BY <1>1, <2>1
    <3> HIDE DEF n, m
    <3>2. n + 1 \notin 1..n /\ m + 1 \notin 1..m
      BY <3>1
    <3>3. ~(n < m)
      BY <3>1, <3>2
    <3>4. ~(m < n)
      BY <3>1, <3>2
    <3>5. n = m
      BY <3>1, <3>3, <3>4
    <3> QED
      BY <3>5 DEF n, m
<1>5. \A i \in 1..Len(s) : s[i] = t[i]
  BY <1>1, <1>3
<1> QED
  BY <1>4, <1>5, SeqEqual

LEMMA OneAfterAnother ==
    ASSUME NEW T, NEW s \in Seq(T)
    PROVE  /\ NoDoubles(s) <=> \A x : ~Goes(s, x, x)
           /\ \A x, y : Goes(s, x, y) => Has(s, x) /\ Has(s, y)
           /\ \A x : Has(s, x) => x \in T
           /\ \A x, y : Has(s, x) /\ Has(s, y) /\ x # y => Goes(s, x, y) \/ Goes(s, y, x)
           /\ NoDoubles(s) => \A x, y, z : Goes(s, x, y) /\ Goes(s, y, z) => Goes(s, x, z)
<1>1. DOMAIN s = 1..Len(s) /\ Len(s) \in Nat /\ \A i \in DOMAIN s : s[i] \in T /\ i \in Nat
  OBVIOUS
<1>2. \A i, j \in DOMAIN s : i < j \/ j < i \/ i = j
  BY <1>1
<1>3. \A i \in DOMAIN s : ~(i < i)
  BY <1>1
<1>4. NoDoubles(s) <=> \A x : ~Goes(s, x, x)
  <2>1. ASSUME NoDoubles(s), NEW x, Goes(s, x, x) PROVE FALSE
    BY <1>3, <2>1, Zenon DEF NoDoubles, Goes
  <2>2. ASSUME \A x : ~Goes(s, x, x), NEW i \in DOMAIN s, NEW j \in DOMAIN s, s[i] = s[j] PROVE i = j
    <3>1. ~(i < j) /\ ~(j < i)
      BY <2>2, Zenon DEF Goes
    <3> QED
      BY <1>2, <3>1
  <2> QED
    BY <2>1, <2>2 DEF NoDoubles
<1>5. \A x, y : Goes(s, x, y) => Has(s, x) /\ Has(s, y)
  BY Zenon DEF Goes, Has
<1>6. \A x : Has(s, x) => x \in T
  BY <1>1 DEF Has
<1>7. \A x, y : Has(s, x) /\ Has(s, y) /\ x # y => Goes(s, x, y) \/ Goes(s, y, x)
  BY <1>2, Zenon DEF Goes, Has
<1>8. ASSUME NoDoubles(s), NEW x, NEW y, NEW z, Goes(s, x, y), Goes(s, y, z) PROVE Goes(s, x, z)
  <2>1. PICK i, j \in DOMAIN s : i < j /\ s[i] = x /\ s[j] = y
    BY <1>8 DEF Goes
  <2>2. PICK k, m \in DOMAIN s : k < m /\ s[k] = y /\ s[m] = z
    BY <1>8 DEF Goes
  <2>3. k = j
    BY <1>8, <2>1, <2>2 DEF NoDoubles
  <2>4. i < m
    BY <1>1, <2>1, <2>2, <2>3
  <2> QED
    BY <2>1, <2>2, <2>4 DEF Goes
<1> QED
  BY <1>4, <1>5, <1>6, <1>7, <1>8

LEMMA AppendOrder ==
    ASSUME NEW T, NEW s \in Seq(T), NEW c \in T, NEW x, NEW y
    PROVE  /\ Has(Append(s, c), x) <=> Has(s, x) \/ x = c
           /\ Goes(Append(s, c), x, y) <=> Goes(s, x, y) \/ (Has(s, x) /\ y = c)
<1> DEFINE t == Append(s, c)
           n == Len(s)
<1>1. /\ n \in Nat /\ DOMAIN s = 1..n /\ DOMAIN t = 1..(n + 1) /\ t[n + 1] = c /\ \A i \in 1..n : t[i] = s[i]
  BY AppendProperties
<1> HIDE DEF t, n
<1>2. \A i \in DOMAIN s : i \in DOMAIN t /\ t[i] = s[i] /\ i < n + 1 /\ i \in Nat
  BY <1>1
<1>3. \A i \in DOMAIN t : (i \in DOMAIN s /\ t[i] = s[i]) \/ (i = n + 1 /\ t[i] = c)
  BY <1>1
<1>4. n + 1 \in DOMAIN t /\ \A i \in DOMAIN t : ~(n + 1 < i)
  BY <1>1
<1>5. Has(t, x) <=> Has(s, x) \/ x = c
  BY <1>1, <1>2, <1>3, <1>4 DEF Has
<1>6. ASSUME Goes(t, x, y) PROVE Goes(s, x, y) \/ (Has(s, x) /\ y = c)
  <2>1. PICK i, j \in DOMAIN t : i < j /\ t[i] = x /\ t[j] = y
    BY <1>6 DEF Goes
  <2>2. i \in DOMAIN s /\ s[i] = x
    BY <1>3, <1>4, <2>1
  <2> QED
    BY <1>3, <2>1, <2>2, Zenon DEF Goes, Has
<1>7. ASSUME Goes(s, x, y) PROVE Goes(t, x, y)
  BY <1>2, <1>7, Zenon DEF Goes
<1>8. ASSUME Has(s, x), y = c PROVE Goes(t, x, y)
  BY <1>1, <1>2, <1>4, <1>8, Zenon DEF Goes, Has
<1> QED
  BY <1>5, <1>6, <1>7, <1>8 DEF t

LEMMA ConcatOrder ==
    ASSUME NEW T, NEW s \in Seq(T), NEW t \in Seq(T), NEW x, NEW y
    PROVE  /\ Has(s \o t, x) <=> Has(s, x) \/ Has(t, x)
           /\ Goes(s \o t, x, y) <=> Goes(s, x, y) \/ Goes(t, x, y) \/ (Has(s, x) /\ Has(t, y))
<1> DEFINE u == s \o t
           n == Len(s)
           m == Len(t)
<1>1. /\ n \in Nat /\ m \in Nat /\ DOMAIN s = 1..n /\ DOMAIN t = 1..m /\ DOMAIN u = 1..(n + m)
      /\ \A i \in 1..n : u[i] = s[i]
      /\ \A i \in 1..m : u[n + i] = t[i]
  <2>1. u \in Seq(T) /\ Len(u) = n + m /\ (\A i \in 1..n : u[i] = s[i]) /\ \A i \in 1..m : u[n + i] = t[i]
    BY Joined
  <2> HIDE DEF u
  <2> QED
    BY <2>1
<1> HIDE DEF u, n, m
<1>2. \A i \in DOMAIN s : i \in DOMAIN u /\ u[i] = s[i] /\ i <= n /\ i \in Nat
  BY <1>1
<1>3. \A i \in DOMAIN t : n + i \in DOMAIN u /\ u[n + i] = t[i] /\ n < n + i /\ i \in Nat
  BY <1>1
<1>4. ASSUME NEW i \in DOMAIN u PROVE \/ i \in DOMAIN s /\ u[i] = s[i] /\ i <= n
                                      \/ \E k \in DOMAIN t : i = n + k /\ u[i] = t[k]
  <2>1. CASE i <= n
    BY <1>1, <2>1
  <2>2. CASE ~(i <= n)
    <3>1. i - n \in DOMAIN t /\ i = n + (i - n)
      BY <1>1, <2>2
    <3> QED
      BY <1>3, <3>1
  <2> QED
    BY <2>1, <2>2
<1>5. Has(u, x) <=> Has(s, x) \/ Has(t, x)
  BY <1>2, <1>3, <1>4, Zenon DEF Has
<1>6. ASSUME Goes(u, x, y) PROVE Goes(s, x, y) \/ Goes(t, x, y) \/ (Has(s, x) /\ Has(t, y))
  <2>1. PICK i, j \in DOMAIN u : i < j /\ u[i] = x /\ u[j] = y
    BY <1>6 DEF Goes
  <2>2. CASE i \in DOMAIN s /\ u[i] = s[i] /\ j \in DOMAIN s /\ u[j] = s[j]
    BY <2>1, <2>2 DEF Goes
  <2>3. ASSUME i \in DOMAIN s, u[i] = s[i], NEW k \in DOMAIN t, u[j] = t[k] PROVE Has(s, x) /\ Has(t, y)
    BY <2>1, <2>3 DEF Has
  <2>4. ASSUME NEW k \in DOMAIN t, i = n + k, j \in DOMAIN s PROVE FALSE
    BY <1>1, <1>2, <2>1, <2>4
  <2>5. ASSUME NEW k \in DOMAIN t, i = n + k, u[i] = t[k], NEW l \in DOMAIN t, j = n + l, u[j] = t[l] PROVE Goes(t, x, y)
    <3>1. k < l
      BY <1>1, <2>1, <2>5
    <3> QED
      BY <2>1, <2>5, <3>1 DEF Goes
  <2> QED
    BY <1>4, <2>2, <2>3, <2>4, <2>5
<1>7. ASSUME Goes(s, x, y) PROVE Goes(u, x, y)
  BY <1>2, <1>7, Zenon DEF Goes
<1>8. ASSUME Goes(t, x, y) PROVE Goes(u, x, y)
  <2>1. PICK i, j \in DOMAIN t : i < j /\ t[i] = x /\ t[j] = y
    BY <1>8 DEF Goes
  <2>2. n + i < n + j
    BY <1>1, <2>1
  <2> QED
    BY <1>3, <2>1, <2>2 DEF Goes
<1>9. ASSUME Has(s, x), Has(t, y) PROVE Goes(u, x, y)
  <2>1. PICK i \in DOMAIN s : s[i] = x
    BY <1>9 DEF Has
  <2>2. PICK j \in DOMAIN t : t[j] = y
    BY <1>9 DEF Has
  <2>3. i < n + j
    BY <1>1, <2>1, <2>2
  <2> QED
    BY <1>2, <1>3, <2>1, <2>2, <2>3 DEF Goes
<1> QED
  BY <1>5, <1>6, <1>7, <1>8, <1>9 DEF u

(* The part of a list from a position on, or up to one.                    *)
LEMMA PartOrder ==
    ASSUME NEW T, NEW s \in Seq(T), NoDoubles(s), NEW k \in 1..Len(s), NEW c, c = s[k], NEW x, NEW y
    PROVE  /\ SubSeq(s, 1, k - 1) \in Seq(T) /\ SubSeq(s, k, Len(s)) \in Seq(T) /\ SubSeq(s, k + 1, Len(s)) \in Seq(T)
           /\ Has(SubSeq(s, 1, k - 1), x) <=> Goes(s, x, c)
           /\ Has(SubSeq(s, k, Len(s)), x) <=> x = c \/ Goes(s, c, x)
           /\ Has(SubSeq(s, k + 1, Len(s)), x) <=> Goes(s, c, x)
           /\ Goes(SubSeq(s, 1, k - 1), x, y) <=> Goes(s, x, y) /\ Goes(s, y, c)
           /\ Goes(SubSeq(s, k, Len(s)), x, y) <=> Goes(s, x, y) /\ (x = c \/ Goes(s, c, x))
           /\ Goes(SubSeq(s, k + 1, Len(s)), x, y) <=> Goes(s, x, y) /\ Goes(s, c, x)
<1> DEFINE N == Len(s)
<1>1. N \in Nat /\ DOMAIN s = 1..N /\ k \in DOMAIN s /\ k \in Nat /\ (\A i \in DOMAIN s : i \in Nat)
  OBVIOUS
<1>2. \A i \in DOMAIN s : s[i] = c => i = k
  BY <1>1 DEF NoDoubles
<1>3. \A z : Goes(s, z, c) <=> \E i \in DOMAIN s : i < k /\ s[i] = z
  BY <1>1, <1>2, Zenon DEF Goes
<1>4. \A z : Goes(s, c, z) <=> \E i \in DOMAIN s : k < i /\ s[i] = z
  BY <1>1, <1>2, Zenon DEF Goes
(* a part *)
<1>5. ASSUME NEW m \in 1..(N + 1), NEW n \in 0..N, m <= n + 1
      PROVE  /\ SubSeq(s, m, n) \in Seq(T)
             /\ \A z : Has(SubSeq(s, m, n), z) <=> \E i \in DOMAIN s : m <= i /\ i <= n /\ s[i] = z
             /\ \A z, w : Goes(SubSeq(s, m, n), z, w) <=> \E i, j \in DOMAIN s : m <= i /\ i < j /\ j <= n /\ s[i] = z /\ s[j] = w
  <2> DEFINE t == SubSeq(s, m, n)
  <2>1. t \in Seq(T) /\ Len(t) = n - m + 1 /\ \A i \in 1..(n - m + 1) : t[i] = s[m + i - 1]
    <3>1. m \in Int /\ n \in Int /\ \A i \in m..n : s[i] \in T
      BY <1>1
    <3>2. n - m + 1 \in Nat
      BY <1>1, <1>5
    <3> QED
      BY <1>1, <1>5, <3>1, <3>2, SubSeqProperties
  <2> HIDE DEF t
  <2>2. DOMAIN t = 1..(n - m + 1)
    BY <2>1
  <2>3. \A i \in DOMAIN t : m + i - 1 \in DOMAIN s /\ t[i] = s[m + i - 1] /\ m <= m + i - 1 /\ m + i - 1 <= n
    BY <1>1, <2>1, <2>2
  <2>4. \A i \in DOMAIN s : m <= i /\ i <= n => i - m + 1 \in DOMAIN t /\ t[i - m + 1] = s[i]
    BY <1>1, <2>1, <2>2
  <2>5. \A i, j \in DOMAIN t : i < j => m + i - 1 < m + j - 1
    BY <1>1, <2>2
  <2>6. \A i, j \in DOMAIN s : i < j => i - m + 1 < j - m + 1
    BY <1>1
  <2>7. ASSUME NEW z PROVE Has(t, z) <=> \E i \in DOMAIN s : m <= i /\ i <= n /\ s[i] = z
    <3>1. ASSUME NEW i \in DOMAIN t, t[i] = z PROVE \E q \in DOMAIN s : m <= q /\ q <= n /\ s[q] = z
      BY <2>3, <3>1
    <3>2. ASSUME NEW i \in DOMAIN s, m <= i, i <= n, s[i] = z PROVE \E q \in DOMAIN t : t[q] = z
      BY <2>4, <3>2
    <3> QED
      BY <3>1, <3>2, Zenon DEF Has
  <2>8. ASSUME NEW z, NEW w PROVE Goes(t, z, w) <=> \E i, j \in DOMAIN s : m <= i /\ i < j /\ j <= n /\ s[i] = z /\ s[j] = w
    <3>1. ASSUME NEW i \in DOMAIN t, NEW j \in DOMAIN t, i < j, t[i] = z, t[j] = w
          PROVE  \E q, r \in DOMAIN s : m <= q /\ q < r /\ r <= n /\ s[q] = z /\ s[r] = w
      BY <2>3, <2>5, <3>1
    <3>2. ASSUME NEW i \in DOMAIN s, NEW j \in DOMAIN s, m <= i, i < j, j <= n, s[i] = z, s[j] = w
          PROVE  \E q, r \in DOMAIN t : q < r /\ t[q] = z /\ t[r] = w
      <4>1. m <= j /\ i <= n
        BY <1>1, <3>2
      <4> QED
        BY <2>4, <2>6, <3>2, <4>1
    <3> QED
      BY <3>1, <3>2, Zenon DEF Goes
  <2> QED
    BY <2>1, <2>7, <2>8 DEF t
<1>6. /\ 1 \in 1..(N + 1) /\ k - 1 \in 0..N /\ 1 <= k - 1 + 1 /\ k \in 1..(N + 1) /\ N \in 0..N /\ k <= N + 1
      /\ k + 1 \in 1..(N + 1) /\ k + 1 <= N + 1
  BY <1>1
<1> HIDE DEF N
<1>7. /\ SubSeq(s, 1, k - 1) \in Seq(T)
      /\ Has(SubSeq(s, 1, k - 1), x) <=> \E i \in DOMAIN s : 1 <= i /\ i <= k - 1 /\ s[i] = x
      /\ Goes(SubSeq(s, 1, k - 1), x, y) <=> \E i, j \in DOMAIN s : 1 <= i /\ i < j /\ j <= k - 1 /\ s[i] = x /\ s[j] = y
  BY <1>5, <1>6
<1>8. /\ SubSeq(s, k, N) \in Seq(T)
      /\ Has(SubSeq(s, k, N), x) <=> \E i \in DOMAIN s : k <= i /\ i <= N /\ s[i] = x
      /\ Goes(SubSeq(s, k, N), x, y) <=> \E i, j \in DOMAIN s : k <= i /\ i < j /\ j <= N /\ s[i] = x /\ s[j] = y
  BY <1>5, <1>6
<1>9. /\ SubSeq(s, k + 1, N) \in Seq(T)
      /\ Has(SubSeq(s, k + 1, N), x) <=> \E i \in DOMAIN s : k + 1 <= i /\ i <= N /\ s[i] = x
      /\ Goes(SubSeq(s, k + 1, N), x, y) <=> \E i, j \in DOMAIN s : k + 1 <= i /\ i < j /\ j <= N /\ s[i] = x /\ s[j] = y
  BY <1>5, <1>6
<1>10. \A i \in DOMAIN s : /\ 1 <= i /\ i <= N /\ (i <= k - 1 <=> i < k) /\ (k + 1 <= i <=> k < i)
                           /\ (k <= i <=> k < i \/ i = k)
  BY <1>1
<1>11. \A i, j \in DOMAIN s : (i < j /\ j < k => i < k) /\ (i < j /\ k < i => k < j)
  BY <1>1
<1>12. Has(SubSeq(s, 1, k - 1), x) <=> Goes(s, x, c)
  BY <1>3, <1>7, <1>10
<1>13. Has(SubSeq(s, k, N), x) <=> x = c \/ Goes(s, c, x)
  BY <1>1, <1>4, <1>8, <1>10
<1>14. Has(SubSeq(s, k + 1, N), x) <=> Goes(s, c, x)
  BY <1>4, <1>9, <1>10
<1>15. Goes(SubSeq(s, 1, k - 1), x, y) <=> Goes(s, x, y) /\ Goes(s, y, c)
  <2>1. ASSUME Goes(s, x, y), Goes(s, y, c) PROVE \E i, j \in DOMAIN s : i < j /\ j < k /\ s[i] = x /\ s[j] = y
    BY <1>3, <2>1 DEF Goes, NoDoubles
  <2>2. ASSUME NEW i \in DOMAIN s, NEW j \in DOMAIN s, i < j, j < k, s[i] = x, s[j] = y PROVE Goes(s, x, y) /\ Goes(s, y, c)
    BY <1>3, <2>2 DEF Goes
  <2> QED
    BY <1>7, <1>10, <2>1, <2>2
<1>16. Goes(SubSeq(s, k + 1, N), x, y) <=> Goes(s, x, y) /\ Goes(s, c, x)
  <2>1. ASSUME Goes(s, x, y), Goes(s, c, x) PROVE \E i, j \in DOMAIN s : k < i /\ i < j /\ s[i] = x /\ s[j] = y
    BY <1>4, <2>1 DEF Goes, NoDoubles
  <2>2. ASSUME NEW i \in DOMAIN s, NEW j \in DOMAIN s, i < j, k < i, s[i] = x, s[j] = y PROVE Goes(s, x, y) /\ Goes(s, c, x)
    BY <1>4, <2>2 DEF Goes
  <2> QED
    BY <1>9, <1>10, <2>1, <2>2
<1>17. Goes(SubSeq(s, k, N), x, y) <=> Goes(s, x, y) /\ (x = c \/ Goes(s, c, x))
  <2>1. ASSUME Goes(s, x, y), Goes(s, c, x) PROVE \E i, j \in DOMAIN s : k < i /\ i < j /\ s[i] = x /\ s[j] = y
    BY <1>4, <2>1 DEF Goes, NoDoubles
  <2>2. ASSUME Goes(s, x, y), x = c PROVE \E i, j \in DOMAIN s : i = k /\ i < j /\ s[i] = x /\ s[j] = y
    BY <1>2, <2>2 DEF Goes
  <2>3. ASSUME NEW i \in DOMAIN s, NEW j \in DOMAIN s, i < j, k < i \/ i = k, s[i] = x, s[j] = y
        PROVE  Goes(s, x, y) /\ (x = c \/ Goes(s, c, x))
    BY <1>4, <2>3 DEF Goes
  <2> QED
    BY <1>8, <1>10, <2>1, <2>2, <2>3
<1> QED
  BY <1>7, <1>8, <1>9, <1>12, <1>13, <1>14, <1>15, <1>16, <1>17 DEF N

(* A sublist keeps the order. *)
Picked(list, S, n, x) == \E i \in 1..n : i \in S /\ list[i] = x
InTurn(list, S, n, x, y) == \E i, j \in 1..n : i < j /\ i \in S /\ j \in S /\ list[i] = x /\ list[j] = y

PickedOne(list, S, n) == \A x : Picked(list, S, n + 1, x) <=> Picked(list, S, n, x) \/ (n + 1 \in S /\ x = list[n + 1])
InTurnOne(list, S, n) ==
    \A x, y : InTurn(list, S, n + 1, x, y) <=>
                  InTurn(list, S, n, x, y) \/ (Picked(list, S, n, x) /\ n + 1 \in S /\ y = list[n + 1])

LEMMA OneMorePicked ==
    ASSUME NEW list, NEW S, NEW n \in Nat
    PROVE  PickedOne(list, S, n) /\ InTurnOne(list, S, n)
<1>1. /\ \A i \in 1..(n + 1) : i \in 1..n \/ i = n + 1
      /\ \A i \in 1..n : i \in 1..(n + 1) /\ i < n + 1 /\ ~(n + 1 < i)
      /\ n + 1 \in 1..(n + 1) /\ ~(n + 1 < n + 1)
  OBVIOUS
<1>2. PickedOne(list, S, n)
  BY <1>1, Zenon DEF PickedOne, Picked
<1>3. ASSUME NEW x, NEW y, InTurn(list, S, n + 1, x, y)
      PROVE  InTurn(list, S, n, x, y) \/ (Picked(list, S, n, x) /\ n + 1 \in S /\ y = list[n + 1])
  <2>1. PICK i, j \in 1..(n + 1) : i < j /\ i \in S /\ j \in S /\ list[i] = x /\ list[j] = y
    BY <1>3 DEF InTurn
  <2>2. i \in 1..n
    BY <1>1, <2>1
  <2> QED
    BY <1>1, <2>1, <2>2, Zenon DEF InTurn, Picked
<1>4. ASSUME NEW x, NEW y, InTurn(list, S, n, x, y) PROVE InTurn(list, S, n + 1, x, y)
  BY <1>1, <1>4, Zenon DEF InTurn
<1>5. ASSUME NEW x, NEW y, Picked(list, S, n, x), n + 1 \in S, y = list[n + 1] PROVE InTurn(list, S, n + 1, x, y)
  BY <1>1, <1>5, Zenon DEF InTurn, Picked
<1>6. InTurnOne(list, S, n)
  BY <1>3, <1>4, <1>5 DEF InTurnOne
<1> QED
  BY <1>2, <1>6

InOrder(sub, list, S, n) ==
    /\ \A x : Has(sub, x) <=> Picked(list, S, n, x)
    /\ \A x, y : Goes(sub, x, y) <=> InTurn(list, S, n, x, y)

LEMMA SublistInOrder ==
    ASSUME NEW T, NEW list \in Seq(T), NEW S
    PROVE  Sublist(list, S) \in Seq(T) /\ InOrder(Sublist(list, S), list, S, Len(list))
<1> DEFINE N == Len(list)
           sub == SublistUpTo(list, S)
           P == {m \in Nat : m <= N => sub[m] \in Seq(T) /\ InOrder(sub[m], list, S, m)}
<1>1. N \in Nat /\ \A i \in 1..N : list[i] \in T
  OBVIOUS
<1>2. 0 \in P
  <2>1. sub[0] = <<>> /\ <<>> \in Seq(T)
    BY SublistUpToIs
  <2>2. DOMAIN <<>> = {} /\ 1..0 = {}
    OBVIOUS
  <2>3. InOrder(<<>>, list, S, 0)
    BY <2>2, Zenon DEF InOrder, Has, Goes, Picked, InTurn
  <2> HIDE DEF sub
  <2> QED
    BY <2>1, <2>3
<1>3. ASSUME NEW m \in Nat, m \in P PROVE m + 1 \in P
  <2> SUFFICES ASSUME m + 1 <= N PROVE sub[m + 1] \in Seq(T) /\ InOrder(sub[m + 1], list, S, m + 1)
    <3> HIDE DEF sub
    <3> QED
      OBVIOUS
  <2>1. m + 1 \in 1..N /\ m <= N /\ (m + 1) - 1 = m
    BY <1>1
  <2>2. sub[m + 1] = Take(list, S, sub[m], m + 1)
    BY <2>1, SublistUpToIs
  <2> DEFINE s == sub[m]
             t == sub[m + 1]
             c == list[m + 1]
  <2>3. s \in Seq(T) /\ InOrder(s, list, S, m) /\ c \in T
    <3> HIDE DEF sub
    <3> QED
      BY <1>1, <1>3, <2>1
  <2>4. PickedOne(list, S, m) /\ InTurnOne(list, S, m)
    BY OneMorePicked
  <2>5. t = IF m + 1 \in S THEN Append(s, c) ELSE s
    BY <2>2 DEF Take
  <2>6. t \in Seq(T)
    BY <2>3, <2>5
  <2> HIDE DEF s, t, c
  <2>7. CASE m + 1 \notin S
    <3>1. t = s
      BY <2>5, <2>7
    <3>2. \A x : Has(s, x) <=> Picked(list, S, m + 1, x)
      BY <2>3, <2>4, <2>7 DEF InOrder, PickedOne
    <3>3. \A x, y : Goes(s, x, y) <=> InTurn(list, S, m + 1, x, y)
      BY <2>3, <2>4, <2>7 DEF InOrder, InTurnOne
    <3>4. InOrder(s, list, S, m + 1)
      BY <3>2, <3>3, Zenon DEF InOrder
    <3>5. InOrder(t, list, S, m + 1)
      BY <3>1, <3>4, Zenon
    <3> QED
      BY <2>6, <3>5, Zenon DEF t
  <2>8. CASE m + 1 \in S
    <3>1. \A x : Has(t, x) <=> Has(s, x) \/ x = c
      BY <2>3, <2>5, <2>8, AppendOrder
    <3>2. \A x, y : Goes(t, x, y) <=> Goes(s, x, y) \/ (Has(s, x) /\ y = c)
      BY <2>3, <2>5, <2>8, AppendOrder
    <3>3. \A x : Has(t, x) <=> Picked(list, S, m + 1, x)
      BY <2>3, <2>4, <2>8, <3>1 DEF InOrder, PickedOne, c
    <3>4. \A x, y : Goes(t, x, y) <=> InTurn(list, S, m + 1, x, y)
      BY <2>3, <2>4, <2>8, <3>2 DEF InOrder, InTurnOne, c
    <3>5. InOrder(t, list, S, m + 1)
      BY <3>3, <3>4, Zenon DEF InOrder
    <3> QED
      BY <2>6, <3>5, Zenon DEF t
  <2> QED
    BY <2>7, <2>8
<1> HIDE DEF P
<1>4. N \in P
  BY <1>1, <1>2, <1>3, Induct
<1> QED
  BY <1>1, <1>4 DEF P, Sublist

LEMMA TreeSublistIs == \A list, S : Tree!Sublist(list, S) = Sublist(list, S)
BY DEF Tree!Sublist, Tree!SublistUpTo, Sublist, SublistUpTo

(* Two lists in one; what is left of a list without the nodes M; and a     *)
(* list with others before c.                                              *)
IsJoined(t, s, u) ==
    /\ \A x : Has(t, x) <=> Has(s, x) \/ Has(u, x)
    /\ \A x, y : Goes(t, x, y) <=> Goes(s, x, y) \/ Goes(u, x, y) \/ (Has(s, x) /\ Has(u, y))
IsWithout(t, s, M) ==
    /\ \A x : Has(t, x) <=> Has(s, x) /\ x \notin M
    /\ \A x, y : Goes(t, x, y) <=> Goes(s, x, y) /\ x \notin M /\ y \notin M
IsRecut(t, s, u, c) ==
    /\ \A x : Has(t, x) <=> Has(s, x) \/ Has(u, x)
    /\ \A x, y : Goes(t, x, y) <=> \/ Goes(s, x, y) \/ Goes(u, x, y)
                                   \/ Goes(s, x, c) /\ Has(u, y)
                                   \/ Has(u, x) /\ (y = c \/ Goes(s, c, y))

LEMMA JoinedOrder ==
    ASSUME NEW T, NEW s \in Seq(T), NEW u \in Seq(T)
    PROVE  s \o u \in Seq(T) /\ IsJoined(s \o u, s, u)
<1>1. s \o u \in Seq(T)
  BY ConcatProperties
<1>2. \A x : Has(s \o u, x) <=> Has(s, x) \/ Has(u, x)
  BY ConcatOrder
<1>3. \A x, y : Goes(s \o u, x, y) <=> Goes(s, x, y) \/ Goes(u, x, y) \/ (Has(s, x) /\ Has(u, y))
  BY ConcatOrder
<1> QED
  BY <1>1, <1>2, <1>3 DEF IsJoined

LEMMA WithoutOrder ==
    ASSUME NEW T, NEW s \in Seq(T), NEW M, NEW t, t = Tree!Without(s, M)
    PROVE  t \in Seq(T) /\ IsWithout(t, s, M) /\ (NoDoubles(s) => NoDoubles(t))
<1> DEFINE S == {i \in DOMAIN s : s[i] \notin M}
<1>1. t = Sublist(s, S)
  BY TreeSublistIs DEF Tree!Without
<1>2. t \in Seq(T) /\ InOrder(t, s, S, Len(s))
  <2> HIDE DEF S
  <2> QED
    BY <1>1, SublistInOrder
<1>3. DOMAIN s = 1..Len(s)
  OBVIOUS
<1>4. \A x : Has(t, x) <=> Has(s, x) /\ x \notin M
  BY <1>2, <1>3 DEF InOrder, Picked, Has
<1>5. \A x, y : Goes(t, x, y) <=> Goes(s, x, y) /\ x \notin M /\ y \notin M
  <2>1. \A x, y : InTurn(s, S, Len(s), x, y) <=> Goes(s, x, y) /\ x \notin M /\ y \notin M
    BY <1>3 DEF InTurn, Goes
  <2> QED
    BY <1>2, <2>1 DEF InOrder
<1>6. NoDoubles(s) => NoDoubles(t)
  <2>1. NoDoubles(s) <=> \A x : ~Goes(s, x, x)
    BY OneAfterAnother
  <2>2. NoDoubles(t) <=> \A x : ~Goes(t, x, x)
    BY <1>2, OneAfterAnother
  <2> QED
    BY <1>5, <2>1, <2>2
<1> QED
  BY <1>2, <1>4, <1>5, <1>6 DEF IsWithout

(* Where nodes go that are put before ref, or at the end. *)
UpTo(s, x, ref) == IF ref = None THEN Has(s, x) ELSE Goes(s, x, ref)
FromOn(s, x, ref) == ref # None /\ (x = ref \/ Goes(s, ref, x))

LEMMA RecutOrder ==
    ASSUME NEW T, NEW s \in Seq(T), NoDoubles(s), NEW k \in 1..Len(s), NEW c, c = s[k], NEW u \in Seq(T),
           NEW t, t = SubSeq(s, 1, k - 1) \o u \o SubSeq(s, k, Len(s))
    PROVE  t \in Seq(T) /\ IsRecut(t, s, u, c)
<1> DEFINE a == SubSeq(s, 1, k - 1)
           b == SubSeq(s, k, Len(s))
<1>1. Has(s, c) /\ \A x, y : Goes(s, x, y) => Has(s, x) /\ Has(s, y)
  BY OneAfterAnother DEF Has
<1>2. /\ \A x : ~Goes(s, x, x)
      /\ \A x, y : Has(s, x) /\ Has(s, y) /\ x # y => Goes(s, x, y) \/ Goes(s, y, x)
      /\ \A x, y, z : Goes(s, x, y) /\ Goes(s, y, z) => Goes(s, x, z)
  BY OneAfterAnother
<1>3. /\ a \in Seq(T) /\ b \in Seq(T)
      /\ \A x : Has(a, x) <=> Goes(s, x, c)
      /\ \A x : Has(b, x) <=> x = c \/ Goes(s, c, x)
      /\ \A x, y : Goes(a, x, y) <=> Goes(s, x, y) /\ Goes(s, y, c)
      /\ \A x, y : Goes(b, x, y) <=> Goes(s, x, y) /\ (x = c \/ Goes(s, c, x))
  BY PartOrder
<1>4. t = (a \o u) \o b
  OBVIOUS
<1> HIDE DEF a, b
<1> DEFINE v == a \o u
<1>5. v \in Seq(T) /\ IsJoined(v, a, u)
  BY <1>3, JoinedOrder
<1> HIDE DEF v
<1>6. /\ \A x : Has(v, x) <=> Has(a, x) \/ Has(u, x)
      /\ \A x, y : Goes(v, x, y) <=> Goes(a, x, y) \/ Goes(u, x, y) \/ (Has(a, x) /\ Has(u, y))
  BY <1>5 DEF IsJoined
<1>t. t \in Seq(T) /\ IsJoined(t, v, b)
  <2>1. t = v \o b
    BY <1>4 DEF v
  <2> QED
    BY <1>3, <1>5, <2>1, JoinedOrder
<1>7. /\ \A x : Has(t, x) <=> Has(v, x) \/ Has(b, x)
      /\ \A x, y : Goes(t, x, y) <=> Goes(v, x, y) \/ Goes(b, x, y) \/ (Has(v, x) /\ Has(b, y))
  BY <1>t DEF IsJoined
<1>8. ASSUME NEW x PROVE Has(t, x) <=> Has(s, x) \/ Has(u, x)
  BY <1>1, <1>2, <1>3, <1>6, <1>7, Zenon
<1>9. ASSUME NEW x, NEW y
      PROVE  Goes(t, x, y) <=> \/ Goes(s, x, y) \/ Goes(u, x, y)
                               \/ Goes(s, x, c) /\ Has(u, y)
                               \/ Has(u, x) /\ (y = c \/ Goes(s, c, y))
  <2>1. Goes(t, x, y) <=> \/ Goes(a, x, y) \/ Goes(u, x, y) \/ (Has(a, x) /\ Has(u, y))
                          \/ Goes(b, x, y) \/ ((Has(a, x) \/ Has(u, x)) /\ Has(b, y))
    BY <1>6, <1>7
  <2>2. Goes(s, x, y) => Goes(a, x, y) \/ Goes(b, x, y) \/ (Has(a, x) /\ Has(b, y))
    <3>1. Goes(s, x, y) => Has(s, x) /\ Has(s, y)
      BY <1>1
    <3>2. Has(s, x) => x = c \/ Goes(s, x, c) \/ Goes(s, c, x)
      BY <1>1, <1>2
    <3>3. Has(s, y) => y = c \/ Goes(s, y, c) \/ Goes(s, c, y)
      BY <1>1, <1>2
    <3> QED
      BY <1>3, <3>1, <3>2, <3>3
  <2>3. Has(a, x) /\ Has(b, y) => Goes(s, x, y)
    BY <1>2, <1>3
  <2> QED
    BY <1>3, <2>1, <2>2, <2>3
<1> QED
  BY <1>t, <1>8, <1>9 DEF IsRecut

IsBefore(t, s, u, ref) ==
    /\ \A x : Has(t, x) <=> Has(s, x) \/ Has(u, x)
    /\ \A x, y : Goes(t, x, y) <=> \/ Goes(s, x, y) \/ Goes(u, x, y)
                                   \/ UpTo(s, x, ref) /\ Has(u, y)
                                   \/ Has(u, x) /\ FromOn(s, y, ref)

LEMMA BeforeOrder ==
    ASSUME NEW s \in Seq(Nodes), NoDoubles(s), NEW u \in Seq(Nodes), NEW ref, ref = None \/ Has(s, ref),
           NEW t, t = Tree!Before(s, u, ref)
    PROVE  t \in Seq(Nodes) /\ IsBefore(t, s, u, ref)
<1>1. CASE ref = None
  <2>1. t = s \o u
    BY <1>1 DEF Tree!Before
  <2>2. t \in Seq(Nodes) /\ IsJoined(t, s, u)
    BY <2>1, JoinedOrder
  <2> QED
    BY <1>1, <2>2 DEF UpTo, FromOn, IsJoined, IsBefore
<1>2. CASE ref # None
  <2> DEFINE k == CHOOSE i \in DOMAIN s : s[i] = ref
  <2>1. k \in 1..Len(s) /\ ref = s[k]
    <3>1. \E i \in DOMAIN s : s[i] = ref
      BY <1>2 DEF Has
    <3>2. k \in DOMAIN s /\ s[k] = ref
      BY <3>1, Zenon
    <3> HIDE DEF k
    <3> QED
      BY <3>2
  <2>2. t = SubSeq(s, 1, k - 1) \o u \o SubSeq(s, k, Len(s))
    BY <1>2 DEF Tree!Before
  <2> HIDE DEF k
  <2>3. t \in Seq(Nodes) /\ IsRecut(t, s, u, ref)
    BY <2>1, <2>2, RecutOrder
  <2> QED
    BY <1>2, <2>3 DEF UpTo, FromOn, IsRecut, IsBefore
<1> QED
  BY <1>1, <1>2

(* The nodes u in the place of c. *)
IsSwapped(t, s, u, c) ==
    /\ \A x : Has(t, x) <=> (Has(s, x) /\ x # c) \/ Has(u, x)
    /\ \A x, y : Goes(t, x, y) <=> \/ Goes(s, x, y) /\ x # c /\ y # c
                                   \/ Goes(u, x, y)
                                   \/ Goes(s, x, c) /\ Has(u, y)
                                   \/ Has(u, x) /\ Goes(s, c, y)

LEMMA SwappedOrder ==
    ASSUME NEW T, NEW s \in Seq(T), NoDoubles(s), NEW k \in 1..Len(s), NEW c, c = s[k], NEW u \in Seq(T),
           NEW t, t = SubSeq(s, 1, k - 1) \o u \o SubSeq(s, k + 1, Len(s))
    PROVE  IsSwapped(t, s, u, c)
<1> DEFINE a == SubSeq(s, 1, k - 1)
           b == SubSeq(s, k + 1, Len(s))
<1>1. Has(s, c) /\ \A x, y : Goes(s, x, y) => Has(s, x) /\ Has(s, y)
  BY OneAfterAnother DEF Has
<1>2. /\ \A x : ~Goes(s, x, x)
      /\ \A x, y : Has(s, x) /\ Has(s, y) /\ x # y => Goes(s, x, y) \/ Goes(s, y, x)
      /\ \A x, y, z : Goes(s, x, y) /\ Goes(s, y, z) => Goes(s, x, z)
  BY OneAfterAnother
<1>3. /\ a \in Seq(T) /\ b \in Seq(T)
      /\ \A x : Has(a, x) <=> Goes(s, x, c)
      /\ \A x : Has(b, x) <=> Goes(s, c, x)
      /\ \A x, y : Goes(a, x, y) <=> Goes(s, x, y) /\ Goes(s, y, c)
      /\ \A x, y : Goes(b, x, y) <=> Goes(s, x, y) /\ Goes(s, c, x)
  BY PartOrder
<1>4. t = (a \o u) \o b
  OBVIOUS
<1> HIDE DEF a, b
<1> DEFINE v == a \o u
<1>5. v \in Seq(T) /\ IsJoined(v, a, u)
  BY <1>3, JoinedOrder
<1> HIDE DEF v
<1>6. /\ \A x : Has(v, x) <=> Has(a, x) \/ Has(u, x)
      /\ \A x, y : Goes(v, x, y) <=> Goes(a, x, y) \/ Goes(u, x, y) \/ (Has(a, x) /\ Has(u, y))
  BY <1>5 DEF IsJoined
<1>t. IsJoined(t, v, b)
  <2>1. t = v \o b
    BY <1>4 DEF v
  <2> QED
    BY <1>3, <1>5, <2>1, JoinedOrder
<1>7. /\ \A x : Has(t, x) <=> Has(v, x) \/ Has(b, x)
      /\ \A x, y : Goes(t, x, y) <=> Goes(v, x, y) \/ Goes(b, x, y) \/ (Has(v, x) /\ Has(b, y))
  BY <1>t DEF IsJoined
<1>8. ASSUME NEW x PROVE Has(t, x) <=> (Has(s, x) /\ x # c) \/ Has(u, x)
  <2>1. Has(s, x) /\ x # c <=> Goes(s, x, c) \/ Goes(s, c, x)
    BY <1>1, <1>2, Zenon
  <2> QED
    BY <1>3, <1>6, <1>7, <2>1
<1>9. ASSUME NEW x, NEW y
      PROVE  Goes(t, x, y) <=> \/ Goes(s, x, y) /\ x # c /\ y # c
                               \/ Goes(u, x, y)
                               \/ Goes(s, x, c) /\ Has(u, y)
                               \/ Has(u, x) /\ Goes(s, c, y)
  <2>1. Goes(t, x, y) <=> \/ Goes(a, x, y) \/ Goes(u, x, y) \/ (Has(a, x) /\ Has(u, y))
                          \/ Goes(b, x, y) \/ ((Has(a, x) \/ Has(u, x)) /\ Has(b, y))
    BY <1>6, <1>7
  <2>2. Goes(s, x, y) /\ x # c /\ y # c => Goes(a, x, y) \/ Goes(b, x, y) \/ (Has(a, x) /\ Has(b, y))
    <3>1. Goes(s, x, y) => Has(s, x) /\ Has(s, y)
      BY <1>1
    <3>2. Has(s, x) => x = c \/ Goes(s, x, c) \/ Goes(s, c, x)
      BY <1>1, <1>2
    <3>3. Has(s, y) => y = c \/ Goes(s, y, c) \/ Goes(s, c, y)
      BY <1>1, <1>2
    <3> QED
      BY <1>3, <3>1, <3>2, <3>3
  <2>3. Has(a, x) /\ Has(b, y) => Goes(s, x, y) /\ x # c /\ y # c
    BY <1>2, <1>3
  <2>4. Goes(a, x, y) \/ Goes(b, x, y) => Goes(s, x, y) /\ x # c /\ y # c
    BY <1>2, <1>3
  <2> QED
    BY <1>3, <2>1, <2>2, <2>3, <2>4
<1> QED
  BY <1>8, <1>9 DEF IsSwapped

-----------------------------------------------------------------------------
(* Where the records say that the lists change. *)

LEMMA CutOut ==
    ASSUME NEW p, NEW s, NEW N, Row(p, s, N), NEW k \in 1..N, NEW c, c = s[k]
    PROVE  CutAt(s, <<c>>, prev[c], next[c], k - 1, k + 1)
<1>1. /\ s \in Seq(Nodes) /\ NoDoubles(s) /\ N \in Nat /\ N = Len(s)
      /\ prev[c] = IF k = 1 THEN None ELSE s[k - 1]
      /\ next[c] = IF k = N THEN None ELSE s[k + 1]
  BY DEF Row
<1>2. SubSeq(s, k, k) = <<c>>
  BY <1>1, OneOf
<1>3. /\ k - 1 \in 0..Len(s) /\ k + 1 \in 1..(Len(s) + 1) /\ k - 1 < k + 1
      /\ k - 1 + 1 = k /\ k + 1 - 1 = k /\ (k - 1 = 0 <=> k = 1) /\ (k + 1 = Len(s) + 1 <=> k = N)
  BY <1>1
<1> QED
  BY <1>1, <1>2, <1>3 DEF CutAt

LEMMA CutBefore ==
    ASSUME NEW p, NEW s, NEW N, Row(p, s, N), NEW k \in 1..N, NEW c, c = s[k]
    PROVE  CutAt(s, <<>>, prev[c], c, k - 1, k)
<1>1. /\ s \in Seq(Nodes) /\ NoDoubles(s) /\ N \in Nat /\ N = Len(s)
      /\ prev[c] = IF k = 1 THEN None ELSE s[k - 1]
  BY DEF Row
<1>2. SubSeq(s, k, k - 1) = <<>>
  BY <1>1, SubSeqEmpty
<1>3. /\ k - 1 \in 0..Len(s) /\ k \in 1..(Len(s) + 1) /\ k - 1 < k
      /\ k - 1 + 1 = k /\ (k - 1 = 0 <=> k = 1) /\ k # Len(s) + 1
  BY <1>1
<1> QED
  BY <1>1, <1>2, <1>3 DEF CutAt

LEMMA CutAtEnd ==
    ASSUME NEW p, NEW s, NEW N, Row(p, s, N)
    PROVE  CutAt(s, <<>>, last[p], None, N, N + 1)
<1>1. /\ s \in Seq(Nodes) /\ NoDoubles(s) /\ N \in Nat /\ N = Len(s)
      /\ last[p] = IF N = 0 THEN None ELSE s[N]
  BY DEF Row
<1>2. SubSeq(s, N + 1, N) = <<>>
  BY <1>1, SubSeqEmpty
<1>3. N \in 0..Len(s) /\ N + 1 \in 1..(Len(s) + 1) /\ N < N + 1 /\ N + 1 - 1 = N
  BY <1>1
<1> QED
  BY <1>1, <1>2, <1>3 DEF CutAt

IsPut(t, s, a, i, j) == t = SubSeq(s, 1, i) \o a \o SubSeq(s, j, Len(s))

LEMMA CutSays ==
    ASSUME NEW s, NEW a \in Seq(Nodes), NEW removed, NEW pr, NEW nx, NEW i, NEW j, CutAt(s, removed, pr, nx, i, j),
           NEW t, t = After(s, a, removed, pr, nx)
    PROVE  IsPut(t, s, a, i, j)
<1>1. t = Recut(s, a, i, j)
  BY CutIs
<1> QED
  BY <1>1 DEF Recut, IsPut

(* What a change of the list of p does to all lists. *)
LEMMA OneList ==
    ASSUME ListsOK, NEW p \in Nodes, NEW t, seen' = [seen EXCEPT ![p] = t]
    PROVE  seen'[p] = t /\ \A n \in Nodes \ {p} : seen'[n] = seen[n]
BY DEF ListsOK

LEMMA UnlinkOrder ==
    ASSUME LinksOK, ListsOK, NEW c \in Nodes, NEW p \in Nodes, parent[c] = p, Unlink(c)
    PROVE  /\ \A n \in Nodes \ {p} : seen'[n] = seen[n]
           /\ IsWithout(seen'[p], seen[p], {c})
<1>1. PICK s, N : s = seen[p] /\ N = Len(s)
  OBVIOUS
<1>2. Row(p, s, N)
  BY <1>1, ListFacts
<1>3. s \in Seq(Nodes) /\ NoDoubles(s) /\ p # None
  BY <1>2 DEF Row
<1>4. PICK k \in 1..N : s[k] = c
  BY <1>2 DEF Row
<1>5. PICK t : t = After(s, <<>>, <<c>>, prev[c], next[c])
  OBVIOUS
<1>6. seen' = [seen EXCEPT ![p] = t]
  BY <1>1, <1>3, <1>5 DEF Unlink, Tell
<1>7. <<>> \in Seq(Nodes) /\ DOMAIN <<>> = {}
  OBVIOUS
<1>8. CutAt(s, <<c>>, prev[c], next[c], k - 1, k + 1)
  BY <1>2, <1>4, CutOut
<1>r. IsPut(t, s, <<>>, k - 1, k + 1)
  BY <1>5, <1>7, <1>8, CutSays
<1>9. t = SubSeq(s, 1, k - 1) \o <<>> \o SubSeq(s, k + 1, Len(s))
  BY <1>r DEF IsPut
<1>10. IsSwapped(t, s, <<>>, c)
  <2>1. k \in 1..Len(s)
    BY <1>1
  <2> QED
    BY <1>3, <1>4, <1>7, <1>9, <2>1, SwappedOrder
<1>11. \A x, y : ~Has(<<>>, x) /\ ~Goes(<<>>, x, y)
  BY <1>7, Zenon DEF Has, Goes
<1>12. IsWithout(t, s, {c})
  BY <1>10, <1>11 DEF IsSwapped, IsWithout
<1> QED
  BY <1>1, <1>6, <1>12, OneList

LEMMA LinkLastOrder ==
    ASSUME LinksOK, ListsOK, NEW c \in Nodes, NEW p \in Nodes, LinkLast(p, c)
    PROVE  /\ \A n \in Nodes \ {p} : seen'[n] = seen[n]
           /\ IsBefore(seen'[p], seen[p], <<c>>, None)
<1>1. PICK s, N : s = seen[p] /\ N = Len(s)
  OBVIOUS
<1>2. Row(p, s, N)
  BY <1>1, ListFacts
<1>3. s \in Seq(Nodes) /\ NoDoubles(s) /\ p # None /\ N \in Nat
  BY <1>2 DEF Row
<1>4. PICK t : t = After(s, <<c>>, <<>>, last[p], None)
  OBVIOUS
<1>5. seen' = [seen EXCEPT ![p] = t]
  BY <1>1, <1>3, <1>4 DEF LinkLast, Tell
<1>6. <<c>> \in Seq(Nodes)
  OBVIOUS
<1>7. CutAt(s, <<>>, last[p], None, N, N + 1)
  BY <1>2, CutAtEnd
<1>8. t = SubSeq(s, 1, N) \o <<c>> \o SubSeq(s, N + 1, N)
  <2>1. IsPut(t, s, <<c>>, N, N + 1)
    BY <1>4, <1>6, <1>7, CutSays
  <2> QED
    BY <1>1, <2>1 DEF IsPut
<1>9. t = s \o <<c>>
  <2>1. SubSeq(s, N + 1, N) = <<>> /\ SubSeq(s, 1, N) = s
    BY <1>1, <1>3, SubSeqEmpty, SubSeqFull
  <2>2. s \o <<c>> \in Seq(Nodes)
    BY <1>3, <1>6, ConcatProperties
  <2>3. (s \o <<c>>) \o <<>> = s \o <<c>>
    BY <2>2, ConcatEmptySeq
  <2> QED
    BY <1>8, <2>1, <2>3
<1>10. IsJoined(t, s, <<c>>)
  BY <1>3, <1>6, <1>9, JoinedOrder
<1>11. IsBefore(t, s, <<c>>, None)
  BY <1>10 DEF IsJoined, IsBefore, UpTo, FromOn
<1> QED
  BY <1>1, <1>5, <1>11, OneList

LEMMA LinkBeforeOrder ==
    ASSUME LinksOK, ListsOK, NEW c \in Nodes, NEW p \in Nodes, NEW ref \in Nodes, parent[ref] = p, LinkBefore(p, c, ref)
    PROVE  /\ \A n \in Nodes \ {p} : seen'[n] = seen[n]
           /\ IsBefore(seen'[p], seen[p], <<c>>, ref)
<1>1. PICK s, N : s = seen[p] /\ N = Len(s)
  OBVIOUS
<1>2. Row(p, s, N)
  BY <1>1, ListFacts
<1>3. s \in Seq(Nodes) /\ NoDoubles(s) /\ p # None /\ ref # None
  BY <1>2, NoneIsNoNode DEF Row
<1>4. PICK k \in 1..N : s[k] = ref
  BY <1>2 DEF Row
<1>5. PICK t : t = After(s, <<c>>, <<>>, prev[ref], ref)
  OBVIOUS
<1>6. seen' = [seen EXCEPT ![p] = t]
  BY <1>1, <1>3, <1>5 DEF LinkBefore, Tell
<1>7. <<c>> \in Seq(Nodes)
  OBVIOUS
<1>8. CutAt(s, <<>>, prev[ref], ref, k - 1, k)
  BY <1>2, <1>4, CutBefore
<1>r. IsPut(t, s, <<c>>, k - 1, k)
  BY <1>5, <1>7, <1>8, CutSays
<1>9. t = SubSeq(s, 1, k - 1) \o <<c>> \o SubSeq(s, k, Len(s))
  BY <1>r DEF IsPut
<1>10. IsRecut(t, s, <<c>>, ref)
  <2>1. k \in 1..Len(s)
    BY <1>1
  <2> QED
    BY <1>3, <1>4, <1>7, <1>9, <2>1, RecutOrder
<1>11. IsBefore(t, s, <<c>>, ref)
  BY <1>3, <1>10 DEF IsRecut, IsBefore, UpTo, FromOn
<1> QED
  BY <1>1, <1>6, <1>11, OneList

LEMMA SwapOrder ==
    ASSUME LinksOK, ListsOK, NEW new \in Nodes, NEW p \in Nodes, NEW old \in Nodes, parent[old] = p, Swap(p, new, old)
    PROVE  /\ \A n \in Nodes \ {p} : seen'[n] = seen[n]
           /\ IsSwapped(seen'[p], seen[p], <<new>>, old)
<1>1. PICK s, N : s = seen[p] /\ N = Len(s)
  OBVIOUS
<1>2. Row(p, s, N)
  BY <1>1, ListFacts
<1>3. s \in Seq(Nodes) /\ NoDoubles(s) /\ p # None
  BY <1>2 DEF Row
<1>4. PICK k \in 1..N : s[k] = old
  BY <1>2 DEF Row
<1>5. PICK t : t = After(s, <<new>>, <<old>>, prev[old], next[old])
  OBVIOUS
<1>6. seen' = [seen EXCEPT ![p] = t]
  BY <1>1, <1>3, <1>5 DEF Swap, Tell
<1>7. <<new>> \in Seq(Nodes)
  OBVIOUS
<1>8. CutAt(s, <<old>>, prev[old], next[old], k - 1, k + 1)
  BY <1>2, <1>4, CutOut
<1>r. IsPut(t, s, <<new>>, k - 1, k + 1)
  BY <1>5, <1>7, <1>8, CutSays
<1>9. t = SubSeq(s, 1, k - 1) \o <<new>> \o SubSeq(s, k + 1, Len(s))
  BY <1>r DEF IsPut
<1>10. IsSwapped(t, s, <<new>>, old)
  <2>1. k \in 1..Len(s)
    BY <1>1
  <2> QED
    BY <1>3, <1>4, <1>7, <1>9, <2>1, SwappedOrder
<1> QED
  BY <1>1, <1>6, <1>10, OneList

(* What the links say of the order. *)
LEMMA LinksInOrder ==
    ASSUME LinksOK, ListsOK, NEW p \in Nodes
    PROVE  /\ seen[p] \in Seq(Nodes) /\ NoDoubles(seen[p])
           /\ \A x : Has(seen[p], x) <=> x \in Nodes /\ parent[x] = p
           /\ \A y : Has(seen[p], y) <=> FromOn(seen[p], y, first[p])
           /\ \A x \in Nodes : parent[x] = p =>
                 \A y : Goes(seen[p], x, y) <=> FromOn(seen[p], y, next[x])
<1>1. PICK s, N : s = seen[p] /\ N = Len(s)
  OBVIOUS
<1>2. Row(p, s, N)
  BY <1>1, ListFacts
<1>3. /\ s \in Seq(Nodes) /\ NoDoubles(s) /\ N \in Nat /\ DOMAIN s = 1..N /\ \A i \in 1..N : s[i] \in Nodes /\ s[i] # None
      /\ \A x \in Nodes : parent[x] = p <=> \E i \in 1..N : s[i] = x
      /\ \A i \in 1..N : next[s[i]] = IF i = N THEN None ELSE s[i + 1]
      /\ first[p] = IF N = 0 THEN None ELSE s[1]
      /\ \A i, j \in 1..N : s[i] = s[j] => i = j
  BY <1>2, NoneIsNoNode DEF Row
<1>4. \A x : Has(s, x) <=> x \in Nodes /\ parent[x] = p
  BY <1>3 DEF Has
<1>5. ASSUME NEW k \in 1..N, NEW y PROVE Goes(s, s[k], y) <=> \E j \in 1..N : k < j /\ s[j] = y
  BY <1>3, <1>5 DEF Goes
<1>6. ASSUME NEW y PROVE Has(s, y) <=> FromOn(s, y, first[p])
  <2>1. CASE N = 0
    <3>1. \A i \in 1..N : FALSE
      BY <2>1
    <3> QED
      BY <1>3, <2>1, <3>1 DEF Has, FromOn
  <2>2. CASE N # 0
    <3>1. 1 \in 1..N /\ first[p] = s[1] /\ \A j \in 1..N : j = 1 \/ 1 < j
      BY <1>3, <2>2
    <3>2. Goes(s, s[1], y) <=> \E j \in 1..N : 1 < j /\ s[j] = y
      BY <1>5, <3>1
    <3>3. (\E j \in 1..N : s[j] = y) <=> y = s[1] \/ \E j \in 1..N : 1 < j /\ s[j] = y
      BY <3>1
    <3>4. Has(s, y) <=> \E j \in 1..N : s[j] = y
      BY <1>3 DEF Has
    <3>5. first[p] # None
      BY <1>3, <3>1
    <3> QED
      BY <3>1, <3>2, <3>3, <3>4, <3>5 DEF FromOn
  <2> QED
    BY <2>1, <2>2
<1>7. ASSUME NEW k \in 1..N, NEW y PROVE Goes(s, s[k], y) <=> FromOn(s, y, next[s[k]])
  <2>1. CASE k = N
    <3>1. \A j \in 1..N : ~(k < j)
      BY <1>3, <2>1
    <3> QED
      BY <1>3, <1>5, <2>1, <3>1 DEF FromOn
  <2>2. CASE k # N
    <3>1. k + 1 \in 1..N /\ \A j \in 1..N : k < j <=> j = k + 1 \/ k + 1 < j
      BY <1>3, <2>2
    <3>2. Goes(s, s[k + 1], y) <=> \E j \in 1..N : k + 1 < j /\ s[j] = y
      BY <1>5, <3>1
    <3>3. next[s[k]] = s[k + 1] /\ s[k + 1] # None
      BY <1>3, <2>2, <3>1
    <3>4. (\E j \in 1..N : k < j /\ s[j] = y) <=> y = s[k + 1] \/ \E j \in 1..N : k + 1 < j /\ s[j] = y
      BY <3>1
    <3> QED
      BY <1>5, <3>2, <3>3, <3>4 DEF FromOn
  <2> QED
    BY <2>1, <2>2
<1>8. ASSUME NEW x \in Nodes, parent[x] = p, NEW y PROVE Goes(s, x, y) <=> FromOn(s, y, next[x])
  <2>1. PICK k \in 1..N : s[k] = x
    BY <1>3, <1>8
  <2> QED
    BY <1>7, <2>1
<1> QED
  BY <1>1, <1>3, <1>4, <1>6, <1>8

(* The order of a list without doubles. *)
Ordered(s) ==
    /\ \A x : ~Goes(s, x, x)
    /\ \A x, y : Goes(s, x, y) => Has(s, x) /\ Has(s, y)
    /\ \A x, y : Has(s, x) /\ Has(s, y) /\ x # y => Goes(s, x, y) \/ Goes(s, y, x)
    /\ \A x, y, z : Goes(s, x, y) /\ Goes(s, y, z) => Goes(s, x, z)

LEMMA ListsAreOrdered ==
    ASSUME NEW T, NEW s \in Seq(T), NoDoubles(s)
    PROVE  Ordered(s)
BY OneAfterAnother DEF Ordered

(* What a list is to become, t, if it is s now, and the nodes of u are     *)
(* still to come before ref, or to another list.                           *)
IsPlaced(t, s, u, ref) ==
    /\ \A x : Has(t, x) <=> Has(s, x) \/ Has(u, x)
    /\ \A x, y : Goes(t, x, y) <=> \/ Goes(u, x, y)
                                   \/ Goes(s, x, y) /\ ~Has(u, x) /\ ~Has(u, y)
                                   \/ UpTo(s, x, ref) /\ ~Has(u, x) /\ Has(u, y)
                                   \/ Has(u, x) /\ ~Has(u, y) /\ FromOn(s, y, ref)
IsLeft(t, s, u) ==
    /\ \A x : Has(t, x) <=> Has(s, x) /\ ~Has(u, x)
    /\ \A x, y : Goes(t, x, y) <=> Goes(s, x, y) /\ ~Has(u, x) /\ ~Has(u, y)

(* u is c and then v. *)
IsFirst(u, c, v) ==
    /\ \A x : Has(u, x) <=> x = c \/ Has(v, x)
    /\ \A x, y : Goes(u, x, y) <=> Goes(v, x, y) \/ (x = c /\ Has(v, y))

LEMMA OneOrder ==
    ASSUME NEW c
    PROVE  /\ \A x : Has(<<c>>, x) <=> x = c
           /\ \A x, y : ~Goes(<<c>>, x, y)
<1>1. DOMAIN <<c>> = {1} /\ <<c>>[1] = c /\ ~(1 < 1)
  OBVIOUS
<1> QED
  BY <1>1, Zenon DEF Has, Goes

LEMMA EmptyOrder == \A x, y : ~Has(<<>>, x) /\ ~Goes(<<>>, x, y)
<1>1. DOMAIN <<>> = {}
  OBVIOUS
<1> QED
  BY <1>1, Zenon DEF Has, Goes

LEMMA FirstOrder ==
    ASSUME NEW T, NEW c \in T, NEW v \in Seq(T)
    PROVE  <<c>> \o v \in Seq(T) /\ IsFirst(<<c>> \o v, c, v)
<1>1. <<c>> \in Seq(T)
  OBVIOUS
<1>2. PICK u : u = <<c>> \o v
  OBVIOUS
<1>3. u \in Seq(T) /\ IsJoined(u, <<c>>, v)
  BY <1>1, <1>2, JoinedOrder
<1>4. IsFirst(u, c, v)
  BY <1>3, OneOrder DEF IsJoined, IsFirst
<1> QED
  BY <1>2, <1>3, <1>4

(* The first of those to come is put in its place. *)
LEMMA PlaceOne ==
    ASSUME NEW s, NEW t, NEW u, NEW v, NEW r, NEW c, NEW ref,
           Ordered(s), IsPlaced(t, s, u, ref), IsFirst(u, c, v), ~Has(v, c), ~Has(s, c), c # ref,
           ref # None => Has(s, ref), IsBefore(r, s, <<c>>, ref)
    PROVE  IsPlaced(t, r, v, ref)
<1>1. \A x : Has(r, x) <=> Has(s, x) \/ x = c
  BY OneOrder DEF IsBefore
<1>2. \A x, y : Goes(r, x, y) <=> Goes(s, x, y) \/ (UpTo(s, x, ref) /\ y = c) \/ (x = c /\ FromOn(s, y, ref))
  BY OneOrder DEF IsBefore
<1>3. ~UpTo(s, c, ref) /\ ~FromOn(s, c, ref)
  BY DEF Ordered, UpTo, FromOn
<1>4. ASSUME NEW x PROVE UpTo(r, x, ref) <=> UpTo(s, x, ref) \/ x = c
  <2>1. CASE ref = None
    BY <1>1, <2>1 DEF UpTo
  <2>2. CASE ref # None
    BY <1>2, <2>2 DEF UpTo, FromOn
  <2> QED
    BY <2>1, <2>2
<1>5. ASSUME NEW y PROVE FromOn(r, y, ref) <=> FromOn(s, y, ref)
  <2>1. CASE ref = None
    BY <2>1 DEF FromOn
  <2>2. CASE ref # None
    <3>1. ~UpTo(s, ref, ref)
      BY <2>2 DEF UpTo, Ordered
    <3> QED
      BY <1>2, <2>2, <3>1 DEF FromOn
  <2> QED
    BY <2>1, <2>2
<1>6. \A x : Has(t, x) <=> Has(r, x) \/ Has(v, x)
  BY <1>1 DEF IsPlaced, IsFirst
<1>7. ASSUME NEW x, NEW y
      PROVE  Goes(t, x, y) <=> \/ Goes(v, x, y)
                               \/ Goes(r, x, y) /\ ~Has(v, x) /\ ~Has(v, y)
                               \/ UpTo(r, x, ref) /\ ~Has(v, x) /\ Has(v, y)
                               \/ Has(v, x) /\ ~Has(v, y) /\ FromOn(r, y, ref)
  <2>1. Goes(t, x, y) <=> \/ Goes(u, x, y)
                          \/ Goes(s, x, y) /\ ~Has(u, x) /\ ~Has(u, y)
                          \/ UpTo(s, x, ref) /\ ~Has(u, x) /\ Has(u, y)
                          \/ Has(u, x) /\ ~Has(u, y) /\ FromOn(s, y, ref)
    BY DEF IsPlaced
  <2>2. /\ Has(u, x) <=> x = c \/ Has(v, x)
        /\ Has(u, y) <=> y = c \/ Has(v, y)
        /\ Goes(u, x, y) <=> Goes(v, x, y) \/ (x = c /\ Has(v, y))
    BY DEF IsFirst
  <2>3. Goes(r, x, y) <=> Goes(s, x, y) \/ (UpTo(s, x, ref) /\ y = c) \/ (x = c /\ FromOn(s, y, ref))
    BY <1>2
  <2>4. Goes(s, x, y) => x # c /\ y # c
    BY DEF Ordered
  <2>5. (UpTo(r, x, ref) <=> UpTo(s, x, ref) \/ x = c) /\ (FromOn(r, y, ref) <=> FromOn(s, y, ref))
    BY <1>4, <1>5
  <2>6. (UpTo(s, x, ref) => x # c) /\ (FromOn(s, y, ref) => y # c)
    BY <1>3
  <2> QED
    BY <2>1, <2>2, <2>3, <2>4, <2>5, <2>6
<1> QED
  BY <1>6, <1>7 DEF IsPlaced

LEMMA LeaveOne ==
    ASSUME NEW s, NEW t, NEW u, NEW v, NEW c, Ordered(s), IsLeft(t, s, u), IsFirst(u, c, v), ~Has(s, c)
    PROVE  IsLeft(t, s, v)
<1>1. \A x : Has(t, x) <=> Has(s, x) /\ ~Has(v, x)
  BY DEF IsLeft, IsFirst
<1>2. \A x, y : Goes(t, x, y) <=> Goes(s, x, y) /\ ~Has(v, x) /\ ~Has(v, y)
  BY DEF IsLeft, IsFirst, Ordered
<1> QED
  BY <1>1, <1>2 DEF IsLeft

(* One of those to come leaves the list where it is. *)
LEMMA DetachOne ==
    ASSUME NEW s, NEW t, NEW u, NEW r, NEW c, NEW ref, Has(u, c), c # ref, IsWithout(r, s, {c})
    PROVE  /\ IsLeft(t, s, u) => IsLeft(t, r, u)
           /\ IsPlaced(t, s, u, ref) => IsPlaced(t, r, u, ref)
<1>1. /\ \A x : Has(r, x) <=> Has(s, x) /\ x # c
      /\ \A x, y : Goes(r, x, y) <=> Goes(s, x, y) /\ x # c /\ y # c
  BY DEF IsWithout
<1>2. ASSUME IsLeft(t, s, u) PROVE IsLeft(t, r, u)
  BY <1>1, <1>2 DEF IsLeft
<1>3. ASSUME NEW x, ~Has(u, x) PROVE (UpTo(r, x, ref) <=> UpTo(s, x, ref)) /\ (FromOn(r, x, ref) <=> FromOn(s, x, ref))
  BY <1>1, <1>3 DEF UpTo, FromOn
<1>4. ASSUME IsPlaced(t, s, u, ref) PROVE IsPlaced(t, r, u, ref)
  <2>1. \A x : Has(t, x) <=> Has(r, x) \/ Has(u, x)
    BY <1>1, <1>4 DEF IsPlaced
  <2>2. ASSUME NEW x, NEW y
        PROVE  Goes(t, x, y) <=> \/ Goes(u, x, y)
                                 \/ Goes(r, x, y) /\ ~Has(u, x) /\ ~Has(u, y)
                                 \/ UpTo(r, x, ref) /\ ~Has(u, x) /\ Has(u, y)
                                 \/ Has(u, x) /\ ~Has(u, y) /\ FromOn(r, y, ref)
    BY <1>1, <1>3, <1>4 DEF IsPlaced
  <2> QED
    BY <2>1, <2>2 DEF IsPlaced
<1> QED
  BY <1>2, <1>4

(* Those to come may be named by another list in the same order. *)
LEMMA SameToCome ==
    ASSUME NEW s, NEW t, NEW u, NEW v, NEW ref, SameOrder(u, v)
    PROVE  /\ IsLeft(t, s, u) => IsLeft(t, s, v)
           /\ IsPlaced(t, s, u, ref) => IsPlaced(t, s, v, ref)
BY DEF SameOrder, IsLeft, IsPlaced

(* When none is to come any more, the list is what it is to become. *)
LEMMA NoneToCome ==
    ASSUME NEW s \in Seq(Nodes), NEW t \in Seq(Nodes), NoDoubles(s), NEW ref,
           IsLeft(t, s, <<>>) \/ IsPlaced(t, s, <<>>, ref)
    PROVE  s = t
<1>1. SameOrder(s, t)
  BY EmptyOrder DEF IsLeft, IsPlaced, SameOrder
<1>2. NoDoubles(t)
  <2>1. \A x : ~Goes(s, x, x)
    BY OneAfterAnother
  <2>2. \A x : ~Goes(t, x, x)
    BY <1>1, <2>1 DEF SameOrder
  <2> QED
    BY <2>2, OneAfterAnother
<1> QED
  BY <1>1, <1>2, OrderTells

-----------------------------------------------------------------------------
(* What the sentences of NodeTree say of a list, in these terms. *)

LEMMA MembersOrder ==
    ASSUME NEW u, NEW x
    PROVE  x \in Tree!Members(u) <=> Has(u, x)
BY Zenon DEF Tree!Members, Has

LEMMA MovedAway ==
    ASSUME NEW s \in Seq(Nodes), NEW u
    PROVE  /\ Tree!Without(s, Tree!Members(u)) \in Seq(Nodes)
           /\ IsLeft(Tree!Without(s, Tree!Members(u)), s, u)
           /\ NoDoubles(s) => NoDoubles(Tree!Without(s, Tree!Members(u)))
<1>1. PICK t : t = Tree!Without(s, Tree!Members(u))
  OBVIOUS
<1>2. t \in Seq(Nodes) /\ IsWithout(t, s, Tree!Members(u)) /\ (NoDoubles(s) => NoDoubles(t))
  BY <1>1, WithoutOrder
<1>3. IsLeft(t, s, u)
  BY <1>2, MembersOrder DEF IsWithout, IsLeft
<1> QED
  BY <1>1, <1>2, <1>3

LEMMA MovedHere ==
    ASSUME NEW s \in Seq(Nodes), NoDoubles(s), NEW u \in Seq(Nodes), NEW ref,
           ref # None => Has(s, ref) /\ ~Has(u, ref),
           NEW t, t = Tree!Before(Tree!Without(s, Tree!Members(u)), u, ref)
    PROVE  t \in Seq(Nodes) /\ IsPlaced(t, s, u, ref)
<1>1. PICK r : r = Tree!Without(s, Tree!Members(u))
  OBVIOUS
<1>2. r \in Seq(Nodes) /\ IsLeft(r, s, u) /\ NoDoubles(r)
  BY <1>1, MovedAway
<1>3. /\ \A x : Has(r, x) <=> Has(s, x) /\ ~Has(u, x)
      /\ \A x, y : Goes(r, x, y) <=> Goes(s, x, y) /\ ~Has(u, x) /\ ~Has(u, y)
  BY <1>2 DEF IsLeft
<1>4. ref = None \/ Has(r, ref)
  BY <1>3
<1>5. t \in Seq(Nodes) /\ IsBefore(t, r, u, ref)
  BY <1>1, <1>2, <1>4, BeforeOrder
<1>6. ASSUME NEW x
      PROVE  /\ UpTo(r, x, ref) <=> UpTo(s, x, ref) /\ ~Has(u, x)
             /\ FromOn(r, x, ref) <=> FromOn(s, x, ref) /\ ~Has(u, x)
  BY <1>3 DEF UpTo, FromOn
<1>7. \A x : Has(t, x) <=> Has(s, x) \/ Has(u, x)
  BY <1>3, <1>5 DEF IsBefore
<1>8. ASSUME NEW x, NEW y
      PROVE  Goes(t, x, y) <=> \/ Goes(u, x, y)
                               \/ Goes(s, x, y) /\ ~Has(u, x) /\ ~Has(u, y)
                               \/ UpTo(s, x, ref) /\ ~Has(u, x) /\ Has(u, y)
                               \/ Has(u, x) /\ ~Has(u, y) /\ FromOn(s, y, ref)
  BY <1>3, <1>5, <1>6 DEF IsBefore
<1> QED
  BY <1>5, <1>7, <1>8 DEF IsPlaced

(* In the place of old. *)
LEMMA MovedInPlace ==
    ASSUME NEW s \in Seq(Nodes), NoDoubles(s), NEW u \in Seq(Nodes), NEW old, old # None, Has(s, old), ~Has(u, old),
           NEW nx, \A y : Goes(s, old, y) <=> FromOn(s, y, nx),
           NEW r, IsWithout(r, s, {old}),
           NEW t, t = Tree!Without(Tree!Before(Tree!Without(s, Tree!Members(u)), u, old), {old})
    PROVE  t \in Seq(Nodes) /\ IsPlaced(t, r, u, nx)
<1>1. PICK w : w = Tree!Before(Tree!Without(s, Tree!Members(u)), u, old)
  OBVIOUS
<1>2. w \in Seq(Nodes) /\ IsPlaced(w, s, u, old)
  BY <1>1, MovedHere
<1>3. t \in Seq(Nodes) /\ IsWithout(t, w, {old})
  BY <1>1, <1>2, WithoutOrder
<1>4. Ordered(s)
  BY ListsAreOrdered
<1>5. /\ \A x : Has(r, x) <=> Has(s, x) /\ x # old
      /\ \A x, y : Goes(r, x, y) <=> Goes(s, x, y) /\ x # old /\ y # old
      /\ \A x : Has(t, x) <=> Has(w, x) /\ x # old
      /\ \A x, y : Goes(t, x, y) <=> Goes(w, x, y) /\ x # old /\ y # old
  BY <1>3 DEF IsWithout
<1>6. ASSUME NEW x PROVE UpTo(r, x, nx) <=> Goes(s, x, old)
  <2>1. CASE nx = None
    <3>1. \A y : ~Goes(s, old, y)
      BY <2>1 DEF FromOn
    <3> QED
      BY <1>4, <1>5, <2>1, <3>1 DEF UpTo, Ordered
  <2>2. CASE nx # None
    <3>1. Goes(s, old, nx) /\ \A y : Goes(s, old, y) => y = nx \/ Goes(s, nx, y)
      BY <2>2 DEF FromOn
    <3>2. Goes(s, x, nx) /\ x # old /\ nx # old => Goes(s, x, old)
      BY <1>4, <3>1 DEF Ordered
    <3>3. Goes(s, x, old) => Goes(s, x, nx) /\ x # old /\ nx # old
      BY <1>4, <3>1 DEF Ordered
    <3> QED
      BY <1>5, <2>2, <3>2, <3>3 DEF UpTo
  <2> QED
    BY <2>1, <2>2
<1>7. ASSUME NEW y PROVE FromOn(r, y, nx) <=> Goes(s, old, y)
  <2>1. CASE nx = None
    BY <2>1 DEF FromOn
  <2>2. CASE nx # None
    <3>1. FromOn(s, y, nx) <=> Goes(s, old, y)
      OBVIOUS
    <3>2. Goes(s, old, nx) /\ nx # old
      BY <1>4, <2>2 DEF FromOn, Ordered
    <3>3. Goes(s, nx, y) => y # old
      BY <1>4, <3>2 DEF Ordered
    <3> QED
      BY <1>5, <2>2, <3>1, <3>2, <3>3 DEF FromOn
  <2> QED
    BY <2>1, <2>2
<1>8. /\ \A x : Has(w, x) <=> Has(s, x) \/ Has(u, x)
      /\ \A x, y : Goes(w, x, y) <=> \/ Goes(u, x, y)
                                     \/ Goes(s, x, y) /\ ~Has(u, x) /\ ~Has(u, y)
                                     \/ UpTo(s, x, old) /\ ~Has(u, x) /\ Has(u, y)
                                     \/ Has(u, x) /\ ~Has(u, y) /\ FromOn(s, y, old)
  BY <1>2 DEF IsPlaced
<1>9. ASSUME NEW x, NEW y, Goes(u, x, y) PROVE x # old /\ y # old
  BY <1>9, OneAfterAnother
<1>10. ASSUME NEW x, NEW y
       PROVE  Goes(t, x, y) <=> \/ Goes(u, x, y)
                                \/ Goes(r, x, y) /\ ~Has(u, x) /\ ~Has(u, y)
                                \/ UpTo(r, x, nx) /\ ~Has(u, x) /\ Has(u, y)
                                \/ Has(u, x) /\ ~Has(u, y) /\ FromOn(r, y, nx)
  <2>1. UpTo(s, x, old) <=> Goes(s, x, old)
    BY DEF UpTo
  <2>2. FromOn(s, y, old) /\ y # old <=> Goes(s, old, y)
    BY <1>4 DEF FromOn, Ordered
  <2>3. Goes(s, x, old) => x # old
    BY <1>4 DEF Ordered
  <2> QED
    BY <1>5, <1>6, <1>7, <1>8, <1>9, <2>1, <2>2, <2>3
<1>11. \A x : Has(t, x) <=> Has(r, x) \/ Has(u, x)
  BY <1>5, <1>8
<1> QED
  BY <1>3, <1>10, <1>11 DEF IsPlaced

(* The node new is to stand where old stands, and leave where it is.       *)
IsToSwap(t, s, new, old) ==
    /\ \A x : Has(t, x) <=> (Has(s, x) /\ x # old) \/ x = new
    /\ \A x, y : Goes(t, x, y) <=> \/ Goes(s, x, y) /\ x \notin {new, old} /\ y \notin {new, old}
                                   \/ Goes(s, x, old) /\ x # new /\ y = new
                                   \/ x = new /\ y # new /\ Goes(s, old, y)

LEMMA SwapBegun ==
    ASSUME NEW s \in Seq(Nodes), NoDoubles(s), NEW new \in Nodes, NEW old, old # None, Has(s, old), old # new,
           NEW t, t = Tree!Without(Tree!Before(Tree!Without(s, Tree!Members(<<new>>)), <<new>>, old), {old})
    PROVE  t \in Seq(Nodes) /\ IsToSwap(t, s, new, old)
<1>0. PICK u : u = <<new>>
  OBVIOUS
<1>u. u \in Seq(Nodes) /\ (\A x : Has(u, x) <=> x = new) /\ \A x, y : ~Goes(u, x, y)
  BY <1>0, OneOrder
<1>1. PICK w : w = Tree!Before(Tree!Without(s, Tree!Members(u)), u, old)
  OBVIOUS
<1>2. w \in Seq(Nodes) /\ IsPlaced(w, s, u, old)
  BY <1>u, <1>1, MovedHere
<1>3. t \in Seq(Nodes) /\ IsWithout(t, w, {old})
  BY <1>0, <1>1, <1>2, WithoutOrder
<1>4. Ordered(s)
  BY ListsAreOrdered
<1>5. /\ \A x : Has(t, x) <=> Has(w, x) /\ x # old
      /\ \A x, y : Goes(t, x, y) <=> Goes(w, x, y) /\ x # old /\ y # old
  BY <1>3 DEF IsWithout
<1>6. /\ \A x : Has(w, x) <=> Has(s, x) \/ Has(u, x)
      /\ \A x, y : Goes(w, x, y) <=> \/ Goes(u, x, y)
                                     \/ Goes(s, x, y) /\ ~Has(u, x) /\ ~Has(u, y)
                                     \/ UpTo(s, x, old) /\ ~Has(u, x) /\ Has(u, y)
                                     \/ Has(u, x) /\ ~Has(u, y) /\ FromOn(s, y, old)
  BY <1>2 DEF IsPlaced
<1>7. \A x : Has(t, x) <=> (Has(s, x) /\ x # old) \/ x = new
  BY <1>u, <1>5, <1>6
<1>8. ASSUME NEW x, NEW y
      PROVE  Goes(t, x, y) <=> \/ Goes(s, x, y) /\ x \notin {new, old} /\ y \notin {new, old}
                               \/ Goes(s, x, old) /\ x # new /\ y = new
                               \/ x = new /\ y # new /\ Goes(s, old, y)
  <2>1. UpTo(s, x, old) <=> Goes(s, x, old)
    BY DEF UpTo
  <2>2. FromOn(s, y, old) /\ y # old <=> Goes(s, old, y)
    BY <1>4 DEF FromOn, Ordered
  <2>3. Goes(s, x, old) => x # old
    BY <1>4 DEF Ordered
  <2> QED
    BY <1>u, <1>5, <1>6, <2>1, <2>2, <2>3
<1> QED
  BY <1>3, <1>7, <1>8 DEF IsToSwap

LEMMA SwapDetached ==
    ASSUME NEW s, NEW t, NEW r, NEW new, NEW old, old # new, Has(s, old), IsToSwap(t, s, new, old), IsWithout(r, s, {new})
    PROVE  IsToSwap(t, r, new, old)
<1>1. /\ \A x : Has(r, x) <=> Has(s, x) /\ x # new
      /\ \A x, y : Goes(r, x, y) <=> Goes(s, x, y) /\ x # new /\ y # new
  BY DEF IsWithout
<1>2. \A x : Has(t, x) <=> (Has(r, x) /\ x # old) \/ x = new
  BY <1>1 DEF IsToSwap
<1>3. \A x, y : Goes(t, x, y) <=> \/ Goes(r, x, y) /\ x \notin {new, old} /\ y \notin {new, old}
                                  \/ Goes(r, x, old) /\ x # new /\ y = new
                                  \/ x = new /\ y # new /\ Goes(r, old, y)
  BY <1>1 DEF IsToSwap
<1> QED
  BY <1>2, <1>3 DEF IsToSwap

LEMMA SwapDone ==
    ASSUME NEW s, NEW t, NEW r, NEW new, NEW old, old # new, Ordered(s), ~Has(s, new),
           IsToSwap(t, s, new, old), IsSwapped(r, s, <<new>>, old)
    PROVE  SameOrder(r, t)
<1>1. /\ \A x : Has(r, x) <=> (Has(s, x) /\ x # old) \/ x = new
      /\ \A x, y : Goes(r, x, y) <=> \/ Goes(s, x, y) /\ x # old /\ y # old
                                     \/ Goes(s, x, old) /\ y = new
                                     \/ x = new /\ Goes(s, old, y)
  BY OneOrder DEF IsSwapped
<1>2. \A x, y : Goes(s, x, y) => x # new /\ y # new
  BY DEF Ordered
<1> QED
  BY <1>1, <1>2 DEF IsToSwap, SameOrder

-----------------------------------------------------------------------------
(* What is left of a list that is normalized: the Texts that do not follow *)
(* another, when those in E do not count.                                  *)

Apart(s, y, x) == \E z : z \notin Texts /\ Goes(s, y, z) /\ Goes(s, z, x)
Kept(E, s, x) ==
    /\ Has(s, x)
    /\ x \in Texts => x \notin E /\ \A y \in Texts \ E : Goes(s, y, x) => Apart(s, y, x)
SameKept(E, s, t) ==
    /\ \A x : Kept(E, s, x) <=> Kept(E, t, x)
    /\ \A x, y : Kept(E, s, x) /\ Kept(E, s, y) => (Goes(s, x, y) <=> Goes(t, x, y))
Settled(E, s) == \A x : Has(s, x) => Kept(E, s, x)

LEMMA StaysIsKept ==
    ASSUME NEW s \in Seq(Nodes), NoDoubles(s), NEW i \in DOMAIN s
    PROVE  Tree!Stays(s, i) <=> Kept(empty, s, s[i])
<1>1. DOMAIN s = 1..Len(s) /\ Len(s) \in Nat
  OBVIOUS
<1>2. /\ \A j \in DOMAIN s : j \in 1..i - 1 <=> j < i
      /\ \A j \in 1..i - 1 : j \in DOMAIN s
      /\ \A j \in DOMAIN s : j < i => \A k \in j..i : k \in DOMAIN s
      /\ \A j, k \in DOMAIN s : k \in j..i <=> (j < k \/ j = k) /\ (k < i \/ k = i)
  BY <1>1
<1>3. Has(s, s[i])
  BY DEF Has
<1>4. ASSUME NEW j \in DOMAIN s, j < i, s[j] \in Texts, s[i] \in Texts
      PROVE  (\E k \in j..i : s[k] \notin Texts) <=> Apart(s, s[j], s[i])
  <2>1. ASSUME NEW k \in j..i, s[k] \notin Texts PROVE Apart(s, s[j], s[i])
    <3>1. k \in DOMAIN s /\ j < k /\ k < i
      BY <1>2, <1>4, <2>1
    <3>2. Goes(s, s[j], s[k]) /\ Goes(s, s[k], s[i])
      BY <3>1 DEF Goes
    <3> QED
      BY <2>1, <3>2 DEF Apart
  <2>2. ASSUME NEW z, z \notin Texts, Goes(s, s[j], z), Goes(s, z, s[i]) PROVE \E k \in j..i : s[k] \notin Texts
    <3>1. PICK k \in DOMAIN s : s[k] = z /\ j < k
      BY <2>2 DEF Goes, NoDoubles
    <3>2. PICK m \in DOMAIN s : s[m] = z /\ m < i
      BY <2>2 DEF Goes, NoDoubles
    <3>3. m = k
      BY <3>1, <3>2 DEF NoDoubles
    <3>4. k \in j..i
      BY <1>2, <3>1, <3>2, <3>3
    <3> QED
      BY <2>2, <3>1, <3>4
  <2> QED
    BY <2>1, <2>2 DEF Apart
<1>5. ASSUME NEW j \in DOMAIN s PROVE Goes(s, s[j], s[i]) <=> j < i
  BY <1>5 DEF Goes, NoDoubles
<1>6. ASSUME s[i] \in Texts
      PROVE  (\A j \in 1..i - 1 : s[j] \in Texts \ empty => \E k \in j..i : s[k] \notin Texts)
                <=> \A y \in Texts \ empty : Goes(s, y, s[i]) => Apart(s, y, s[i])
  <2>1. ASSUME \A j \in 1..i - 1 : s[j] \in Texts \ empty => \E k \in j..i : s[k] \notin Texts,
               NEW y \in Texts \ empty, Goes(s, y, s[i])
        PROVE  Apart(s, y, s[i])
    <3>1. PICK j \in DOMAIN s : s[j] = y
      BY <2>1 DEF Goes
    <3>2. j < i /\ j \in 1..i - 1
      BY <1>2, <1>5, <2>1, <3>1
    <3>3. \E k \in j..i : s[k] \notin Texts
      BY <2>1, <3>1, <3>2
    <3>4. Apart(s, s[j], s[i])
      BY <1>4, <1>6, <3>1, <3>2, <3>3
    <3> QED
      BY <3>1, <3>4
  <2>2. ASSUME \A y \in Texts \ empty : Goes(s, y, s[i]) => Apart(s, y, s[i]),
               NEW j \in 1..i - 1, s[j] \in Texts \ empty
        PROVE  \E k \in j..i : s[k] \notin Texts
    <3>1. j \in DOMAIN s /\ j < i
      BY <1>2
    <3>2. Apart(s, s[j], s[i])
      BY <1>5, <2>2, <3>1
    <3> QED
      BY <1>4, <1>6, <2>2, <3>1, <3>2
  <2> QED
    BY <2>1, <2>2
<1> QED
  BY <1>3, <1>6 DEF Tree!Stays, Kept

LEMMA MergedOrder ==
    ASSUME NEW s \in Seq(Nodes), NoDoubles(s), NEW t, t = Tree!Merged(s)
    PROVE  /\ t \in Seq(Nodes) /\ NoDoubles(t)
           /\ \A x : Has(t, x) <=> Kept(empty, s, x)
           /\ \A x, y : Goes(t, x, y) <=> Goes(s, x, y) /\ Kept(empty, s, x) /\ Kept(empty, s, y)
<1> DEFINE S == {i \in DOMAIN s : Tree!Stays(s, i)}
<1>1. t = Sublist(s, S)
  BY TreeSublistIs DEF Tree!Merged
<1>2. S = {i \in DOMAIN s : Kept(empty, s, s[i])}
  BY StaysIsKept
<1>3. t \in Seq(Nodes) /\ InOrder(t, s, S, Len(s))
  <2> HIDE DEF S
  <2> QED
    BY <1>1, SublistInOrder
<1> HIDE DEF S
<1>4. DOMAIN s = 1..Len(s) /\ \A i \in DOMAIN s : i \in S <=> Kept(empty, s, s[i])
  BY <1>2
<1>5. \A x : Has(t, x) <=> Kept(empty, s, x)
  <2>1. \A x : Kept(empty, s, x) => \E i \in DOMAIN s : s[i] = x
    BY DEF Kept, Has
  <2> QED
    BY <1>3, <1>4, <2>1 DEF InOrder, Picked
<1>6. \A x, y : Goes(t, x, y) <=> Goes(s, x, y) /\ Kept(empty, s, x) /\ Kept(empty, s, y)
  <2>1. \A x, y : InTurn(s, S, Len(s), x, y) <=> Goes(s, x, y) /\ Kept(empty, s, x) /\ Kept(empty, s, y)
    BY <1>4 DEF InTurn, Goes
  <2> QED
    BY <1>3, <2>1 DEF InOrder
<1>7. NoDoubles(t)
  <2>1. \A x : ~Goes(s, x, x)
    BY OneAfterAnother
  <2>2. \A x : ~Goes(t, x, x)
    BY <1>6, <2>1
  <2> QED
    BY <1>3, <2>2, OneAfterAnother
<1> QED
  BY <1>3, <1>5, <1>6, <1>7

(* The result of normalize. *)
LEMMA SettledIsMerged ==
    ASSUME NEW s \in Seq(Nodes), NoDoubles(s), NEW b \in Seq(Nodes), NoDoubles(b),
           SameKept(empty, s, b), Settled(empty, s)
    PROVE  s = Tree!Merged(b)
<1>1. PICK t : t = Tree!Merged(b)
  OBVIOUS
<1>2. /\ t \in Seq(Nodes) /\ NoDoubles(t)
      /\ \A x : Has(t, x) <=> Kept(empty, b, x)
      /\ \A x, y : Goes(t, x, y) <=> Goes(b, x, y) /\ Kept(empty, b, x) /\ Kept(empty, b, y)
  BY <1>1, MergedOrder
<1>3. /\ \A x : Has(s, x) <=> Kept(empty, s, x)
      /\ \A x, y : Goes(s, x, y) => Has(s, x) /\ Has(s, y)
  BY ListsAreOrdered DEF Settled, Kept, Ordered
<1>4. \A x : Has(s, x) <=> Has(t, x)
  BY <1>2, <1>3 DEF SameKept
<1>5. \A x, y : Goes(s, x, y) <=> Goes(t, x, y)
  BY <1>2, <1>3 DEF SameKept
<1>6. SameOrder(s, t)
  BY <1>4, <1>5 DEF SameOrder
<1> QED
  BY <1>1, <1>2, <1>6, OrderTells

(* A Text that does not count, or follows one that does, can go.           *)
LEMMA DropOne ==
    ASSUME NEW E, NEW s, NEW b, NEW r, NEW c \in Texts, Ordered(s), SameKept(E, s, b), IsWithout(r, s, {c}),
           c \in E \/ \E p \in Texts \ E : Goes(s, p, c) /\ ~Apart(s, p, c)
    PROVE  SameKept(E, r, b)
<1>1. /\ \A x : Has(r, x) <=> Has(s, x) /\ x # c
      /\ \A x, y : Goes(r, x, y) <=> Goes(s, x, y) /\ x # c /\ y # c
  BY DEF IsWithout
<1>2. ~Kept(E, s, c) /\ ~Kept(E, r, c)
  BY <1>1 DEF Kept
<1>3. ASSUME NEW x, NEW y, x # c, y # c PROVE Apart(r, y, x) <=> Apart(s, y, x)
  BY <1>1, <1>3 DEF Apart
<1>4. ASSUME NEW x, x # c, Kept(E, s, x) PROVE Kept(E, r, x)
  BY <1>1, <1>3, <1>4 DEF Kept
<1>5. ASSUME NEW x, x # c, Kept(E, r, x) PROVE Kept(E, s, x)
  <2>1. Has(s, x)
    BY <1>1, <1>5 DEF Kept
  <2>2. ASSUME x \in Texts, NEW y \in Texts \ E, Goes(s, y, x) PROVE Apart(s, y, x)
    <3>1. CASE y # c
      BY <1>1, <1>3, <1>5, <2>2, <3>1 DEF Kept
    <3>2. CASE y = c
      <4>1. PICK p \in Texts \ E : Goes(s, p, c) /\ ~Apart(s, p, c)
        BY <2>2, <3>2
      <4>2. p # c /\ Goes(s, p, x)
        BY <2>2, <3>2, <4>1 DEF Ordered
      <4>3. Apart(s, p, x)
        BY <1>1, <1>3, <1>5, <2>2, <4>2 DEF Kept
      <4>4. PICK z : z \notin Texts /\ Goes(s, p, z) /\ Goes(s, z, x)
        BY <4>3 DEF Apart
      <4>5. ~Goes(s, z, c) /\ z # c
        BY <4>1, <4>4 DEF Apart
      <4>6. Goes(s, c, z)
        BY <4>1, <4>4, <4>5 DEF Ordered
      <4> QED
        BY <3>2, <4>4, <4>6 DEF Apart
    <3> QED
      BY <3>1, <3>2
  <2> QED
    BY <1>5, <2>1, <2>2 DEF Kept
<1>6. \A x : Kept(E, r, x) <=> Kept(E, s, x)
  BY <1>2, <1>4, <1>5
<1>7. \A x : Kept(E, r, x) => x # c
  BY <1>2
<1> QED
  BY <1>1, <1>6, <1>7 DEF SameKept

(* nx comes next to c in s. *)
Follows(s, c, nx) == \A y : Goes(s, c, y) <=> FromOn(s, y, nx)

(* The list without c, seen from the node after c. *)
LEMMA StepOver ==
    ASSUME NEW s, NEW r, NEW c, NEW nx, Ordered(s), Has(s, c), Follows(s, c, nx), IsWithout(r, s, {c}), NEW x
    PROVE  (UpTo(r, x, nx) <=> Goes(s, x, c)) /\ (FromOn(r, x, nx) <=> Goes(s, c, x))
<1>1. /\ \A y : Has(r, y) <=> Has(s, y) /\ y # c
      /\ \A y, z : Goes(r, y, z) <=> Goes(s, y, z) /\ y # c /\ z # c
      /\ \A y : Goes(s, c, y) <=> FromOn(s, y, nx)
  BY DEF IsWithout, Follows
<1>2. CASE nx = None
  <2>1. \A y : ~Goes(s, c, y)
    BY <1>1, <1>2 DEF FromOn
  <2>2. UpTo(r, x, nx) <=> Goes(s, x, c)
    BY <1>1, <1>2, <2>1 DEF UpTo, Ordered
  <2> QED
    BY <1>2, <2>1, <2>2 DEF FromOn
<1>3. CASE nx # None
  <2>1. Goes(s, c, nx) /\ (\A y : Goes(s, c, y) => y = nx \/ Goes(s, nx, y)) /\ nx # c
    BY <1>1, <1>3 DEF FromOn, Ordered
  <2>2. Goes(s, x, nx) /\ x # c => Goes(s, x, c)
    BY <2>1 DEF Ordered
  <2>3. Goes(s, x, c) => Goes(s, x, nx) /\ x # c
    BY <2>1 DEF Ordered
  <2>4. Goes(s, nx, x) => x # c
    BY <2>1 DEF Ordered
  <2> QED
    BY <1>1, <1>3, <2>1, <2>2, <2>3, <2>4 DEF UpTo, FromOn
<1> QED
  BY <1>2, <1>3

(* Up to the node after c: c, and what goes before it. *)
LEMMA StepOn ==
    ASSUME NEW s, NEW c, NEW nx, Ordered(s), Has(s, c), Follows(s, c, nx), NEW x, UpTo(s, x, nx)
    PROVE  x = c \/ Goes(s, x, c)
<1>1. \A y : Goes(s, c, y) <=> FromOn(s, y, nx)
  BY DEF Follows
<1>2. Has(s, x)
  BY DEF UpTo, Ordered
<1>3. ~Goes(s, c, x)
  BY <1>1 DEF UpTo, FromOn, Ordered
<1> QED
  BY <1>2, <1>3 DEF Ordered

(* What normalize has passed in a list, ref being next. *)
Passed(E, s, ref) ==
    \A x : UpTo(s, x, ref) =>
              x \notin E /\ (x \in Texts => \A w \in Texts : Goes(s, x, w) => Apart(s, x, w))

(* Passing over a list: the end, the beginning, and each of the steps. *)
LEMMA PassedAll ==
    ASSUME NEW E, NEW s, Ordered(s), Passed(E, s, None)
    PROVE  Settled(E, s)
<1>1. \A x : Has(s, x) => x \notin E /\ (x \in Texts => \A w \in Texts : Goes(s, x, w) => Apart(s, x, w))
  BY DEF Passed, UpTo
<1>2. \A x, y : Goes(s, y, x) => Has(s, y)
  BY DEF Ordered
<1> QED
  BY <1>1, <1>2 DEF Settled, Kept

LEMMA PassedNone ==
    ASSUME NEW E, NEW s, NEW ref, Ordered(s), \A y : Has(s, y) <=> FromOn(s, y, ref)
    PROVE  Passed(E, s, ref)
<1>1. ASSUME NEW x PROVE ~UpTo(s, x, ref)
  BY DEF UpTo, FromOn, Ordered
<1> QED
  BY <1>1 DEF Passed

LEMMA PassedDrop ==
    ASSUME NEW E, NEW s, NEW r, NEW c \in Texts, NEW nx, Ordered(s), Has(s, c), c # None, Follows(s, c, nx),
           IsWithout(r, s, {c}), Passed(E, s, c)
    PROVE  Passed(E, r, nx)
<1> SUFFICES ASSUME NEW x, UpTo(r, x, nx)
             PROVE  x \notin E /\ (x \in Texts => \A w \in Texts : Goes(r, x, w) => Apart(r, x, w))
  BY DEF Passed
<1>1. UpTo(s, x, c)
  BY StepOver DEF UpTo
<1>2. x \notin E /\ (x \in Texts => \A w \in Texts : Goes(s, x, w) => Apart(s, x, w))
  BY <1>1 DEF Passed
<1>3. \A y, z : Goes(r, y, z) <=> Goes(s, y, z) /\ y # c /\ z # c
  BY DEF IsWithout
<1> QED
  BY <1>2, <1>3 DEF Apart

LEMMA PassedMerge ==
    ASSUME NEW E, NEW s, NEW r, NEW c \in Texts, NEW ref, ref # None, Passed(E, s, ref), IsWithout(r, s, {c})
    PROVE  Passed(E, r, ref)
<1>1. \A y, z : Goes(r, y, z) <=> Goes(s, y, z) /\ y # c /\ z # c
  BY DEF IsWithout
<1> SUFFICES ASSUME NEW x, UpTo(r, x, ref)
             PROVE  x \notin E /\ (x \in Texts => \A w \in Texts : Goes(r, x, w) => Apart(r, x, w))
  BY DEF Passed
<1>2. UpTo(s, x, ref)
  BY <1>1 DEF UpTo
<1>3. x \notin E /\ (x \in Texts => \A w \in Texts : Goes(s, x, w) => Apart(s, x, w))
  BY <1>2 DEF Passed
<1> QED
  BY <1>1, <1>3 DEF Apart

LEMMA PassedOne ==
    ASSUME NEW E, NEW s, NEW c, NEW nx, Ordered(s), Has(s, c), c # None, Follows(s, c, nx), Passed(E, s, c),
           c \notin E, c \in Texts => nx \notin Texts
    PROVE  Passed(E, s, nx)
<1> SUFFICES ASSUME NEW x, UpTo(s, x, nx)
             PROVE  x \notin E /\ (x \in Texts => \A w \in Texts : Goes(s, x, w) => Apart(s, x, w))
  BY DEF Passed
<1>1. CASE x = c
  <2> SUFFICES ASSUME c \in Texts, NEW w \in Texts, Goes(s, c, w) PROVE Apart(s, c, w)
    BY <1>1
  <2>1. FromOn(s, w, nx)
    BY DEF Follows
  <2>2. nx # None /\ Goes(s, nx, w)
    BY <2>1 DEF FromOn
  <2>3. Goes(s, c, nx)
    BY <2>2 DEF Follows, FromOn
  <2> QED
    BY <2>2, <2>3 DEF Apart
<1>2. CASE x # c
  <2>1. UpTo(s, x, c)
    BY <1>2, StepOn DEF UpTo
  <2> QED
    BY <2>1 DEF Passed
<1> QED
  BY <1>1, <1>2

(* Two Texts side by side. *)
LEMMA NextIsClose ==
    ASSUME NEW s, NEW p, NEW c, Ordered(s), c # None, Follows(s, p, c)
    PROVE  Goes(s, p, c) /\ ~Apart(s, p, c)
<1>1. Goes(s, p, c)
  BY DEF Follows, FromOn
<1>2. ASSUME NEW z, Goes(s, p, z), Goes(s, z, c) PROVE FALSE
  <2>1. z = c \/ Goes(s, c, z)
    BY <1>2 DEF Follows, FromOn
  <2> QED
    BY <1>2, <2>1 DEF Ordered
<1> QED
  BY <1>1, <1>2 DEF Apart

-----------------------------------------------------------------------------
(* What is true in the middle of a call.                                   *)

(* The lists that NodeTree wants for the call. *)
InsertedThen(n) == IF n \in Fragments THEN before[n] ELSE <<n>>
MovedThen(nodes, ref) ==
    [n \in Nodes |->
        LET rest == Tree!Without(before[n], Tree!Members(nodes))
        IN IF n = call.parent THEN Tree!Before(rest, nodes, ref) ELSE rest]
ReplacedThen(nodes, old) == [n \in Nodes |-> Tree!Without(MovedThen(nodes, old)[n], {old})]
Wanted ==
    IF call.op = "insert" THEN MovedThen(InsertedThen(call.child), call.ref)
    ELSE IF call.op = "replace" THEN ReplacedThen(InsertedThen(call.child), call.old)
    ELSE [before EXCEPT ![call.parent] = call.new]

(* The nodes that are still to be placed, in their order. *)
Behind == IF job.from # None THEN seen[job.from] ELSE job.todo
Coming == IF job.op = "place" THEN <<job.child>> \o Behind ELSE Behind

OnTheWay(W, L, u, p, ref) ==
    \A n \in Nodes : IF n = p THEN IsPlaced(W[n], L[n], u, ref) ELSE IsLeft(W[n], L[n], u)
ToClear(W, L, u, p) ==
    \A n \in Nodes : IF n = p THEN W[n] = u ELSE IsLeft(W[n], L[n], u)
ToSwap(W, L, new, p, old) ==
    \A n \in Nodes : IF n = p THEN IsToSwap(W[n], L[n], new, old) ELSE IsLeft(W[n], L[n], <<new>>)

WantedOK == call.op \in {"insert", "replace", "refill"} /\ Wanted \in [Nodes -> Seq(Nodes)]
PlaceOK ==
    /\ WantedOK /\ NoDoubles(Coming) /\ ~Has(Coming, job.ref)
    /\ OnTheWay(Wanted, seen, Coming, job.node, job.ref)
ClearOK ==
    /\ WantedOK /\ NoDoubles(job.todo)
    /\ ToClear(Wanted, seen, job.todo, job.node)
SwapOK == WantedOK /\ ToSwap(Wanted, seen, job.child, job.node, job.ref)

(* The containers that normalize comes to: V are done, or Texts. *)
BelowIn(B, n) ==
    {m \in Nodes : \A S \in SUBSET Nodes :
        n \in S /\ (\A k \in S : Tree!Members(B[k]) \subseteq S) => m \in S}
Known(V) == V \cup job.scope \cup {job.node}
Normalizing(V) ==
    /\ call.op = "normalize" /\ call.parent \in Known(V)
    /\ before \in [Nodes -> Seq(Nodes)] /\ \A n \in Nodes : NoDoubles(before[n])
    /\ \A n \in Nodes : SameKept(empty, seen[n], before[n])
    /\ \A n \in V \ {job.node} : Settled(empty, seen[n])
    /\ \A n \in V \ {job.node} : \A x : Has(before[n], x) => x \in Known(V)
    /\ job.scope \cup {job.node} \subseteq BelowIn(before, call.parent)
    /\ \A n \in Nodes : n \notin BelowIn(before, call.parent) => seen[n] = before[n]
    /\ \A x : Has(before[job.node], x) => x \in Known(V) \/ FromOn(seen[job.node], x, job.ref)
    /\ Passed(empty, seen[job.node], job.ref)
    /\ \A n \in Nodes : \A x : /\ Has(seen[n], x) => Has(before[n], x)
                               /\ Has(before[n], x) /\ x \notin Texts => Has(seen[n], x)
NormalizeOK == \E V \in SUBSET Nodes : Texts \subseteq V /\ Normalizing(V)

WayOK ==
    /\ job.op \in {"place", "splice"} => PlaceOK
    /\ job.op = "clear" => ClearOK
    /\ job.op = "swap" => SwapOK
    /\ job.op = "normalize" => NormalizeOK

LEMMA HeadAndTail ==
    ASSUME NEW T, NEW s \in Seq(T), s # <<>>
    PROVE  <<Head(s)>> \o Tail(s) = s
<1>1. Len(s) \in Nat /\ Len(s) # 0 /\ Head(s) = s[1]
  OBVIOUS
<1>2. SubSeq(s, 1, Len(s)) = <<s[1]>> \o SubSeq(s, 2, Len(s))
  <2>1. 1 \in 1..Len(s) /\ Len(s) \in 1..Len(s) /\ 1 + 1 = 2
    BY <1>1
  <2> QED
    BY <2>1, SubSeqRecursiveFirst
<1> QED
  BY <1>1, <1>2, SubSeqFull, TailIsSubSeq

LEMMA SeenInOrder ==
    ASSUME IInv, ListsOK, NEW n \in Nodes
    PROVE  /\ seen[n] \in Seq(Nodes) /\ NoDoubles(seen[n]) /\ Ordered(seen[n])
           /\ \A x : Has(seen[n], x) <=> x \in Nodes /\ parent[x] = n
           /\ \A x : Has(seen[n], x) <=> FromOn(seen[n], x, first[n])
           /\ \A x \in Nodes : parent[x] = n => Follows(seen[n], x, next[x])
<1>1. /\ seen[n] \in Seq(Nodes) /\ NoDoubles(seen[n])
      /\ \A x : Has(seen[n], x) <=> x \in Nodes /\ parent[x] = n
      /\ \A x : Has(seen[n], x) <=> FromOn(seen[n], x, first[n])
      /\ \A x \in Nodes : parent[x] = n => \A y : Goes(seen[n], x, y) <=> FromOn(seen[n], y, next[x])
  BY LinksInOrder DEF IInv
<1>2. Ordered(seen[n])
  BY <1>1, ListsAreOrdered
<1> QED
  BY <1>1, <1>2 DEF Follows

(* What is wanted is settled when the call begins. *)
LEMMA WantedStays ==
    ASSUME UNCHANGED <<call, before>>
    PROVE  Wanted' = Wanted /\ (WantedOK => WantedOK')
<1>1. Wanted' = Wanted
  BY DEF Wanted, MovedThen, ReplacedThen, InsertedThen
<1> QED
  BY <1>1 DEF WantedOK

(* The nodes to come are nodes. *)
LEMMA ComingNodes ==
    ASSUME IInv, ListsOK
    PROVE  /\ Behind \in Seq(Nodes) /\ Coming \in Seq(Nodes)
           /\ job.op = "place" => job.child \in Nodes /\ IsFirst(Coming, job.child, Behind)
<1>1. job \in Jobs /\ seen \in [Nodes -> Seq(Nodes)]
  BY DEF IInv, JobOK, ListsOK
<1>2. job.from \in Fragments \cup {None} /\ job.todo \in Seq(Nodes) /\ Fragments \subseteq Nodes
  BY <1>1 DEF Jobs, Nodes, Containers
<1>3. Behind \in Seq(Nodes)
  BY <1>1, <1>2 DEF Behind
<1>4. CASE job.op = "place"
  <2>1. job.child \in Nodes
    BY <1>4 DEF IInv, JobOK, Inner, Nodes, Containers
  <2>2. PICK u : u = Coming
    OBVIOUS
  <2>3. u = <<job.child>> \o Behind
    BY <1>4, <2>2 DEF Coming
  <2>4. u \in Seq(Nodes) /\ IsFirst(u, job.child, Behind)
    BY <1>3, <2>1, <2>3, FirstOrder
  <2> QED
    BY <1>3, <2>1, <2>2, <2>4
<1>5. CASE job.op # "place"
  BY <1>3, <1>5 DEF Coming
<1> QED
  BY <1>4, <1>5

(* The first to come is none of the others. *)
LEMMA FirstIsAlone ==
    ASSUME IInv, ListsOK, job.op = "place", NoDoubles(Coming), ~Has(Coming, job.ref)
    PROVE  ~Has(Behind, job.child) /\ NoDoubles(Behind) /\ ~Has(Behind, job.ref)
<1>1. Behind \in Seq(Nodes) /\ Coming \in Seq(Nodes) /\ IsFirst(Coming, job.child, Behind)
  BY ComingNodes
<1>2. \A x : ~Goes(Coming, x, x)
  BY <1>1, OneAfterAnother
<1>3. ~Has(Behind, job.child) /\ ~Has(Behind, job.ref) /\ \A x : ~Goes(Behind, x, x)
  BY <1>1, <1>2 DEF IsFirst
<1> QED
  BY <1>1, <1>3, OneAfterAnother

(* A step in the middle of a call, and one that ends it. *)
Going == UNCHANGED <<call, before, empty>>
Finishing(W) == seen' = W /\ job' = Idle /\ call' = NoCall /\ UNCHANGED empty

(* One lemma for each step. *)
LEMMA DetachGoesOn ==
    ASSUME IInv, ListsOK, WayOK, Detach
    PROVE  WayOK' /\ Going
<1> DEFINE c == job.child
           p == parent[c]
<1>1. job.op \in {"place", "swap"} /\ p # None /\ Unlink(c) /\ UNCHANGED <<empty, job, call, before>>
  BY DEF Detach, Doing
<1>2. c \in Nodes /\ job.ref # c /\ job.node \in Nodes /\ (job.ref # None => parent[job.ref] = job.node /\ job.ref \in Nodes)
  BY <1>1 DEF IInv, JobOK, Jobs, Inner, Nodes, Containers
<1>3. p \in Nodes
  BY <1>1, <1>2 DEF IInv, LinksOK, LinksTyped, Nodes
<1>4. (\A n \in Nodes \ {p} : seen'[n] = seen[n]) /\ IsWithout(seen'[p], seen[p], {c})
  BY <1>1, <1>2, <1>3, UnlinkOrder DEF IInv
<1>5. Has(seen[p], c)
  BY <1>2, SeenInOrder, <1>3
<1>6. Wanted' = Wanted /\ (WantedOK => WantedOK')
  BY <1>1, WantedStays
<1> HIDE DEF p
<1>7. CASE job.op = "place"
  <2>1. PlaceOK
    BY <1>7 DEF WayOK
  <2>2. Behind \in Seq(Nodes) /\ IsFirst(Coming, c, Behind) /\ ~Has(Behind, c)
    BY <1>7, <2>1, ComingNodes, FirstIsAlone DEF PlaceOK
  <2>3. Has(Coming, c)
    BY <2>2 DEF IsFirst
  <2>4. Behind' = Behind
    <3>1. CASE job.from = None
      BY <1>1, <3>1 DEF Behind
    <3>2. CASE job.from # None
      <4>1. Behind = seen[job.from] /\ Behind' = seen'[job.from]
        BY <1>1, <3>2 DEF Behind
      <4>2. job.from \in Nodes
        BY <3>2 DEF IInv, JobOK, Jobs, Nodes, Containers
      <4>3. job.from # p
        BY <1>5, <2>2, <4>1
      <4> QED
        BY <1>4, <4>1, <4>2, <4>3
    <3> QED
      BY <3>1, <3>2
  <2>5. Coming' = Coming
    BY <1>1, <2>4 DEF Coming
  <2>6. OnTheWay(Wanted, seen', Coming, job.node, job.ref)
    <3> SUFFICES ASSUME NEW n \in Nodes
                 PROVE  IF n = job.node THEN IsPlaced(Wanted[n], seen'[n], Coming, job.ref)
                        ELSE IsLeft(Wanted[n], seen'[n], Coming)
      BY DEF OnTheWay
    <3>1. IF n = job.node THEN IsPlaced(Wanted[n], seen[n], Coming, job.ref) ELSE IsLeft(Wanted[n], seen[n], Coming)
      BY <2>1 DEF PlaceOK, OnTheWay
    <3>2. CASE n = p
      <4>1. /\ IsLeft(Wanted[n], seen[n], Coming) => IsLeft(Wanted[n], seen'[n], Coming)
            /\ IsPlaced(Wanted[n], seen[n], Coming, job.ref) => IsPlaced(Wanted[n], seen'[n], Coming, job.ref)
        BY <1>2, <1>4, <2>3, <3>2, DetachOne
      <4> QED
        BY <3>1, <4>1
    <3>3. CASE n # p
      BY <1>4, <3>1, <3>3
    <3> QED
      BY <3>2, <3>3
  <2>7. PlaceOK'
    BY <1>1, <1>6, <2>1, <2>5, <2>6 DEF PlaceOK
  <2> QED
    BY <1>1, <1>7, <2>7 DEF WayOK, Going
<1>8. CASE job.op = "swap"
  <2>1. SwapOK
    BY <1>8 DEF WayOK
  <2>2. Has(<<c>>, c)
    BY OneOrder
  <2>3. ToSwap(Wanted, seen', c, job.node, job.ref)
    <3> SUFFICES ASSUME NEW n \in Nodes
                 PROVE  IF n = job.node THEN IsToSwap(Wanted[n], seen'[n], c, job.ref)
                        ELSE IsLeft(Wanted[n], seen'[n], <<c>>)
      BY DEF ToSwap
    <3>1. IF n = job.node THEN IsToSwap(Wanted[n], seen[n], c, job.ref) ELSE IsLeft(Wanted[n], seen[n], <<c>>)
      BY <2>1 DEF SwapOK, ToSwap
    <3>2. CASE n = p
      <4>1. IsLeft(Wanted[n], seen[n], <<c>>) => IsLeft(Wanted[n], seen'[n], <<c>>)
        BY <1>2, <1>4, <2>2, <3>2, DetachOne
      <4>2. CASE n = job.node
        <5>1. Has(seen[n], job.ref)
          <6>1. job.ref # None
            BY <1>8 DEF IInv, JobOK
          <6> QED
            BY <1>2, <4>2, <6>1, SeenInOrder
        <5> QED
          BY <1>2, <1>4, <3>1, <3>2, <4>2, <5>1, SwapDetached
      <4> QED
        BY <3>1, <4>1, <4>2
    <3>3. CASE n # p
      BY <1>4, <3>1, <3>3
    <3> QED
      BY <3>2, <3>3
  <2>4. SwapOK'
    BY <1>1, <1>6, <2>1, <2>3 DEF SwapOK
  <2> QED
    BY <1>1, <1>8, <2>4 DEF WayOK, Going
<1> QED
  BY <1>1, <1>7, <1>8

(* The first to come was put in its place. *)
LEMMA OnePlaced ==
    ASSUME IInv, ListsOK, job.op = "place", PlaceOK, parent[job.child] = None,
           \A n \in Nodes \ {job.node} : seen'[n] = seen[n],
           IsBefore(seen'[job.node], seen[job.node], <<job.child>>, job.ref)
    PROVE  OnTheWay(Wanted, seen', Behind, job.node, job.ref)
<1>1. IsFirst(Coming, job.child, Behind) /\ ~Has(Behind, job.child)
  BY ComingNodes, FirstIsAlone DEF PlaceOK
<1>2. job.node \in Nodes /\ job.ref # job.child /\ (job.ref # None => parent[job.ref] = job.node /\ job.ref \in Nodes)
  BY DEF IInv, JobOK, Jobs, Nodes
<1> SUFFICES ASSUME NEW n \in Nodes
             PROVE  IF n = job.node THEN IsPlaced(Wanted[n], seen'[n], Behind, job.ref)
                    ELSE IsLeft(Wanted[n], seen'[n], Behind)
  BY DEF OnTheWay
<1>3. IF n = job.node THEN IsPlaced(Wanted[n], seen[n], Coming, job.ref) ELSE IsLeft(Wanted[n], seen[n], Coming)
  BY DEF PlaceOK, OnTheWay
<1>4. Ordered(seen[n]) /\ ~Has(seen[n], job.child)
  BY SeenInOrder, NoneIsNoNode
<1>5. CASE n = job.node
  <2>1. job.ref # None => Has(seen[n], job.ref)
    BY <1>2, <1>5, SeenInOrder
  <2>2. IsPlaced(Wanted[n], seen'[n], Behind, job.ref)
    BY <1>1, <1>2, <1>3, <1>4, <1>5, <2>1, PlaceOne
  <2> QED
    BY <1>5, <2>2
<1>6. CASE n # job.node
  <2>1. IsLeft(Wanted[n], seen[n], Behind)
    BY <1>1, <1>3, <1>4, <1>6, LeaveOne
  <2> QED
    BY <1>6, <2>1
<1> QED
  BY <1>5, <1>6

(* Nothing is to come any more. *)
LEMMA AllPlaced ==
    ASSUME WantedOK, NEW L \in [Nodes -> Seq(Nodes)], \A n \in Nodes : NoDoubles(L[n]), NEW p, NEW ref,
           \A n \in Nodes : IsLeft(Wanted[n], L[n], <<>>) \/ IsPlaced(Wanted[n], L[n], <<>>, ref)
    PROVE  L = Wanted
<1>1. ASSUME NEW n \in Nodes PROVE L[n] = Wanted[n]
  <2>1. L[n] \in Seq(Nodes) /\ Wanted[n] \in Seq(Nodes) /\ NoDoubles(L[n])
    BY DEF WantedOK
  <2>2. PICK s, t : s = L[n] /\ t = Wanted[n]
    OBVIOUS
  <2>3. IsLeft(t, s, <<>>) \/ IsPlaced(t, s, <<>>, ref)
    BY <2>2
  <2>4. s = t
    BY <2>1, <2>2, <2>3, NoneToCome
  <2> QED
    BY <2>2, <2>4
<1>2. Wanted \in [Nodes -> Seq(Nodes)]
  BY DEF WantedOK
<1> QED
  BY <1>1, <1>2

LEMMA PlacedGoesOn ==
    ASSUME IInv, ListsOK, ListsOK', job.op = "place", PlaceOK, UNCHANGED empty,
           OnTheWay(Wanted, seen', Behind, job.node, job.ref),
           \A n \in Nodes \ {job.node} : seen'[n] = seen[n], Placed
    PROVE  WayOK' /\ (Going \/ Finishing(Wanted))
<1>1. /\ job \in Jobs /\ job.from # job.node /\ (job.from # None => job.from \in Nodes)
      /\ (job.todo # <<>> => job.from = None) /\ job.todo \in Seq(Nodes)
  BY DEF IInv, JobOK, Jobs, Nodes, Containers
<1>2. /\ ~Has(Behind, job.child) /\ NoDoubles(Behind) /\ ~Has(Behind, job.ref) /\ Behind \in Seq(Nodes)
  BY FirstIsAlone, ComingNodes DEF PlaceOK
<1>3. CASE job.from # None /\ Go([job EXCEPT !.op = "splice", !.child = None])
  <2>1. /\ job'.op = "splice" /\ job'.from = job.from /\ job'.node = job.node /\ job'.ref = job.ref
        /\ UNCHANGED <<call, before>>
    BY <1>1, <1>3 DEF Go, Jobs
  <2>2. Coming' = Behind
    BY <1>1, <1>3, <2>1 DEF Coming, Behind
  <2>3. Wanted' = Wanted /\ WantedOK'
    BY <2>1, WantedStays DEF PlaceOK
  <2>4. PlaceOK'
    BY <1>2, <2>1, <2>2, <2>3 DEF PlaceOK
  <2> QED
    BY <2>1, <2>4 DEF WayOK, Going
<1>4. CASE job.todo # <<>> /\ Go([job EXCEPT !.child = Head(job.todo), !.todo = Tail(@)])
  <2>1. /\ job'.op = "place" /\ job'.from = None /\ job'.node = job.node /\ job'.ref = job.ref
        /\ job'.child = Head(job.todo) /\ job'.todo = Tail(job.todo)
        /\ UNCHANGED <<call, before>>
    BY <1>1, <1>4 DEF Go, Jobs
  <2>2. <<Head(job.todo)>> \o Tail(job.todo) = job.todo
    BY <1>1, <1>4, HeadAndTail
  <2>3. Coming' = Behind
    BY <1>1, <1>4, <2>1, <2>2 DEF Coming, Behind
  <2>4. Wanted' = Wanted /\ WantedOK'
    BY <2>1, WantedStays DEF PlaceOK
  <2>5. PlaceOK'
    BY <1>2, <2>1, <2>3, <2>4 DEF PlaceOK
  <2> QED
    BY <2>1, <2>5 DEF WayOK, Going
<1>5. CASE job.from = None /\ job.todo = <<>> /\ Return
  <2>1. Behind = <<>>
    BY <1>5 DEF Behind
  <2>2. seen' \in [Nodes -> Seq(Nodes)] /\ \A n \in Nodes : NoDoubles(seen'[n])
    BY DEF ListsOK, Lists
  <2>3. \A n \in Nodes : IsLeft(Wanted[n], seen'[n], <<>>) \/ IsPlaced(Wanted[n], seen'[n], <<>>, job.ref)
    BY <2>1 DEF OnTheWay
  <2>4. seen' = Wanted
    BY <2>2, <2>3, AllPlaced DEF PlaceOK
  <2>5. job'.op = "idle"
    BY <1>5 DEF Return, Idle, Job
  <2> QED
    BY <1>5, <2>4, <2>5 DEF WayOK, Finishing, Return
<1> QED
  BY <1>3, <1>4, <1>5 DEF Placed

LEMMA PlaceGoesOn ==
    ASSUME IInv, ListsOK, ListsOK', WayOK, PlaceLast \/ PlaceBefore
    PROVE  WayOK' /\ (Going \/ Finishing(Wanted))
<1>1. job.op = "place" /\ parent[job.child] = None /\ Placed /\ UNCHANGED empty
  BY DEF PlaceLast, PlaceBefore, Doing
<1>2. PlaceOK
  BY <1>1 DEF WayOK
<1>3. job.node \in Nodes /\ job.child \in Nodes /\ (job.ref # None => parent[job.ref] = job.node /\ job.ref \in Nodes)
  BY <1>1 DEF IInv, JobOK, Jobs, Inner, Nodes, Containers
<1>4. /\ \A n \in Nodes \ {job.node} : seen'[n] = seen[n]
      /\ IsBefore(seen'[job.node], seen[job.node], <<job.child>>, job.ref)
  <2>1. CASE PlaceLast
    <3>1. job.ref = None /\ LinkLast(job.node, job.child)
      BY <2>1 DEF PlaceLast
    <3> QED
      BY <1>3, <3>1, LinkLastOrder DEF IInv
  <2>2. CASE PlaceBefore
    <3>1. job.ref # None /\ LinkBefore(job.node, job.child, job.ref)
      BY <2>2 DEF PlaceBefore
    <3> QED
      BY <1>3, <3>1, LinkBeforeOrder DEF IInv
  <2> QED
    BY <2>1, <2>2
<1>5. OnTheWay(Wanted, seen', Behind, job.node, job.ref)
  BY <1>1, <1>2, <1>4, OnePlaced
<1> QED
  BY <1>1, <1>2, <1>4, <1>5, PlacedGoesOn

LEMMA SwapGoesOn ==
    ASSUME IInv, ListsOK, ListsOK', WayOK, SwapIn
    PROVE  WayOK' /\ Finishing(Wanted)
<1> DEFINE new == job.child
           old == job.ref
<1>1. job.op = "swap" /\ parent[new] = None /\ Swap(job.node, new, old) /\ Return /\ UNCHANGED empty
  BY DEF SwapIn, Doing
<1>2. SwapOK
  BY <1>1 DEF WayOK
<1>3. job.node \in Nodes /\ new \in Nodes /\ parent[old] = job.node /\ old \in Nodes /\ old # new
  BY <1>1 DEF IInv, JobOK, Jobs, Inner, Nodes, Containers
<1>4. (\A n \in Nodes \ {job.node} : seen'[n] = seen[n]) /\ IsSwapped(seen'[job.node], seen[job.node], <<new>>, old)
  BY <1>1, <1>3, SwapOrder DEF IInv
<1>5. ASSUME NEW n \in Nodes PROVE seen'[n] = Wanted[n]
  <2>1. IF n = job.node THEN IsToSwap(Wanted[n], seen[n], new, old) ELSE IsLeft(Wanted[n], seen[n], <<new>>)
    BY <1>2 DEF SwapOK, ToSwap
  <2>2. Ordered(seen[n]) /\ ~Has(seen[n], new)
    BY <1>1, SeenInOrder, NoneIsNoNode
  <2>3. PICK r, t : r = seen'[n] /\ t = Wanted[n]
    OBVIOUS
  <2>4. r \in Seq(Nodes) /\ t \in Seq(Nodes) /\ NoDoubles(r)
    BY <1>2, <2>3 DEF ListsOK, Lists, SwapOK, WantedOK
  <2>5. CASE n = job.node
    <3>1. SameOrder(r, t)
      BY <1>3, <1>4, <2>1, <2>2, <2>3, <2>5, SwapDone
    <3>2. \A x : ~Goes(r, x, x)
      BY <2>4, OneAfterAnother
    <3>3. \A x : ~Goes(t, x, x)
      BY <3>1, <3>2 DEF SameOrder
    <3>4. NoDoubles(t)
      BY <2>4, <3>3, OneAfterAnother
    <3> QED
      BY <2>3, <2>4, <3>1, <3>4, OrderTells
  <2>6. CASE n # job.node
    <3>1. IsFirst(<<new>>, new, <<>>)
      BY OneOrder, EmptyOrder DEF IsFirst
    <3>2. IsLeft(t, seen[n], <<>>)
      BY <2>1, <2>2, <2>3, <2>6, <3>1, LeaveOne
    <3>3. IsLeft(t, r, <<>>)
      BY <1>4, <2>3, <2>6, <3>2
    <3>4. r = t
      BY <2>4, <3>3, NoneToCome
    <3> QED
      BY <2>3, <3>4
  <2> QED
    BY <2>5, <2>6
<1>6. seen' = Wanted
  <2>1. seen' \in [Nodes -> Seq(Nodes)] /\ Wanted \in [Nodes -> Seq(Nodes)]
    BY <1>2 DEF ListsOK, SwapOK, WantedOK
  <2> QED
    BY <1>5, <2>1
<1>7. job'.op = "idle"
  BY <1>1 DEF Return, Idle, Job
<1> QED
  BY <1>1, <1>6, <1>7 DEF WayOK, Finishing, Return

LEMMA SpliceGoesOn ==
    ASSUME IInv, ListsOK, ListsOK', WayOK, SpliceNext
    PROVE  WayOK' /\ Going
<1> DEFINE f == job.from
           c == first[f]
<1>1. job.op = "splice" /\ c # None /\ Unlink(c) /\ Go([job EXCEPT !.op = "place", !.child = c]) /\ UNCHANGED empty
  BY DEF SpliceNext, Doing
<1>2. PlaceOK
  BY <1>1 DEF WayOK
<1>3. f \in Nodes /\ f # None /\ f # job.node /\ job \in Jobs
  BY <1>1, NoneIsNoNode DEF IInv, JobOK, Jobs, Nodes, Containers
<1>4. c \in Nodes /\ parent[c] = f
  BY <1>1, <1>3 DEF IInv, LinksOK, LinksTyped, LinksAgree, Agrees
<1>5. (\A n \in Nodes \ {f} : seen'[n] = seen[n]) /\ IsWithout(seen'[f], seen[f], {c})
  BY <1>1, <1>3, <1>4, UnlinkOrder DEF IInv
<1>6. /\ job'.op = "place" /\ job'.child = c /\ job'.from = f /\ job'.node = job.node /\ job'.ref = job.ref
      /\ UNCHANGED <<call, before>>
  BY <1>1, <1>3 DEF Go, Jobs
<1>7. Coming = seen[f] /\ Coming' = <<c>> \o seen'[f]
  BY <1>1, <1>3, <1>6 DEF Coming, Behind
<1>8. PICK u, v, r : u = seen[f] /\ v = <<c>> \o seen'[f] /\ r = seen'[f]
  OBVIOUS
<1>9. u \in Seq(Nodes) /\ Ordered(u) /\ (\A x : Has(u, x) <=> FromOn(u, x, c)) /\ r \in Seq(Nodes)
  BY <1>3, <1>8, SeenInOrder DEF ListsOK
<1>10. v \in Seq(Nodes) /\ IsFirst(v, c, r)
  BY <1>4, <1>8, <1>9, FirstOrder
<1>11. /\ \A x : Has(r, x) <=> Has(u, x) /\ x # c
       /\ \A x, y : Goes(r, x, y) <=> Goes(u, x, y) /\ x # c /\ y # c
  BY <1>5, <1>8 DEF IsWithout
<1>12. SameOrder(u, v)
  <2>1. \A x : Has(u, x) <=> Has(v, x)
    BY <1>1, <1>9, <1>10, <1>11 DEF IsFirst, FromOn
  <2>2. ASSUME NEW x, NEW y PROVE Goes(u, x, y) <=> Goes(v, x, y)
    <3>1. Goes(v, x, y) <=> Goes(r, x, y) \/ (x = c /\ Has(r, y))
      BY <1>10 DEF IsFirst
    <3>2. Has(r, y) <=> Goes(u, c, y)
      BY <1>9, <1>11 DEF FromOn, Ordered
    <3>3. ~Goes(u, x, c)
      BY <1>9 DEF FromOn, Ordered
    <3> QED
      BY <1>11, <3>1, <3>2, <3>3
  <2> QED
    BY <2>1, <2>2 DEF SameOrder
<1>13. NoDoubles(v) /\ ~Has(v, job.ref)
  <2>1. ~Has(u, job.ref) /\ \A x : ~Goes(u, x, x)
    BY <1>2, <1>7, <1>8, <1>9 DEF PlaceOK, Ordered
  <2>2. ~Has(v, job.ref) /\ \A x : ~Goes(v, x, x)
    BY <1>12, <2>1 DEF SameOrder
  <2> QED
    BY <1>10, <2>2, OneAfterAnother
<1>14. OnTheWay(Wanted, seen', v, job.node, job.ref)
  <2> SUFFICES ASSUME NEW n \in Nodes
               PROVE  IF n = job.node THEN IsPlaced(Wanted[n], seen'[n], v, job.ref)
                      ELSE IsLeft(Wanted[n], seen'[n], v)
    BY DEF OnTheWay
  <2>1. IF n = job.node THEN IsPlaced(Wanted[n], seen[n], u, job.ref) ELSE IsLeft(Wanted[n], seen[n], u)
    BY <1>2, <1>7, <1>8 DEF PlaceOK, OnTheWay
  <2>2. IF n = job.node THEN IsPlaced(Wanted[n], seen[n], v, job.ref) ELSE IsLeft(Wanted[n], seen[n], v)
    BY <1>12, <2>1, SameToCome
  <2>3. CASE n = f
    <3>1. Has(v, c)
      BY <1>10 DEF IsFirst
    <3>2. c # job.ref
      BY <1>13, <3>1
    <3>3. IsLeft(Wanted[n], seen[n], v) => IsLeft(Wanted[n], seen'[n], v)
      BY <1>5, <2>3, <3>1, <3>2, DetachOne
    <3> QED
      BY <1>3, <2>2, <2>3, <3>3
  <2>4. CASE n # f
    BY <1>5, <2>2, <2>4
  <2> QED
    BY <2>3, <2>4
<1>15. Wanted' = Wanted /\ WantedOK'
  BY <1>2, <1>6, WantedStays DEF PlaceOK
<1>16. PlaceOK'
  BY <1>6, <1>7, <1>8, <1>13, <1>14, <1>15 DEF PlaceOK
<1> QED
  BY <1>1, <1>6, <1>16 DEF WayOK, Going

LEMMA SpliceEnds ==
    ASSUME IInv, ListsOK, WayOK, SpliceDone
    PROVE  WayOK' /\ Finishing(Wanted)
<1>1. job.op = "splice" /\ first[job.from] = None /\ Return /\ UNCHANGED <<links, empty, seen>>
  BY DEF SpliceDone, Doing
<1>2. PlaceOK
  BY <1>1 DEF WayOK
<1>3. job.from \in Nodes /\ job.from # None
  BY <1>1 DEF IInv, JobOK, Jobs, Nodes, Containers
<1>4. Coming = seen[job.from]
  BY <1>1, <1>3 DEF Coming, Behind
<1>5. SameOrder(Coming, <<>>)
  <2>1. \A x : ~Has(Coming, x)
    BY <1>1, <1>3, <1>4, SeenInOrder DEF FromOn
  <2>2. \A x, y : ~Goes(Coming, x, y)
    BY <1>3, <1>4, <2>1, SeenInOrder DEF Ordered
  <2> QED
    BY <2>1, <2>2, EmptyOrder DEF SameOrder
<1>6. seen \in [Nodes -> Seq(Nodes)] /\ \A n \in Nodes : NoDoubles(seen[n])
  BY DEF ListsOK, Lists
<1>7. ASSUME NEW n \in Nodes PROVE IsLeft(Wanted[n], seen[n], <<>>) \/ IsPlaced(Wanted[n], seen[n], <<>>, job.ref)
  <2>1. IF n = job.node THEN IsPlaced(Wanted[n], seen[n], Coming, job.ref) ELSE IsLeft(Wanted[n], seen[n], Coming)
    BY <1>2 DEF PlaceOK, OnTheWay
  <2> QED
    BY <1>5, <2>1, SameToCome
<1>8. seen = Wanted
  BY <1>2, <1>6, <1>7, AllPlaced DEF PlaceOK
<1>9. job'.op = "idle"
  BY <1>1 DEF Return, Idle, Job
<1> QED
  BY <1>1, <1>8, <1>9 DEF WayOK, Finishing, Return

LEMMA ClearGoesOn ==
    ASSUME IInv, ListsOK, WayOK, ClearNext
    PROVE  WayOK' /\ Going
<1> DEFINE c == first[job.node]
<1>1. job.op = "clear" /\ c # None /\ Unlink(c) /\ UNCHANGED <<empty, job, call, before>>
  BY DEF ClearNext, Doing
<1>2. ClearOK
  BY <1>1 DEF WayOK
<1>3. job.node \in Nodes
  BY <1>1 DEF IInv, JobOK, Nodes
<1>4. c \in Nodes /\ parent[c] = job.node
  BY <1>1, <1>3 DEF IInv, LinksOK, LinksTyped, LinksAgree, Agrees
<1>5. \A n \in Nodes \ {job.node} : seen'[n] = seen[n]
  BY <1>1, <1>3, <1>4, UnlinkOrder DEF IInv
<1>6. Wanted' = Wanted /\ WantedOK'
  BY <1>1, <1>2, WantedStays DEF ClearOK
<1>7. ToClear(Wanted, seen', job.todo, job.node)
  BY <1>2, <1>5 DEF ClearOK, ToClear
<1>8. ClearOK'
  BY <1>1, <1>2, <1>6, <1>7 DEF ClearOK
<1> QED
  BY <1>1, <1>8 DEF WayOK, Going

LEMMA ClearEnds ==
    ASSUME IInv, ListsOK, WayOK, ClearDone
    PROVE  WayOK' /\ (Going \/ Finishing(Wanted))
<1>1. job.op = "clear" /\ first[job.node] = None /\ UNCHANGED <<links, empty, seen>>
  BY DEF ClearDone, Doing
<1>2. ClearOK
  BY <1>1 DEF WayOK
<1>3. job.node \in Nodes /\ job.todo \in Seq(Nodes)
  BY <1>1 DEF IInv, JobOK, Jobs, Nodes
<1>4. \A x, y : ~Has(seen[job.node], x) /\ ~Goes(seen[job.node], x, y)
  <2>1. \A x : ~Has(seen[job.node], x)
    BY <1>1, <1>3, SeenInOrder DEF FromOn
  <2>2. \A x, y : ~Goes(seen[job.node], x, y)
    BY <1>3, <2>1, SeenInOrder DEF Ordered
  <2> QED
    BY <2>1, <2>2
<1>5. \A x, y : Goes(job.todo, x, y) => Has(job.todo, x) /\ Has(job.todo, y)
  BY <1>3, OneAfterAnother
<1>6. OnTheWay(Wanted, seen, job.todo, job.node, None)
  <2> SUFFICES ASSUME NEW n \in Nodes
               PROVE  IF n = job.node THEN IsPlaced(Wanted[n], seen[n], job.todo, None)
                      ELSE IsLeft(Wanted[n], seen[n], job.todo)
    BY DEF OnTheWay
  <2>1. IF n = job.node THEN Wanted[n] = job.todo ELSE IsLeft(Wanted[n], seen[n], job.todo)
    BY <1>2 DEF ClearOK, ToClear
  <2>2. IsPlaced(job.todo, seen[job.node], job.todo, None)
    BY <1>4, <1>5 DEF IsPlaced, UpTo, FromOn
  <2> QED
    BY <2>1, <2>2
<1>7. CASE job.todo = <<>> /\ Return
  <2>1. seen \in [Nodes -> Seq(Nodes)] /\ \A n \in Nodes : NoDoubles(seen[n])
    BY DEF ListsOK, Lists
  <2>2. \A n \in Nodes : IsLeft(Wanted[n], seen[n], <<>>) \/ IsPlaced(Wanted[n], seen[n], <<>>, None)
    BY <1>6, <1>7 DEF OnTheWay
  <2>3. seen = Wanted
    BY <1>2, <2>1, <2>2, AllPlaced DEF ClearOK
  <2>4. job'.op = "idle"
    BY <1>7 DEF Return, Idle, Job
  <2> QED
    BY <1>1, <1>7, <2>3, <2>4 DEF WayOK, Finishing, Return
<1>8. CASE job.todo # <<>> /\ Go([Job("place", job.node, Head(job.todo), None) EXCEPT !.todo = Tail(job.todo)])
  <2>1. /\ job'.op = "place" /\ job'.from = None /\ job'.node = job.node /\ job'.ref = None
        /\ job'.child = Head(job.todo) /\ job'.todo = Tail(job.todo)
        /\ UNCHANGED <<call, before>>
    BY <1>8 DEF Go, Job
  <2>2. <<Head(job.todo)>> \o Tail(job.todo) = job.todo
    BY <1>3, <1>8, HeadAndTail
  <2>3. Coming' = job.todo
    BY <2>1, <2>2 DEF Coming, Behind
  <2>4. Wanted' = Wanted /\ WantedOK'
    BY <1>2, <2>1, WantedStays DEF ClearOK
  <2>5. ~Has(job.todo, None)
    BY <1>3, NoneIsNoNode, OneAfterAnother
  <2>6. PlaceOK'
    BY <1>1, <1>2, <1>6, <2>1, <2>3, <2>4, <2>5 DEF PlaceOK, ClearOK
  <2> QED
    BY <1>1, <2>1, <2>6 DEF WayOK, Going
<1> QED
  BY <1>7, <1>8 DEF ClearDone

(* The node that is looked at, in the list it stands in. *)
LEMMA LooksInOrder ==
    ASSUME IInv, ListsOK, job.op = "normalize", job.ref # None
    PROVE  /\ job.node \in Containers /\ job.node \in Nodes /\ job.ref \in Nodes /\ parent[job.ref] = job.node
           /\ Ordered(seen[job.node]) /\ Has(seen[job.node], job.ref)
           /\ Follows(seen[job.node], job.ref, next[job.ref]) /\ next[job.ref] \in Nodes \cup {None}
<1>1. job.node \in Containers /\ job.node \in Nodes /\ job.ref \in Nodes /\ parent[job.ref] = job.node
  BY DEF IInv, JobOK, Jobs, Nodes
<1>2. next[job.ref] \in Nodes \cup {None}
  BY <1>1 DEF IInv, LinksOK, LinksTyped
<1> QED
  BY <1>1, <1>2, SeenInOrder

(* A child of what is below is below. *)
LEMMA ChildIsBelow ==
    ASSUME NEW B, NEW top, NEW n \in BelowIn(B, top), NEW x \in Nodes, Has(B[n], x)
    PROVE  x \in BelowIn(B, top)
<1> SUFFICES ASSUME NEW S \in SUBSET Nodes, top \in S, \A k \in S : Tree!Members(B[k]) \subseteq S
             PROVE  x \in S
  BY DEF BelowIn
<1>1. n \in S
  BY DEF BelowIn
<1>2. x \in Tree!Members(B[n])
  BY MembersOrder
<1> QED
  BY <1>1, <1>2

LEMMA DropGoesOn ==
    ASSUME IInv, ListsOK, ListsOK', WayOK, DropEmpty
    PROVE  WayOK' /\ Going
<1> DEFINE c == job.ref
           p == job.node
           nx == next[c]
<1>1. job.op = "normalize" /\ c \in empty /\ Unlink(c) /\ Go([job EXCEPT !.ref = nx]) /\ UNCHANGED empty
  BY DEF DropEmpty, LooksAt, Doing
<1>2. c \in Texts /\ c \in Nodes /\ c # None
  BY <1>1, NoneIsNoNode DEF IInv, Nodes
<1>3. p \in Containers /\ p \in Nodes /\ parent[c] = p /\ Ordered(seen[p]) /\ Has(seen[p], c) /\ Follows(seen[p], c, nx)
  BY <1>1, <1>2, LooksInOrder
<1>4. (\A n \in Nodes \ {p} : seen'[n] = seen[n]) /\ IsWithout(seen'[p], seen[p], {c})
  BY <1>1, <1>2, <1>3, UnlinkOrder DEF IInv
<1>5. job'.op = "normalize" /\ job'.node = p /\ job'.ref = nx /\ job'.scope = job.scope /\ UNCHANGED <<call, before>>
  BY <1>1 DEF IInv, JobOK, Jobs, Go
<1>6. PICK V \in SUBSET Nodes : Texts \subseteq V /\ Normalizing(V)
  BY <1>1 DEF WayOK, NormalizeOK
<1>7. Known(V)' = Known(V)
  BY <1>5 DEF Known
<1>w. \A y : Has(seen'[p], y) <=> Has(seen[p], y) /\ y # c
  BY <1>4 DEF IsWithout
<1>8. ASSUME NEW n \in Nodes PROVE SameKept(empty, seen'[n], before[n])
  <2>1. SameKept(empty, seen[n], before[n])
    BY <1>6 DEF Normalizing
  <2>2. CASE n = p
    BY <1>1, <1>2, <1>3, <1>4, <2>1, <2>2, DropOne
  <2>3. CASE n # p
    BY <1>4, <2>1, <2>3
  <2> QED
    BY <2>2, <2>3
<1>9. \A n \in V \ {p} : Settled(empty, seen'[n])
  BY <1>4, <1>6 DEF Normalizing
<1>10. \A n \in Nodes : n \notin BelowIn(before, call.parent) => seen'[n] = before[n]
  BY <1>4, <1>6 DEF Normalizing
<1>11. ASSUME NEW x, Has(before[p], x) PROVE x \in Known(V) \/ FromOn(seen'[p], x, nx)
  <2>1. x \in Known(V) \/ FromOn(seen[p], x, c)
    BY <1>6, <1>11 DEF Normalizing
  <2>2. ASSUME FromOn(seen[p], x, c) PROVE x \in Known(V) \/ FromOn(seen'[p], x, nx)
    <3>1. CASE x = c
      BY <1>2, <1>6, <3>1 DEF Known
    <3>2. CASE Goes(seen[p], c, x)
      BY <1>3, <1>4, <3>2, StepOver
    <3> QED
      BY <2>2, <3>1, <3>2 DEF FromOn
  <2> QED
    BY <2>1, <2>2
<1>12. Passed(empty, seen'[p], nx)
  <2>1. Passed(empty, seen[p], c)
    BY <1>6 DEF Normalizing
  <2> QED
    BY <1>2, <1>3, <1>4, <2>1, PassedDrop
<1>13. ASSUME NEW n \in Nodes, NEW x
       PROVE  /\ Has(seen'[n], x) => Has(before[n], x)
              /\ Has(before[n], x) /\ x \notin Texts => Has(seen'[n], x)
  <2>1. /\ Has(seen[n], x) => Has(before[n], x)
        /\ Has(before[n], x) /\ x \notin Texts => Has(seen[n], x)
    BY <1>6 DEF Normalizing
  <2> QED
    BY <1>2, <1>4, <1>w, <2>1
<1>14. Normalizing(V)'
  <2>1. /\ call.op = "normalize" /\ call.parent \in Known(V)
        /\ before \in [Nodes -> Seq(Nodes)] /\ \A n \in Nodes : NoDoubles(before[n])
        /\ \A n \in V \ {p} : \A x : Has(before[n], x) => x \in Known(V)
        /\ job.scope \cup {p} \subseteq BelowIn(before, call.parent)
    BY <1>6 DEF Normalizing
  <2> HIDE DEF c, p, nx
  <2> QED
    BY <1>1, <1>5, <1>7, <1>8, <1>9, <1>10, <1>11, <1>12, <1>13, <2>1 DEF Normalizing
<1>15. NormalizeOK'
  BY <1>6, <1>14 DEF NormalizeOK
<1> QED
  BY <1>1, <1>5, <1>15 DEF WayOK, Going

LEMMA MergeGoesOn ==
    ASSUME IInv, ListsOK, ListsOK', WayOK, MergeNext
    PROVE  WayOK' /\ Going
<1> DEFINE a == job.ref
           p == job.node
           c == next[a]
<1>1. job.op = "normalize" /\ a \in Texts \ empty /\ c \in Texts /\ Unlink(c) /\ UNCHANGED <<empty, job, call, before>>
  BY DEF MergeNext, LooksAt, Doing
<1>2. c \in Nodes /\ c # None /\ a # None
  BY <1>1, NoneIsNoNode DEF Nodes
<1>3. p \in Containers /\ p \in Nodes /\ Ordered(seen[p]) /\ Has(seen[p], a) /\ Follows(seen[p], a, c)
  BY <1>1, <1>2, LooksInOrder
<1>4. Goes(seen[p], a, c) /\ ~Apart(seen[p], a, c)
  BY <1>2, <1>3, NextIsClose
<1>5. parent[c] = p
  <2>1. Has(seen[p], c)
    BY <1>3, <1>4 DEF Ordered
  <2> QED
    BY <1>3, <2>1, SeenInOrder
<1>6. (\A n \in Nodes \ {p} : seen'[n] = seen[n]) /\ IsWithout(seen'[p], seen[p], {c})
  BY <1>1, <1>2, <1>3, <1>5, UnlinkOrder DEF IInv
<1>7. PICK V \in SUBSET Nodes : Texts \subseteq V /\ Normalizing(V)
  BY <1>1 DEF WayOK, NormalizeOK
<1>8. Known(V)' = Known(V)
  BY <1>1 DEF Known
<1>w. /\ \A y : Has(seen'[p], y) <=> Has(seen[p], y) /\ y # c
      /\ \A y, z : Goes(seen'[p], y, z) <=> Goes(seen[p], y, z) /\ y # c /\ z # c
  BY <1>6 DEF IsWithout
<1>9. ASSUME NEW n \in Nodes PROVE SameKept(empty, seen'[n], before[n])
  <2>1. SameKept(empty, seen[n], before[n])
    BY <1>7 DEF Normalizing
  <2>2. CASE n = p
    BY <1>1, <1>2, <1>3, <1>4, <1>6, <2>1, <2>2, DropOne
  <2>3. CASE n # p
    BY <1>6, <2>1, <2>3
  <2> QED
    BY <2>2, <2>3
<1>10. \A n \in V \ {p} : Settled(empty, seen'[n])
  BY <1>6, <1>7 DEF Normalizing
<1>11. \A n \in Nodes : n \notin BelowIn(before, call.parent) => seen'[n] = before[n]
  BY <1>6, <1>7 DEF Normalizing
<1>12. ASSUME NEW x, Has(before[p], x) PROVE x \in Known(V) \/ FromOn(seen'[p], x, a)
  <2>1. x \in Known(V) \/ FromOn(seen[p], x, a)
    BY <1>7, <1>12 DEF Normalizing
  <2>2. x = c => x \in Known(V)
    BY <1>1, <1>7 DEF Known
  <2>3. a # c
    BY <1>3, <1>4 DEF Ordered
  <2> QED
    BY <1>w, <2>1, <2>2, <2>3 DEF FromOn
<1>13. Passed(empty, seen'[p], a)
  <2>1. Passed(empty, seen[p], a)
    BY <1>7 DEF Normalizing
  <2> QED
    BY <1>1, <1>2, <1>6, <2>1, PassedMerge
<1>14. ASSUME NEW n \in Nodes, NEW x
       PROVE  /\ Has(seen'[n], x) => Has(before[n], x)
              /\ Has(before[n], x) /\ x \notin Texts => Has(seen'[n], x)
  <2>1. /\ Has(seen[n], x) => Has(before[n], x)
        /\ Has(before[n], x) /\ x \notin Texts => Has(seen[n], x)
    BY <1>7 DEF Normalizing
  <2> QED
    BY <1>1, <1>6, <1>w, <2>1
<1>15. Normalizing(V)'
  <2>1. /\ call.op = "normalize" /\ call.parent \in Known(V)
        /\ before \in [Nodes -> Seq(Nodes)] /\ \A n \in Nodes : NoDoubles(before[n])
        /\ \A n \in V \ {p} : \A x : Has(before[n], x) => x \in Known(V)
        /\ job.scope \cup {p} \subseteq BelowIn(before, call.parent)
    BY <1>7 DEF Normalizing
  <2>2. job'.node = p /\ job'.ref = a
    BY <1>1
  <2> HIDE DEF c, p, a
  <2> QED
    BY <1>1, <1>8, <1>9, <1>10, <1>11, <1>12, <1>13, <1>14, <2>1, <2>2 DEF Normalizing
<1>16. NormalizeOK'
  BY <1>7, <1>15 DEF NormalizeOK
<1> QED
  BY <1>1, <1>16 DEF WayOK, Going

LEMMA PassGoesOn ==
    ASSUME IInv, ListsOK, WayOK, PassOn
    PROVE  WayOK' /\ Going
<1> DEFINE c == job.ref
           p == job.node
           nx == next[c]
           more == job.scope \cup ({c} \cap Containers)
<1>1. /\ job.op = "normalize" /\ c \in Nodes \ empty /\ (c \in Texts => nx \notin Texts)
      /\ Go([job EXCEPT !.ref = nx, !.scope = more]) /\ UNCHANGED <<links, empty, seen>>
  BY DEF PassOn, LooksAt, Doing
<1>2. c # None
  BY <1>1, NoneIsNoNode
<1>3. p \in Containers /\ p \in Nodes /\ Ordered(seen[p]) /\ Has(seen[p], c) /\ Follows(seen[p], c, nx)
  BY <1>1, <1>2, LooksInOrder
<1>4. job'.op = "normalize" /\ job'.node = p /\ job'.ref = nx /\ job'.scope = more /\ UNCHANGED <<call, before>>
  BY <1>1 DEF IInv, JobOK, Jobs, Go
<1>5. PICK V \in SUBSET Nodes : Texts \subseteq V /\ Normalizing(V)
  BY <1>1 DEF WayOK, NormalizeOK
<1>6. Known(V)' = V \cup more \cup {p} /\ Known(V) \subseteq Known(V)' /\ c \in Known(V)'
  BY <1>1, <1>4, <1>5 DEF Known, Nodes
<1>7. more \cup {p} \subseteq BelowIn(before, call.parent)
  <2>1. job.scope \cup {p} \subseteq BelowIn(before, call.parent)
    BY <1>5 DEF Normalizing
  <2>2. Has(before[p], c)
    BY <1>3, <1>5 DEF Normalizing
  <2>3. c \in BelowIn(before, call.parent)
    BY <1>1, <2>1, <2>2, ChildIsBelow
  <2> QED
    BY <2>1, <2>3
<1>8. ASSUME NEW x, Has(before[p], x) PROVE x \in Known(V)' \/ FromOn(seen[p], x, nx)
  <2>1. x \in Known(V) \/ FromOn(seen[p], x, c)
    BY <1>5, <1>8 DEF Normalizing
  <2>2. FromOn(seen[p], x, c) => x = c \/ FromOn(seen[p], x, nx)
    BY <1>3 DEF FromOn, Follows
  <2> QED
    BY <1>6, <2>1, <2>2
<1>9. Passed(empty, seen[p], nx)
  <2>1. Passed(empty, seen[p], c)
    BY <1>5 DEF Normalizing
  <2> QED
    BY <1>1, <1>2, <1>3, <2>1, PassedOne
<1>10. Normalizing(V)'
  <2>1. /\ call.op = "normalize" /\ call.parent \in Known(V)
        /\ before \in [Nodes -> Seq(Nodes)] /\ \A n \in Nodes : NoDoubles(before[n])
        /\ \A n \in Nodes : SameKept(empty, seen[n], before[n])
        /\ \A n \in V \ {p} : Settled(empty, seen[n])
        /\ \A n \in V \ {p} : \A x : Has(before[n], x) => x \in Known(V)
        /\ \A n \in Nodes : n \notin BelowIn(before, call.parent) => seen[n] = before[n]
        /\ \A n \in Nodes : \A x : /\ Has(seen[n], x) => Has(before[n], x)
                                   /\ Has(before[n], x) /\ x \notin Texts => Has(seen[n], x)
    BY <1>5 DEF Normalizing
  <2>2. call.parent \in Known(V)' /\ \A n \in V \ {p} : \A x : Has(before[n], x) => x \in Known(V)'
    BY <1>6, <2>1
  <2> HIDE DEF c, p, nx, more
  <2> QED
    BY <1>1, <1>4, <1>7, <1>8, <1>9, <2>1, <2>2 DEF Normalizing
<1>11. NormalizeOK'
  BY <1>5, <1>10 DEF NormalizeOK
<1> QED
  BY <1>1, <1>4, <1>11 DEF WayOK, Going

(* The children of a node have all been passed. *)
LEMMA NodeIsDone ==
    ASSUME IInv, ListsOK, job.op = "normalize", job.ref = None, NEW V, Texts \subseteq V, Normalizing(V)
    PROVE  /\ \A n \in V \cup {job.node} : Settled(empty, seen[n])
           /\ \A n \in V \cup {job.node} : \A x : Has(before[n], x) => x \in Known(V)
<1>1. job.node \in Nodes
  BY DEF IInv, JobOK, Nodes
<1>2. Settled(empty, seen[job.node])
  BY <1>1, SeenInOrder, PassedAll DEF Normalizing
<1>3. \A x : Has(before[job.node], x) => x \in Known(V)
  BY DEF Normalizing, FromOn
<1> QED
  BY <1>2, <1>3 DEF Normalizing

(* The lists that NodeTree wants when normalize returns. *)
Normal == [n \in Nodes |-> IF n \in BelowIn(before, call.parent) THEN Tree!Merged(before[n]) ELSE before[n]]

LEMMA EnterGoesOn ==
    ASSUME IInv, ListsOK, WayOK, EnterNext
    PROVE  WayOK' /\ (Going \/ Finishing(Normal))
<1>1. job.op = "normalize" /\ job.ref = None /\ UNCHANGED <<links, empty, seen>>
  BY DEF EnterNext, Doing
<1>2. PICK V \in SUBSET Nodes : Texts \subseteq V /\ Normalizing(V)
  BY <1>1 DEF WayOK, NormalizeOK
<1> DEFINE p == job.node
<1>W. PICK W : W = V \cup {p}
  OBVIOUS
<1>3. /\ \A n \in W : Settled(empty, seen[n])
      /\ \A n \in W : \A x : Has(before[n], x) => x \in Known(V)
  BY <1>1, <1>2, <1>W, NodeIsDone
<1>4. p \in Nodes /\ job.scope \subseteq Containers /\ job.scope \subseteq Nodes
  BY <1>1 DEF IInv, JobOK, Jobs, Nodes
<1>5. /\ call.op = "normalize" /\ call.parent \in Known(V)
      /\ before \in [Nodes -> Seq(Nodes)] /\ \A n \in Nodes : NoDoubles(before[n])
      /\ \A n \in Nodes : SameKept(empty, seen[n], before[n])
      /\ job.scope \cup {p} \subseteq BelowIn(before, call.parent)
      /\ \A n \in Nodes : n \notin BelowIn(before, call.parent) => seen[n] = before[n]
      /\ \A n \in Nodes : \A x : /\ Has(seen[n], x) => Has(before[n], x)
                                 /\ Has(before[n], x) /\ x \notin Texts => Has(seen[n], x)
  BY <1>2 DEF Normalizing
<1>6. ASSUME NEW n \in job.scope, Go([Job("normalize", n, None, first[n]) EXCEPT !.scope = job.scope \ {n}])
      PROVE  WayOK' /\ Going
  <2>1. /\ job'.op = "normalize" /\ job'.node = n /\ job'.ref = first[n] /\ job'.scope = job.scope \ {n}
        /\ UNCHANGED <<call, before>>
    BY <1>6 DEF Go, Job
  <2>2. Known(W)' = Known(V)
    BY <1>6, <1>W, <2>1 DEF Known
  <2>3. n \in Nodes /\ Ordered(seen[n]) /\ \A y : Has(seen[n], y) <=> FromOn(seen[n], y, first[n])
    BY <1>4, SeenInOrder
  <2>4. Passed(empty, seen[n], first[n])
    BY <2>3, PassedNone
  <2>5. ASSUME NEW x, Has(before[n], x) PROVE x \in Known(V) \/ FromOn(seen[n], x, first[n])
    <3>1. CASE x \in Texts
      BY <1>2, <3>1 DEF Known
    <3>2. CASE x \notin Texts
      BY <1>5, <2>3, <2>5, <3>2
    <3> QED
      BY <3>1, <3>2
  <2>6. Normalizing(W)'
    <3>1. job'.scope \cup {job'.node} \subseteq BelowIn(before, call.parent)
      BY <1>5, <1>6, <2>1
    <3>2. W \ {n} \subseteq W
      OBVIOUS
    <3> HIDE DEF p
    <3> QED
      BY <1>1, <1>3, <1>5, <3>2, <2>1, <2>2, <2>4, <2>5, <3>1 DEF Normalizing
  <2>7. NormalizeOK'
    <3>1. W \in SUBSET Nodes /\ Texts \subseteq W
      BY <1>2, <1>4, <1>W
    <3> QED
      BY <2>6, <3>1 DEF NormalizeOK
  <2> QED
    BY <1>1, <2>1, <2>7 DEF WayOK, Going
<1>7. CASE job.scope = {} /\ Return
  <2>1. Known(V) = W /\ W \in SUBSET Nodes
    BY <1>2, <1>4, <1>7, <1>W DEF Known
  <2>2. BelowIn(before, call.parent) \subseteq W
    <3>1. ASSUME NEW k \in W PROVE Tree!Members(before[k]) \subseteq W
      BY <1>3, <2>1, MembersOrder
    <3>2. call.parent \in W
      BY <1>5, <2>1
    <3> QED
      BY <2>1, <3>1, <3>2 DEF BelowIn
  <2>3. ASSUME NEW n \in Nodes PROVE seen[n] = Normal[n]
    <3>1. CASE n \in BelowIn(before, call.parent)
      <4>1. Settled(empty, seen[n])
        BY <1>3, <2>2, <3>1
      <4>2. seen[n] \in Seq(Nodes) /\ NoDoubles(seen[n]) /\ before[n] \in Seq(Nodes) /\ NoDoubles(before[n])
        BY <1>5, SeenInOrder
      <4>3. seen[n] = Tree!Merged(before[n])
        BY <1>5, <4>1, <4>2, SettledIsMerged
      <4> QED
        BY <3>1, <4>3 DEF Normal
    <3>2. CASE n \notin BelowIn(before, call.parent)
      BY <1>5, <3>2 DEF Normal
    <3> QED
      BY <3>1, <3>2
  <2>4. seen = Normal
    <3>1. seen \in [Nodes -> Seq(Nodes)]
      BY DEF ListsOK
    <3> QED
      BY <2>3, <3>1 DEF Normal
  <2>5. job'.op = "idle"
    BY <1>7 DEF Return, Idle, Job
  <2> QED
    BY <1>1, <1>7, <2>4, <2>5 DEF WayOK, Finishing, Return
<1> QED
  BY <1>6, <1>7 DEF EnterNext

(* What the walk finds is what observers know. *)
KidsAreSeen == [n \in Nodes |-> ChildNodes(n)] = seen

LEMMA ChildNodesAreSeen == IInv /\ ListsOK => KidsAreSeen
<1> SUFFICES ASSUME IInv, ListsOK PROVE KidsAreSeen
  OBVIOUS
<1>1. \A n \in Nodes : ChildNodes(n) = seen[n]
  BY ChildNodesAre DEF IInv
<1>2. seen \in [Nodes -> Seq(Nodes)]
  BY DEF ListsOK
<1> QED
  BY <1>1, <1>2 DEF KidsAreSeen

(* The lists that are wanted when a call begins. *)
LEMMA MovedOK ==
    ASSUME IInv, ListsOK, NEW p \in Nodes, NEW u \in Seq(Nodes), NEW ref, ~Has(u, ref),
           ref # None => ref \in Nodes /\ parent[ref] = p,
           before' = seen, call'.parent = p,
           NEW W, W = MovedThen(u, ref)'
    PROVE  W \in [Nodes -> Seq(Nodes)] /\ OnTheWay(W, seen, u, p, ref)
<1>1. W = [n \in Nodes |-> LET rest == Tree!Without(seen[n], Tree!Members(u))
                           IN IF n = p THEN Tree!Before(rest, u, ref) ELSE rest]
  BY DEF MovedThen
<1>2. ASSUME NEW n \in Nodes
      PROVE  W[n] \in Seq(Nodes) /\ IF n = p THEN IsPlaced(W[n], seen[n], u, ref) ELSE IsLeft(W[n], seen[n], u)
  <2>1. seen[n] \in Seq(Nodes) /\ NoDoubles(seen[n])
    BY SeenInOrder
  <2>2. PICK s, t : s = seen[n] /\ t = W[n]
    OBVIOUS
  <2>3. CASE n = p
    <3>1. ref # None => Has(s, ref)
      BY <2>2, <2>3, SeenInOrder
    <3>2. t = Tree!Before(Tree!Without(s, Tree!Members(u)), u, ref)
      BY <1>1, <2>2, <2>3
    <3>3. t \in Seq(Nodes) /\ IsPlaced(t, s, u, ref)
      BY <2>1, <2>2, <3>1, <3>2, MovedHere
    <3> QED
      BY <2>2, <2>3, <3>3
  <2>4. CASE n # p
    <3>1. t = Tree!Without(s, Tree!Members(u))
      BY <1>1, <2>2, <2>4
    <3>2. t \in Seq(Nodes) /\ IsLeft(t, s, u)
      BY <2>1, <2>2, <3>1, MovedAway
    <3> QED
      BY <2>2, <2>4, <3>2
  <2> QED
    BY <2>3, <2>4
<1>3. W \in [Nodes -> Seq(Nodes)]
  BY <1>1, <1>2
<1> QED
  BY <1>2, <1>3 DEF OnTheWay

(* The node to be replaced is in one list only. *)
LEMMA ReplacedElsewhere ==
    ASSUME IInv, ListsOK, NEW n \in Nodes, NEW old, parent[old] # n, NEW u, NEW t,
           t = Tree!Without(Tree!Without(seen[n], Tree!Members(u)), {old})
    PROVE  t \in Seq(Nodes) /\ IsLeft(t, seen[n], u)
<1>1. PICK s : s = seen[n]
  OBVIOUS
<1>2. s \in Seq(Nodes) /\ ~Has(s, old) /\ Ordered(s)
  BY <1>1, SeenInOrder
<1>3. PICK w : w = Tree!Without(s, Tree!Members(u))
  OBVIOUS
<1>4. w \in Seq(Nodes) /\ IsLeft(w, s, u)
  BY <1>2, <1>3, MovedAway
<1>5. t \in Seq(Nodes) /\ IsWithout(t, w, {old})
  BY <1>1, <1>3, <1>4, WithoutOrder
<1>6. /\ \A x : Has(t, x) <=> Has(w, x) /\ x # old
      /\ \A x, y : Goes(t, x, y) <=> Goes(w, x, y) /\ x # old /\ y # old
      /\ \A x : Has(w, x) <=> Has(s, x) /\ ~Has(u, x)
      /\ \A x, y : Goes(w, x, y) <=> Goes(s, x, y) /\ ~Has(u, x) /\ ~Has(u, y)
  BY <1>4, <1>5 DEF IsWithout, IsLeft
<1>7. \A x, y : Goes(s, x, y) => x # old /\ y # old
  BY <1>2 DEF Ordered
<1>8. /\ \A x : Has(t, x) <=> Has(s, x) /\ ~Has(u, x)
      /\ \A x, y : Goes(t, x, y) <=> Goes(s, x, y) /\ ~Has(u, x) /\ ~Has(u, y)
  BY <1>2, <1>6, <1>7
<1> QED
  BY <1>1, <1>5, <1>8 DEF IsLeft

(* What is inserted. *)
LEMMA InsertedNodes ==
    ASSUME IInv, ListsOK, NEW p \in Containers, NEW c \in Nodes, MayHold(p, c),
           NEW u, u = (IF c \in Fragments THEN seen[c] ELSE <<c>>)
    PROVE  /\ u \in Seq(Nodes) /\ NoDoubles(u) /\ c # p
           /\ ~Has(u, None) /\ \A x \in Nodes \ {c} : parent[x] = p => ~Has(u, x)
<1>1. c # p
  BY PlaceIsInner
<1>2. CASE c \in Fragments
  <2>1. u = seen[c]
    BY <1>2
  <2> QED
    BY <1>1, <2>1, SeenInOrder, NoneIsNoNode
<1>3. CASE c \notin Fragments
  <2>1. u = <<c>> /\ u \in Seq(Nodes)
    BY <1>3
  <2>2. NoDoubles(u)
    BY <2>1 DEF NoDoubles
  <2> QED
    BY <1>1, <2>1, <2>2, OneOrder, NoneIsNoNode
<1> QED
  BY <1>2, <1>3

(* The job of an insertion has these nodes to place. *)
LEMMA InsertingThese ==
    ASSUME IInv, ListsOK, NEW p, NEW c \in Nodes, NEW ref, job' = Inserting(p, c, ref),
           c \in Fragments => seen'[c] = seen[c]
    PROVE  /\ job'.op = (IF c \in Fragments THEN "splice" ELSE "place") /\ job'.node = p /\ job'.ref = ref
           /\ Coming' = IF c \in Fragments THEN seen[c] ELSE <<c>>
<1>1. CASE c \in Fragments
  <2>1. job'.op = "splice" /\ job'.node = p /\ job'.ref = ref /\ job'.from = c
    BY <1>1 DEF Inserting, Job
  <2>2. c # None
    BY NoneIsNoNode
  <2> QED
    BY <1>1, <2>1, <2>2 DEF Coming, Behind
<1>2. CASE c \notin Fragments
  <2>1. /\ job'.op = "place" /\ job'.node = p /\ job'.ref = ref /\ job'.child = c /\ job'.from = None
        /\ job'.todo = <<>>
    BY <1>2 DEF Inserting, Job
  <2>2. <<c>> \o <<>> = <<c>>
    <3>1. <<c>> \in Seq(Nodes)
      OBVIOUS
    <3> QED
      BY <3>1, ConcatEmptySeq
  <2> QED
    BY <1>2, <2>1, <2>2 DEF Coming, Behind
<1> QED
  BY <1>1, <1>2

(* AppendChild and InsertBefore begin. *)
LEMMA InsertBegins ==
    ASSUME IInv, ListsOK, KidsAreSeen, NEW p \in Containers, NEW c \in Nodes, MayHold(p, c),
           NEW r \in Nodes \cup {None}, r # c, r # None => parent[r] = p,
           Begin([op |-> "insert", parent |-> p, child |-> c, ref |-> r], Inserting(p, c, r)),
           UNCHANGED <<links, empty, seen>>
    PROVE  WayOK'
<1>1. /\ call'.op = "insert" /\ call'.parent = p /\ call'.child = c /\ call'.ref = r
      /\ before' = seen /\ job' = Inserting(p, c, r) /\ p \in Nodes
  BY DEF Begin, KidsAreSeen, Nodes
<1>2. PICK u : u = IF c \in Fragments THEN seen[c] ELSE <<c>>
  OBVIOUS
<1>3. u \in Seq(Nodes) /\ NoDoubles(u) /\ ~Has(u, r)
  BY <1>2, InsertedNodes
<1>4. /\ job'.op \in {"splice", "place"} /\ job'.node = p /\ job'.ref = r /\ Coming' = u
  BY <1>1, <1>2, InsertingThese
<1>5. PICK W : W = MovedThen(u, r)'
  OBVIOUS
<1>6. W \in [Nodes -> Seq(Nodes)] /\ OnTheWay(W, seen, u, p, r)
  BY <1>1, <1>3, <1>5, MovedOK
<1>7. InsertedThen(c)' = u
  BY <1>1, <1>2 DEF InsertedThen
<1>8. Wanted' = W
  BY <1>1, <1>5, <1>7 DEF Wanted, MovedThen
<1>9. WantedOK'
  BY <1>1, <1>6, <1>8 DEF WantedOK
<1>10. PlaceOK'
  BY <1>3, <1>4, <1>6, <1>8, <1>9 DEF PlaceOK
<1> QED
  BY <1>4, <1>10 DEF WayOK

(* The list of n when old, in p, is replaced by u. *)
ReplacedIn(n, p, u, old) ==
    LET rest == Tree!Without(seen[n], Tree!Members(u))
    IN Tree!Without(IF n = p THEN Tree!Before(rest, u, old) ELSE rest, {old})

LEMMA ReplacingThese ==
    ASSUME NEW p, NEW u, NEW old, before' = seen, call'.parent = p, NEW W, W = ReplacedThen(u, old)'
    PROVE  W = [n \in Nodes |-> ReplacedIn(n, p, u, old)]
<1>1. MovedThen(u, old)' = [n \in Nodes |-> LET rest == Tree!Without(seen[n], Tree!Members(u))
                                            IN IF n = p THEN Tree!Before(rest, u, old) ELSE rest]
  BY DEF MovedThen
<1>2. W = [n \in Nodes |-> Tree!Without(MovedThen(u, old)'[n], {old})]
  BY DEF ReplacedThen
<1>3. ASSUME NEW n \in Nodes PROVE Tree!Without(MovedThen(u, old)'[n], {old}) = ReplacedIn(n, p, u, old)
  BY <1>1 DEF ReplacedIn
<1> QED
  BY <1>2, <1>3

(* The replacement of a node by the children of a fragment begins. *)
LEMMA ReplaceByManyBegins ==
    ASSUME IInv, ListsOK, ListsOK', KidsAreSeen, NEW p \in Containers, NEW c \in Fragments, MayHold(p, c),
           NEW old \in Nodes \ {c}, parent[old] = p,
           Begin([op |-> "replace", parent |-> p, child |-> c, old |-> old], Inserting(p, c, next[old])),
           Unlink(old), UNCHANGED empty
    PROVE  WayOK'
<1>1. /\ call'.op = "replace" /\ call'.parent = p /\ call'.child = c /\ call'.old = old
      /\ before' = seen /\ job' = Inserting(p, c, next[old]) /\ p \in Nodes /\ c \in Nodes
      /\ old # None
  BY NoneIsNoNode DEF Begin, KidsAreSeen, Nodes, Containers
<1>2. PICK u : u = seen[c]
  OBVIOUS
<1>3. u \in Seq(Nodes) /\ NoDoubles(u) /\ c # p /\ ~Has(u, None) /\ \A x \in Nodes \ {c} : parent[x] = p => ~Has(u, x)
  BY <1>1, <1>2, InsertedNodes
<1>4. PICK nx : nx = next[old]
  OBVIOUS
<1>5. ~Has(u, nx)
  <2>1. nx # None => nx \in Nodes /\ parent[nx] = p
    BY <1>4 DEF IInv, LinksOK, LinksTyped, LinksAgree, Agrees
  <2>2. parent[c] = None /\ p # None
    BY <1>1, NoneIsNoNode DEF IInv, LinksOK, LinksAgree, Agrees
  <2> QED
    BY <1>3, <2>1, <2>2
<1>6. (\A n \in Nodes \ {p} : seen'[n] = seen[n]) /\ IsWithout(seen'[p], seen[p], {old})
  BY <1>1, UnlinkOrder DEF IInv
<1>7. job'.op = "splice" /\ job'.node = p /\ job'.ref = nx /\ Coming' = u
  BY <1>1, <1>2, <1>3, <1>4, <1>6, InsertingThese
<1>8. PICK W : W = ReplacedThen(u, old)'
  OBVIOUS
<1>9. W = [n \in Nodes |-> ReplacedIn(n, p, u, old)]
  BY <1>1, <1>8, ReplacingThese
<1>10. ASSUME NEW n \in Nodes
       PROVE  W[n] \in Seq(Nodes) /\ IF n = p THEN IsPlaced(W[n], seen'[n], u, nx) ELSE IsLeft(W[n], seen'[n], u)
  <2>1. PICK s, t : s = seen[n] /\ t = W[n]
    OBVIOUS
  <2>2. s \in Seq(Nodes) /\ NoDoubles(s)
    BY <2>1, SeenInOrder
  <2>3. t = Tree!Without(IF n = p THEN Tree!Before(Tree!Without(s, Tree!Members(u)), u, old)
                         ELSE Tree!Without(s, Tree!Members(u)), {old})
    BY <1>9, <2>1 DEF ReplacedIn
  <2>4. CASE n = p
    <3>1. Has(s, old) /\ Follows(s, old, nx)
      BY <1>4, <2>1, <2>4, SeenInOrder
    <3>2. t = Tree!Without(Tree!Before(Tree!Without(s, Tree!Members(u)), u, old), {old})
      BY <2>3, <2>4
    <3>3. \A y : Goes(s, old, y) <=> FromOn(s, y, nx)
      BY <3>1 DEF Follows
    <3>4. PICK r : r = seen'[n]
      OBVIOUS
    <3>5. IsWithout(r, s, {old})
      BY <1>6, <2>1, <2>4, <3>4
    <3>6. ~Has(u, old)
      BY <1>3
    <3>7. t \in Seq(Nodes) /\ IsPlaced(t, r, u, nx)
      BY <1>1, <1>3, <2>2, <3>1, <3>2, <3>3, <3>5, <3>6, MovedInPlace
    <3> QED
      BY <2>1, <2>4, <3>4, <3>7
  <2>5. CASE n # p
    <3>1. t = Tree!Without(Tree!Without(seen[n], Tree!Members(u)), {old})
      BY <2>1, <2>3, <2>5
    <3>2. t \in Seq(Nodes) /\ IsLeft(t, seen[n], u)
      BY <2>5, <3>1, ReplacedElsewhere
    <3> QED
      BY <1>6, <2>1, <2>5, <3>2
  <2> QED
    BY <2>4, <2>5
<1>11. W \in [Nodes -> Seq(Nodes)] /\ OnTheWay(W, seen', u, p, nx)
  <2>1. W \in [Nodes -> Seq(Nodes)]
    BY <1>9, <1>10
  <2> QED
    BY <1>10, <2>1 DEF OnTheWay
<1>12. InsertedThen(c)' = u
  BY <1>1, <1>2 DEF InsertedThen
<1>13. Wanted' = W
  BY <1>1, <1>8, <1>12 DEF Wanted, ReplacedThen, MovedThen
<1>14. WantedOK'
  BY <1>1, <1>11, <1>13 DEF WantedOK
<1>15. PlaceOK'
  BY <1>3, <1>5, <1>7, <1>11, <1>13, <1>14 DEF PlaceOK
<1> QED
  BY <1>7, <1>15 DEF WayOK

(* The replacement of a node by another begins. *)
LEMMA ReplaceByOneBegins ==
    ASSUME IInv, ListsOK, KidsAreSeen, NEW p \in Containers, NEW c \in Nodes \ Fragments, MayHold(p, c),
           NEW old \in Nodes \ {c}, parent[old] = p,
           Begin([op |-> "replace", parent |-> p, child |-> c, old |-> old], Job("swap", p, c, old)),
           UNCHANGED <<links, empty, seen>>
    PROVE  WayOK'
<1>1. /\ call'.op = "replace" /\ call'.parent = p /\ call'.child = c /\ call'.old = old
      /\ before' = seen /\ p \in Nodes /\ old # None
  BY NoneIsNoNode DEF Begin, KidsAreSeen, Nodes, Containers
<1>2. job'.op = "swap" /\ job'.node = p /\ job'.child = c /\ job'.ref = old
  BY DEF Begin, Job
<1>3. PICK u : u = <<c>>
  OBVIOUS
<1>4. PICK W : W = ReplacedThen(u, old)'
  OBVIOUS
<1>5. W = [n \in Nodes |-> ReplacedIn(n, p, u, old)]
  BY <1>1, <1>4, ReplacingThese
<1>6. ASSUME NEW n \in Nodes
      PROVE  W[n] \in Seq(Nodes) /\ IF n = p THEN IsToSwap(W[n], seen[n], c, old) ELSE IsLeft(W[n], seen[n], u)
  <2>1. PICK s, t : s = seen[n] /\ t = W[n]
    OBVIOUS
  <2>2. s \in Seq(Nodes) /\ NoDoubles(s)
    BY <2>1, SeenInOrder
  <2>3. t = Tree!Without(IF n = p THEN Tree!Before(Tree!Without(s, Tree!Members(u)), u, old)
                         ELSE Tree!Without(s, Tree!Members(u)), {old})
    BY <1>5, <2>1 DEF ReplacedIn
  <2>4. CASE n = p
    <3>1. Has(s, old)
      BY <2>1, <2>4, SeenInOrder
    <3>2. t = Tree!Without(Tree!Before(Tree!Without(s, Tree!Members(<<c>>)), <<c>>, old), {old})
      BY <1>3, <2>3, <2>4
    <3>3. t \in Seq(Nodes) /\ IsToSwap(t, s, c, old)
      BY <1>1, <2>2, <3>1, <3>2, SwapBegun
    <3> QED
      BY <2>1, <2>4, <3>3
  <2>5. CASE n # p
    <3>1. t = Tree!Without(Tree!Without(seen[n], Tree!Members(u)), {old})
      BY <2>1, <2>3, <2>5
    <3>2. t \in Seq(Nodes) /\ IsLeft(t, seen[n], u)
      BY <2>5, <3>1, ReplacedElsewhere
    <3> QED
      BY <2>1, <2>5, <3>2
  <2> QED
    BY <2>4, <2>5
<1>7. W \in [Nodes -> Seq(Nodes)] /\ ToSwap(W, seen, c, p, old)
  <2>1. W \in [Nodes -> Seq(Nodes)]
    BY <1>5, <1>6
  <2> QED
    BY <1>3, <1>6, <2>1 DEF ToSwap
<1>8. InsertedThen(c)' = u
  BY <1>1, <1>3 DEF InsertedThen
<1>9. Wanted' = W
  BY <1>1, <1>4, <1>8 DEF Wanted, ReplacedThen, MovedThen
<1>10. SwapOK'
  BY <1>1, <1>2, <1>7, <1>9 DEF SwapOK, WantedOK
<1> QED
  BY <1>2, <1>10 DEF WayOK

-----------------------------------------------------------------------------
(* A node that has no parent is in no list. *)
LEMMA NoneIsTaken ==
    ASSUME IInv, ListsOK, NEW new, \A x : Has(new, x) => x \in Nodes /\ parent[x] = None, NEW n \in Nodes
    PROVE  IsLeft(seen[n], seen[n], new)
<1>1. ASSUME NEW x, Has(seen[n], x) PROVE ~Has(new, x)
  <2>1. parent[x] = n
    BY <1>1, SeenInOrder
  <2> QED
    BY <2>1, NoneIsNoNode
<1>2. \A x, y : Goes(seen[n], x, y) => Has(seen[n], x) /\ Has(seen[n], y)
  BY SeenInOrder DEF Ordered
<1> QED
  BY <1>1, <1>2 DEF IsLeft

(* SetTextContent and SetInnerHTML begin. *)
LEMMA RefillBegins ==
    ASSUME IInv, ListsOK, KidsAreSeen, NEW p \in Nodes, NEW new \in Seq(Nodes), NoDoubles(new),
           \A x : Has(new, x) => parent[x] = None, Refill(p, new)
    PROVE  WayOK'
<1>1. /\ call'.op = "refill" /\ call'.parent = p /\ call'.new = new /\ before' = seen
      /\ job'.op = "clear" /\ job'.node = p /\ job'.todo = new /\ UNCHANGED seen
  BY DEF Refill, Begin, Job, KidsAreSeen
<1>2. Wanted' = [seen EXCEPT ![p] = new]
  BY <1>1 DEF Wanted
<1>3. seen \in [Nodes -> Seq(Nodes)]
  BY DEF ListsOK
<1>4. \A x : Has(new, x) => x \in Nodes
  BY OneAfterAnother
<1>5. ToClear([seen EXCEPT ![p] = new], seen, new, p)
  BY <1>3, <1>4, NoneIsTaken DEF ToClear
<1>6. ClearOK'
  BY <1>1, <1>2, <1>3, <1>5 DEF ClearOK, WantedOK
<1> QED
  BY <1>1, <1>6 DEF WayOK

LEMMA TwoOrder ==
    ASSUME NEW m \in Nodes, NEW n \in Nodes \ {m}
    PROVE  <<m, n>> \in Seq(Nodes) /\ NoDoubles(<<m, n>>) /\ \A x : Has(<<m, n>>, x) <=> x = m \/ x = n
<1>1. <<m, n>> \in Seq(Nodes) /\ DOMAIN <<m, n>> = {1, 2}
  OBVIOUS
<1>2. NoDoubles(<<m, n>>)
  BY <1>1 DEF NoDoubles
<1>3. \A x : Has(<<m, n>>, x) <=> x = m \/ x = n
  BY <1>1 DEF Has
<1> QED
  BY <1>1, <1>2, <1>3

LEMMA OneAlone ==
    ASSUME NEW n \in Nodes
    PROVE  <<n>> \in Seq(Nodes) /\ NoDoubles(<<n>>) /\ \A x : Has(<<n>>, x) <=> x = n
<1>1. <<n>> \in Seq(Nodes) /\ NoDoubles(<<n>>)
  BY DEF NoDoubles
<1>2. \A x : Has(<<n>>, x) <=> x = n
  BY OneOrder
<1> QED
  BY <1>1, <1>2

LEMMA TextBegins ==
    ASSUME IInv, ListsOK, KidsAreSeen, NEW p \in Elements \cup Fragments, SetTextContent(p) \/ SetInnerHTML(p)
    PROVE  WayOK'
<1>1. p \in Nodes /\ Texts \cup Elements \subseteq Nodes
  BY DEF Nodes, Containers
<1>2. ASSUME Refill(p, <<>>) PROVE WayOK'
  <2>1. <<>> \in Seq(Nodes) /\ NoDoubles(<<>>) /\ \A x : ~Has(<<>>, x)
    BY EmptyOrder DEF NoDoubles
  <2> QED
    BY <1>1, <1>2, <2>1, RefillBegins
<1>3. ASSUME NEW n \in Texts \cup Elements, Fresh(n), Refill(p, <<n>>) PROVE WayOK'
  <2>1. PICK u : u = <<n>>
    OBVIOUS
  <2>2. u \in Seq(Nodes) /\ NoDoubles(u) /\ \A x : Has(u, x) => parent[x] = None
    BY <1>1, <1>3, <2>1, OneAlone DEF Fresh
  <2> QED
    BY <1>1, <1>3, <2>1, <2>2, RefillBegins
<1>4. ASSUME NEW m \in Texts \cup Elements, NEW n \in Texts \cup Elements, m # n,
             Fresh(m), Fresh(n), Refill(p, <<m, n>>)
      PROVE  WayOK'
  <2>1. PICK u : u = <<m, n>>
    OBVIOUS
  <2>2. u \in Seq(Nodes) /\ NoDoubles(u) /\ \A x : Has(u, x) => parent[x] = None
    BY <1>1, <1>4, <2>1, TwoOrder DEF Fresh
  <2> QED
    BY <1>1, <1>4, <2>1, <2>2, RefillBegins
<1> QED
  BY <1>2, <1>3, <1>4 DEF SetTextContent, SetInnerHTML

(* No node below the one to be normalized has been come to. *)
LEMMA NormalizeBegins ==
    ASSUME IInv, ListsOK, KidsAreSeen, NEW p \in Containers, Normalize(p)
    PROVE  WayOK'
<1>1. /\ call'.op = "normalize" /\ call'.parent = p /\ before' = seen /\ p \in Nodes
      /\ job'.op = "normalize" /\ job'.node = p /\ job'.ref = first[p] /\ job'.scope = {}
      /\ UNCHANGED <<seen, empty>>
  BY DEF Normalize, Begin, Job, KidsAreSeen, Nodes
<1>2. Known(Texts)' = Texts \cup {p}
  BY <1>1 DEF Known
<1>3. seen \in [Nodes -> Seq(Nodes)] /\ \A n \in Nodes : NoDoubles(seen[n])
  BY SeenInOrder DEF ListsOK
<1>4. \A n \in Nodes : SameKept(empty, seen[n], seen[n])
  BY DEF SameKept
<1>5. ASSUME NEW n \in Texts, NEW x PROVE ~Has(seen[n], x)
  <2>1. n \in Nodes
    BY DEF Nodes
  <2>2. first[n] = None
    BY <2>1 DEF IInv, LinksOK, LinksAgree, Agrees
  <2> QED
    BY <2>1, <2>2, SeenInOrder DEF FromOn
<1>6. \A n \in Texts : Settled(empty, seen[n])
  BY <1>5 DEF Settled
<1>7. p \in BelowIn(seen, p)
  BY <1>1 DEF BelowIn
<1>8. \A x : Has(seen[p], x) => FromOn(seen[p], x, first[p])
  BY <1>1, SeenInOrder
<1>9. Passed(empty, seen[p], first[p])
  BY <1>1, SeenInOrder, PassedNone
<1>10. Normalizing(Texts)'
  BY <1>1, <1>2, <1>3, <1>4, <1>5, <1>6, <1>7, <1>8, <1>9 DEF Normalizing
<1>11. NormalizeOK'
  <2>1. Texts \in SUBSET Nodes
    BY DEF Nodes
  <2> QED
    BY <1>10, <2>1 DEF NormalizeOK
<1> QED
  BY <1>1, <1>11 DEF WayOK

(* The way is right when a call begins, ... *)
LEMMA CallBegins ==
    ASSUME IInv, ListsOK, ListsOK', KidsAreSeen, WayOK, Call
    PROVE  WayOK'
<1>1. ASSUME NEW p \in Containers, NEW c \in Nodes, MayHold(p, c), AppendChild(p, c)
      PROVE  WayOK'
  <2>1. None # c
    BY NoneIsNoNode
  <2> QED
    BY <1>1, <2>1, InsertBegins DEF AppendChild
<1>2. ASSUME NEW p \in Containers, NEW c \in Nodes, MayHold(p, c), NEW r \in Nodes \ {c}, parent[r] = p,
             InsertBefore(p, c, r)
      PROVE  WayOK'
  BY <1>2, InsertBegins DEF InsertBefore
<1>3. ASSUME NEW p \in Containers, NEW c \in Nodes, MayHold(p, c), NEW r \in Nodes \ {c}, parent[r] = p,
             ReplaceChild(p, c, r)
      PROVE  WayOK'
  <2>1. CASE c \in Fragments
    BY <1>3, <2>1, ReplaceByManyBegins DEF ReplaceChild
  <2>2. CASE c \notin Fragments
    BY <1>3, <2>2, ReplaceByOneBegins DEF ReplaceChild
  <2> QED
    BY <2>1, <2>2
<1>4. ASSUME NEW c \in Nodes, RemoveChild(c) PROVE WayOK'
  BY <1>4 DEF RemoveChild, Doing, WayOK
<1>5. ASSUME NEW p \in Elements \cup Fragments, SetTextContent(p) \/ SetInnerHTML(p) PROVE WayOK'
  BY <1>5, TextBegins
<1>6. ASSUME NEW p \in Containers, Normalize(p) PROVE WayOK'
  BY <1>6, NormalizeBegins
<1>7. ASSUME NEW t \in Texts, SetData(t) PROVE WayOK'
  BY <1>7 DEF SetData, Doing, WayOK
<1> QED
  BY <1>1, <1>2, <1>3, <1>4, <1>5, <1>6, <1>7 DEF Call

(* ... and at each of its steps; the last one leaves the lists as NodeTree *)
(* wants them.                                                             *)
LEMMA StepGoesOn ==
    ASSUME IInv, ListsOK, ListsOK', WayOK, Step
    PROVE  WayOK' /\ (Going \/ Finishing(Wanted) \/ Finishing(Normal))
BY DetachGoesOn, PlaceGoesOn, SwapGoesOn, SpliceGoesOn, SpliceEnds, ClearGoesOn, ClearEnds,
   DropGoesOn, MergeGoesOn, PassGoesOn, EnterGoesOn DEF Step

LEMMA WayStays ==
    ASSUME WayOK, UNCHANGED vars
    PROVE  WayOK'
<1>1. /\ seen' = seen /\ job' = job /\ call' = call /\ before' = before /\ empty' = empty
  BY DEF vars
<1>2. Wanted' = Wanted /\ (WantedOK => WantedOK')
  BY <1>1, WantedStays
<1>3. Coming' = Coming
  BY <1>1 DEF Coming, Behind
<1>4. PlaceOK => PlaceOK'
  BY <1>1, <1>2, <1>3 DEF PlaceOK
<1>5. ClearOK => ClearOK'
  BY <1>1, <1>2 DEF ClearOK
<1>6. SwapOK => SwapOK'
  BY <1>1, <1>2 DEF SwapOK
<1>7. NormalizeOK => NormalizeOK'
  BY <1>1 DEF NormalizeOK, Normalizing, Known
<1> QED
  BY <1>1, <1>4, <1>5, <1>6, <1>7 DEF WayOK

(* A call in progress always has the right things left to do.              *)
THEOREM AlwaysOnTheWay == Spec => [](IInv /\ ListsOK /\ WayOK)
<1>1. Init => WayOK
  BY DEF Init, Idle, Job, WayOK
<1>2. ASSUME IInv, ListsOK, ListsOK', WayOK, [Next]_vars PROVE WayOK'
  <2>1. KidsAreSeen
    BY <1>2, ChildNodesAreSeen
  <2>2. CASE Call
    BY <1>2, <2>1, <2>2, CallBegins
  <2>3. CASE Step
    BY <1>2, <2>3, StepGoesOn
  <2>4. CASE UNCHANGED vars
    BY <1>2, <2>4, WayStays
  <2> QED
    BY <1>2, <2>2, <2>3, <2>4 DEF Next
<1> QED
  BY <1>1, <1>2, AlwaysLists, PTL DEF Spec

(* The lists that NodeTree sees. *)
Shown == IF call = NoCall THEN [n \in Nodes |-> ChildNodes(n)] ELSE before
TreeStep == [Tree!Next]_<<Shown, empty, call>>

LEMMA ShownIs ==
    ASSUME KidsAreSeen
    PROVE  Shown = IF call = NoCall THEN seen ELSE before
BY DEF KidsAreSeen, Shown

LEMMA ShownThen ==
    ASSUME KidsAreSeen'
    PROVE  Shown' = IF call' = NoCall THEN seen' ELSE before'
BY DEF KidsAreSeen, Shown

(* Step by step, what NodeTree sees of DomTree. *)
LEMMA BeginIsBegin ==
    ASSUME KidsAreSeen, KidsAreSeen', call = NoCall, NEW q, q # NoCall, NEW todo, Begin(q, todo),
           empty' \subseteq empty
    PROVE  TreeStep
<1>1. before' = seen /\ call' # NoCall
  BY DEF Begin, KidsAreSeen
<1>2. Shown = seen /\ Shown' = seen
  BY <1>1, ShownIs, ShownThen
<1>3. Tree!Begin
  BY <1>1, <1>2 DEF Tree!Begin, Tree!NoCall, NoCall, Shown
<1> QED
  BY <1>3 DEF TreeStep, Tree!Next, Shown


(* In the middle of a call, NodeTree speaks of the lists from before it. *)
LEMMA ShownMoved ==
    ASSUME call # NoCall, NEW nodes, NEW ref
    PROVE  Tree!Moved(nodes, ref) = MovedThen(nodes, ref)
<1>1. Shown = before
  BY DEF Shown
<1> QED
  BY <1>1 DEF Tree!Moved, MovedThen, Shown

LEMMA ShownInserted ==
    ASSUME call # NoCall, NEW n
    PROVE  Tree!Inserted(n) = InsertedThen(n)
BY DEF Tree!Inserted, InsertedThen

LEMMA ShownReplaced ==
    ASSUME call # NoCall, NEW nodes, NEW old
    PROVE  [n \in Nodes |-> Tree!Without(Tree!Moved(nodes, old)[n], {old})] = ReplacedThen(nodes, old)
BY ShownMoved DEF ReplacedThen

(* A call that returns is a step of NodeTree. *)
LEMMA ReturnIsStep ==
    ASSUME KidsAreSeen', WantedOK, call # NoCall, Finishing(Wanted)
    PROVE  TreeStep
<1>1. call' = NoCall /\ seen' = Wanted /\ UNCHANGED empty
  BY DEF Finishing
<1>2. Shown' = Wanted /\ Shown = before
  BY <1>1, ShownThen DEF Shown
<1>3. Tree!Return
  BY <1>1 DEF Tree!Return, Tree!NoCall, NoCall
<1>4. CASE call.op = "insert"
  <2>1. Wanted = MovedThen(InsertedThen(call.child), call.ref)
    BY <1>4 DEF Wanted
  <2>2. Shown' = Tree!Moved(Tree!Inserted(call.child), call.ref)
    BY <1>2, <2>1, ShownMoved, ShownInserted
  <2>3. Tree!Insert
    BY <1>3, <1>4, <2>2 DEF Tree!Insert, Shown
  <2> QED
    BY <2>3 DEF TreeStep, Tree!Next, Shown
<1>5. CASE call.op = "replace"
  <2>1. Wanted = ReplacedThen(InsertedThen(call.child), call.old)
    BY <1>5 DEF Wanted
  <2>2. Shown' = [n \in Nodes |-> Tree!Without(Tree!Moved(Tree!Inserted(call.child), call.old)[n], {call.old})]
    BY <1>2, <2>1, ShownReplaced, ShownInserted
  <2>3. Tree!Replace
    BY <1>3, <1>5, <2>2 DEF Tree!Replace, Shown
  <2> QED
    BY <2>3 DEF TreeStep, Tree!Next, Shown
<1>6. CASE call.op = "refill"
  <2>1. Wanted = [before EXCEPT ![call.parent] = call.new]
    BY <1>6 DEF Wanted
  <2>2. Shown' = [Shown EXCEPT ![call.parent] = call.new]
    BY <1>2, <2>1
  <2>3. Tree!Refill
    BY <1>3, <1>6, <2>2 DEF Tree!Refill, Shown
  <2> QED
    BY <2>3 DEF TreeStep, Tree!Next, Shown
<1> QED
  BY <1>4, <1>5, <1>6 DEF WantedOK

LEMMA ShownBelow ==
    ASSUME call # NoCall, NEW n
    PROVE  Tree!Below(n) = BelowIn(before, n)
BY DEF Tree!Below, BelowIn

LEMMA NormalIsStep ==
    ASSUME KidsAreSeen', call # NoCall, call.op = "normalize", Finishing(Normal)
    PROVE  TreeStep
<1>1. call' = NoCall /\ seen' = Normal /\ UNCHANGED empty
  BY DEF Finishing
<1>2. Shown' = Normal /\ Shown = before
  BY <1>1, ShownThen DEF Shown
<1>3. Tree!Return
  BY <1>1 DEF Tree!Return, Tree!NoCall, NoCall
<1>4. Normal = [n \in Nodes |-> IF n \in Tree!Below(call.parent) THEN Tree!Merged(Shown[n]) ELSE Shown[n]]
  BY <1>2, ShownBelow DEF Normal
<1>5. Tree!Normalize
  BY <1>2, <1>3, <1>4 DEF Tree!Normalize, Shown
<1> QED
  BY <1>5 DEF TreeStep, Tree!Next, Shown

(* In the middle of a call NodeTree sees nothing. *)
LEMMA GoingIsStutter ==
    ASSUME call # NoCall, Going
    PROVE  TreeStep
<1>1. Shown' = Shown /\ call' = call /\ empty' = empty
  BY DEF Going, Shown
<1> QED
  BY <1>1 DEF TreeStep

LEMMA StepIsStep ==
    ASSUME IInv, ListsOK, ListsOK', WayOK, KidsAreSeen, KidsAreSeen', Step
    PROVE  TreeStep
<1>1. job.op # "idle"
  BY DEF Step, Detach, PlaceLast, PlaceBefore, SwapIn, SpliceNext, SpliceDone, ClearNext, ClearDone,
         DropEmpty, MergeNext, PassOn, EnterNext, LooksAt, Doing
<1>2. call # NoCall
  BY <1>1 DEF IInv, CallOK
<1>3. CASE Going
  BY <1>2, <1>3, GoingIsStutter
<1>4. CASE ~Going
  <2>1. CASE EnterNext
    <3>1. Finishing(Normal)
      BY <1>4, <2>1, EnterGoesOn
    <3>2. NormalizeOK
      BY <2>1 DEF EnterNext, Doing, WayOK
    <3>3. call.op = "normalize"
      BY <3>2 DEF NormalizeOK, Normalizing
    <3> QED
      BY <1>2, <3>1, <3>3, NormalIsStep
  <2>2. CASE PlaceLast \/ PlaceBefore \/ SwapIn \/ SpliceDone \/ ClearDone
    <3>1. Finishing(Wanted)
      BY <1>4, <2>2, PlaceGoesOn, SwapGoesOn, SpliceEnds, ClearEnds
    <3>2. job.op \in {"place", "swap", "splice", "clear"}
      BY <2>2 DEF PlaceLast, PlaceBefore, SwapIn, SpliceDone, ClearDone, Doing
    <3>3. WantedOK
      BY <3>2 DEF WayOK, PlaceOK, SwapOK, ClearOK
    <3> QED
      BY <1>2, <3>1, <3>3, ReturnIsStep
  <2>3. CASE Detach \/ SpliceNext \/ ClearNext \/ DropEmpty \/ MergeNext \/ PassOn
    BY <1>4, <2>3, DetachGoesOn, SpliceGoesOn, ClearGoesOn, DropGoesOn, MergeGoesOn, PassGoesOn
  <2> QED
    BY <2>1, <2>2, <2>3 DEF Step
<1> QED
  BY <1>3, <1>4

LEMMA RemoveIsRemove ==
    ASSUME IInv, ListsOK, ListsOK', KidsAreSeen, KidsAreSeen', NEW c \in Nodes, parent[c] # None, RemoveChild(c)
    PROVE  TreeStep
<1>1. job.op = "idle" /\ Unlink(c) /\ UNCHANGED <<empty, job, call, before>>
  BY DEF RemoveChild, Doing
<1>2. call = NoCall /\ call' = NoCall /\ empty' = empty
  BY <1>1 DEF IInv, CallOK
<1>3. Shown = seen /\ Shown' = seen'
  BY <1>2, ShownIs, ShownThen
<1>4. PICK p : p = parent[c]
  OBVIOUS
<1>5. p \in Nodes
  BY <1>4 DEF IInv, LinksOK, LinksTyped, Nodes
<1>6. (\A n \in Nodes \ {p} : seen'[n] = seen[n]) /\ IsWithout(seen'[p], seen[p], {c})
  BY <1>1, <1>4, <1>5, UnlinkOrder DEF IInv
<1>7. seen' \in [Nodes -> Seq(Nodes)] /\ \A n \in Nodes : NoDoubles(seen'[n])
  BY DEF ListsOK, Lists
<1>8. ASSUME NEW n \in Nodes PROVE seen'[n] = Tree!Without(seen[n], {c})
  <2>1. PICK s, t, r : s = seen[n] /\ t = Tree!Without(s, {c}) /\ r = seen'[n]
    OBVIOUS
  <2>2. s \in Seq(Nodes) /\ NoDoubles(s) /\ Ordered(s) /\ r \in Seq(Nodes) /\ NoDoubles(r)
    BY <1>7, <2>1, SeenInOrder
  <2>3. t \in Seq(Nodes) /\ IsWithout(t, s, {c}) /\ NoDoubles(t)
    BY <2>1, <2>2, WithoutOrder
  <2>4. IsWithout(r, s, {c})
    <3>1. CASE n = p
      BY <1>6, <2>1, <3>1
    <3>2. CASE n # p
      <4>1. r = s /\ ~Has(s, c)
        BY <1>4, <1>6, <2>1, <3>2, SeenInOrder
      <4>2. \A x, y : Goes(s, x, y) => x # c /\ y # c
        BY <2>2, <4>1 DEF Ordered
      <4> QED
        BY <4>1, <4>2 DEF IsWithout
    <3> QED
      BY <3>1, <3>2
  <2>5. SameOrder(r, t)
    BY <2>3, <2>4 DEF IsWithout, SameOrder
  <2> QED
    BY <2>1, <2>2, <2>3, <2>5, OrderTells
<1>9. Shown' = [n \in Nodes |-> Tree!Without(Shown[n], {c})]
  BY <1>3, <1>7, <1>8
<1>10. Tree!Remove(c)
  BY <1>2, <1>9 DEF Tree!Remove, Tree!NoCall, NoCall, Shown
<1> QED
  BY <1>10 DEF TreeStep, Tree!Next, Shown

LEMMA DataIsData ==
    ASSUME IInv, KidsAreSeen, KidsAreSeen', NEW t \in Texts, SetData(t)
    PROVE  TreeStep
<1>1. job.op = "idle" /\ call' = call /\ seen' = seen /\ empty' \subseteq empty \cup {t}
  BY DEF SetData, Doing
<1>2. call = NoCall /\ call' = NoCall /\ empty' \subseteq Texts
  BY <1>1 DEF IInv, CallOK
<1>3. Shown' = Shown
  BY <1>1, <1>2, ShownIs, ShownThen
<1>4. Tree!SetData
  BY <1>1, <1>2, <1>3 DEF Tree!SetData, Tree!NoCall, NoCall, Shown
<1> QED
  BY <1>4 DEF TreeStep, Tree!Next, Shown

LEMMA CallIsStep ==
    ASSUME IInv, ListsOK, ListsOK', KidsAreSeen, KidsAreSeen', Call
    PROVE  TreeStep
<1>1. ASSUME NEW q, NEW op, op # "none", q.op = op, NEW todo, Begin(q, todo), empty' \subseteq empty
      PROVE  TreeStep
  <2>1. q # NoCall
    BY <1>1, RequestIsCall
  <2>2. call = NoCall
    BY <1>1 DEF Begin, Doing, IInv, CallOK
  <2> QED
    BY <1>1, <2>1, <2>2, BeginIsBegin
<1>2. ASSUME NEW p, NEW c, NEW r, AppendChild(p, c) \/ InsertBefore(p, c, r) \/ ReplaceChild(p, c, r) PROVE TreeStep
  <2>1. CASE AppendChild(p, c)
    BY <1>1, <2>1 DEF AppendChild
  <2>2. CASE InsertBefore(p, c, r)
    BY <1>1, <2>2 DEF InsertBefore
  <2>3. CASE ReplaceChild(p, c, r)
    BY <1>1, <2>3 DEF ReplaceChild
  <2> QED
    BY <1>2, <2>1, <2>2, <2>3
<1>3. ASSUME NEW p, NEW new, Refill(p, new) PROVE TreeStep
  BY <1>1, <1>3 DEF Refill
<1>4. ASSUME NEW p, SetTextContent(p) \/ SetInnerHTML(p) PROVE TreeStep
  BY <1>3, <1>4 DEF SetTextContent, SetInnerHTML
<1>5. ASSUME NEW p, Normalize(p) PROVE TreeStep
  BY <1>1, <1>5 DEF Normalize
<1> QED
  BY <1>2, <1>4, <1>5, RemoveIsRemove, DataIsData DEF Call

-----------------------------------------------------------------------------
(* The tree with pointers implements NodeTree: each call changes the lists *)
(* of children as one sentence says, whatever the steps in between do.     *)
THEOREM TreeIsImplemented == Spec => ImplementsNodeTree
<1> DEFINE All == IInv /\ ListsOK /\ WayOK
<1>1. ASSUME Init PROVE Tree!Init
  <2>1. IInv /\ ListsOK
    BY <1>1, InitOK, ListsInit
  <2>2. [n \in Nodes |-> ChildNodes(n)] = seen
    BY <2>1, ChildNodesAreSeen DEF KidsAreSeen
  <2> QED
    BY <1>1, <2>2 DEF Init, Tree!Init, Tree!NoCall, NoCall
<1>2. ASSUME All, All', [Next]_vars
      PROVE  [Tree!Next]_<<IF call = NoCall THEN [n \in Nodes |-> ChildNodes(n)] ELSE before, empty, call>>
  <2>1. KidsAreSeen
    BY <1>2, ChildNodesAreSeen
  <2>2. KidsAreSeen'
    <3>1. (IInv /\ ListsOK => KidsAreSeen)'
      BY ChildNodesAreSeen, PTL
    <3> QED
      BY <1>2, <3>1
  <2>3. CASE Call
    BY <1>2, <2>1, <2>2, <2>3, CallIsStep DEF TreeStep, Shown
  <2>4. CASE Step
    BY <1>2, <2>1, <2>2, <2>4, StepIsStep DEF TreeStep, Shown
  <2>5. CASE UNCHANGED vars
    <3>1. call' = call /\ empty' = empty /\ seen' = seen /\ before' = before
      BY <2>5 DEF vars
    <3>2. Shown' = Shown
      BY <2>1, <2>2, <3>1, ShownIs, ShownThen
    <3> QED
      BY <3>1, <3>2 DEF Shown
  <2> QED
    BY <1>2, <2>3, <2>4, <2>5 DEF Next
<1> QED
  BY <1>1, <1>2, AlwaysOnTheWay, PTL DEF Spec, ImplementsNodeTree, Tree!Spec

=============================================================================
