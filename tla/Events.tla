------------------------------- MODULE Events -------------------------------
(***************************************************************************)
(* Listeners and dispatchEvent (src/internal/js/binding_event.go), for     *)
(* events of one type.                                                     *)
(*                                                                         *)
(* The listeners of a node are a Go slice, and the loops of dispatchEvent  *)
(* range over what the slice was when they began: they keep its length and *)
(* its array.  removeEventListener shifts the array in place, which a loop *)
(* sees, until an append moves the slice to a new array.  A frame here     *)
(* holds the elements that its loop ranges over and whether the node's     *)
(* slice still has the same array.                                         *)
(*                                                                         *)
(* Left out: other types, which share nothing, preventDefault, and what a  *)
(* listener throws, which dispatchEvent ignores.                           *)
(***************************************************************************)
EXTENDS NodePath, Sublists, SequencesExt

CONSTANTS
    Listeners,      \* functions that scripts may register
    EventObjects,
    MaxListed,      \* bound on the listeners of a node
    MaxDepth        \* bound on dispatches inside each other

VARIABLES
    lists,          \* eventStore.listeners: of each node a sequence of [cb, capture]
    caps,           \* the capacity of each slice
    event,          \* of each object, target and currentTarget, and the dispatch that its
                    \* stopPropagation stops
    dispatches      \* the calls of dispatchEvent, the innermost last

eventVars == <<lists, caps, event, dispatches>>

Entries == [cb : Listeners, capture : BOOLEAN]
NoDispatch == 0

(* Capacities that append makes, and what they are after len of them. *)
Grown(cap) == IF cap = 0 THEN 1 ELSE 2 * cap
CapFor(len) ==
    LET cap[n \in 0..len] ==
          IF n = 0 THEN 0 ELSE IF n <= cap[n - 1] THEN cap[n - 1] ELSE Grown(cap[n - 1])
    IN cap[len]

-----------------------------------------------------------------------------
(* The loops that range over the array of a node see what is written to it. *)
Written(node, entries) ==
    [d \in DOMAIN dispatches |->
        IF dispatches[d].shared /\ dispatches[d].node = node
        THEN [dispatches[d] EXCEPT !.view = [i \in DOMAIN @ |-> IF i \in DOMAIN entries THEN entries[i] ELSE @[i]]]
        ELSE dispatches[d]]

Moved(node) ==
    [d \in DOMAIN dispatches |->
        [dispatches[d] EXCEPT !.shared = @ /\ dispatches[d].node # node]]

(* Bug: loops go on to what is appended. *)
AddListener_Seen(node, entry) ==
    /\ Len(lists[node]) < MaxListed
    /\ lists' = [lists EXCEPT ![node] = Append(@, entry)]
    /\ dispatches' = [d \in DOMAIN dispatches |->
                        IF dispatches[d].node = node THEN [dispatches[d] EXCEPT !.view = Append(@, entry)]
                        ELSE dispatches[d]]
    /\ UNCHANGED <<caps, event>>

AddListener(node, entry) ==
    LET len == Len(lists[node]) IN
    /\ len < MaxListed
    /\ lists' = [lists EXCEPT ![node] = Append(@, entry)]
    /\ IF len < caps[node]
       THEN /\ dispatches' = Written(node, [i \in {len + 1} |-> entry])
            /\ UNCHANGED caps
       ELSE /\ dispatches' = Moved(node)
            /\ caps' = [caps EXCEPT ![node] = Grown(@)]
    /\ UNCHANGED event

(* The first of those that are the same. *)
RemoveListener(node, entry) ==
    LET list == lists[node] IN
    \E at \in DOMAIN list :
          LET shifted == RemoveAt(list, at)
              written == Written(node, [i \in at..Len(shifted) |-> shifted[i]])
          IN /\ list[at] = entry /\ \A i \in 1..(at - 1) : list[i] # entry
             /\ lists' = [lists EXCEPT ![node] = shifted]
             /\ dispatches' = [d \in DOMAIN written |->
                                   [written[d] EXCEPT !.removed = @ \/ written[d].node = node]]
             /\ UNCHANGED <<caps, event>>

-----------------------------------------------------------------------------
(* dispatchEvent visits the nodes of its path: down to the target's parent *)
(* for listeners that capture, the target, and up again.                   *)
Visits(path, bubbles) ==
    LET n == Len(path) IN
    [i \in 1..(n - 1) |-> [node |-> path[n + 1 - i], phase |-> "capture"]]
    \o <<[node |-> path[1], phase |-> "target"]>>
    \o IF bubbles THEN [i \in 1..(n - 1) |-> [node |-> path[i + 1], phase |-> "bubble"]] ELSE <<>>

Wanted(phase, entry) ==
    CASE phase = "capture" -> entry.capture
      [] phase = "target" -> TRUE
      [] phase = "bubble" -> ~entry.capture

(* node, phase, view, shared and next are those of the loop; calling: a    *)
(* listener is running.  History: what the list of the node was at the     *)
(* start of the loop, who was called in the loop, whether a listener of    *)
(* the node was removed since, at which visit propagation was stopped, and *)
(* whether the event was dispatched again, in this loop or before.         *)
Dispatch(ev, target, bubbles) ==
    LET visits == Visits(Path(target), bubbles) IN
    /\ Len(dispatches) < MaxDepth
    /\ event' = [event EXCEPT ![ev].target = target, ![ev].stops = Len(dispatches) + 1]
    /\ dispatches' = Append([d \in DOMAIN dispatches |->
                                IF dispatches[d].ev = ev
                                THEN [dispatches[d] EXCEPT !.again = TRUE, !.againHere = TRUE]
                                ELSE dispatches[d]],
             [ev |-> ev, target |-> target, visits |-> visits, at |-> 0, node |-> None, phase |-> "none",
              view |-> <<>>, shared |-> FALSE, next |-> 1, stopped |-> FALSE, calling |-> FALSE,
              arrival |-> <<>>, called |-> <<>>, removed |-> FALSE, stoppedAt |-> 0,
              again |-> FALSE, againHere |-> FALSE])
    /\ UNCHANGED <<lists, caps>>

(* stopPropagation is that of the last dispatch of the event, also when    *)
(* that is over.                                                           *)
StopPropagation(ev) ==
    /\ dispatches' = [d \in DOMAIN dispatches |->
          [dispatches[d] EXCEPT !.stopped = @ \/ d = event[ev].stops,
                                !.stoppedAt = IF @ = 0 /\ dispatches[d].ev = ev /\ ~dispatches[d].again
                                              THEN dispatches[d].at ELSE @]]
    /\ UNCHANGED <<lists, caps, event>>

Innermost == dispatches[Len(dispatches)]
SetInnermost(d) == dispatches' = [dispatches EXCEPT ![Len(dispatches)] = d]
LoopOver == Innermost.next > Len(Innermost.view)
TargetStops == Innermost.phase = "target" /\ Innermost.stopped

LastVisit == Innermost.at = Len(Innermost.visits)
NextVisit == Innermost.visits[Innermost.at + 1]
Visiting(visit) ==
    [Innermost EXCEPT !.at = @ + 1, !.node = visit.node, !.phase = visit.phase,
                      !.view = lists[visit.node], !.shared = TRUE, !.next = 1,
                      !.arrival = lists[visit.node], !.called = <<>>,
                      !.removed = FALSE, !.againHere = FALSE]

Looping == dispatches # <<>> /\ ~Innermost.calling

(* Bug: currentTarget is not set for the target. *)
Visit_KeepsCurrent ==
    /\ Looping /\ LoopOver /\ ~Innermost.stopped /\ ~LastVisit
    /\ SetInnermost(Visiting(NextVisit))
    /\ event' = [event EXCEPT ![Innermost.ev].current = IF NextVisit.phase = "target" THEN @ ELSE NextVisit.node]
    /\ UNCHANGED <<lists, caps>>

Visit ==
    /\ Looping /\ LoopOver /\ ~Innermost.stopped /\ ~LastVisit
    /\ SetInnermost(Visiting(NextVisit))
    /\ event' = [event EXCEPT ![Innermost.ev].current = NextVisit.node]
    /\ UNCHANGED <<lists, caps>>

Call ==
    LET entry == Innermost.view[Innermost.next] IN
    /\ Looping /\ ~LoopOver /\ ~TargetStops
    /\ SetInnermost(IF Wanted(Innermost.phase, entry)
                    THEN [Innermost EXCEPT !.next = @ + 1, !.calling = TRUE, !.called = Append(@, entry)]
                    ELSE [Innermost EXCEPT !.next = @ + 1])
    /\ UNCHANGED <<lists, caps, event>>

ListenerReturns ==
    /\ dispatches # <<>> /\ Innermost.calling
    /\ SetInnermost([Innermost EXCEPT !.calling = FALSE])
    /\ UNCHANGED <<lists, caps, event>>

DispatchReturns ==
    /\ Looping
    /\ (LoopOver /\ (LastVisit \/ Innermost.stopped)) \/ TargetStops
    /\ dispatches' = Front(dispatches)
    /\ event' = [event EXCEPT ![Innermost.ev].stops = IF @ = Len(dispatches) THEN NoDispatch ELSE @]
    /\ UNCHANGED <<lists, caps>>

-----------------------------------------------------------------------------
(* A loop over the listeners of a node calls each that was there when it   *)
(* began, once and in order, whatever listeners do meanwhile, unless one   *)
(* of them is removed, or the target's loop is stopped.                    *)
EachOnce ==
    \A d \in Range(dispatches) : ~d.removed =>
        LET expected == Sublist(d.arrival, {i \in DOMAIN d.arrival :
                            d.phase = "target" \/ d.arrival[i].capture = (d.phase = "capture")})
        IN /\ IsPrefix(d.called, expected)
           /\ d.next > Len(d.view) /\ ~(d.phase = "target" /\ d.stopped) => d.called = expected

(* Listeners that add listeners, with or without removals, do not make a   *)
(* loop call more of them than it began with.                              *)
LoopsEnd == \A d \in Range(dispatches) : Len(d.called) <= Len(d.arrival)

(* Once a listener stopped the event, no other node sees it, unless the    *)
(* event was dispatched again before that.                                 *)
StopHolds == \A d \in Range(dispatches) : d.calling /\ d.stoppedAt # 0 => d.at = d.stoppedAt

(* A listener finds in the event the node it is registered on, and the     *)
(* target, unless a listener dispatched the event again: on this node, for *)
(* the one, at all, for the other.                                         *)
CurrentRight ==
    \A d \in Range(dispatches) : d.calling =>
        /\ ~d.againHere => event[d.ev].current = d.node
        /\ ~d.again => event[d.ev].target = d.target

=============================================================================
