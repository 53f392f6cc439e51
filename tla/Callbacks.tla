----------------------------- MODULE Callbacks -----------------------------
(***************************************************************************)
(* Listeners and mutation observers over one tree: scripts dispatch        *)
(* events, their listeners change the tree and the listeners, and the Go   *)
(* program that runs the scripts flushes the observers, whose callbacks    *)
(* change the tree and the observers.  One goroutine does all of it, so    *)
(* only what was called last goes on.                                      *)
(***************************************************************************)
EXTENDS Events, MutationObservers

CONSTANTS
    Root,
    InitialLists,           \* what listeners and
    InitialRegistry,        \* observers there may be before
    MaxCalls                \* bound on the calls of program and callbacks

ASSUME CallbacksAssumption ==
    /\ Root \in Nodes /\ None \notin Nodes \cup Observers
    /\ InitialLists \subseteq [Nodes -> Seq(Entries)]
    /\ Options \subseteq [types : SUBSET Types, subtree : BOOLEAN]
    /\ InitialRegistry \subseteq [Nodes -> Seq([mo : Observers, options : Options])]

VARIABLES
    stack,      \* dispatches and flushes, the innermost last
    calls

callbackVars == <<parent, eventVars, observerVars, stack, calls>>

CallbacksInit ==
    /\ parent = [n \in Nodes |-> IF n = Root THEN None ELSE Root]
    /\ lists \in InitialLists /\ caps = [n \in Nodes |-> CapFor(Len(lists[n]))]
    /\ event = [ev \in EventObjects |-> [target |-> None, current |-> None, stops |-> NoDispatch]]
    /\ dispatches = <<>>
    /\ registry \in InitialRegistry /\ ObserversInit
    /\ stack = <<>> /\ calls = 0

Inner == IF stack = <<>> THEN "program" ELSE Last(stack)
Program == Inner = "program"
Listener == Inner = "dispatch" /\ Innermost.calling
Callback == Inner = "flush" /\ LastFlush.calling # None

ACall == calls < MaxCalls /\ calls' = calls + 1

(* What a script calls. *)
EventCalls ==
    /\ Program \/ Listener
    /\ ACall
    /\ \/ /\ \E n \in Nodes, e \in Entries : AddListener(n, e) \/ RemoveListener(n, e)
          /\ UNCHANGED stack
       \/ /\ \E ev \in EventObjects, n \in Nodes, bubbles \in BOOLEAN : Dispatch(ev, n, bubbles)
          /\ stack' = Append(stack, "dispatch")
       \/ /\ \E d \in Range(dispatches) : StopPropagation(d.ev)
          /\ UNCHANGED stack
    /\ UNCHANGED <<parent, observerVars>>

(* What the Go program and the callbacks of observers call. *)
ObserverCalls ==
    /\ Program \/ Callback
    /\ ACall
    /\ \/ /\ \E mo \in Observers : TakeRecords(mo) \/ Disconnect(mo)
          /\ UNCHANGED stack
       \/ /\ \E mo \in Observers, n \in Nodes, o \in Options : Observe(mo, n, o)
          /\ UNCHANGED stack
       \/ Flush /\ stack' = Append(stack, "flush")
    /\ UNCHANGED <<parent, eventVars>>

(* What all of them call: a node is taken from its parent or put there; an *)
(* attribute is set.                                                       *)
Changes ==
    /\ Program \/ Listener \/ Callback
    /\ ACall
    /\ \/ \E n \in Nodes \ {Root} :
             /\ Notify(Root, "childList")
             /\ parent' = [parent EXCEPT ![n] = IF @ = Root THEN None ELSE Root]
       \/ \E n \in Nodes : Notify(n, "attributes") /\ UNCHANGED parent
    /\ UNCHANGED <<eventVars, stack>>

DispatchGoesOn ==
    /\ Inner = "dispatch"
    /\ \/ (Visit \/ Call \/ ListenerReturns) /\ UNCHANGED stack
       \/ DispatchReturns /\ stack' = Front(stack)
    /\ UNCHANGED <<parent, observerVars, calls>>

FlushGoesOn ==
    /\ Inner = "flush"
    /\ \/ (Deliver \/ CallbackReturns \/ NextBatch) /\ UNCHANGED stack
       \/ FlushReturns /\ stack' = Front(stack)
    /\ UNCHANGED <<parent, eventVars, calls>>

CallbacksNext == EventCalls \/ ObserverCalls \/ Changes \/ DispatchGoesOn \/ FlushGoesOn

CallbacksSpec == CallbacksInit /\ [][CallbacksNext]_callbackVars

-----------------------------------------------------------------------------
CallbacksTypeOK ==
    /\ parent \in [Nodes -> Nodes \cup {None}]
    /\ \A n \in Nodes : /\ Range(lists[n]) \subseteq Entries
                        /\ Len(lists[n]) <= caps[n]
    /\ \A d \in Range(dispatches) :
          /\ d.node \in Nodes \cup {None} /\ Range(d.view) \subseteq Entries
          /\ d.next \in 1..(Len(d.view) + 1) /\ d.at \in 0..Len(d.visits)
    /\ \A ev \in EventObjects : event[ev].stops \in 0..Len(dispatches)
    /\ Cardinality({i \in DOMAIN stack : stack[i] = "dispatch"}) = Len(dispatches)
    /\ Cardinality({i \in DOMAIN stack : stack[i] = "flush"}) = Len(flushes)
    /\ IsInjective(pending)
    /\ \A mo \in Observers : Range(records[mo]) \subseteq 1..changes

(* Loops over listeners that change under them call each listener once,    *)
(* and end.                                                                *)
LoopsRight == CallbacksTypeOK /\ EachOnce /\ LoopsEnd

(* A dispatch within a dispatch leaves the outer one alone, unless it is   *)
(* of the same event.                                                      *)
StopAndCurrent == StopHolds /\ CurrentRight

(* Records reach their observers, whatever callbacks do between.           *)
RecordsArrive == EachChangeOnce /\ NothingForgotten

=============================================================================
