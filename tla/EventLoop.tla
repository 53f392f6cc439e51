----------------------------- MODULE EventLoop -----------------------------
(***************************************************************************)
(* Timers of a JavaScript VM (src/internal/js/eventloop.go): a heap by     *)
(* time, which callbacks add to and clear timers in while the loop runs.   *)
(*                                                                         *)
(* One goroutine runs scripts and then the loop, so each call is a step    *)
(* and the lock is never waited for.  A timer is known by how long it is   *)
(* until it is due; time may pass at any moment, also during a callback,   *)
(* and a timer is never more than MaxLag late (a bound).                   *)
(***************************************************************************)
EXTENDS Integers, Sequences, FiniteSets

CONSTANTS
    MaxTimers,  \* bound on the timers that scripts set
    Delays,     \* delays and intervals that scripts ask for
    MaxLag      \* bound on how late a timer may be

ASSUME LoopAssumption ==
    MaxTimers \in Nat /\ MaxLag \in Nat /\ Delays \subseteq Nat

VARIABLES
    timers,     \* entry of each id: due, interval, cleared, and if in the heap
    nextID,
    byID,       \* ids that clearTimer finds
    code,       \* what runs: nothing, a script, the loop, or a timer's callback
    fired,      \* history: how often each timer fired, 2 for more than once
    quiet       \* history: timers that a script cleared

loopVars == <<timers, nextID, byID, code, fired, quiet>>

TimerIds == 1..MaxTimers
InLoop == -2
Idle == -1
Script == 0
NoTimer == [due |-> 0, interval |-> 0, cleared |-> FALSE, queued |-> FALSE]

LoopInit ==
    /\ timers = [i \in TimerIds |-> NoTimer]
    /\ nextID = 0 /\ byID = {}
    /\ code = Idle
    /\ fired = [i \in TimerIds |-> 0]
    /\ quiet = {}

Heap == {i \in TimerIds : timers[i].queued}
First == {i \in Heap : \A j \in Heap : timers[i].due <= timers[j].due}
RunsScript == code >= Script

-----------------------------------------------------------------------------
(* What scripts call. *)

SetTimer(delay, interval) ==
    /\ nextID < MaxTimers
    /\ nextID' = nextID + 1
    /\ timers' = [timers EXCEPT ![nextID + 1] =
                    [due |-> delay, interval |-> interval, cleared |-> FALSE, queued |-> TRUE]]
    /\ byID' = byID \cup {nextID + 1}
    /\ UNCHANGED <<code, fired, quiet>>

SetTimeout(d) == SetTimer(d, 0)
SetInterval(d) == SetTimer(d, d)

(* Bug: only a timer in the heap is cleared. *)
ClearTimer_Queued(i) ==
    /\ i \in byID
    /\ timers' = [timers EXCEPT ![i].cleared = @ \/ timers[i].queued]
    /\ byID' = byID \ {i}
    /\ quiet' = quiet \cup {i}
    /\ UNCHANGED <<nextID, code, fired>>

(* The entry stays in the heap and is skipped later. *)
ClearTimer(i) ==
    /\ i \in byID
    /\ timers' = [timers EXCEPT ![i].cleared = TRUE]
    /\ byID' = byID \ {i}
    /\ quiet' = quiet \cup {i}
    /\ UNCHANGED <<nextID, code, fired>>

-----------------------------------------------------------------------------
(* eventLoop.run *)

Pop(i) == [timers EXCEPT ![i].queued = FALSE]

LoopReturns == code = InLoop /\ Heap = {}

(* Bug: the entry is not taken from the heap. *)
SkipCleared_Peeks(i) ==
    /\ code = InLoop /\ i \in First /\ timers[i].cleared
    /\ UNCHANGED loopVars

SkipCleared(i) ==
    /\ code = InLoop /\ i \in First /\ timers[i].cleared
    /\ timers' = Pop(i)
    /\ UNCHANGED <<nextID, byID, code, fired, quiet>>

(* Until the first timer is due the loop sleeps, which is Tick. *)
Fire(i) ==
    /\ code = InLoop /\ i \in First /\ ~timers[i].cleared /\ timers[i].due <= 0
    /\ timers' = Pop(i)
    /\ code' = i
    /\ fired' = [fired EXCEPT ![i] = IF @ = 2 THEN 2 ELSE @ + 1]
    /\ UNCHANGED <<nextID, byID, quiet>>

Repeats(i) == timers[i].interval > 0 /\ ~timers[i].cleared

NextDue(i) == timers[i].interval

(* The callback returned, or threw, which is not looked at.  An interval   *)
(* goes back into the heap unless it was cleared meanwhile.                *)
CallbackEnds(i) ==
    /\ code = i
    /\ code' = InLoop
    /\ timers' = IF Repeats(i)
                 THEN [timers EXCEPT ![i].due = NextDue(i), ![i].queued = TRUE] ELSE timers
    /\ UNCHANGED <<nextID, byID, fired, quiet>>

Tick ==
    /\ Heap # {} /\ \A i \in Heap : timers[i].due > -MaxLag
    /\ timers' = [i \in TimerIds |->
                    IF i \in Heap THEN [timers[i] EXCEPT !.due = @ - 1] ELSE timers[i]]
    /\ UNCHANGED <<nextID, byID, code, fired, quiet>>

Calls ==
    \/ \E d \in Delays : SetTimeout(d) \/ SetInterval(d)
    \/ \E i \in TimerIds : ClearTimer(i)

LoopStep == \E i \in TimerIds : SkipCleared(i) \/ Fire(i) \/ CallbackEnds(i)

-----------------------------------------------------------------------------
(* Types, and what the heap and the index hold. *)
LoopTypeOK ==
    /\ \A i \in TimerIds : /\ timers[i].due \in Int /\ timers[i].interval \in Delays \cup {0}
                           /\ timers[i].cleared \in BOOLEAN /\ timers[i].queued \in BOOLEAN
    /\ nextID \in 0..MaxTimers /\ byID \subseteq 1..nextID
    /\ code \in {Idle, InLoop, Script} \cup TimerIds
    /\ quiet \subseteq TimerIds

(* A timer that was cleared does not fire again, whoever cleared it: a     *)
(* script, the callback of a timer that was due at the same time, or its   *)
(* own, when it is not in the heap.                                        *)
ClearedStayQuiet == [][\A i \in quiet : code' = i => code = i]_code

(* A timeout fires once, and so does an interval of zero. *)
TimeoutsFireOnce == \A i \in TimerIds : fired[i] = 2 => timers[i].interval > 0

=============================================================================
