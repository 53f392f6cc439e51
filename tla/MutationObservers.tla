------------------------- MODULE MutationObservers -------------------------
(***************************************************************************)
(* Mutation observers (src/internal/dom/mutation_observer.go): who is told *)
(* of a change, and FlushMutationObservers, whose callbacks may do all     *)
(* that it depends on: change the tree, observe, disconnect, take records  *)
(* and flush.                                                              *)
(*                                                                         *)
(* A record is the number of its change; what it says is in DomTree.       *)
(* Character data are as attributes here; an attribute filter is one more  *)
(* condition on a registration; old values are left out.                   *)
(***************************************************************************)
EXTENDS NodePath, Sublists, SequencesExt

CONSTANTS
    Observers,
    Options,        \* what an observer may ask for: [types, subtree]
    MaxFlushes      \* bound on flushes inside each other

VARIABLES
    registry,       \* observerRegistry: of each node a sequence of [mo, options]
    records,        \* MutationObserver.records
    pending,        \* pendingObservers
    flushes,        \* the calls of FlushMutationObservers, the innermost last:
                    \* [rest: observers of the batch, calling: the one whose callback runs]
    changes,        \* how many changes there were
    due,            \* history: of each observer the changes that it has to hear of
    got             \* history: those it was given

observerVars == <<registry, records, pending, flushes, changes, due, got>>

Types == {"childList", "attributes"}

ObserversInit ==
    /\ records = [mo \in Observers |-> <<>>] /\ pending = <<>> /\ flushes = <<>>
    /\ changes = 0
    /\ due = [mo \in Observers |-> <<>>] /\ got = [mo \in Observers |-> <<>>]

Observe(mo, node, options) ==
    /\ registry' = [registry EXCEPT ![node] =
          IF \E i \in DOMAIN @ : @[i].mo = mo
          THEN [i \in DOMAIN @ |-> IF @[i].mo = mo THEN [mo |-> mo, options |-> options] ELSE @[i]]
          ELSE Append(@, [mo |-> mo, options |-> options])]
    /\ UNCHANGED <<records, pending, flushes, changes, due, got>>

RemovePending(mo) == Sublist(pending, {i \in DOMAIN pending : pending[i] # mo})
Unregistered(list, mo) == Sublist(list, {i \in DOMAIN list : list[i].mo # mo})

Disconnect(mo) ==
    /\ registry' = [n \in Nodes |-> Unregistered(registry[n], mo)]
    /\ records' = [records EXCEPT ![mo] = <<>>]
    /\ pending' = RemovePending(mo)
    /\ due' = [due EXCEPT ![mo] = got[mo]]
    /\ UNCHANGED <<flushes, changes, got>>

TakeRecords(mo) ==
    /\ got' = [got EXCEPT ![mo] = @ \o records[mo]]
    /\ records' = [records EXCEPT ![mo] = <<>>]
    /\ pending' = RemovePending(mo)
    /\ UNCHANGED <<registry, flushes, changes, due>>

-----------------------------------------------------------------------------
(* notifyObservers: the registrations on the way up that match, an         *)
(* observer's first.                                                       *)
RegistrationsOn(node, target, type) ==
    LET list == registry[node]
    IN Sublist(list, {i \in DOMAIN list : /\ node = target \/ list[i].options.subtree
                                          /\ type \in list[i].options.types})

FoundUpTo(path, target, type) ==
    LET upTo[n \in 0..Len(path)] ==
          IF n = 0 THEN <<>> ELSE upTo[n - 1] \o RegistrationsOn(path[n], target, type)
    IN upTo

FirstOfEach(list) == Sublist(list, {i \in DOMAIN list : \A j \in 1..(i - 1) : list[j] # list[i]})

Notified(target, type) ==
    LET path == Path(target)
        found == FoundUpTo(path, target, type)[Len(path)]
    IN FirstOfEach([i \in DOMAIN found |-> found[i].mo])

(* An observer has to hear of a change when it is registered on the target *)
(* for it, or on what the target stands in with the subtree.               *)
HasToHear(mo, target, type) ==
    \E n \in Range(Path(target)), o \in Options :
        /\ Contains(registry[n], [mo |-> mo, options |-> o])
        /\ type \in o.types /\ (n = target \/ o.subtree)

(* Bug: the flush that goes on is taken to come to all observers. *)
EnqueuePending_Waits(told) ==
    IF flushes # <<>> THEN pending
    ELSE pending \o Sublist(told, {i \in DOMAIN told : ~Contains(pending, told[i])})

EnqueuePending(told) == pending \o Sublist(told, {i \in DOMAIN told : ~Contains(pending, told[i])})

Notify(target, type) ==
    LET told == Notified(target, type)
    IN /\ changes' = changes + 1
       /\ records' = [mo \in Observers |->
                        IF Contains(told, mo) THEN Append(records[mo], changes + 1) ELSE records[mo]]
       /\ pending' = EnqueuePending(told)
       /\ due' = [mo \in Observers |->
                    IF HasToHear(mo, target, type) THEN Append(due[mo], changes + 1) ELSE due[mo]]
       /\ UNCHANGED <<registry, flushes, got>>

-----------------------------------------------------------------------------
(* FlushMutationObservers: batch after batch, until none is pending.       *)
Flush ==
    /\ Len(flushes) < MaxFlushes
    /\ pending # <<>>
    /\ flushes' = Append(flushes, [rest |-> pending, calling |-> None])
    /\ pending' = <<>>
    /\ UNCHANGED <<registry, records, changes, due, got>>

LastFlush == flushes[Len(flushes)]
Flushing == flushes # <<>> /\ LastFlush.calling = None
SetFlush(f) == flushes' = [flushes EXCEPT ![Len(flushes)] = f]

Deliver ==
    LET mo == Head(LastFlush.rest) IN
    /\ Flushing /\ LastFlush.rest # <<>>
    /\ SetFlush([LastFlush EXCEPT !.rest = Tail(@), !.calling = IF records[mo] = <<>> THEN None ELSE mo])
    /\ got' = [got EXCEPT ![mo] = @ \o records[mo]]
    /\ records' = [records EXCEPT ![mo] = <<>>]
    /\ UNCHANGED <<registry, pending, changes, due>>

CallbackReturns ==
    /\ flushes # <<>> /\ LastFlush.calling # None
    /\ SetFlush([LastFlush EXCEPT !.calling = None])
    /\ UNCHANGED <<registry, records, pending, changes, due, got>>

NextBatch ==
    /\ Flushing /\ LastFlush.rest = <<>> /\ pending # <<>>
    /\ SetFlush([LastFlush EXCEPT !.rest = pending])
    /\ pending' = <<>>
    /\ UNCHANGED <<registry, records, changes, due, got>>

FlushReturns ==
    /\ Flushing /\ LastFlush.rest = <<>> /\ pending = <<>>
    /\ flushes' = Front(flushes)
    /\ UNCHANGED <<registry, records, pending, changes, due, got>>

-----------------------------------------------------------------------------
(* Each observer is given, or has in its queue, every change that it has   *)
(* to hear of, once and in order: whatever callbacks and flushes come      *)
(* between, and as they were when the change was made.                     *)
EachChangeOnce == \A mo \in Observers : due[mo] = got[mo] \o records[mo]

(* An observer with records is pending, or a flush that is going on has    *)
(* still to come to it: the next flush gives them to it at the latest.     *)
NothingForgotten ==
    \A mo \in Observers : records[mo] # <<>> =>
        Contains(pending, mo) \/ \E f \in Range(flushes) : Contains(f.rest, mo)

=============================================================================
