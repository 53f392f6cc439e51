-------------------------- MODULE CdpObjectsProofs --------------------------
(***************************************************************************)
(* Proofs about CdpObjects, for any documents, any number of commands and  *)
(* any numbers: a number that a client was given keeps its meaning, an     *)
(* answer that walks a tree has all of it, and what a call passes through  *)
(* the globals of a runtime does not outlast it.                           *)
(***************************************************************************)
EXTENDS CdpObjects, SequenceTheorems, TLAPS

-----------------------------------------------------------------------------
(* The Runtime domain.  What is in the globals was put there by a call     *)
(* that has yet to clear it, and calls under way have met each other.      *)

(* Up to its run, a command has numbered nothing and seen no globals. *)
ToldAt(c) ==
    /\ call[c].pc \notin {"export", "done"} => call[c].told = 0
    /\ call[c].told # 0 => call[c].told < nextObj
    /\ In(c, "export") => call[c].byValue /\ call[c].res \in Values
    /\ In(c, "done") /\ call[c].told # 0 =>
          byID[call[c].told] = IF call[c].byValue THEN Exported(call[c].res) ELSE call[c].res

SawAt(c) ==
    /\ call[c].pc \in {"self", "val", "setThis", "setArg", "clearThis", "clearArg"}
          => call[c].fn = "callFunctionOn"
    /\ c \in inVM <=> call[c].pc \in {"inside", "acted"}
    /\ call[c].pc \in {"self", "val", "setThis", "setArg", "run"} => call[c].saw = None
    /\ In(c, "idle") => call[c].fn = "none"
    /\ call[c].pc \in {"idle", "self"} => call[c].self = None
    /\ call[c].pc \in {"idle", "self", "val"} => call[c].val = None

PassedAt(c) ==
    call[c].fn = "callFunctionOn" =>
          /\ call[c].pc \in {"setArg", "run"} => PassedThis(c, this)
          /\ In(c, "run") => PassedArg(c, arg)
          /\ call[c].saw # None => PassedThis(c, call[c].saw[1]) /\ PassedArg(c, call[c].saw[2])

MetAt(c) == c \in UnderWay => \A d \in UnderWay : d # c => d \in call[c].met

CallAt(c) == ToldAt(c) /\ SawAt(c) /\ PassedAt(c) /\ MetAt(c)

ObjectsIInv == ObjectsTypeOK /\ GlobalsOfCallsUnderWay /\ \A c \in Cmds : CallAt(c)

(* Only the record of c changes; c may come or go inside the interpreter;  *)
(* numbers are only added.                                                 *)
Alone(c) ==
    /\ call' \in [Cmds -> CallRecords]
    /\ \A d \in Cmds : d # c => call'[d] = call[d]
    /\ inVM' \subseteq Cmds /\ \A d \in Cmds : d # c => (d \in inVM' <=> d \in inVM)
    /\ nextObj' \in 1..(MaxObject + 1) /\ nextObj <= nextObj'
    /\ byID' \in [ObjectIds -> Found]
    /\ \A i \in ObjectIds : i < nextObj => byID'[i] = byID[i]
    /\ this' \in Found /\ arg' \in Found /\ raced' \in BOOLEAN

(* What a step of c does to the globals and to what it passes in them. *)
Passes(c) ==
    /\ call'[c].fn = call[c].fn /\ call'[c].met = call[c].met
    /\ call[c].self \in {None, call'[c].self} /\ call[c].val \in {None, call'[c].val}
    /\ \/ this' \in {None, call'[c].self} /\ call[c].fn = "callFunctionOn"
       \/ this' = this
    /\ \/ arg' \in {None, call'[c].val} /\ call[c].fn = "callFunctionOn"
       \/ arg' = arg
    /\ \/ this' = None
       \/ this' = call'[c].self /\ Holds(c, HoldsThis)'
       \/ this' = this /\ (Holds(c, HoldsThis) => Holds(c, HoldsThis)' /\ call'[c].self = call[c].self)
    /\ \/ arg' = None
       \/ arg' = call'[c].val /\ Holds(c, HoldsArg)'
       \/ arg' = arg /\ (Holds(c, HoldsArg) => Holds(c, HoldsArg)' /\ call'[c].val = call[c].val)

(* What a function has seen stays what was passed to it. *)
LEMMA PassedStays ==
    ASSUME ObjectsIInv, NEW c \in Cmds, Alone(c), Passes(c), NEW d \in Cmds,
           call'[d].self = call[d].self, call'[d].val = call[d].val,
           call'[d].saw = call[d].saw, call[d].fn = "callFunctionOn", call[d].saw # None
    PROVE  PassedThis(d, call[d].saw[1])' /\ PassedArg(d, call[d].saw[2])'
<1>1. \A e \in Cmds : /\ call'[e].fn = call[e].fn /\ call'[e].met = call[e].met
                      /\ call[e].self \in {None, call'[e].self}
                      /\ call[e].val \in {None, call'[e].val}
  BY DEF Alone, Passes
<1>2. call[d].met \subseteq Cmds
  BY DEF ObjectsIInv, ObjectsTypeOK, CallRecords
<1>3. PassedThis(d, call[d].saw[1]) /\ PassedArg(d, call[d].saw[2])
  BY DEF ObjectsIInv, CallAt, PassedAt
<1>4. PassedThis(d, call[d].saw[1])'
  BY <1>1, <1>2, <1>3 DEF PassedThis, MetCalls
<1>5. PassedArg(d, call[d].saw[2])'
  BY <1>1, <1>2, <1>3 DEF PassedArg, MetCalls
<1> QED
  BY <1>4, <1>5

(* What is in the globals for a call that has not run yet: another call    *)
(* that it has met may have taken a step.                                  *)
LEMMA PassedMeanwhile ==
    ASSUME ObjectsIInv, NEW c \in UnderWay, Alone(c), Passes(c), NEW d \in UnderWay, d # c,
           call[d].fn = "callFunctionOn"
    PROVE  /\ PassedThis(d, this) => PassedThis(d, this)'
           /\ PassedArg(d, arg) => PassedArg(d, arg)'
<1>1. c \in Cmds /\ d \in Cmds
  BY DEF UnderWay
<1>2. \A e \in Cmds : /\ call'[e].fn = call[e].fn /\ call'[e].met = call[e].met
                      /\ call[e].self \in {None, call'[e].self}
                      /\ call[e].val \in {None, call'[e].val}
  BY <1>1 DEF Alone, Passes
<1>3. call[d].met \subseteq Cmds /\ c \in call[d].met
  BY <1>1 DEF ObjectsIInv, ObjectsTypeOK, CallRecords, CallAt, MetAt
<1>4. call'[d].self = call[d].self /\ call'[d].val = call[d].val
  BY <1>1 DEF Alone
<1>5. ASSUME PassedThis(d, this)
      PROVE  PassedThis(d, this)'
  <2>1. CASE this' = this
    BY <1>1, <1>2, <1>3, <1>4, <1>5, <2>1 DEF PassedThis, MetCalls
  <2>2. CASE this' \in {None, call'[c].self} /\ call[c].fn = "callFunctionOn"
    BY <1>1, <1>2, <1>3, <2>2 DEF PassedThis, MetCalls
  <2> QED
    BY <2>1, <2>2 DEF Passes
<1>6. ASSUME PassedArg(d, arg)
      PROVE  PassedArg(d, arg)'
  <2>1. CASE arg' = arg
    BY <1>1, <1>2, <1>3, <1>4, <1>6, <2>1 DEF PassedArg, MetCalls
  <2>2. CASE arg' \in {None, call'[c].val} /\ call[c].fn = "callFunctionOn"
    BY <1>1, <1>2, <1>3, <2>2 DEF PassedArg, MetCalls
  <2> QED
    BY <2>1, <2>2 DEF Passes
<1> QED
  BY <1>5, <1>6

LEMMA CallStep ==
    ASSUME ObjectsIInv, NEW c \in UnderWay, Alone(c), Passes(c), ToldAt(c)', SawAt(c)',
           \/ PassedAt(c)'
           \/ /\ call'[c].pc \notin {"setArg", "run"} /\ call'[c].saw = call[c].saw
              /\ call'[c].self = call[c].self /\ call'[c].val = call[c].val
    PROVE  ObjectsIInv'
<1>1. c \in Cmds /\ ObjectsTypeOK'
  BY DEF Alone, ObjectsTypeOK, UnderWay
<1>2. UnderWay' \subseteq UnderWay
  BY DEF Alone, UnderWay
<1>3. ASSUME NEW d \in Cmds, d # c
      PROVE  CallAt(d)'
  <2>1. call'[d] = call[d] /\ call[d] \in CallRecords /\ (d \in inVM' <=> d \in inVM)
    BY <1>3 DEF Alone, ObjectsIInv, ObjectsTypeOK
  <2>2. ToldAt(d)'
    <3>1. call[d].told # 0 => call[d].told \in ObjectIds /\ call[d].told < nextObj
      BY <2>1 DEF ObjectsIInv, CallAt, ToldAt, CallRecords, Numbers
    <3>2. call[d].told # 0 => byID'[call[d].told] = byID[call[d].told]
      BY <3>1 DEF Alone
    <3>3. call[d].told # 0 => call[d].told < nextObj'
      BY <3>1 DEF Alone, ObjectsIInv, ObjectsTypeOK, ObjectIds
    <3> QED
      BY <2>1, <3>2, <3>3 DEF ObjectsIInv, CallAt, ToldAt, In
  <2>3. SawAt(d)'
    BY <2>1 DEF ObjectsIInv, CallAt, SawAt, In
  <2>4. PassedAt(d)'
    <3> SUFFICES ASSUME call[d].fn = "callFunctionOn"
                 PROVE  /\ call[d].pc \in {"setArg", "run"} => PassedThis(d, this)'
                        /\ In(d, "run") => PassedArg(d, arg)'
                        /\ call[d].saw # None => /\ PassedThis(d, call[d].saw[1])'
                                                /\ PassedArg(d, call[d].saw[2])'
      BY <2>1 DEF PassedAt, In
    <3>1. PassedAt(d)
      BY DEF ObjectsIInv, CallAt
    <3>2. call[d].pc \in {"setArg", "run"} => d \in UnderWay
      BY DEF UnderWay
    <3>3. call[d].saw # None => PassedThis(d, call[d].saw[1])' /\ PassedArg(d, call[d].saw[2])'
      BY <1>1, <2>1, PassedStays
    <3>4. call[d].pc \in {"setArg", "run"} => PassedThis(d, this)'
      BY <1>3, <3>1, <3>2, PassedMeanwhile DEF PassedAt
    <3>5. In(d, "run") => PassedArg(d, arg)'
      BY <1>3, <3>1, <3>2, PassedMeanwhile DEF PassedAt, In
    <3> QED
      BY <3>3, <3>4, <3>5
  <2>5. MetAt(d)'
    BY <1>2, <2>1 DEF ObjectsIInv, CallAt, MetAt
  <2> QED
    BY <2>2, <2>3, <2>4, <2>5 DEF CallAt
<1>4. CallAt(c)'
  <2>1. MetAt(c)'
    BY <1>1, <1>2 DEF ObjectsIInv, CallAt, MetAt, Passes
  <2>2. PassedAt(c)'
    <3>1. CASE /\ call'[c].pc \notin {"setArg", "run"} /\ call'[c].saw = call[c].saw
               /\ call'[c].self = call[c].self /\ call'[c].val = call[c].val
      <4>1. call[c].fn = "callFunctionOn" /\ call[c].saw # None =>
                PassedThis(c, call[c].saw[1])' /\ PassedArg(c, call[c].saw[2])'
        BY <1>1, <3>1, PassedStays
      <4> QED
        BY <3>1, <4>1 DEF PassedAt, In, Passes
    <3> QED
      BY <3>1
  <2> QED
    BY <2>1, <2>2 DEF CallAt
<1>5. GlobalsOfCallsUnderWay'
  <2>1. \A d \in Cmds : d # c => /\ call'[d] = call[d]
                                 /\ Holds(d, HoldsThis)' <=> Holds(d, HoldsThis)
                                 /\ Holds(d, HoldsArg)' <=> Holds(d, HoldsArg)
    BY DEF Holds, Alone
  <2>2. this' # None => \E d \in Cmds : Holds(d, HoldsThis)' /\ call'[d].self = this'
    BY <1>1, <2>1 DEF ObjectsIInv, GlobalsOfCallsUnderWay, Passes
  <2>3. arg' # None => \E d \in Cmds : Holds(d, HoldsArg)' /\ call'[d].val = arg'
    BY <1>1, <2>1 DEF ObjectsIInv, GlobalsOfCallsUnderWay, Passes
  <2> QED
    BY <2>2, <2>3 DEF GlobalsOfCallsUnderWay
<1> QED
  BY <1>1, <1>3, <1>4, <1>5 DEF ObjectsIInv

LEMMA RecordTypes ==
    ASSUME NEW q \in CallRecords, NEW pc \in {"self", "val", "setThis", "setArg", "run", "inside", "acted",
                                             "clearThis", "clearArg", "serialize", "export", "done"}
    PROVE  /\ [q EXCEPT !.pc = pc] \in CallRecords
           /\ \A v \in Found : /\ [q EXCEPT !.self = v, !.pc = pc] \in CallRecords
                               /\ [q EXCEPT !.val = v, !.pc = pc] \in CallRecords
                               /\ [q EXCEPT !.pc = pc, !.res = v] \in CallRecords
           /\ \A v \in Found \X Found : [q EXCEPT !.pc = pc, !.saw = v] \in CallRecords
           /\ \A n \in Numbers : [q EXCEPT !.told = n, !.pc = pc] \in CallRecords
<1>1. [q EXCEPT !.pc = pc] \in CallRecords
  BY DEF CallRecords
<1>2. ASSUME NEW v \in Found
      PROVE  /\ [q EXCEPT !.self = v, !.pc = pc] \in CallRecords
             /\ [q EXCEPT !.val = v, !.pc = pc] \in CallRecords
             /\ [q EXCEPT !.pc = pc, !.res = v] \in CallRecords
  BY DEF CallRecords
<1>3. ASSUME NEW v \in Found \X Found
      PROVE  [q EXCEPT !.pc = pc, !.saw = v] \in CallRecords
  BY DEF CallRecords
<1>4. ASSUME NEW n \in Numbers
      PROVE  [q EXCEPT !.told = n, !.pc = pc] \in CallRecords
  BY DEF CallRecords
<1> QED
  BY <1>1, <1>2, <1>3, <1>4

(* What Alone says of a step that sets the record of c. *)
LEMMA SetsRecord ==
    ASSUME ObjectsTypeOK, NEW c \in Cmds, NEW w \in CallRecords, call' = [call EXCEPT ![c] = w]
    PROVE  /\ call' \in [Cmds -> CallRecords] /\ call'[c] = w
           /\ \A d \in Cmds : d # c => call'[d] = call[d]
BY DEF ObjectsTypeOK

LEMMA KindsOfCall ==
    ASSUME ObjectsIInv, NEW c \in Cmds
    PROVE  /\ call[c] \in CallRecords /\ CallAt(c) /\ ObjectsTypeOK
           /\ call[c].self \in Found /\ call[c].val \in Found /\ call[c].res \in Found
BY DEF ObjectsIInv, ObjectsTypeOK, CallRecords

LEMMA NothingElse ==
    ASSUME ObjectsTypeOK, UNCHANGED <<nextObj, byID>>
    PROVE  /\ nextObj' \in 1..(MaxObject + 1) /\ nextObj <= nextObj'
           /\ byID' \in [ObjectIds -> Found]
           /\ \A i \in ObjectIds : i < nextObj => byID'[i] = byID[i]
BY MaxObjectIsNat DEF ObjectsTypeOK

LEMMA Stores ==
    ASSUME ObjectsTypeOK, NEW v \in Values, Store(v)
    PROVE  /\ nextObj' \in 1..(MaxObject + 1) /\ nextObj <= nextObj'
           /\ byID' \in [ObjectIds -> Found]
           /\ \A i \in ObjectIds : i < nextObj => byID'[i] = byID[i]
           /\ nextObj \in ObjectIds /\ nextObj # 0 /\ nextObj < nextObj' /\ byID'[nextObj] = v
BY MaxObjectIsNat DEF ObjectsTypeOK, Store, ObjectIds, Found

LEMMA ResolveThisKeeps ==
    ASSUME ObjectsIInv, NEW c \in Cmds, ResolveThis(c)
    PROVE  ObjectsIInv'
<1> DEFINE q == call[c]
           id == q.selfID
           r == [q EXCEPT !.self = Get(id)]
           w == IF id = 0 THEN [q EXCEPT !.pc = "val"]
                ELSE IF Get(id) = None THEN [q EXCEPT !.pc = "done"]
                ELSE [r EXCEPT !.pc = "val"]
<1>1. /\ In(c, "self") /\ UNCHANGED <<nextObj, byID, this, arg, inVM, raced>>
      /\ call' = [call EXCEPT ![c] = w]
  BY DEF ResolveThis, Resolve, objectStore, Go
<1>2. q \in CallRecords /\ CallAt(c) /\ ObjectsTypeOK
  BY KindsOfCall
<1>3. id \in Numbers /\ (id # 0 => Get(id) \in Found)
  BY <1>2 DEF CallRecords, Numbers, ObjectsTypeOK, Get
<1>4. /\ w \in CallRecords /\ w.pc \in {"val", "done"} /\ w.fn = q.fn /\ w.told = q.told
      /\ w.saw = q.saw /\ w.met = q.met /\ w.val = q.val
  <2>1. id # 0 => [r EXCEPT !.pc = "val"] = [q EXCEPT !.self = Get(id), !.pc = "val"]
    OBVIOUS
  <2>2. w \in CallRecords
    <3> HIDE DEF q
    <3>1. CASE id = 0
      BY <1>2, <3>1, RecordTypes
    <3>2. CASE id # 0 /\ Get(id) = None
      BY <1>2, <3>2, RecordTypes
    <3>3. CASE id # 0 /\ Get(id) # None
      BY <1>2, <1>3, <2>1, <3>3, RecordTypes
    <3> QED
      BY <3>1, <3>2, <3>3
  <2>3. w.pc \in {"val", "done"} /\ w.fn = q.fn /\ w.told = q.told /\ w.saw = q.saw /\ w.met = q.met
        /\ w.val = q.val
    BY <1>2 DEF CallRecords
  <2> QED
    BY <2>2, <2>3
<1> HIDE DEF w
<1>5. Alone(c) /\ call'[c] = w
  BY <1>1, <1>2, <1>4, SetsRecord, NothingElse DEF Alone, ObjectsTypeOK
<1>6. c \in UnderWay
  BY <1>1 DEF In, UnderWay
<1>7. ToldAt(c)'
  BY <1>1, <1>2, <1>4, <1>5 DEF CallAt, ToldAt, In
<1>8. SawAt(c)'
  <2>1. q.saw = None /\ q.fn = "callFunctionOn" /\ c \notin inVM /\ q.val = None
    BY <1>1, <1>2 DEF CallAt, SawAt, In
  <2> QED
    BY <1>1, <1>4, <1>5, <2>1 DEF SawAt, In
<1>9. q.saw = None /\ q.self = None
  BY <1>1, <1>2 DEF CallAt, SawAt, In
<1>10. PassedAt(c)'
  BY <1>4, <1>5, <1>9 DEF PassedAt, In
<1>11. Passes(c)
  BY <1>1, <1>4, <1>5, <1>9 DEF Passes, In, Holds, HoldsThis, HoldsArg
<1> QED
  BY <1>5, <1>6, <1>7, <1>8, <1>10, <1>11, CallStep

(* What the other steps that store nothing have in common. *)
LEMMA Advances ==
    ASSUME ObjectsIInv, NEW c \in Cmds, c \in UnderWay, NEW w \in CallRecords,
           call' = [call EXCEPT ![c] = w], UNCHANGED <<nextObj, byID>>,
           this' \in Found, arg' \in Found, raced' \in BOOLEAN,
           inVM' \subseteq Cmds, \A d \in Cmds : d # c => (d \in inVM' <=> d \in inVM),
           w.met = call[c].met
    PROVE  Alone(c) /\ call'[c] = w
<1>1. ObjectsTypeOK /\ CallAt(c)
  BY KindsOfCall
<1> QED
  BY <1>1, SetsRecord, NothingElse DEF Alone

LEMMA GoRecord ==
    ASSUME NEW q \in CallRecords,
           NEW pc \in {"self", "val", "setThis", "setArg", "run", "inside", "acted",
                       "clearThis", "clearArg", "serialize", "export", "done"}
    PROVE  LET w == [q EXCEPT !.pc = pc]
           IN /\ w \in CallRecords /\ w.pc = pc /\ w.fn = q.fn /\ w.told = q.told /\ w.saw = q.saw
              /\ w.met = q.met /\ w.self = q.self /\ w.val = q.val /\ w.res = q.res
              /\ w.byValue = q.byValue
<1> DEFINE w == [q EXCEPT !.pc = pc]
<1>1. w \in CallRecords
  BY RecordTypes
<1>2. /\ w.pc = pc /\ w.fn = q.fn /\ w.told = q.told /\ w.saw = q.saw
      /\ w.met = q.met /\ w.self = q.self /\ w.val = q.val /\ w.res = q.res
      /\ w.byValue = q.byValue
  BY DEF CallRecords
<1> QED
  BY <1>1, <1>2

LEMMA ResolveArgumentKeeps ==
    ASSUME ObjectsIInv, NEW c \in Cmds, ResolveArgument(c)
    PROVE  ObjectsIInv'
<1> DEFINE q == call[c]
           id == q.argID
           r == [q EXCEPT !.val = Get(id)]
           w == IF id = 0 THEN [q EXCEPT !.pc = "setThis"]
                ELSE IF Get(id) = None THEN [q EXCEPT !.pc = "done"]
                ELSE [r EXCEPT !.pc = "setThis"]
<1>1. /\ In(c, "val") /\ UNCHANGED <<nextObj, byID, this, arg, inVM, raced>>
      /\ call' = [call EXCEPT ![c] = w] /\ c \in UnderWay
  BY DEF ResolveArgument, Resolve, objectStore, Go, In, UnderWay
<1>2. q \in CallRecords /\ CallAt(c) /\ ObjectsTypeOK
  BY KindsOfCall
<1>3. id \in Numbers /\ (id # 0 => Get(id) \in Found)
  BY <1>2 DEF CallRecords, Numbers, ObjectsTypeOK, Get
<1>4. /\ w \in CallRecords /\ w.pc \in {"setThis", "done"} /\ w.fn = q.fn /\ w.told = q.told
      /\ w.saw = q.saw /\ w.met = q.met /\ w.self = q.self
  <2>1. id # 0 => [r EXCEPT !.pc = "setThis"] = [q EXCEPT !.val = Get(id), !.pc = "setThis"]
    OBVIOUS
  <2>2. w \in CallRecords
    <3> HIDE DEF q
    <3>1. CASE id = 0
      BY <1>2, <3>1, RecordTypes
    <3>2. CASE id # 0 /\ Get(id) = None
      BY <1>2, <3>2, RecordTypes
    <3>3. CASE id # 0 /\ Get(id) # None
      BY <1>2, <1>3, <2>1, <3>3, RecordTypes
    <3> QED
      BY <3>1, <3>2, <3>3
  <2>3. /\ w.pc \in {"setThis", "done"} /\ w.fn = q.fn /\ w.told = q.told /\ w.saw = q.saw
        /\ w.met = q.met /\ w.self = q.self
    BY <1>2 DEF CallRecords
  <2> QED
    BY <2>2, <2>3
<1> HIDE DEF w
<1>5. /\ Alone(c) /\ call'[c] = w
  BY <1>1, <1>2, <1>4, Advances DEF ObjectsTypeOK
<1>6. ToldAt(c)'
  BY <1>1, <1>2, <1>4, <1>5 DEF CallAt, ToldAt, In
<1>7. SawAt(c)'
  <2>1. q.saw = None /\ q.fn = "callFunctionOn" /\ c \notin inVM
    BY <1>1, <1>2 DEF CallAt, SawAt, In
  <2> QED
    BY <1>1, <1>4, <1>5, <2>1 DEF SawAt, In
<1>8. q.saw = None /\ q.val = None
  BY <1>1, <1>2 DEF CallAt, SawAt, In
<1>9. PassedAt(c)'
  BY <1>4, <1>5, <1>8, ZenonT(30) DEF PassedAt, In
<1>10. Passes(c)
  BY <1>1, <1>4, <1>5, <1>8 DEF Passes, In, Holds, HoldsThis, HoldsArg
<1> QED
  BY <1>1, <1>5, <1>6, <1>7, <1>9, <1>10, CallStep

LEMMA SetThisKeeps ==
    ASSUME ObjectsIInv, NEW c \in Cmds, SetThis(c)
    PROVE  ObjectsIInv'
<1> DEFINE q == call[c]
           w == [q EXCEPT !.pc = "setArg"]
<1>1. /\ In(c, "setThis") /\ UNCHANGED <<nextObj, byID, arg, inVM>> /\ this' = q.self
      /\ call' = [call EXCEPT ![c] = w] /\ c \in UnderWay /\ raced' \in BOOLEAN
  BY DEF SetThis, Touch, objectStore, Go, In, UnderWay
<1>2. q \in CallRecords /\ CallAt(c) /\ ObjectsTypeOK /\ q.self \in Found
  BY KindsOfCall
<1>3. /\ w \in CallRecords /\ w.pc = "setArg" /\ w.fn = q.fn /\ w.told = q.told /\ w.saw = q.saw
      /\ w.met = q.met /\ w.self = q.self /\ w.val = q.val
  BY <1>2, GoRecord, ZenonT(60)
<1> HIDE DEF w
<1>4. /\ Alone(c) /\ call'[c] = w
  BY <1>1, <1>2, <1>3, Advances DEF ObjectsTypeOK
<1>5. ToldAt(c)'
  BY <1>1, <1>2, <1>3, <1>4 DEF CallAt, ToldAt, In
<1>6. q.saw = None /\ q.fn = "callFunctionOn" /\ c \notin inVM
  BY <1>1, <1>2 DEF CallAt, SawAt, In
<1>7. SawAt(c)'
  BY <1>1, <1>3, <1>4, <1>6 DEF SawAt, In
<1>8. Holds(c, HoldsThis)'
  BY <1>3, <1>4, <1>6 DEF Holds, HoldsThis
<1>9. PassedAt(c)'
  BY <1>1, <1>3, <1>4, <1>6 DEF PassedAt, PassedThis, In
<1>10. Passes(c)
  BY <1>1, <1>3, <1>4, <1>6, <1>8 DEF Passes, In, Holds, HoldsArg
<1> QED
  BY <1>1, <1>4, <1>5, <1>7, <1>9, <1>10, CallStep

(* A step of c that leaves a global alone does not change who passed it.   *)
LEMMA MetRecordsStay ==
    ASSUME ObjectsIInv, NEW c \in Cmds, Alone(c), call'[c].fn = call[c].fn,
           call'[c].met = call[c].met, call'[c].self = call[c].self, call'[c].val = call[c].val
    PROVE  /\ this' = this /\ PassedThis(c, this) => PassedThis(c, this)'
           /\ arg' = arg /\ PassedArg(c, arg) => PassedArg(c, arg)'
<1>1. \A e \in Cmds : /\ call'[e].fn = call[e].fn /\ call'[e].self = call[e].self
                      /\ call'[e].val = call[e].val
  BY DEF Alone
<1>2. call[c].met \subseteq Cmds
  BY DEF ObjectsIInv, ObjectsTypeOK, CallRecords
<1>3. this' = this /\ PassedThis(c, this) => PassedThis(c, this)'
  BY <1>1, <1>2 DEF PassedThis, MetCalls
<1>4. arg' = arg /\ PassedArg(c, arg) => PassedArg(c, arg)'
  BY <1>1, <1>2 DEF PassedArg, MetCalls
<1> QED
  BY <1>3, <1>4

LEMMA SetArgumentKeeps ==
    ASSUME ObjectsIInv, NEW c \in Cmds, SetArgument(c)
    PROVE  ObjectsIInv'
<1> DEFINE q == call[c]
           w == [q EXCEPT !.pc = "run"]
<1>1. /\ In(c, "setArg") /\ UNCHANGED <<nextObj, byID, this, inVM>> /\ arg' = q.val
      /\ call' = [call EXCEPT ![c] = w] /\ c \in UnderWay /\ raced' \in BOOLEAN
  BY DEF SetArgument, Touch, objectStore, Go, In, UnderWay
<1>2. q \in CallRecords /\ CallAt(c) /\ ObjectsTypeOK /\ q.val \in Found
  BY KindsOfCall
<1>3. /\ w \in CallRecords /\ w.pc = "run" /\ w.fn = q.fn /\ w.told = q.told /\ w.saw = q.saw
      /\ w.met = q.met /\ w.self = q.self /\ w.val = q.val
  BY <1>2, GoRecord, ZenonT(60)
<1> HIDE DEF w
<1>4. /\ Alone(c) /\ call'[c] = w
  BY <1>1, <1>2, <1>3, Advances DEF ObjectsTypeOK
<1>5. ToldAt(c)'
  BY <1>1, <1>2, <1>3, <1>4 DEF CallAt, ToldAt, In
<1>6. /\ q.saw = None /\ q.fn = "callFunctionOn" /\ c \notin inVM
      /\ PassedThis(c, this)
  BY <1>1, <1>2 DEF CallAt, SawAt, PassedAt, In
<1>7. SawAt(c)'
  BY <1>1, <1>3, <1>4, <1>6 DEF SawAt, In
<1>8. Holds(c, HoldsThis)' /\ Holds(c, HoldsArg)'
  BY <1>3, <1>4, <1>6 DEF Holds, HoldsThis, HoldsArg
<1>9. PassedThis(c, this)'
  BY <1>1, <1>3, <1>4, <1>6, MetRecordsStay
<1>10. PassedAt(c)'
  BY <1>1, <1>3, <1>4, <1>6, <1>9 DEF PassedAt, PassedArg, In
<1>11. Passes(c)
  BY <1>1, <1>3, <1>4, <1>6, <1>8 DEF Passes
<1> QED
  BY <1>1, <1>4, <1>5, <1>7, <1>10, <1>11, CallStep

LEMMA EnterKeeps ==
    ASSUME ObjectsIInv, NEW c \in Cmds, Enter(c)
    PROVE  ObjectsIInv'
<1> DEFINE q == call[c]
           seen == <<this, arg>>
           w == [q EXCEPT !.pc = "inside", !.saw = seen]
<1>1. /\ In(c, "run") /\ UNCHANGED <<nextObj, byID, this, arg>> /\ inVM' = inVM \cup {c}
      /\ call' = [call EXCEPT ![c] = w] /\ c \in UnderWay /\ raced' \in BOOLEAN
  BY DEF Enter, Touch, objectStore, In, UnderWay
<1>2. q \in CallRecords /\ CallAt(c) /\ ObjectsTypeOK
  BY KindsOfCall
<1>3. seen \in Found \X Found
  BY <1>2 DEF ObjectsTypeOK
<1>4. w \in CallRecords
  BY <1>2, <1>3, RecordTypes
<1>5. /\ w.pc = "inside" /\ w.fn = q.fn /\ w.told = q.told /\ w.saw = seen
      /\ w.met = q.met /\ w.self = q.self /\ w.val = q.val
  BY <1>2 DEF CallRecords
<1> HIDE DEF w
<1>6. /\ Alone(c) /\ call'[c] = w
  BY <1>1, <1>2, <1>4, <1>5, Advances DEF ObjectsTypeOK
<1>7. ToldAt(c)'
  BY <1>1, <1>2, <1>5, <1>6 DEF CallAt, ToldAt, In
<1>8. q.fn = "callFunctionOn" => PassedThis(c, this)' /\ PassedArg(c, arg)'
  <2>1. q.fn = "callFunctionOn" => PassedThis(c, this) /\ PassedArg(c, arg)
    BY <1>1, <1>2 DEF CallAt, PassedAt, In
  <2> QED
    BY <1>1, <1>5, <1>6, <2>1, MetRecordsStay
<1>9. SawAt(c)'
  BY <1>1, <1>2, <1>5, <1>6 DEF SawAt, CallAt, In
<1>10. /\ q.fn = "callFunctionOn" => Holds(c, HoldsThis)' /\ Holds(c, HoldsArg)'
       /\ q.fn # "callFunctionOn" => ~Holds(c, HoldsThis) /\ ~Holds(c, HoldsArg)
  BY <1>5, <1>6 DEF Holds, HoldsThis, HoldsArg
<1>11. PassedAt(c)'
  BY <1>1, <1>5, <1>6, <1>8 DEF PassedAt, In
<1>12. Passes(c)
  BY <1>1, <1>5, <1>6, <1>10 DEF Passes
<1> QED
  BY <1>1, <1>6, <1>7, <1>9, <1>11, <1>12, CallStep

LEMMA LeaveKeeps ==
    ASSUME ObjectsIInv, NEW c \in Cmds, Leave(c)
    PROVE  ObjectsIInv'
<1> DEFINE q == call[c]
           pc == IF q.fn = "callFunctionOn" THEN "clearThis" ELSE "serialize"
<1>1. /\ c \in inVM /\ UNCHANGED <<nextObj, byID, this, arg, raced>> /\ inVM' = inVM \ {c}
      /\ \/ \E o \in Objects : call' = [call EXCEPT ![c] = [q EXCEPT !.pc = pc, !.res = Js(o)]]
         \/ call' = [call EXCEPT ![c] = [q EXCEPT !.pc = pc]]
  BY DEF Leave, AfterRun, objectStore, Go
<1>2. q \in CallRecords /\ CallAt(c) /\ ObjectsTypeOK
  BY KindsOfCall
<1>3. q.pc \in {"inside", "acted"} /\ c \in UnderWay
  BY <1>1, <1>2 DEF CallAt, SawAt, UnderWay
<1>4. pc \in {"clearThis", "serialize"}
  OBVIOUS
<1>5. PICK w \in CallRecords :
          /\ call' = [call EXCEPT ![c] = w] /\ w.pc = pc /\ w.fn = q.fn /\ w.told = q.told
          /\ w.saw = q.saw /\ w.met = q.met /\ w.self = q.self /\ w.val = q.val
  <2>1. CASE \E o \in Objects : call' = [call EXCEPT ![c] = [q EXCEPT !.pc = pc, !.res = Js(o)]]
    <3>1. PICK o \in Objects : call' = [call EXCEPT ![c] = [q EXCEPT !.pc = pc, !.res = Js(o)]]
      BY <2>1
    <3>2. Js(o) \in Found
      BY DEF Js, Values, Found
    <3> DEFINE v == Js(o)
               w == [q EXCEPT !.pc = pc, !.res = v]
    <3> HIDE DEF pc, v
    <3>3. w \in CallRecords
      BY <1>2, <1>4, <3>2, RecordTypes DEF v
    <3>4. /\ w.pc = pc /\ w.fn = q.fn /\ w.told = q.told
          /\ w.saw = q.saw /\ w.met = q.met /\ w.self = q.self /\ w.val = q.val
      BY <1>2 DEF CallRecords
    <3>5. call' = [call EXCEPT ![c] = w]
      BY <3>1 DEF v
    <3> QED
      BY <3>3, <3>4, <3>5
  <2>2. CASE call' = [call EXCEPT ![c] = [q EXCEPT !.pc = pc]]
    <3> DEFINE w == [q EXCEPT !.pc = pc]
    <3> HIDE DEF pc, q
    <3>1. /\ w \in CallRecords /\ w.pc = pc /\ w.fn = q.fn /\ w.told = q.told /\ w.saw = q.saw
          /\ w.met = q.met /\ w.self = q.self /\ w.val = q.val
      <4>1. w \in CallRecords
        BY <1>2, <1>4, RecordTypes
      <4> QED
        BY <1>2, <4>1 DEF CallRecords
    <3>2. call' = [call EXCEPT ![c] = w]
      BY <2>2
    <3> HIDE DEF w
    <3> QED
      BY <3>1, <3>2
  <2> QED
    BY <1>1, <2>1, <2>2
<1>6. /\ Alone(c) /\ call'[c] = w
  BY <1>1, <1>2, <1>3, <1>5, Advances DEF ObjectsTypeOK
<1>7. ToldAt(c)'
  BY <1>1, <1>2, <1>3, <1>4, <1>5, <1>6 DEF CallAt, ToldAt, In
<1>9. SawAt(c)'
  BY <1>1, <1>4, <1>5, <1>6, ZenonT(60) DEF SawAt, In
<1>10. /\ q.fn = "callFunctionOn" => Holds(c, HoldsThis)' /\ Holds(c, HoldsArg)'
       /\ q.fn # "callFunctionOn" => ~Holds(c, HoldsThis) /\ ~Holds(c, HoldsArg)
  BY <1>5, <1>6 DEF Holds, HoldsThis, HoldsArg
<1>11. Passes(c)
  BY <1>1, <1>5, <1>6, <1>10 DEF Passes
<1> QED
  BY <1>3, <1>4, <1>5, <1>6, <1>7, <1>9, <1>11, CallStep

(* A script logs or changes the document. *)
LEMMA ActsKeeps ==
    ASSUME ObjectsIInv, NEW c \in Cmds, In(c, "inside"), Go(c, "acted"),
           UNCHANGED <<this, arg, inVM, raced>>,
           \/ UNCHANGED objectStore
           \/ \E v \in Values : Store(v)
    PROVE  ObjectsIInv'
<1> DEFINE q == call[c]
           w == [q EXCEPT !.pc = "acted"]
<1>1. call' = [call EXCEPT ![c] = w] /\ c \in UnderWay
  BY DEF Go, In, UnderWay
<1>2. q \in CallRecords /\ CallAt(c) /\ ObjectsTypeOK
  BY KindsOfCall
<1>3. /\ w \in CallRecords /\ w.pc = "acted" /\ w.fn = q.fn /\ w.told = q.told /\ w.saw = q.saw
      /\ w.met = q.met /\ w.self = q.self /\ w.val = q.val
  BY <1>2, GoRecord, ZenonT(60)
<1> HIDE DEF w
<1>4. /\ nextObj' \in 1..(MaxObject + 1) /\ nextObj <= nextObj'
      /\ byID' \in [ObjectIds -> Found]
      /\ \A i \in ObjectIds : i < nextObj => byID'[i] = byID[i]
  BY <1>2, NothingElse, Stores DEF objectStore
<1>5. Alone(c) /\ call'[c] = w
  BY <1>1, <1>2, <1>3, <1>4, SetsRecord DEF Alone, ObjectsTypeOK
<1>7. ToldAt(c)'
  BY <1>2, <1>3, <1>5 DEF CallAt, ToldAt, In
<1>9. SawAt(c)'
  BY <1>2, <1>3, <1>5 DEF CallAt, SawAt, In
<1>10. Passes(c)
  BY <1>3, <1>5 DEF Passes, Holds, HoldsThis, HoldsArg
<1> QED
  BY <1>1, <1>3, <1>5, <1>7, <1>9, <1>10, CallStep

LEMMA ClearThisKeeps ==
    ASSUME ObjectsIInv, NEW c \in Cmds, ClearThis(c)
    PROVE  ObjectsIInv'
<1> DEFINE q == call[c]
           w == [q EXCEPT !.pc = "clearArg"]
<1>1. /\ In(c, "clearThis") /\ UNCHANGED <<nextObj, byID, arg, inVM>> /\ this' = None
      /\ call' = [call EXCEPT ![c] = w] /\ c \in UnderWay /\ raced' \in BOOLEAN
  BY DEF ClearThis, Touch, objectStore, Go, In, UnderWay
<1>2. q \in CallRecords /\ CallAt(c) /\ ObjectsTypeOK
  BY KindsOfCall
<1>3. /\ w \in CallRecords /\ w.pc = "clearArg" /\ w.fn = q.fn /\ w.told = q.told /\ w.saw = q.saw
      /\ w.met = q.met /\ w.self = q.self /\ w.val = q.val
  BY <1>2, GoRecord, ZenonT(60)
<1> HIDE DEF w
<1>4. /\ Alone(c) /\ call'[c] = w
  BY <1>1, <1>2, <1>3, Advances DEF ObjectsTypeOK, Found
<1>5. ToldAt(c)'
  BY <1>1, <1>2, <1>3, <1>4 DEF CallAt, ToldAt, In
<1>6. q.fn = "callFunctionOn" /\ c \notin inVM
  BY <1>1, <1>2 DEF CallAt, SawAt, In
<1>7. SawAt(c)'
  BY <1>1, <1>3, <1>4, <1>6 DEF SawAt, In
<1>8. Holds(c, HoldsArg)'
  BY <1>3, <1>4, <1>6 DEF Holds, HoldsArg
<1>9. Passes(c)
  BY <1>1, <1>3, <1>4, <1>6, <1>8 DEF Passes
<1> QED
  BY <1>1, <1>3, <1>4, <1>5, <1>7, <1>9, CallStep

LEMMA ClearArgumentKeeps ==
    ASSUME ObjectsIInv, NEW c \in Cmds, ClearArgument(c)
    PROVE  ObjectsIInv'
<1> DEFINE q == call[c]
           w == [q EXCEPT !.pc = "serialize"]
<1>1. /\ In(c, "clearArg") /\ UNCHANGED <<nextObj, byID, this, inVM>> /\ arg' = None
      /\ call' = [call EXCEPT ![c] = w] /\ c \in UnderWay /\ raced' \in BOOLEAN
  BY DEF ClearArgument, Touch, objectStore, Go, In, UnderWay
<1>2. q \in CallRecords /\ CallAt(c) /\ ObjectsTypeOK
  BY KindsOfCall
<1>3. /\ w \in CallRecords /\ w.pc = "serialize" /\ w.fn = q.fn /\ w.told = q.told /\ w.saw = q.saw
      /\ w.met = q.met /\ w.self = q.self /\ w.val = q.val
  BY <1>2, GoRecord, ZenonT(60)
<1> HIDE DEF w
<1>4. /\ Alone(c) /\ call'[c] = w
  BY <1>1, <1>2, <1>3, Advances DEF ObjectsTypeOK, Found
<1>5. ToldAt(c)'
  BY <1>1, <1>2, <1>3, <1>4 DEF CallAt, ToldAt, In
<1>6. q.fn = "callFunctionOn" /\ c \notin inVM
  BY <1>1, <1>2 DEF CallAt, SawAt, In
<1>7. SawAt(c)'
  BY <1>1, <1>3, <1>4, <1>6 DEF SawAt, In
<1>8. ~Holds(c, HoldsThis)
  BY <1>1 DEF Holds, HoldsThis, In
<1>9. Passes(c)
  BY <1>1, <1>3, <1>4, <1>6, <1>8 DEF Passes
<1> QED
  BY <1>1, <1>3, <1>4, <1>5, <1>7, <1>9, CallStep

(* The last steps: nothing of a call is left in the globals, and what is   *)
(* numbered is what will be answered.                                      *)
LEMMA EndsKeeps ==
    ASSUME ObjectsIInv, NEW c \in Cmds, call[c].pc \in {"serialize", "export"}, Alone(c),
           UNCHANGED <<this, arg, inVM>>, ToldAt(c)',
           call'[c].pc \in {"export", "done"}, call'[c].fn = call[c].fn,
           call'[c].saw = call[c].saw, call'[c].met = call[c].met,
           call'[c].self = call[c].self, call'[c].val = call[c].val
    PROVE  ObjectsIInv'
<1>1. CallAt(c) /\ c \in UnderWay
  BY KindsOfCall DEF UnderWay
<1>3. SawAt(c)'
  BY <1>1 DEF CallAt, SawAt, In
<1>4. ~Holds(c, HoldsThis) /\ ~Holds(c, HoldsArg)
  BY DEF Holds, HoldsThis, HoldsArg
<1>5. Passes(c)
  BY <1>4 DEF Passes
<1> QED
  BY <1>1, <1>3, <1>5, CallStep

LEMMA SerializeKeeps ==
    ASSUME ObjectsIInv, NEW c \in Cmds, Serialize(c)
    PROVE  ObjectsIInv'
<1> DEFINE q == call[c]
<1>1. In(c, "serialize") /\ UNCHANGED <<this, arg, inVM, raced>>
  BY DEF Serialize
<1>2. q \in CallRecords /\ CallAt(c) /\ ObjectsTypeOK /\ q.res \in Found
  BY KindsOfCall
<1>3. q.told = 0
  BY <1>1, <1>2 DEF CallAt, ToldAt, In
<1>4. CASE q.res = None
  <2> DEFINE w == [q EXCEPT !.pc = "done"]
  <2>1. call' = [call EXCEPT ![c] = w] /\ UNCHANGED <<nextObj, byID>>
    BY <1>4 DEF Serialize, Finish, objectStore
  <2>2. /\ w \in CallRecords /\ w.pc = "done" /\ w.fn = q.fn /\ w.told = q.told /\ w.saw = q.saw
        /\ w.met = q.met /\ w.self = q.self /\ w.val = q.val
    BY <1>2, GoRecord, ZenonT(60)
  <2> HIDE DEF w
  <2>3. Alone(c) /\ call'[c] = w
    BY <1>1, <1>2, <2>1, <2>2, SetsRecord, NothingElse DEF Alone, ObjectsTypeOK
  <2>4. ToldAt(c)'
    BY <1>3, <2>2, <2>3 DEF ToldAt, In
  <2> QED
    BY <1>1, <2>2, <2>3, <2>4, EndsKeeps DEF In
<1>5. CASE q.res # None
  <2> DEFINE pc == IF q.byValue THEN "export" ELSE "done"
             w == [q EXCEPT !.told = nextObj, !.pc = pc]
  <2>1. call' = [call EXCEPT ![c] = w] /\ Store(q.res) /\ q.res \in Values
    BY <1>2, <1>5 DEF Serialize, SerializeGojaValue, Found
  <2>2. pc \in {"export", "done"}
    OBVIOUS
  <2>3. /\ nextObj' \in 1..(MaxObject + 1) /\ nextObj <= nextObj'
        /\ byID' \in [ObjectIds -> Found]
        /\ \A i \in ObjectIds : i < nextObj => byID'[i] = byID[i]
        /\ nextObj \in ObjectIds /\ nextObj # 0 /\ nextObj < nextObj' /\ byID'[nextObj] = q.res
    BY <1>2, <2>1, Stores
  <2>4. nextObj \in Numbers
    BY <2>3 DEF Numbers
  <2>5. w \in CallRecords
    <3> HIDE DEF pc
    <3> QED
      BY <1>2, <2>2, <2>4, RecordTypes
  <2>6. /\ w.pc = pc /\ w.fn = q.fn /\ w.told = nextObj /\ w.saw = q.saw /\ w.res = q.res
        /\ w.met = q.met /\ w.self = q.self /\ w.val = q.val /\ w.byValue = q.byValue
    BY <1>2 DEF CallRecords
  <2> HIDE DEF w
  <2>7. Alone(c) /\ call'[c] = w
    BY <1>1, <1>2, <2>1, <2>3, <2>5, SetsRecord DEF Alone, ObjectsTypeOK
  <2>8. ToldAt(c)'
    BY <2>1, <2>3, <2>6, <2>7 DEF ToldAt, In
  <2> QED
    BY <1>1, <2>2, <2>6, <2>7, <2>8, EndsKeeps DEF In
<1> QED
  BY <1>4, <1>5

LEMMA ExportKeeps ==
    ASSUME ObjectsIInv, NEW c \in Cmds, Export(c)
    PROVE  ObjectsIInv'
<1> DEFINE q == call[c]
           v == Exported(q.res)
           w == [q EXCEPT !.told = nextObj, !.pc = "done"]
<1>1. /\ In(c, "export") /\ UNCHANGED <<this, arg, inVM, raced>>
      /\ Store(v) /\ call' = [call EXCEPT ![c] = w]
  BY DEF Export
<1>2. q \in CallRecords /\ CallAt(c) /\ ObjectsTypeOK
  BY KindsOfCall
<1>3. q.byValue /\ q.res \in Values
  BY <1>1, <1>2 DEF CallAt, ToldAt, In
<1>4. v \in Values
  BY <1>3 DEF Exported, Values
<1> HIDE DEF v
<1>5. /\ nextObj' \in 1..(MaxObject + 1) /\ nextObj <= nextObj'
      /\ byID' \in [ObjectIds -> Found]
      /\ \A i \in ObjectIds : i < nextObj => byID'[i] = byID[i]
      /\ nextObj \in ObjectIds /\ nextObj # 0 /\ nextObj < nextObj' /\ byID'[nextObj] = v
  BY <1>1, <1>2, <1>4, Stores
<1>6. nextObj \in Numbers
  BY <1>5 DEF Numbers
<1>7. w \in CallRecords
  BY <1>2, <1>6, RecordTypes
<1>8. /\ w.pc = "done" /\ w.fn = q.fn /\ w.told = nextObj /\ w.saw = q.saw /\ w.res = q.res
      /\ w.met = q.met /\ w.self = q.self /\ w.val = q.val /\ w.byValue = q.byValue
  BY <1>2 DEF CallRecords
<1> HIDE DEF w
<1>9. Alone(c) /\ call'[c] = w
  BY <1>1, <1>2, <1>5, <1>7, SetsRecord DEF Alone, ObjectsTypeOK
<1>10. ToldAt(c)'
  BY <1>3, <1>5, <1>8, <1>9 DEF ToldAt, In, v
<1> QED
  BY <1>1, <1>8, <1>9, <1>10, EndsKeeps DEF In

(* A command that comes in has passed nothing yet, and meets those that    *)
(* are under way.                                                          *)
LEMMA AcceptKeeps ==
    ASSUME ObjectsIInv, NEW c \in Cmds, In(c, "idle"), NEW r \in CallRecords, Accept(c, r),
           UNCHANGED <<objectStore, this, arg, inVM, raced>>,
           r.pc \in {"run", "self"}, r.told = 0, r.saw = None,
           r.self = None, r.val = None,
           r.pc = "self" => r.fn = "callFunctionOn", r.pc = "run" => r.fn = "evaluate"
    PROVE  ObjectsIInv'
<1> DEFINE w == [r EXCEPT !.met = UnderWay]
           u(d) == [call[d] EXCEPT !.met = @ \cup {c}]
<1>1. /\ ObjectsTypeOK /\ UNCHANGED <<nextObj, byID, this, arg, inVM, raced>>
      /\ call' = [d \in Cmds |-> IF d = c THEN w ELSE IF d \in UnderWay THEN u(d) ELSE call[d]]
  BY DEF ObjectsIInv, Accept, objectStore
<1>2. /\ w \in CallRecords /\ w.pc = r.pc /\ w.fn = r.fn /\ w.told = 0 /\ w.saw = None
      /\ w.met = UnderWay /\ w.self = None /\ w.val = None
  BY DEF CallRecords, UnderWay
<1>3. ASSUME NEW d \in Cmds
      PROVE  /\ call[d] \in CallRecords /\ u(d) \in CallRecords
             /\ u(d).pc = call[d].pc /\ u(d).fn = call[d].fn /\ u(d).told = call[d].told
             /\ u(d).saw = call[d].saw /\ u(d).byValue = call[d].byValue /\ u(d).res = call[d].res
             /\ u(d).self = call[d].self /\ u(d).val = call[d].val
             /\ u(d).met = call[d].met \cup {c}
  BY <1>1, ZenonT(60) DEF ObjectsTypeOK, CallRecords
<1> HIDE DEF w, u
<1>4. /\ call'[c] = w
      /\ \A d \in Cmds : d # c /\ d \in UnderWay => call'[d] = u(d)
      /\ \A d \in Cmds : d # c /\ d \notin UnderWay => call'[d] = call[d]
  BY <1>1
<1>5. call' \in [Cmds -> CallRecords]
  BY <1>1, <1>2, <1>3
<1>6. ObjectsTypeOK'
  BY <1>1, <1>5 DEF ObjectsTypeOK
<1>7. c \notin UnderWay /\ c \in UnderWay'
  BY <1>2, <1>4 DEF In, UnderWay
<1>8. \A d \in Cmds : d # c => call'[d].pc = call[d].pc /\ call'[d].fn = call[d].fn
  BY <1>3, <1>4
<1>9. UnderWay' = UnderWay \cup {c}
  BY <1>7, <1>8 DEF UnderWay
<1>10. CallAt(c)'
  <2>1. ToldAt(c)'
    BY <1>2, <1>4 DEF ToldAt, In
  <2>2. c \notin inVM'
    BY <1>1 DEF ObjectsIInv, CallAt, SawAt, In
  <2>3. SawAt(c)'
    BY <1>2, <1>4, <2>2 DEF SawAt, In
  <2>4. PassedAt(c)'
    BY <1>2, <1>4 DEF PassedAt, In
  <2>5. MetAt(c)'
    BY <1>2, <1>4, <1>9 DEF MetAt
  <2> QED
    BY <2>1, <2>3, <2>4, <2>5 DEF CallAt
<1>11. ASSUME NEW d \in Cmds, d # c
       PROVE  CallAt(d)'
  <2>1. CallAt(d)
    BY DEF ObjectsIInv
  <2>2. /\ call'[d].told = call[d].told /\ call'[d].saw = call[d].saw
        /\ call'[d].byValue = call[d].byValue /\ call'[d].res = call[d].res
        /\ call'[d].self = call[d].self /\ call'[d].val = call[d].val
        /\ d \in UnderWay => call'[d].met = call[d].met \cup {c}
        /\ d \notin UnderWay => call'[d].met = call[d].met
    BY <1>3, <1>4, <1>11
  <2>3. ToldAt(d)'
    BY <1>1, <1>8, <1>11, <2>1, <2>2 DEF CallAt, ToldAt, In
  <2>4. d \in UnderWay' <=> d \in UnderWay
    BY <1>9, <1>11
  <2>5. SawAt(d)'
    BY <1>1, <1>8, <1>11, <2>1, <2>2 DEF CallAt, SawAt, In
  <2>6. MetAt(d)'
    BY <1>9, <1>11, <2>1, <2>2, <2>4 DEF CallAt, MetAt
  <2>7. \A e \in MetCalls(d) : /\ e \in call'[d].met /\ call'[e].fn = call[e].fn
                               /\ call'[e].self = call[e].self /\ call'[e].val = call[e].val
    <3>1. call[d].met \subseteq Cmds /\ call[d].met \subseteq call'[d].met
      BY <1>3, <2>2 DEF CallRecords
    <3>2. call[c].fn = "none"
      BY DEF ObjectsIInv, CallAt, SawAt
    <3>3. \A e \in MetCalls(d) : e \in Cmds /\ e # c /\ e \in call'[d].met
      BY <3>1, <3>2 DEF MetCalls
    <3>4. \A e \in Cmds : e # c => /\ call'[e].self = call[e].self
                                   /\ call'[e].val = call[e].val
      BY <1>3, <1>4
    <3> QED
      BY <1>8, <3>3, <3>4
  <2>8. MetCalls(d) \subseteq MetCalls(d)'
    BY <2>7 DEF MetCalls
  <2>9. /\ PassedThis(d, this) => PassedThis(d, this)'
        /\ PassedArg(d, arg) => PassedArg(d, arg)'
    BY <1>1, <2>2, <2>7, <2>8 DEF PassedThis, PassedArg
  <2>10. /\ PassedThis(d, call[d].saw[1]) => PassedThis(d, call[d].saw[1])'
         /\ PassedArg(d, call[d].saw[2]) => PassedArg(d, call[d].saw[2])'
    BY <2>2, <2>7, <2>8 DEF PassedThis, PassedArg
  <2>11. PassedAt(d)'
    BY <1>8, <1>11, <2>1, <2>2, <2>9, <2>10 DEF CallAt, PassedAt, In
  <2> QED
    BY <2>3, <2>5, <2>6, <2>11 DEF CallAt
<1>12. GlobalsOfCallsUnderWay'
  <2>1. ~Holds(c, HoldsThis) /\ ~Holds(c, HoldsArg)
    BY DEF HoldsThis, HoldsArg, Holds, In
  <2>2. \A d \in Cmds : d # c => /\ Holds(d, HoldsThis)' <=> Holds(d, HoldsThis)
                                 /\ Holds(d, HoldsArg)' <=> Holds(d, HoldsArg)
    BY <1>8 DEF Holds
  <2>3. \A d \in Cmds : d # c => call'[d].self = call[d].self /\ call'[d].val = call[d].val
    BY <1>3, <1>4
  <2>4. this # None => \E d \in Cmds : Holds(d, HoldsThis)' /\ call'[d].self = this
    BY <2>1, <2>2, <2>3 DEF ObjectsIInv, GlobalsOfCallsUnderWay
  <2>5. arg # None => \E d \in Cmds : Holds(d, HoldsArg)' /\ call'[d].val = arg
    BY <2>1, <2>2, <2>3 DEF ObjectsIInv, GlobalsOfCallsUnderWay
  <2> QED
    BY <1>1, <2>4, <2>5 DEF GlobalsOfCallsUnderWay
<1> QED
  BY <1>6, <1>10, <1>11, <1>12 DEF ObjectsIInv

LEMMA RuntimeKeeps ==
    ASSUME ObjectsIInv, NEW c \in Cmds, RuntimeCommand(c) \/ RuntimeStep(c)
    PROVE  ObjectsIInv'
<1>1. ASSUME NEW v \in BOOLEAN, Evaluate(c, v)
      PROVE  ObjectsIInv'
  <2> DEFINE r == [NoCall EXCEPT !.pc = "run", !.fn = "evaluate", !.byValue = v]
  <2>1. /\ r \in CallRecords /\ r.pc = "run" /\ r.fn = "evaluate" /\ r.told = 0 /\ r.saw = None
        /\ r.self = None /\ r.val = None
    BY DEF NoCall, CallRecords, Found, Numbers
  <2>2. In(c, "idle") /\ Accept(c, r) /\ UNCHANGED <<objectStore, this, arg, inVM, raced>>
    BY <1>1 DEF Evaluate
  <2> HIDE DEF r
  <2> QED
    BY <2>1, <2>2, AcceptKeeps
<1>2. ASSUME NEW g \in Given, NEW v \in BOOLEAN, CallFunctionOn(c, g[1], g[2], v)
      PROVE  ObjectsIInv'
  <2> DEFINE r == [NoCall EXCEPT !.pc = "self", !.fn = "callFunctionOn", !.byValue = v,
                                 !.selfID = g[1], !.argID = g[2]]
  <2>1. g[1] \in Numbers /\ g[2] \in Numbers
    BY GivenAreNumbers, MaxObjectIsNat DEF Numbers, ObjectIds
  <2>2. /\ r \in CallRecords /\ r.pc = "self" /\ r.fn = "callFunctionOn" /\ r.told = 0 /\ r.saw = None
        /\ r.self = None /\ r.val = None
    BY <2>1 DEF NoCall, CallRecords, Found, Numbers
  <2>3. In(c, "idle") /\ Accept(c, r) /\ UNCHANGED <<objectStore, this, arg, inVM, raced>>
    BY <1>2 DEF CallFunctionOn
  <2> HIDE DEF r
  <2> QED
    BY <2>2, <2>3, AcceptKeeps
<1>3. ASSUME Log(c)
      PROVE  ObjectsIInv'
  <2>1. /\ In(c, "inside") /\ Go(c, "acted") /\ UNCHANGED <<this, arg, inVM, raced>>
        /\ \E o \in Objects : Store(Exported(Js(o)))
    BY <1>3 DEF Log
  <2>2. \A o \in Objects : Exported(Js(o)) \in Values
    BY DEF Exported, Js, Values
  <2> QED
    BY <2>1, <2>2, ActsKeeps
<1> QED
  BY <1>1, <1>2, <1>3, ResolveThisKeeps, ResolveArgumentKeeps, SetThisKeeps, SetArgumentKeeps,
     EnterKeeps, LeaveKeeps, ClearThisKeeps, ClearArgumentKeeps, SerializeKeeps, ExportKeeps
     DEF RuntimeCommand, RuntimeStep

LEMMA ObjectsStart == ObjectsInit => ObjectsIInv
<1> SUFFICES ASSUME ObjectsInit
             PROVE  ObjectsIInv
  OBVIOUS
<1>1. NoCall \in CallRecords
  BY DEF NoCall, CallRecords, Found, Numbers
<1>2. ObjectsTypeOK
  <2>1. None \in Found /\ 1 \in 1..(MaxObject + 1)
    BY MaxObjectIsNat DEF Found
  <2>2. call \in [Cmds -> CallRecords] /\ byID \in [ObjectIds -> Found]
    BY <1>1, <2>1 DEF ObjectsInit
  <2> QED
    BY <2>1, <2>2 DEF ObjectsInit, ObjectsTypeOK
<1>3. UnderWay = {}
  BY DEF ObjectsInit, NoCall, UnderWay
<1>4. \A c \in Cmds : CallAt(c)
  BY <1>3 DEF ObjectsInit, NoCall, CallAt, ToldAt, SawAt, PassedAt, MetAt, In
<1> QED
  BY <1>2, <1>4 DEF ObjectsIInv, GlobalsOfCallsUnderWay, ObjectsInit

LEMMA ObjectsStay ==
    ASSUME ObjectsIInv, UNCHANGED objectVars
    PROVE  ObjectsIInv'
<1>1. GlobalsOfCallsUnderWay'
  BY DEF ObjectsIInv, objectVars, GlobalsOfCallsUnderWay, Holds
<1>2. \A c \in Cmds : (ToldAt(c) => ToldAt(c)') /\ (SawAt(c) => SawAt(c)')
  BY DEF objectVars, objectStore, ToldAt, SawAt, In
<1>3. \A c \in Cmds : (PassedAt(c) => PassedAt(c)') /\ (MetAt(c) => MetAt(c)')
  BY DEF objectVars, PassedAt, PassedThis, PassedArg, MetCalls, MetAt, UnderWay, In
<1>4. ObjectsTypeOK'
  BY DEF ObjectsIInv, objectVars, objectStore, ObjectsTypeOK
<1> QED
  BY <1>1, <1>2, <1>3, <1>4 DEF ObjectsIInv, CallAt

(* What the invariant says of the properties. *)
LEMMA ObjectsAreNamed ==
    ASSUME ObjectsIInv
    PROVE  ObjectsTypeOK /\ AnswersName /\ CallsGetWhatIsPassed /\ GlobalsOfCallsUnderWay
<1>1. AnswersName /\ CallsGetWhatIsPassed
  BY DEF ObjectsIInv, CallAt, ToldAt, PassedAt, AnswersName, CallsGetWhatIsPassed
<1> QED
  BY <1>1 DEF ObjectsIInv

-----------------------------------------------------------------------------
(* The DOM domain.  Every node in a tree was made, is in one place and is  *)
(* not above itself.                                                       *)
TreeOK ==
    /\ Trees(kids) /\ Docs \subseteq made
    /\ \A p \in Nodes : kids[p] # <<>> => p \in made
    /\ \A p \in Nodes : \A i \in DOMAIN kids[p] : kids[p][i] \in made

NumbersMade == \A i \in Ids : idToNode[i] # None => idToNode[i] \in made

(* What a command has to walk and what it has found are of the tree it is  *)
(* about.                                                                  *)
FrameAt(c, f) ==
    /\ f.n \in made /\ DocOf[f.n] = DocOf[cmd[c].root]
    /\ f.do = "next" => f.sib
    /\ f.sib => f.d < 2

NameAt(c, a) ==
    /\ DocOf[a.n] = DocOf[cmd[c].root]
    /\ a.at <= epoch
    /\ a.at = epoch => idToNode[a.id] = a.n

CmdAt(c) ==
    /\ At(c, "reset") => cmd[c].op = "getDocument" /\ cmd[c].root \in Docs
    /\ At(c, "parse") => cmd[c].op = "setOuterHTML" /\ cmd[c].root \in made
    /\ ~At(c, "walk") => cmd[c].stack = <<>>
    /\ cmd[c].pc \in {"idle", "reset", "parse"} => cmd[c].ans = <<>>
    /\ \A k \in DOMAIN cmd[c].stack : FrameAt(c, cmd[c].stack[k])
    /\ \A k \in DOMAIN cmd[c].ans : NameAt(c, cmd[c].ans[k])

(* What a frame will still add to the answer: the tree below its node, if  *)
(* that is yet to be bound, and the trees of the siblings that follow.     *)
Later(n) == {m \in Nodes : \E p \in Nodes : \E i, j \in DOMAIN kids[p] :
                 i < j /\ kids[p][i] = n /\ kids[p][j] = m}
TreesOf(ms, d) == UNION {Levels(m, d) : m \in ms}
Rest(f) ==
    (IF f.do = "bind" THEN Levels(f.n, f.d) ELSE {})
    \cup (IF f.sib THEN TreesOf(Later(f.n), f.d) ELSE {})

(* What is found and what is left make up the whole, and nothing twice. *)
Parts(found, stack, whole) ==
    /\ found \cup UNION {Rest(stack[k]) : k \in DOMAIN stack} = whole
    /\ \A k \in DOMAIN stack : Rest(stack[k]) \cap found = {}
    /\ \A j, k \in DOMAIN stack : j # k => Rest(stack[j]) \cap Rest(stack[k]) = {}

NodesIn(ans) == {ans[k].n : k \in DOMAIN ans}
Whole == {"getDocument", "describe", "children"}

WholeAt(c) ==
    c \notin torn /\ (At(c, "walk") \/ At(c, "done")) =>
        /\ \A k \in DOMAIN cmd[c].ans : cmd[c].ans[k].at = epoch
        /\ cmd[c].op \in Whole =>
            /\ Parts(NodesIn(cmd[c].ans), cmd[c].stack, Expected(c))
            /\ \A j, k \in DOMAIN cmd[c].ans : j # k => cmd[c].ans[j].n # cmd[c].ans[k].n

NodeIInv ==
    /\ NodeTypeOK /\ MapsInverse /\ TreeOK /\ NumbersMade
    /\ \A c \in Cmds : CmdAt(c) /\ WholeAt(c)

-----------------------------------------------------------------------------
(* Trees *)

LEMMA ChildrenAre ==
    ASSUME NodeTypeOK, TreeOK, NEW ps \in SUBSET Nodes, NEW m \in Children(ps)
    PROVE  m \in made /\ \E p \in ps : DocOf[m] = DocOf[p]
BY DEF Children, TreeOK, Trees

(* A node is not below itself, nor below a sibling. *)
LEMMA NotBelowItself ==
    ASSUME NodeTypeOK, TreeOK, NEW n \in Nodes
    PROVE  n \notin Children({n}) /\ n \notin Children(Children({n}))
<1>1. n \notin Children({n})
  BY DEF Children, TreeOK, Trees
<1>2. n \notin Children(Children({n}))
  <2> SUFFICES ASSUME NEW p \in Children({n}), NEW i \in DOMAIN kids[p], kids[p][i] = n
               PROVE  FALSE
    BY DEF Children
  <2>1. PICK j \in DOMAIN kids[n] : kids[n][j] = p
    BY DEF Children
  <2> QED
    BY <2>1 DEF TreeOK, Trees
<1> QED
  BY <1>1, <1>2

LEMMA TreeOfNode ==
    ASSUME NodeTypeOK, TreeOK, NEW n \in Nodes, NEW d \in 1..2
    PROVE  /\ Levels(n, d) = {n} \cup TreesOf(Children({n}), d - 1)
           /\ n \notin TreesOf(Children({n}), d - 1)
<1>1. CASE d = 1
  <2>1. \A m : Levels(m, d - 1) = {m}
    BY <1>1 DEF Levels
  <2>2. TreesOf(Children({n}), d - 1) = Children({n})
    BY <2>1 DEF TreesOf
  <2>3. Levels(n, d) = {n} \cup Children({n})
    BY <1>1 DEF Levels
  <2> QED
    BY <2>2, <2>3, NotBelowItself
<1>2. CASE d = 2
  <2>1. \A m, x : x \in Levels(m, d - 1) <=> x = m \/ x \in Children({m})
    BY <1>2 DEF Levels
  <2>2. TreesOf(Children({n}), d - 1) = Children({n}) \cup Children(Children({n}))
    <3>1. \A x : x \in Children(Children({n})) <=> \E m \in Children({n}) : x \in Children({m})
      BY DEF Children
    <3>2. \A x : x \in TreesOf(Children({n}), d - 1) <=> \E m \in Children({n}) : x \in Levels(m, d - 1)
      BY DEF TreesOf
    <3>3. \A x : x \in TreesOf(Children({n}), d - 1) <=>
                 \E m \in Children({n}) : x = m \/ x \in Children({m})
      BY <2>1, <3>2, Zenon
    <3> QED
      BY <3>1, <3>3
  <2>3. Levels(n, d) = {n} \cup Children({n}) \cup Children(Children({n}))
    BY <1>2 DEF Levels
  <2> QED
    BY <2>2, <2>3, NotBelowItself
<1> QED
  BY <1>1, <1>2

LEMMA LeafLevels ==
    ASSUME NEW n, NEW d \in -2..0
    PROVE  Levels(n, d) = {n}
BY DEF Levels

(* The first child and the siblings that follow it are all the children. *)
LEMMA FirstChild ==
    ASSUME NodeTypeOK, TreeOK, NEW n \in Nodes, kids[n] # <<>>
    PROVE  /\ kids[n][1] \in made /\ kids[n][1] \in Children({n})
           /\ DocOf[kids[n][1]] = DocOf[n]
           /\ {kids[n][1]} \cup Later(kids[n][1]) = Children({n})
           /\ kids[n][1] \notin Later(kids[n][1])
<1>1. kids[n] \in Seq(Nodes) /\ 1 \in DOMAIN kids[n] /\ \A j \in DOMAIN kids[n] : j = 1 \/ 1 < j
  BY DEF NodeTypeOK
<1>2. \A p \in Nodes : \A i \in DOMAIN kids[p] : kids[p][i] = kids[n][1] => p = n /\ i = 1
  BY <1>1 DEF TreeOK, Trees
<1>3. Children({n}) = {m \in Nodes : \E j \in DOMAIN kids[n] : kids[n][j] = m}
  BY DEF Children
<1>4. Later(kids[n][1]) = {m \in Nodes : \E j \in DOMAIN kids[n] : 1 < j /\ kids[n][j] = m}
  BY <1>1, <1>2 DEF Later
<1>5. kids[n][1] \in Nodes
  BY <1>1
<1>6. {kids[n][1]} \cup Later(kids[n][1]) = Children({n})
  BY <1>1, <1>3, <1>4, <1>5
<1>7. kids[n][1] \notin Later(kids[n][1])
  BY <1>1, <1>2, <1>4
<1>8. kids[n][1] \in made /\ DocOf[kids[n][1]] = DocOf[n] /\ kids[n][1] \in Children({n})
  BY <1>1, <1>6 DEF TreeOK, Trees
<1> QED
  BY <1>6, <1>7, <1>8

(* The next sibling and those that follow it are all that follow. *)
LEMMA FollowingSiblings ==
    ASSUME NodeTypeOK, TreeOK, NEW n \in Nodes, NEW m \in NextSiblings(n)
    PROVE  m \in made /\ DocOf[m] = DocOf[n] /\ Later(n) = {m} \cup Later(m) /\ m \notin Later(m)
<1>0. PICK p \in Nodes : \E i \in 1..(Len(kids[p]) - 1) : kids[p][i] = n /\ kids[p][i + 1] = m
  BY DEF NextSiblings
<1>1. PICK i \in 1..(Len(kids[p]) - 1) : kids[p][i] = n /\ kids[p][i + 1] = m
  BY <1>0
<1>2. kids[p] \in Seq(Nodes) /\ i \in DOMAIN kids[p] /\ i + 1 \in DOMAIN kids[p] /\ i \in Int
  BY <1>1 DEF NodeTypeOK
<1>3. /\ \A q \in Nodes : \A j \in DOMAIN kids[q] : kids[q][j] = n => q = p /\ j = i
      /\ \A q \in Nodes : \A j \in DOMAIN kids[q] : kids[q][j] = m => q = p /\ j = i + 1
  BY <1>1, <1>2 DEF TreeOK, Trees
<1>4. Later(n) = {x \in Nodes : \E j \in DOMAIN kids[p] : i < j /\ kids[p][j] = x}
  BY <1>1, <1>2, <1>3 DEF Later
<1>5. Later(m) = {x \in Nodes : \E j \in DOMAIN kids[p] : i + 1 < j /\ kids[p][j] = x}
  BY <1>1, <1>2, <1>3 DEF Later
<1>6. \A j \in DOMAIN kids[p] : i < j <=> j = i + 1 \/ i + 1 < j
  BY <1>2
<1>7. m \in Nodes
  BY DEF NextSiblings
<1>8. Later(n) = {m} \cup Later(m)
  BY <1>1, <1>2, <1>4, <1>5, <1>6, <1>7
<1>9. m \notin Later(m)
  BY <1>2, <1>3, <1>5
<1>10. m \in made /\ DocOf[m] = DocOf[n]
  BY <1>1, <1>2 DEF TreeOK, Trees
<1> QED
  BY <1>8, <1>9, <1>10

LEMMA LastSibling ==
    ASSUME NodeTypeOK, NEW n \in Nodes, NextSiblings(n) = {}
    PROVE  Later(n) = {}
<1> SUFFICES ASSUME NEW p \in Nodes, NEW i \in DOMAIN kids[p], NEW j \in DOMAIN kids[p],
                    i < j, kids[p][i] = n
             PROVE  FALSE
  BY DEF Later
<1>1. kids[p] \in Seq(Nodes)
  BY DEF NodeTypeOK
<1>2. i \in 1..(Len(kids[p]) - 1) /\ kids[p][i + 1] \in Nodes
  BY <1>1
<1> QED
  BY <1>2 DEF NextSiblings

(* The trees of siblings have nothing in common, as deep as siblings are   *)
(* followed.                                                               *)
LEMMA SiblingsApart ==
    ASSUME NodeTypeOK, TreeOK, NEW n \in Nodes, NEW d \in -2..1
    PROVE  Levels(n, d) \cap TreesOf(Later(n), d) = {}
<1> SUFFICES ASSUME NEW m \in Later(n), NEW x \in Levels(n, d), x \in Levels(m, d)
             PROVE  FALSE
  BY DEF TreesOf
<1>0. PICK p \in Nodes : \E i, j \in DOMAIN kids[p] : i < j /\ kids[p][i] = n /\ kids[p][j] = m
  BY DEF Later
<1>1. PICK i \in DOMAIN kids[p], j \in DOMAIN kids[p] : i < j /\ kids[p][i] = n /\ kids[p][j] = m
  BY <1>0
<1>2. kids[p] \in Seq(Nodes) /\ i \in Int /\ j \in Int /\ m \in Nodes
  <2>1. kids[p] \in Seq(Nodes)
    BY DEF NodeTypeOK
  <2> QED
    BY <1>1, <2>1 DEF Later
<1>3. n # m /\ p # n /\ p # m
  <2>1. n # m
    BY <1>1, <1>2 DEF TreeOK, Trees
  <2>2. p # n /\ p # m
    BY <1>1 DEF TreeOK, Trees
  <2> QED
    BY <2>1, <2>2
<1>4. \A q \in Nodes : \A k \in DOMAIN kids[q] : kids[q][k] \in {n, m} => q = p
  BY <1>1 DEF TreeOK, Trees
<1>5. n \notin Children({m}) /\ m \notin Children({n})
  BY <1>2, <1>3, <1>4 DEF Children
<1>6. Children({n}) \cap Children({m}) = {}
  BY <1>2, <1>3 DEF Children, TreeOK, Trees
<1>7. Levels(n, d) \subseteq {n} \cup Children({n}) /\ Levels(m, d) \subseteq {m} \cup Children({m})
  BY DEF Levels
<1> QED
  BY <1>3, <1>5, <1>6, <1>7

-----------------------------------------------------------------------------
(* The numbering *)

LEMMA BindNames ==
    ASSUME NodeTypeOK, MapsInverse, NumbersMade, NEW n \in made, Bind(n)
    PROVE  /\ nextID' \in 1..(MaxId + 1) /\ epoch' = epoch
           /\ nodeToID' \in [Nodes -> 0..MaxId] /\ idToNode' \in [Ids -> Nodes \cup {None}]
           /\ IdAfterBind(n) \in Ids /\ idToNode'[IdAfterBind(n)] = n
           /\ \A i \in Ids : idToNode[i] # None => idToNode'[i] = idToNode[i]
           /\ \A i \in Ids : idToNode'[i] # None => idToNode'[i] \in made
           /\ MapsInverse'
<1>1. n \in Nodes /\ n # None
  BY NodesAssumption DEF NodeTypeOK
<1>2. CASE Bound(n) /\ UNCHANGED store
  <2>1. nodeToID[n] \in Ids
    BY <1>1, <1>2, MaxIdIsNat DEF NodeTypeOK, Bound, Ids
  <2> QED
    BY <1>1, <1>2, <2>1 DEF NodeTypeOK, MapsInverse, NumbersMade, store, Bound, IdAfterBind
<1>3. CASE /\ ~Bound(n) /\ nextID \in Ids
           /\ nextID' = nextID + 1
           /\ nodeToID' = [nodeToID EXCEPT ![n] = nextID]
           /\ idToNode' = [idToNode EXCEPT ![nextID] = n]
           /\ UNCHANGED epoch
  <2>1. /\ nextID \in Ids /\ nextID # 0 /\ nextID \in 0..MaxId /\ Ids \subseteq Int
        /\ nextID' \in 1..(MaxId + 1) /\ ~(nextID < nextID)
    BY <1>3, MaxIdIsNat DEF Ids
  <2>2. nodeToID' \in [Nodes -> 0..MaxId] /\ idToNode' \in [Ids -> Nodes \cup {None}]
    BY <1>1, <1>3, <2>1 DEF NodeTypeOK
  <2>3. /\ nodeToID'[n] = nextID /\ \A m \in Nodes : m # n => nodeToID'[m] = nodeToID[m]
        /\ idToNode'[nextID] = n /\ \A i \in Ids : i # nextID => idToNode'[i] = idToNode[i]
    BY <1>1, <1>3, <2>1 DEF NodeTypeOK
  <2>4. idToNode[nextID] = None
    BY <1>3, <2>1 DEF MapsInverse
  <2>5. \A m \in Nodes : nodeToID[m] # 0 => nodeToID[m] \in Ids /\ nodeToID[m] # nextID
    <3>1. \A m \in Nodes : nodeToID[m] # 0 => nodeToID[m] \in Ids
      BY MaxIdIsNat DEF NodeTypeOK, Ids
    <3>2. \A m \in Nodes : nodeToID[m] # 0 => idToNode[nodeToID[m]] = m
      BY DEF MapsInverse, Bound
    <3> QED
      BY <2>4, <3>1, <3>2, NodesAssumption
  <2>6. \A m \in Nodes : nodeToID'[m] # 0 => idToNode'[nodeToID'[m]] = m
    <3> SUFFICES ASSUME NEW m \in Nodes, nodeToID'[m] # 0
                 PROVE  idToNode'[nodeToID'[m]] = m
      OBVIOUS
    <3>1. CASE m = n
      BY <2>3, <3>1
    <3>2. CASE m # n
      BY <2>3, <2>5, <3>2 DEF MapsInverse, Bound
    <3> QED
      BY <3>1, <3>2
  <2>7. \A i \in Ids : idToNode'[i] # None => nodeToID'[idToNode'[i]] = i
    <3> SUFFICES ASSUME NEW i \in Ids, idToNode'[i] # None
                 PROVE  nodeToID'[idToNode'[i]] = i
      OBVIOUS
    <3>1. CASE i = nextID
      BY <2>3, <3>1
    <3>2. CASE i # nextID
      <4>1. /\ idToNode'[i] = idToNode[i] /\ idToNode[i] \in Nodes
            /\ nodeToID[idToNode[i]] = i /\ i # 0
        BY <2>3, <3>2, MaxIdIsNat DEF NodeTypeOK, MapsInverse, Ids
      <4>2. idToNode[i] # n
        BY <1>3, <4>1 DEF Bound
      <4> QED
        BY <2>3, <4>1, <4>2
    <3> QED
      BY <3>1, <3>2
  <2>8. \A i \in Ids : idToNode'[i] # None <=> i < nextID'
    <3> SUFFICES ASSUME NEW i \in Ids
                 PROVE  idToNode'[i] # None <=> i < nextID'
      OBVIOUS
    <3>1. i < nextID' <=> i = nextID \/ i < nextID
      BY <1>3, <2>1 DEF Ids
    <3> QED
      BY <1>1, <2>3, <3>1 DEF MapsInverse
  <2>9. MapsInverse'
    BY <2>6, <2>7, <2>8 DEF MapsInverse, Bound
  <2>10. IdAfterBind(n) = nextID
    BY <1>3 DEF IdAfterBind
  <2> QED
    BY <1>1, <1>3, <2>1, <2>2, <2>3, <2>4, <2>9, <2>10 DEF NumbersMade
<1> QED
  BY <1>2, <1>3 DEF Bind

LEMMA ResetForgets ==
    ASSUME NodeTypeOK, Reset
    PROVE  /\ nextID' \in 1..(MaxId + 1) /\ epoch' = epoch + 1 /\ epoch' \in Nat
           /\ nodeToID' \in [Nodes -> 0..MaxId] /\ idToNode' \in [Ids -> Nodes \cup {None}]
           /\ \A i \in Ids : idToNode'[i] = None
           /\ MapsInverse'
BY MaxIdIsNat DEF NodeTypeOK, Reset, MapsInverse, Bound, Ids

-----------------------------------------------------------------------------
(* The walk *)

LEMMA ReplaceHead ==
    ASSUME NEW T, NEW S \in Seq(T), S # <<>>, NEW X \in Seq(T)
    PROVE  /\ X \o Tail(S) \in Seq(T)
           /\ \A k \in DOMAIN X : k \in DOMAIN (X \o Tail(S)) /\ (X \o Tail(S))[k] = X[k]
           /\ \A k \in DOMAIN S : k # 1 =>
                /\ k - 1 + Len(X) \in DOMAIN (X \o Tail(S)) /\ (X \o Tail(S))[k - 1 + Len(X)] = S[k]
           /\ \A k \in DOMAIN (X \o Tail(S)) :
                \/ k \in DOMAIN X
                \/ k \notin DOMAIN X /\ k - Len(X) + 1 \in DOMAIN S /\ k - Len(X) + 1 # 1
                     /\ (X \o Tail(S))[k] = S[k - Len(X) + 1]
<1> DEFINE R == Tail(S)
           Y == X \o R
<1>1. R \in Seq(T) /\ Len(R) = Len(S) - 1 /\ Len(S) >= 1 /\ \A k \in 1..Len(R) : R[k] = S[k + 1]
  BY EmptySeq, HeadTailProperties
<1> HIDE DEF R
<1>2. /\ Y \in Seq(T) /\ Len(Y) = Len(X) + Len(R)
      /\ \A k \in 1..Len(X) : Y[k] = X[k]
      /\ \A k \in 1..(Len(X) + Len(R)) : k > Len(X) => Y[k] = R[k - Len(X)]
  <2>1. /\ Y \in Seq(T) /\ Len(Y) = Len(X) + Len(R)
        /\ \A k \in 1..(Len(X) + Len(R)) : Y[k] = IF k <= Len(X) THEN X[k] ELSE R[k - Len(X)]
    BY <1>1, ConcatProperties, Zenon
  <2> HIDE DEF Y
  <2>2. Len(X) \in Nat /\ Len(R) \in Nat
    BY <1>1
  <2> QED
    BY <2>1, <2>2
<1> HIDE DEF Y
<1>3. /\ DOMAIN X = 1..Len(X) /\ DOMAIN S = 1..Len(S) /\ DOMAIN Y = 1..(Len(X) + Len(R))
      /\ Len(X) \in Nat /\ Len(S) \in Nat /\ Len(R) \in Nat
  BY <1>1, <1>2
<1>4. \A k \in DOMAIN X : k \in DOMAIN Y /\ Y[k] = X[k]
  BY <1>2, <1>3
<1>5. ASSUME NEW k \in DOMAIN S, k # 1
      PROVE  k - 1 + Len(X) \in DOMAIN Y /\ Y[k - 1 + Len(X)] = S[k]
  <2>1. k - 1 \in 1..Len(R) /\ k - 1 + Len(X) \in 1..(Len(X) + Len(R)) /\ k - 1 + Len(X) > Len(X)
        /\ k - 1 + Len(X) - Len(X) = k - 1 /\ k - 1 + 1 = k
    BY <1>1, <1>3, <1>5
  <2>2. Y[k - 1 + Len(X)] = R[k - 1 + Len(X) - Len(X)]
    BY <1>2, <2>1, SMTT(30)
  <2>3. R[k - 1] = S[k - 1 + 1]
    BY <1>1, <2>1, SMTT(30)
  <2> QED
    BY <1>3, <2>1, <2>2, <2>3, SMTT(30)
<1>6. ASSUME NEW k \in DOMAIN Y, k \notin DOMAIN X
      PROVE  k - Len(X) + 1 \in DOMAIN S /\ k - Len(X) + 1 # 1 /\ Y[k] = S[k - Len(X) + 1]
  <2>1. k \in 1..(Len(X) + Len(R)) /\ k > Len(X) /\ k - Len(X) \in 1..Len(R)
    BY <1>3, <1>6
  <2>2. k - Len(X) + 1 \in 1..Len(S) /\ k - Len(X) + 1 # 1
    BY <1>1, <1>3, <2>1
  <2>3. Y[k] = R[k - Len(X)] /\ R[k - Len(X)] = S[k - Len(X) + 1]
    BY <1>1, <1>2, <2>1
  <2> QED
    BY <1>3, <2>2, <2>3
<1> QED
  BY <1>2, <1>4, <1>5, <1>6 DEF Y, R

(* The first frame gives way to new findings and to frames that, between   *)
(* them, have what it had.                                                 *)
LEMMA PartsMove ==
    ASSUME NEW T, NEW S \in Seq(T), S # <<>>, NEW X \in Seq(T), NEW found, NEW whole,
           Parts(found, S, whole), NEW new,
           new \cup UNION {Rest(X[k]) : k \in DOMAIN X} = Rest(S[1]),
           \A k \in DOMAIN X : Rest(X[k]) \cap new = {},
           \A j, k \in DOMAIN X : j # k => Rest(X[j]) \cap Rest(X[k]) = {}
    PROVE  Parts(found \cup new, X \o Tail(S), whole)
<1> DEFINE Y == X \o Tail(S)
<1>1. /\ \A k \in DOMAIN X : k \in DOMAIN Y /\ Y[k] = X[k]
      /\ \A k \in DOMAIN S : k # 1 => k - 1 + Len(X) \in DOMAIN Y /\ Y[k - 1 + Len(X)] = S[k]
      /\ \A k \in DOMAIN Y :
            \/ k \in DOMAIN X
            \/ k \notin DOMAIN X /\ k - Len(X) + 1 \in DOMAIN S /\ k - Len(X) + 1 # 1
                 /\ Y[k] = S[k - Len(X) + 1]
      /\ Y \in Seq(T) /\ Len(X) \in Nat
  BY ReplaceHead, SMTT(30)
<1> HIDE DEF Y
<1>2. 1 \in DOMAIN S
  BY EmptySeq
<1>3. new \subseteq Rest(S[1]) /\ \A k \in DOMAIN X : Rest(X[k]) \subseteq Rest(S[1])
  OBVIOUS
<1>4. ASSUME NEW x
      PROVE  (x \in found \cup new \/ \E k \in DOMAIN Y : x \in Rest(Y[k])) <=> x \in whole
  <2>1. x \in whole <=> x \in found \/ \E k \in DOMAIN S : x \in Rest(S[k])
    BY DEF Parts
  <2>2. x \in Rest(S[1]) <=> x \in new \/ \E k \in DOMAIN X : x \in Rest(X[k])
    OBVIOUS
  <2>3. (\E k \in DOMAIN Y : x \in Rest(Y[k])) => (\E k \in DOMAIN X : x \in Rest(X[k]))
                                                  \/ \E k \in DOMAIN S : k # 1 /\ x \in Rest(S[k])
    BY <1>1
  <2>4. (\E k \in DOMAIN X : x \in Rest(X[k])) => \E k \in DOMAIN Y : x \in Rest(Y[k])
    BY <1>1
  <2>5. (\E k \in DOMAIN S : k # 1 /\ x \in Rest(S[k])) => \E k \in DOMAIN Y : x \in Rest(Y[k])
    BY <1>1
  <2> QED
    BY <1>2, <2>1, <2>2, <2>3, <2>4, <2>5
<1>5. (found \cup new) \cup UNION {Rest(Y[k]) : k \in DOMAIN Y} = whole
  <2>1. \A x : x \in UNION {Rest(Y[k]) : k \in DOMAIN Y} <=> \E k \in DOMAIN Y : x \in Rest(Y[k])
    OBVIOUS
  <2> QED
    BY <1>4, <2>1
<1>6. ASSUME NEW k \in DOMAIN Y
      PROVE  Rest(Y[k]) \cap (found \cup new) = {}
  <2>1. CASE k \in DOMAIN X
    BY <1>1, <1>2, <1>3, <2>1 DEF Parts
  <2>2. CASE k \notin DOMAIN X
    <3> DEFINE m == k - Len(X) + 1
    <3>1. m \in DOMAIN S /\ m # 1 /\ Y[k] = S[m]
      BY <1>1, <2>2
    <3> HIDE DEF m
    <3> QED
      BY <1>2, <1>3, <3>1 DEF Parts
  <2> QED
    BY <2>1, <2>2
<1>7. ASSUME NEW j \in DOMAIN Y, NEW k \in DOMAIN Y, j # k
      PROVE  Rest(Y[j]) \cap Rest(Y[k]) = {}
  <2> DEFINE a == j - Len(X) + 1
             b == k - Len(X) + 1
  <2>1. a # b
    BY <1>1, <1>7
  <2>2. /\ j \in DOMAIN X => Y[j] = X[j]
        /\ j \notin DOMAIN X => a \in DOMAIN S /\ a # 1 /\ Y[j] = S[a]
    BY <1>1
  <2>3. /\ k \in DOMAIN X => Y[k] = X[k]
        /\ k \notin DOMAIN X => b \in DOMAIN S /\ b # 1 /\ Y[k] = S[b]
    BY <1>1
  <2> HIDE DEF a, b
  <2>4. \A m \in DOMAIN S : m # 1 => Rest(S[m]) \cap Rest(S[1]) = {}
    BY <1>2 DEF Parts
  <2>5. CASE j \in DOMAIN X /\ k \in DOMAIN X
    BY <1>7, <2>2, <2>3, <2>5
  <2>6. CASE j \in DOMAIN X /\ k \notin DOMAIN X
    BY <1>3, <2>2, <2>3, <2>4, <2>6
  <2>7. CASE j \notin DOMAIN X /\ k \in DOMAIN X
    BY <1>3, <2>2, <2>3, <2>4, <2>7
  <2>8. CASE j \notin DOMAIN X /\ k \notin DOMAIN X
    BY <2>1, <2>2, <2>3, <2>8 DEF Parts
  <2> QED
    BY <2>5, <2>6, <2>7, <2>8
<1> QED
  BY <1>5, <1>6, <1>7 DEF Parts, Y

(* Frames that may follow f on the way through a tree. *)
Follows(f, g) ==
    /\ g \in Frames /\ g.n \in made /\ DocOf[g.n] = DocOf[f.n]
    /\ g.do = "next" => g.sib
    /\ g.sib => g.d < 2

LEMMA FamilyFrame ==
    ASSUME NodeTypeOK, TreeOK, NEW n \in Nodes, kids[n] # <<>>, NEW d \in -2..1
    PROVE  LET g == [do |-> "bind", n |-> kids[n][1], d |-> d, sib |-> TRUE]
           IN /\ Rest(g) = TreesOf(Children({n}), d)
              /\ g \in Frames /\ g.n \in made /\ DocOf[g.n] = DocOf[n]
              /\ g.do = "bind" /\ g.sib /\ g.d < 2
<1> DEFINE k1 == kids[n][1]
           g == [do |-> "bind", n |-> k1, d |-> d, sib |-> TRUE]
<1>1. k1 \in made /\ DocOf[k1] = DocOf[n] /\ {k1} \cup Later(k1) = Children({n}) /\ k1 \in Nodes
  BY FirstChild DEF NodeTypeOK
<1> HIDE DEF k1
<1>2. g.do = "bind" /\ g.n = k1 /\ g.d = d /\ g.sib = TRUE /\ g \in Frames
  BY <1>1 DEF Frames
<1>3. Rest(g) = Levels(k1, d) \cup TreesOf(Later(k1), d)
  BY <1>2 DEF Rest
<1>4. Levels(k1, d) \cup TreesOf(Later(k1), d) = TreesOf({k1} \cup Later(k1), d)
  BY DEF TreesOf
<1>5. Rest(g) = TreesOf(Children({n}), d)
  BY <1>1, <1>3, <1>4
<1> QED
  BY <1>1, <1>2, <1>5 DEF k1

LEMMA TwoInARow ==
    ASSUME NEW T, NEW a \in T, NEW b \in T
    PROVE  <<a>> \o <<b>> = <<a, b>>
<1> DEFINE x == <<a>>
           y == <<b>>
           z == <<a, b>>
<1>1. x \in Seq(T) /\ y \in Seq(T) /\ Len(x) = 1 /\ Len(y) = 1 /\ x[1] = a /\ y[1] = b
  OBVIOUS
<1>2. z \in Seq(T) /\ Len(z) = 2 /\ z[1] = a /\ z[2] = b
  OBVIOUS
<1> HIDE DEF x, y, z
<1>3. /\ x \o y \in Seq(T) /\ Len(x \o y) = Len(x) + Len(y)
      /\ \A i \in 1..(Len(x) + Len(y)) : (x \o y)[i] = IF i <= Len(x) THEN x[i] ELSE y[i - Len(x)]
  BY <1>1, ConcatProperties, Zenon
<1>4. \A i \in 1..2 : (x \o y)[i] = z[i]
  BY <1>1, <1>2, <1>3
<1>5. Len(x \o y) = Len(z)
  BY <1>1, <1>2, <1>3
<1>6. x \o y = z
  BY <1>2, <1>3, <1>4, <1>5, SeqEqual
<1> QED
  BY <1>6 DEF x, y, z

LEMMA BindSplits ==
    ASSUME NodeTypeOK, TreeOK, NEW f \in Frames, f.n \in made, f.do = "bind", f.sib => f.d < 2
    PROVE  LET X == Kids(f) \o (IF f.sib THEN <<[f EXCEPT !.do = "next"]>> ELSE <<>>)
           IN /\ X \in Seq(Frames)
              /\ \A k \in DOMAIN X : Follows(f, X[k])
              /\ {f.n} \cup UNION {Rest(X[k]) : k \in DOMAIN X} = Rest(f)
              /\ \A k \in DOMAIN X : Rest(X[k]) \cap {f.n} = {}
              /\ \A j, k \in DOMAIN X : j # k => Rest(X[j]) \cap Rest(X[k]) = {}
<1> DEFINE n == f.n
           d == f.d
           G == IF d > 0 THEN TreesOf(Children({n}), d - 1) ELSE {}
           H == IF f.sib THEN TreesOf(Later(n), d) ELSE {}
           h == [f EXCEPT !.do = "next"]
           A == Kids(f)
           B == IF f.sib THEN <<h>> ELSE <<>>
           X == A \o B
<1>1. n \in Nodes /\ d \in -2..2 /\ f.sib \in BOOLEAN
  BY DEF Frames
<1>2. Levels(n, d) = {n} \cup G /\ n \notin G
  <2>1. CASE d > 0
    <3>1. d \in 1..2
      BY <1>1, <2>1
    <3> QED
      BY <1>1, <2>1, <3>1, TreeOfNode
  <2>2. CASE ~(d > 0)
    <3>1. d \in -2..0
      BY <1>1, <2>2
    <3> QED
      BY <2>2, <3>1, LeafLevels
  <2> QED
    BY <2>1, <2>2
<1>3. ({n} \cup G) \cap H = {}
  <2>1. CASE f.sib
    <3>1. d \in -2..1
      BY <1>1, <2>1
    <3> QED
      BY <1>1, <1>2, <2>1, <3>1, SiblingsApart
  <2> QED
    BY <2>1
<1>4. Rest(f) = {n} \cup G \cup H
  BY <1>2 DEF Rest
<1>5. \/ A = <<>> /\ G = {}
      \/ \E a \in Frames : A = <<a>> /\ Rest(a) = G /\ Follows(f, a)
  <2>1. CASE d > 0 /\ kids[n] # <<>>
    <3> DEFINE a == [do |-> "bind", n |-> kids[n][1], d |-> d - 1, sib |-> TRUE]
    <3>1. d - 1 \in -2..1
      BY <1>1, <2>1
    <3>2. Rest(a) = TreesOf(Children({n}), d - 1) /\ Follows(f, a) /\ a \in Frames
      BY <1>1, <2>1, <3>1, FamilyFrame DEF Follows
    <3>3. A = <<a>>
      BY <2>1 DEF Kids, WithSiblings
    <3> QED
      BY <2>1, <3>2, <3>3
  <2>2. CASE d > 0 /\ kids[n] = <<>>
    <3>1. Children({n}) = {}
      BY <1>1, <2>2 DEF Children
    <3>2. G = {}
      BY <3>1 DEF TreesOf
    <3> QED
      BY <2>2, <3>2 DEF Kids
  <2>3. CASE ~(d > 0)
    BY <2>3 DEF Kids
  <2> QED
    BY <2>1, <2>2, <2>3
<1>6. \/ B = <<>> /\ H = {}
      \/ \E b \in Frames : B = <<b>> /\ Rest(b) = H /\ Follows(f, b)
  <2>1. CASE f.sib
    <3>1. h \in Frames /\ h.do = "next" /\ h.n = n /\ h.d = d /\ h.sib = f.sib
      BY DEF Frames
    <3>2. Rest(h) = H
      BY <2>1, <3>1 DEF Rest
    <3> QED
      BY <2>1, <3>1, <3>2 DEF Follows
  <2> QED
    BY <2>1
<1> HIDE DEF A, B, G, H, n
<1>7. CASE A = <<>> /\ G = {} /\ B = <<>> /\ H = {}
  <2>1. X = <<>>
    BY <1>7
  <2> QED
    BY <1>4, <1>7, <2>1 DEF A, B, n
<1>8. CASE A # <<>> /\ B = <<>> /\ H = {}
  <2>1. PICK a \in Frames : A = <<a>> /\ Rest(a) = G /\ Follows(f, a)
    BY <1>5, <1>8
  <2>2. X = <<a>>
    BY <1>8, <2>1
  <2>3. X \in Seq(Frames) /\ DOMAIN X = {1} /\ X[1] = a
    BY <2>2
  <2>4. {n} \cup UNION {Rest(X[k]) : k \in DOMAIN X} = Rest(f)
    BY <1>4, <1>8, <2>1, <2>3
  <2> QED
    BY <1>2, <2>1, <2>3, <2>4 DEF A, B, n
<1>9. CASE A = <<>> /\ G = {} /\ B # <<>>
  <2>1. PICK b \in Frames : B = <<b>> /\ Rest(b) = H /\ Follows(f, b)
    BY <1>6, <1>9
  <2>2. X = <<b>>
    BY <1>9, <2>1
  <2>3. X \in Seq(Frames) /\ DOMAIN X = {1} /\ X[1] = b
    BY <2>2
  <2>4. {n} \cup UNION {Rest(X[k]) : k \in DOMAIN X} = Rest(f)
    BY <1>4, <1>9, <2>1, <2>3
  <2> QED
    BY <1>3, <2>1, <2>3, <2>4 DEF A, B, n
<1>10. CASE A # <<>> /\ B # <<>>
  <2>1. PICK a \in Frames : A = <<a>> /\ Rest(a) = G /\ Follows(f, a)
    BY <1>5, <1>10
  <2>2. PICK b \in Frames : B = <<b>> /\ Rest(b) = H /\ Follows(f, b)
    BY <1>6, <1>10
  <2>3. X = <<a, b>>
    <3>1. <<a>> \o <<b>> = <<a, b>>
      BY TwoInARow
    <3> QED
      BY <2>1, <2>2, <3>1
  <2>4. X \in Seq(Frames) /\ DOMAIN X = {1, 2} /\ X[1] = a /\ X[2] = b
    BY <2>3
  <2>5. {n} \cup UNION {Rest(X[k]) : k \in DOMAIN X} = Rest(f)
    BY <1>4, <2>1, <2>2, <2>4
  <2> QED
    BY <1>2, <1>3, <2>1, <2>2, <2>4, <2>5 DEF A, B, n
<1>11. (A = <<>> => G = {}) /\ (B = <<>> => H = {})
  <2>1. \A a \in Frames : <<a>> # <<>>
    OBVIOUS
  <2> QED
    BY <1>5, <1>6, <2>1
<1> QED
  BY <1>7, <1>8, <1>9, <1>10, <1>11 DEF A, B, n

LEMMA NextSplits ==
    ASSUME NodeTypeOK, TreeOK, NEW f \in Frames, f.n \in made, f.do = "next", f.sib, f.d < 2,
           NEW m \in NextSiblings(f.n)
    PROVE  LET X == WithSiblings(m, f.d)
           IN /\ X \in Seq(Frames)
              /\ \A k \in DOMAIN X : Follows(f, X[k])
              /\ UNION {Rest(X[k]) : k \in DOMAIN X} = Rest(f)
              /\ \A j, k \in DOMAIN X : j # k => Rest(X[j]) \cap Rest(X[k]) = {}
<1> DEFINE n == f.n
           d == f.d
           g == [do |-> "bind", n |-> m, d |-> d, sib |-> TRUE]
           X == <<g>>
<1>1. n \in Nodes /\ d \in -2..2 /\ m \in Nodes
  BY DEF Frames, NextSiblings
<1>2. m \in made /\ DocOf[m] = DocOf[n] /\ Later(n) = {m} \cup Later(m)
  BY <1>1, FollowingSiblings
<1>3. g \in Frames /\ g.do = "bind" /\ g.n = m /\ g.d = d /\ g.sib = TRUE
  BY <1>1 DEF Frames
<1>4. Rest(g) = Levels(m, d) \cup TreesOf(Later(m), d) /\ Rest(f) = TreesOf(Later(n), d)
  BY <1>3 DEF Rest
<1>5. Rest(g) = Rest(f)
  <2>1. TreesOf({m} \cup Later(m), d) = Levels(m, d) \cup TreesOf(Later(m), d)
    BY DEF TreesOf
  <2> QED
    BY <1>2, <1>4, <2>1
<1>6. Follows(f, g)
  BY <1>2, <1>3 DEF Follows
<1> HIDE DEF g, n, d
<1>7. X \in Seq(Frames) /\ DOMAIN X = {1} /\ X[1] = g
  BY <1>3
<1>8. UNION {Rest(X[k]) : k \in DOMAIN X} = Rest(f)
  BY <1>5, <1>7
<1>9. WithSiblings(m, f.d) = X
  BY DEF WithSiblings, g, d
<1> QED
  BY <1>6, <1>7, <1>8, <1>9

-----------------------------------------------------------------------------
(* What every step does: nodes and numbers are only added, or the          *)
(* numbering starts anew; and who has begun to walk is torn when a tree or *)
(* the numbering changes.                                                  *)
Disturbs ==
    /\ made \subseteq made' /\ torn \subseteq torn'
    /\ \/ epoch' = epoch /\ \A i \in Ids : idToNode[i] # None => idToNode'[i] = idToNode[i]
       \/ epoch' = epoch + 1
    /\ UNCHANGED <<kids, epoch>> \/ Begun \subseteq torn'

LEMMA SameTree ==
    ASSUME UNCHANGED kids
    PROVE  /\ \A f : Rest(f)' = Rest(f)
           /\ \A n, d : Levels(n, d)' = Levels(n, d)
BY DEF Rest, TreesOf, Levels, Children, Later

LEMMA SameParts ==
    ASSUME UNCHANGED kids, NEW found, NEW stack, NEW whole, Parts(found, stack, whole)
    PROVE  Parts(found, stack, whole)'
<1>1. \A f : Rest(f)' = Rest(f)
  BY SameTree
<1> QED
  BY <1>1 DEF Parts

LEMMA OthersKeep ==
    ASSUME NodeIInv, Disturbs, NEW d \in Cmds, cmd'[d] = cmd[d]
    PROVE  CmdAt(d)' /\ WholeAt(d)'
<1>1. NodeTypeOK /\ CmdAt(d) /\ WholeAt(d) /\ cmd[d] \in CmdRecords /\ epoch \in Nat
  BY DEF NodeIInv, NodeTypeOK
<1>2. cmd[d].stack \in Seq(Frames) /\ cmd[d].ans \in Seq(Named)
  BY <1>1 DEF CmdRecords
<1>3. ASSUME NEW k \in DOMAIN cmd[d].stack
      PROVE  FrameAt(d, cmd[d].stack[k])'
  BY <1>1 DEF CmdAt, FrameAt, Disturbs
<1>4. ASSUME NEW k \in DOMAIN cmd[d].ans
      PROVE  NameAt(d, cmd[d].ans[k])'
  <2>1. PICK a \in Named : a = cmd[d].ans[k]
    BY <1>2
  <2>2. a.at \in Nat /\ a.id \in Ids /\ a.n # None
    BY <2>1, NodesAssumption DEF Named
  <2>3. NameAt(d, a)
    BY <1>1, <2>1 DEF CmdAt
  <2>4. a.at <= epoch' /\ (a.at = epoch' => idToNode'[a.id] = a.n)
    <3>1. CASE epoch' = epoch /\ \A i \in Ids : idToNode[i] # None => idToNode'[i] = idToNode[i]
      BY <2>2, <2>3, <3>1 DEF NameAt
    <3>2. CASE epoch' = epoch + 1
      BY <1>1, <2>2, <2>3, <3>2 DEF NameAt
    <3> QED
      BY <3>1, <3>2 DEF Disturbs
  <2> QED
    BY <2>1, <2>3, <2>4 DEF NameAt
<1>5. CmdAt(d)'
  <2>1. /\ \A k \in DOMAIN cmd'[d].stack : FrameAt(d, cmd[d].stack[k])'
        /\ \A k \in DOMAIN cmd'[d].ans : NameAt(d, cmd[d].ans[k])'
    BY <1>3, <1>4
  <2>2. cmd[d].root \in made => cmd[d].root \in made'
    BY DEF Disturbs
  <2> QED
    BY <1>1, <2>1, <2>2 DEF CmdAt, At
<1>6. WholeAt(d)'
  <2>1. CASE UNCHANGED <<kids, epoch>>
    <3>1. Expected(d)' = Expected(d)
      BY <2>1, SameTree DEF Expected
    <3>2. Parts(NodesIn(cmd[d].ans), cmd[d].stack, Expected(d))
             => Parts(NodesIn(cmd[d].ans), cmd[d].stack, Expected(d))'
      BY <2>1, <3>1, SameTree, SMTT(30) DEF Parts, NodesIn
    <3> QED
      BY <1>1, <2>1, <3>1, <3>2 DEF WholeAt, Disturbs, At
  <2>2. CASE Begun \subseteq torn'
    BY <2>2 DEF WholeAt, Begun, At
  <2> QED
    BY <2>1, <2>2 DEF Disturbs
<1> QED
  BY <1>5, <1>6

(* A step that sets the record of c. *)
LEMMA CommandMoves ==
    ASSUME NodeIInv, Disturbs, NEW c \in Cmds, NEW w \in CmdRecords, cmd' = [cmd EXCEPT ![c] = w],
           nextID' \in 1..(MaxId + 1), epoch' \in Nat,
           nodeToID' \in [Nodes -> 0..MaxId], idToNode' \in [Ids -> Nodes \cup {None}],
           kids' \in [Nodes -> Seq(Nodes)], made' \subseteq Nodes, shown' \in Docs \cup {None},
           torn' \subseteq Cmds, MapsInverse', TreeOK', NumbersMade', CmdAt(c)', WholeAt(c)'
    PROVE  NodeIInv'
<1>1. cmd' \in [Cmds -> CmdRecords] /\ \A d \in Cmds : d # c => cmd'[d] = cmd[d]
  BY DEF NodeIInv, NodeTypeOK
<1>2. NodeTypeOK'
  BY <1>1 DEF NodeTypeOK
<1>3. \A d \in Cmds : CmdAt(d)' /\ WholeAt(d)'
  BY <1>1, OthersKeep
<1> QED
  BY <1>2, <1>3 DEF NodeIInv

(* A step that leaves the numbers and the trees alone. *)
LEMMA QuietMove ==
    ASSUME NodeIInv, UNCHANGED <<store, tree, shown, torn>>, NEW c \in Cmds, NEW w \in CmdRecords,
           cmd' = [cmd EXCEPT ![c] = w], CmdAt(c)', WholeAt(c)'
    PROVE  NodeIInv'
<1>1. UNCHANGED <<nextID, nodeToID, idToNode, epoch, kids, made, shown, torn>>
  BY DEF store, tree
<1>2. Disturbs
  BY <1>1 DEF Disturbs
<1>3. /\ nextID' \in 1..(MaxId + 1) /\ epoch' \in Nat
      /\ nodeToID' \in [Nodes -> 0..MaxId] /\ idToNode' \in [Ids -> Nodes \cup {None}]
      /\ kids' \in [Nodes -> Seq(Nodes)] /\ made' \subseteq Nodes /\ shown' \in Docs \cup {None}
      /\ torn' \subseteq Cmds
  BY <1>1 DEF NodeIInv, NodeTypeOK
<1>4. MapsInverse' /\ TreeOK' /\ NumbersMade'
  <2>1. MapsInverse'
    BY <1>1 DEF NodeIInv, MapsInverse, Bound
  <2>2. TreeOK'
    BY <1>1 DEF NodeIInv, TreeOK, Trees
  <2>3. NumbersMade'
    BY <1>1 DEF NodeIInv, NumbersMade
  <2> QED
    BY <2>1, <2>2, <2>3
<1> QED
  BY <1>2, <1>3, <1>4, CommandMoves

-----------------------------------------------------------------------------
(* The steps of the DOM domain *)

WholeOf(op, root, d) ==
    IF op = "children" THEN Levels(root, IF d < 1 THEN 1 ELSE d) \ {root} ELSE Levels(root, d)

(* A command that begins knows what it is about and has yet to walk all of *)
(* it.                                                                     *)
LEMMA BeginKeeps ==
    ASSUME NodeIInv, UNCHANGED <<store, tree, shown>>, NEW c \in Cmds,
           NEW pc \in {"idle", "reset", "walk", "parse", "done"},
           NEW op \in {"none", "getDocument", "query", "setOuterHTML", "children", "describe"},
           NEW root \in Nodes \cup {None}, NEW d \in -1..2, NEW stack \in Seq(Frames),
           Begin(c, pc, op, root, d, stack),
           pc = "reset" => op = "getDocument" /\ root \in Docs,
           pc = "parse" => op = "setOuterHTML" /\ root \in made,
           pc # "walk" => stack = <<>>,
           \A k \in DOMAIN stack :
              /\ stack[k].n \in made /\ DocOf[stack[k].n] = DocOf[root]
              /\ stack[k].do = "next" => stack[k].sib
              /\ stack[k].sib => stack[k].d < 2,
           op \in Whole /\ pc \in {"walk", "done"} => Parts({}, stack, WholeOf(op, root, d))
    PROVE  NodeIInv'
<1> DEFINE w == [pc |-> pc, op |-> op, root |-> root, depth |-> d, stack |-> stack, ans |-> <<>>]
<1>1. w \in CmdRecords
  BY DEF CmdRecords
<1>2. /\ w.pc = pc /\ w.op = op /\ w.root = root /\ w.depth = d /\ w.stack = stack /\ w.ans = <<>>
  OBVIOUS
<1>3. cmd' = [cmd EXCEPT ![c] = w] /\ UNCHANGED torn
  BY DEF Begin
<1> HIDE DEF w
<1>4. cmd'[c] = w /\ UNCHANGED <<kids, made, epoch, idToNode>>
  BY <1>3 DEF NodeIInv, NodeTypeOK, tree, store
<1>5. CmdAt(c)'
  <2>1. \A k \in DOMAIN stack : FrameAt(c, stack[k])'
    BY <1>2, <1>4 DEF FrameAt
  <2>2. DOMAIN w.ans = {}
    BY <1>2
  <2> QED
    BY <1>2, <1>4, <2>1, <2>2 DEF CmdAt, At
<1>6. WholeAt(c)'
  <2>1. DOMAIN w.ans = {} /\ NodesIn(w.ans) = {}
    BY <1>2 DEF NodesIn
  <2>2. Expected(c)' = WholeOf(op, root, d)
    BY <1>2, <1>4, SameTree, ZenonT(60) DEF Expected, WholeOf
  <2>3. op \in Whole /\ pc \in {"walk", "done"} => Parts(NodesIn(cmd[c].ans), cmd[c].stack, Expected(c))'
    <3> SUFFICES ASSUME op \in Whole, pc \in {"walk", "done"}
                 PROVE  Parts(NodesIn(cmd[c].ans), cmd[c].stack, Expected(c))'
      OBVIOUS
    <3>1. PICK whole : whole = WholeOf(op, root, d)
      OBVIOUS
    <3>2. Parts({}, stack, whole)'
      BY <1>4, <3>1, SameParts
    <3>3. NodesIn(cmd[c].ans)' = {} /\ (cmd[c].stack)' = stack /\ Expected(c)' = whole
      BY <1>2, <1>4, <2>1, <2>2, <3>1 DEF NodesIn
    <3> QED
      BY <3>2, <3>3 DEF Parts
  <2> QED
    BY <1>2, <1>4, <2>1, <2>3 DEF WholeAt, At
<1>7. UNCHANGED <<store, tree, shown, torn>>
  BY <1>3
<1> QED
  BY <1>1, <1>3, <1>5, <1>6, <1>7, QuietMove

LEMMA NothingKeeps ==
    ASSUME NodeIInv, UNCHANGED <<store, tree, shown>>, NEW c \in Cmds, Nothing(c)
    PROVE  NodeIInv'
<1> DEFINE st == <<>>
<1>1. st \in Seq(Frames) /\ DOMAIN st = {} /\ "none" \notin Whole /\ 0 \in -1..2
  BY DEF Whole
<1>2. Begin(c, "done", "none", None, 0, st)
  BY DEF Nothing
<1> HIDE DEF st
<1>3. st = <<>>
  BY DEF st
<1> QED
  BY <1>1, <1>2, <1>3, BeginKeeps

(* One frame, and the tree of its node is what the command is about. *)
LEMMA OneBinding ==
    ASSUME NEW n \in made, NodeTypeOK, NEW d \in -2..2
    PROVE  /\ Bindings(n, d) \in Seq(Frames) /\ DOMAIN Bindings(n, d) = {1}
           /\ Bindings(n, d)[1].n = n /\ Bindings(n, d)[1].do = "bind" /\ Bindings(n, d)[1].sib = FALSE
           /\ Parts({}, Bindings(n, d), Levels(n, d))
<1> DEFINE f == [do |-> "bind", n |-> n, d |-> d, sib |-> FALSE]
<1>1. f \in Frames /\ f.do = "bind" /\ f.n = n /\ f.d = d /\ f.sib = FALSE
  BY DEF Frames, NodeTypeOK
<1>2. Rest(f) = Levels(n, d)
  BY <1>1 DEF Rest
<1>3. Bindings(n, d) = <<f>>
  BY DEF Bindings
<1> HIDE DEF f
<1>4. <<f>> \in Seq(Frames) /\ DOMAIN <<f>> = {1} /\ <<f>>[1] = f
  BY <1>1
<1>5. Parts({}, <<f>>, Levels(n, d))
  BY <1>2, <1>4 DEF Parts
<1> QED
  BY <1>1, <1>3, <1>4, <1>5

LEMMA GetDocumentKeeps ==
    ASSUME NodeIInv, NEW c \in Cmds, NEW d \in Depths, GetDocument(c, d)
    PROVE  NodeIInv'
<1>1. UNCHANGED <<store, tree, shown>>
  BY DEF GetDocument
<1>2. CASE shown = None
  BY <1>1, <1>2, NothingKeeps DEF GetDocument
<1>3. CASE shown # None
  <2>1. Begin(c, "reset", "getDocument", shown, d, <<>>)
    BY <1>3 DEF GetDocument
  <2>2. shown \in Docs /\ shown \in Nodes /\ d \in -1..2
    BY <1>3, NodesAssumption, DepthsAreInts DEF NodeIInv, NodeTypeOK
  <2>3. <<>> \in Seq(Frames) /\ DOMAIN <<>> = {}
    OBVIOUS
  <2> QED
    BY <1>1, <2>1, <2>2, <2>3, BeginKeeps
<1> QED
  BY <1>2, <1>3

LEMMA DescribeKeeps ==
    ASSUME NodeIInv, UNCHANGED <<store, tree, shown>>, NEW c \in Cmds, NEW n \in made,
           NEW d \in Depths, DescribeNode(c, n, d)
    PROVE  NodeIInv'
<1>1. n \in Nodes /\ d \in -1..2 /\ d \in -2..2 /\ NodeTypeOK
  BY DepthsAreInts DEF NodeIInv, NodeTypeOK
<1>2. Begin(c, "walk", "describe", n, d, Bindings(n, d))
  BY DEF DescribeNode
<1>3. WholeOf("describe", n, d) = Levels(n, d)
  BY DEF WholeOf
<1> DEFINE st == Bindings(n, d)
<1>4. /\ st \in Seq(Frames) /\ DOMAIN st = {1} /\ st[1].n = n /\ st[1].do = "bind" /\ st[1].sib = FALSE
      /\ Parts({}, st, WholeOf("describe", n, d))
  BY <1>1, <1>3, OneBinding
<1> HIDE DEF st
<1>5. Begin(c, "walk", "describe", n, d, st)
  BY <1>2 DEF st
<1> QED
  BY <1>1, <1>4, <1>5, BeginKeeps

LEMMA BelowAre ==
    ASSUME NodeTypeOK, TreeOK, NEW n \in Nodes, NEW m \in Below(n)
    PROVE  m \in made /\ DocOf[m] = DocOf[n]
<1> DEFINE sons == Children({n})
           grandsons == Children(sons)
<1>1. sons \subseteq Nodes /\ grandsons \subseteq Nodes /\ {n} \subseteq Nodes
  BY DEF Children
<1>2. \A x \in sons : x \in made /\ DocOf[x] = DocOf[n]
  BY <1>1, ChildrenAre
<1> HIDE DEF sons
<1>3. \A x \in grandsons : x \in made /\ DocOf[x] = DocOf[n]
  BY <1>1, <1>2, ChildrenAre
<1> HIDE DEF grandsons
<1>4. \A x \in Children(grandsons) : x \in made /\ DocOf[x] = DocOf[n]
  BY <1>1, <1>3, ChildrenAre
<1>5. m \in sons \/ m \in grandsons \/ m \in Children(grandsons)
  BY DEF Below, sons, grandsons
<1> QED
  BY <1>2, <1>3, <1>4, <1>5

LEMMA QueryKeeps ==
    ASSUME NodeIInv, UNCHANGED <<store, tree, shown>>, NEW c \in Cmds, NEW n \in Nodes,
           QuerySelector(c, n) \/ QuerySelectorAll(c, n)
    PROVE  NodeIInv'
<1>1. NodeTypeOK /\ TreeOK /\ "query" \notin Whole
  BY DEF NodeIInv, Whole
<1>2. ASSUME NEW m \in Below(n), Begin(c, "walk", "query", n, 0, Bindings(m, 0))
      PROVE  NodeIInv'
  <2>1. m \in made /\ DocOf[m] = DocOf[n]
    BY <1>1, BelowAre
  <2> DEFINE st == Bindings(m, 0)
  <2>0. 0 \in -2..2
    OBVIOUS
  <2>2. /\ st \in Seq(Frames) /\ DOMAIN st = {1} /\ st[1].n = m /\ st[1].do = "bind" /\ st[1].sib = FALSE
    BY <1>1, <2>0, <2>1, OneBinding
  <2> HIDE DEF st
  <2>3. Begin(c, "walk", "query", n, 0, st)
    BY <1>2 DEF st
  <2> QED
    BY <1>1, <2>1, <2>2, <2>3, BeginKeeps
<1>3. ASSUME NEW m1 \in Below(n), NEW m2 \in Below(n),
             Begin(c, "walk", "query", n, 0, Bindings(m1, 0) \o Bindings(m2, 0))
      PROVE  NodeIInv'
  <2>1. m1 \in made /\ DocOf[m1] = DocOf[n] /\ m2 \in made /\ DocOf[m2] = DocOf[n]
    BY <1>1, BelowAre
  <2> DEFINE f1 == [do |-> "bind", n |-> m1, d |-> 0, sib |-> FALSE]
             f2 == [do |-> "bind", n |-> m2, d |-> 0, sib |-> FALSE]
  <2>2. /\ f1 \in Frames /\ f1.n = m1 /\ f1.do = "bind" /\ f1.sib = FALSE
        /\ f2 \in Frames /\ f2.n = m2 /\ f2.do = "bind" /\ f2.sib = FALSE
    BY <1>1, <2>1 DEF Frames, NodeTypeOK
  <2>3. Bindings(m1, 0) = <<f1>> /\ Bindings(m2, 0) = <<f2>>
    BY DEF Bindings
  <2> HIDE DEF f1, f2
  <2>4. Bindings(m1, 0) \o Bindings(m2, 0) = <<f1, f2>>
    BY <2>2, <2>3, TwoInARow
  <2> DEFINE st == <<f1, f2>>
  <2>5. st \in Seq(Frames) /\ DOMAIN st = {1, 2} /\ st[1] = f1 /\ st[2] = f2
    BY <2>2
  <2>6. Begin(c, "walk", "query", n, 0, st)
    BY <1>3, <2>4
  <2> HIDE DEF st
  <2> QED
    BY <1>1, <2>1, <2>2, <2>5, <2>6, BeginKeeps
<1> QED
  BY <1>2, <1>3, NothingKeeps DEF QuerySelector, QuerySelectorAll

LEMMA ChildNodesKeeps ==
    ASSUME NodeIInv, UNCHANGED <<store, tree, shown>>, NEW c \in Cmds, NEW n \in Nodes,
           NEW d \in Depths, RequestChildNodes(c, n, d)
    PROVE  NodeIInv'
<1>1. NodeTypeOK /\ TreeOK /\ d \in -1..2
  BY DepthsAreInts DEF NodeIInv
<1> DEFINE e == IF d < 1 THEN 1 ELSE d
<1>2. WholeOf("children", n, d) = TreesOf(Children({n}), d - 1)
  <2>1. e \in 1..2
    BY <1>1
  <2>2. WholeOf("children", n, d) = Levels(n, e) \ {n}
    BY DEF WholeOf
  <2>3. Levels(n, e) \ {n} = TreesOf(Children({n}), e - 1)
    <3> HIDE DEF e
    <3> QED
      BY <1>1, <2>1, TreeOfNode
  <2>4. CASE d < 1
    <3>1. e = 1 /\ e - 1 \in -2..0 /\ d - 1 \in -2..0
      BY <1>1, <2>4
    <3>2. \A m : Levels(m, e - 1) = Levels(m, d - 1)
      BY <3>1, LeafLevels
    <3>3. TreesOf(Children({n}), e - 1) = TreesOf(Children({n}), d - 1)
      <4> HIDE DEF e
      <4> QED
        BY <3>2 DEF TreesOf
    <3> HIDE DEF e
    <3> QED
      BY <2>2, <2>3, <3>3
  <2>5. CASE ~(d < 1)
    BY <2>2, <2>3, <2>5
  <2> QED
    BY <2>4, <2>5
<1>3. CASE kids[n] = <<>>
  <2>1. Begin(c, "done", "children", n, d, <<>>)
    BY <1>3 DEF RequestChildNodes
  <2>2. Children({n}) = {}
    BY <1>3 DEF Children
  <2>3. WholeOf("children", n, d) = {}
    BY <1>2, <2>2 DEF TreesOf
  <2>4. <<>> \in Seq(Frames) /\ DOMAIN <<>> = {}
    OBVIOUS
  <2>5. Parts({}, <<>>, WholeOf("children", n, d))
    BY <2>3, <2>4 DEF Parts
  <2> QED
    BY <1>1, <2>1, <2>4, <2>5, BeginKeeps
<1>4. CASE kids[n] # <<>>
  <2> DEFINE g == [do |-> "bind", n |-> kids[n][1], d |-> d - 1, sib |-> TRUE]
  <2>1. d - 1 \in -2..1
    BY <1>1
  <2>2. /\ Rest(g) = TreesOf(Children({n}), d - 1)
        /\ g \in Frames /\ g.n \in made /\ DocOf[g.n] = DocOf[n]
        /\ g.do = "bind" /\ g.sib /\ g.d < 2
    BY <1>1, <1>4, <2>1, FamilyFrame
  <2>3. Begin(c, "walk", "children", n, d, <<g>>)
    BY <1>4 DEF RequestChildNodes, WithSiblings
  <2> HIDE DEF g
  <2> DEFINE st == <<g>>
  <2>4. st \in Seq(Frames) /\ DOMAIN st = {1} /\ st[1] = g
    BY <2>2
  <2> HIDE DEF st
  <2>5. Parts({}, st, WholeOf("children", n, d))
    BY <1>2, <2>2, <2>4 DEF Parts
  <2>6. Begin(c, "walk", "children", n, d, st)
    BY <2>3 DEF st
  <2> QED
    BY <1>1, <2>2, <2>4, <2>5, <2>6, BeginKeeps
<1> QED
  BY <1>3, <1>4

LEMMA CommandKeeps ==
    ASSUME NodeIInv, NEW c \in Cmds, Command(c)
    PROVE  NodeIInv'
<1>1. UNCHANGED <<store, tree, shown>> /\ (WithoutNode(c) \/ \E i \in Ids : WithNode(c, i))
  BY DEF Command
<1>2. ASSUME NEW i \in Ids, WithNode(c, i)
      PROVE  NodeIInv'
  <2> DEFINE n == idToNode[i]
  <2>1. n \in made /\ n \in Nodes
    BY <1>2 DEF WithNode, NodeIInv, NumbersMade, NodeTypeOK
  <2>2. \/ QuerySelector(c, n) \/ QuerySelectorAll(c, n)
        \/ OuterHTML(c, n) \/ OfElement(c, n) \/ SetOuterHTML(c, n)
        \/ \E d \in Depths : RequestChildNodes(c, n, d) \/ DescribeNode(c, n, d)
    BY <1>2 DEF WithNode
  <2> HIDE DEF n
  <2>3. CASE SetOuterHTML(c, n)
    <3>1. CASE n \in Elements /\ HasParent(n)
      <4> DEFINE st == <<>>
      <4>1. Begin(c, "parse", "setOuterHTML", n, 0, st)
        BY <2>3, <3>1 DEF SetOuterHTML
      <4>2. /\ st \in Seq(Frames) /\ DOMAIN st = {} /\ st = <<>>
            /\ "setOuterHTML" \notin Whole /\ 0 \in -1..2
        BY DEF Whole
      <4> HIDE DEF st
      <4> QED
        BY <1>1, <2>1, <4>1, <4>2, BeginKeeps
    <3>2. CASE ~(n \in Elements /\ HasParent(n))
      BY <1>1, <2>3, <3>2, NothingKeeps DEF SetOuterHTML
    <3> QED
      BY <3>1, <3>2
  <2> QED
    BY <1>1, <2>1, <2>2, <2>3, QueryKeeps, NothingKeeps, ChildNodesKeeps, DescribeKeeps
       DEF OuterHTML, OfElement
<1>3. ASSUME WithoutNode(c)
      PROVE  NodeIInv'
  <2>1. CASE Nothing(c)
    BY <1>1, <2>1, NothingKeeps
  <2>2. CASE shown # None /\ \E d \in Depths : DescribeNode(c, shown, d)
    <3>1. shown \in made
      BY <2>2 DEF NodeIInv, NodeTypeOK, TreeOK
    <3> QED
      BY <1>1, <2>2, <3>1, DescribeKeeps
  <2> QED
    BY <1>3, <2>1, <2>2 DEF WithoutNode
<1> QED
  BY <1>1, <1>2, <1>3

(* An answer with one more name. *)
LEMMA Appended ==
    ASSUME NEW an \in Seq(Named), NEW a \in Named
    PROVE  /\ Append(an, a) \in Seq(Named)
           /\ \A k \in DOMAIN Append(an, a) :
                 \/ k \in DOMAIN an /\ Append(an, a)[k] = an[k]
                 \/ k \notin DOMAIN an /\ k = Len(an) + 1 /\ Append(an, a)[k] = a
           /\ NodesIn(Append(an, a)) = NodesIn(an) \cup {a.n}
<1> DEFINE bn == Append(an, a)
<1>1. /\ bn \in Seq(Named) /\ Len(bn) = Len(an) + 1 /\ bn[Len(an) + 1] = a
      /\ \A k \in 1..Len(an) : bn[k] = an[k]
  BY AppendProperties
<1>2. DOMAIN an = 1..Len(an) /\ Len(an) \in Nat /\ DOMAIN bn = 1..(Len(an) + 1)
  BY <1>1
<1> HIDE DEF bn
<1>3. \A k \in DOMAIN bn : \/ k \in DOMAIN an /\ bn[k] = an[k]
                           \/ k \notin DOMAIN an /\ k = Len(an) + 1 /\ bn[k] = a
  BY <1>1, <1>2
<1>4. Len(an) + 1 \in DOMAIN bn /\ \A k \in DOMAIN an : k \in DOMAIN bn /\ bn[k] = an[k]
  BY <1>1, <1>2
<1>5. NodesIn(bn) = NodesIn(an) \cup {a.n}
  BY <1>1, <1>3, <1>4 DEF NodesIn
<1> QED
  BY <1>1, <1>3, <1>5 DEF bn

(* What a step of the walk must leave, trees and numbering undisturbed. *)
LEMMA WalkGoesOn ==
    ASSUME UNCHANGED <<kids, epoch, torn>>, NEW c \in Cmds, NEW w, cmd'[c] = w,
           w.op = cmd[c].op, w.root = cmd[c].root, w.depth = cmd[c].depth,
           c \notin torn =>
              /\ \A k \in DOMAIN w.ans : w.ans[k].at = epoch
              /\ w.op \in Whole =>
                    /\ Parts(NodesIn(w.ans), w.stack, Expected(c))
                    /\ \A j, k \in DOMAIN w.ans : j # k => w.ans[j].n # w.ans[k].n
    PROVE  WholeAt(c)'
<1>1. Expected(c)' = Expected(c)
  <2>1. (cmd[c].op)' = cmd[c].op /\ (cmd[c].root)' = cmd[c].root /\ (cmd[c].depth)' = cmd[c].depth
    OBVIOUS
  <2>2. \A n, d : Levels(n, d)' = Levels(n, d)
    BY SameTree
  <2> QED
    BY <2>1, <2>2 DEF Expected
<1>2. PICK found, st, whole : found = NodesIn(w.ans) /\ st = w.stack /\ whole = Expected(c)
  OBVIOUS
<1>3. Parts(found, st, whole) => Parts(found, st, whole)'
  BY SameParts
<1>4. (cmd[c].stack)' = st /\ Expected(c)' = whole /\ NodesIn(cmd[c].ans)' = found
  BY <1>1, <1>2 DEF NodesIn
<1>5. Parts(found, st, whole)' => Parts(NodesIn(cmd[c].ans), cmd[c].stack, Expected(c))'
  BY <1>4 DEF Parts
<1> QED
  BY <1>2, <1>3, <1>5 DEF WholeAt

LEMMA SerializeNodeKeeps ==
    ASSUME NodeIInv, NEW c \in Cmds, SerializeNode(c)
    PROVE  NodeIInv'
<1> DEFINE q == cmd[c]
<1>1. PICK f \in Frames : f = q.stack[1] /\ q.stack # <<>> /\ f.do = "bind" /\ Bind(f.n)
  BY EmptySeq DEF SerializeNode, NodeIInv, NodeTypeOK, CmdRecords
<1>2. /\ NodeTypeOK /\ MapsInverse /\ TreeOK /\ NumbersMade /\ CmdAt(c) /\ WholeAt(c)
      /\ q \in CmdRecords /\ q.stack \in Seq(Frames) /\ q.ans \in Seq(Named) /\ At(c, "walk")
      /\ epoch \in Nat /\ UNCHANGED <<kids, made, shown, torn>>
  BY DEF NodeIInv, NodeTypeOK, CmdRecords, SerializeNode, tree
<1>3. 1 \in DOMAIN q.stack /\ FrameAt(c, f)
  BY <1>1, <1>2, EmptySeq DEF CmdAt
<1>4. PICK id \in Ids : /\ id = IdAfterBind(f.n) /\ idToNode'[id] = f.n
                        /\ nextID' \in 1..(MaxId + 1) /\ epoch' = epoch
                        /\ nodeToID' \in [Nodes -> 0..MaxId] /\ idToNode' \in [Ids -> Nodes \cup {None}]
                        /\ \A i \in Ids : idToNode[i] # None => idToNode'[i] = idToNode[i]
                        /\ \A i \in Ids : idToNode'[i] # None => idToNode'[i] \in made
                        /\ MapsInverse'
  BY <1>1, <1>2, <1>3, BindNames DEF FrameAt
<1>5. PICK X \in Seq(Frames) :
          /\ X = Kids(f) \o (IF f.sib THEN <<[f EXCEPT !.do = "next"]>> ELSE <<>>)
          /\ \A k \in DOMAIN X : Follows(f, X[k])
          /\ {f.n} \cup UNION {Rest(X[k]) : k \in DOMAIN X} = Rest(f)
          /\ \A k \in DOMAIN X : Rest(X[k]) \cap {f.n} = {}
          /\ \A j, k \in DOMAIN X : j # k => Rest(X[j]) \cap Rest(X[k]) = {}
  <2> DEFINE Y == Kids(f) \o (IF f.sib THEN <<[f EXCEPT !.do = "next"]>> ELSE <<>>)
  <2>1. /\ Y \in Seq(Frames)
        /\ \A k \in DOMAIN Y : Follows(f, Y[k])
        /\ {f.n} \cup UNION {Rest(Y[k]) : k \in DOMAIN Y} = Rest(f)
        /\ \A k \in DOMAIN Y : Rest(Y[k]) \cap {f.n} = {}
        /\ \A j, k \in DOMAIN Y : j # k => Rest(Y[j]) \cap Rest(Y[k]) = {}
    <3>1. f.n \in made /\ (f.sib => f.d < 2) /\ f.do = "bind" /\ NodeTypeOK /\ TreeOK
      BY <1>1, <1>2, <1>3 DEF FrameAt
    <3> QED
      BY <3>1, BindSplits
  <2>2. Y = Kids(f) \o (IF f.sib THEN <<[f EXCEPT !.do = "next"]>> ELSE <<>>)
    OBVIOUS
  <2> HIDE DEF Y
  <2> QED
    BY <2>1, <2>2
<1>6. PICK a \in Named : a = [n |-> f.n, id |-> id, at |-> epoch]
  BY <1>1, <1>2, <1>4 DEF Named, Frames
<1>7. a.n = f.n /\ a.id = id /\ a.at = epoch
  BY <1>6
<1>8. PICK an \in Seq(Named) : an = Append(q.ans, a)
  <2>1. Append(q.ans, a) \in Seq(Named)
    <3> HIDE DEF q
    <3> QED
      BY <1>2, Appended
  <2> QED
    BY <2>1
<1>9. /\ \A k \in DOMAIN an : \/ k \in DOMAIN q.ans /\ an[k] = q.ans[k]
                              \/ k \notin DOMAIN q.ans /\ k = Len(q.ans) + 1 /\ an[k] = a
      /\ NodesIn(an) = NodesIn(q.ans) \cup {f.n}
  BY <1>2, <1>7, <1>8, Appended
<1>10. PICK st \in Seq(Frames) : st = X \o Tail(q.stack)
  BY <1>1, <1>2, ReplaceHead
<1>11. \A k \in DOMAIN st : \/ k \in DOMAIN X /\ st[k] = X[k]
                            \/ \E m \in DOMAIN q.stack : st[k] = q.stack[m]
  BY <1>1, <1>2, <1>10, ReplaceHead, SMTT(30)
<1>12. Kids(f) \o (IF f.sib THEN <<[f EXCEPT !.do = "next"]>> ELSE <<>>) \o Tail(q.stack) = st
  BY <1>5, <1>10
<1>13. PICK w \in CmdRecords :
           /\ cmd' = [cmd EXCEPT ![c] = w]
           /\ w.pc = q.pc /\ w.op = q.op /\ w.root = q.root /\ w.depth = q.depth
           /\ w.ans = an /\ w.stack = st
  <2> DEFINE w == [q EXCEPT !.ans = an, !.stack = st]
  <2>1. cmd' = [cmd EXCEPT ![c] = w]
    BY <1>1, <1>4, <1>6, <1>8, <1>12 DEF SerializeNode
  <2>2. /\ w \in CmdRecords /\ w.pc = q.pc /\ w.op = q.op /\ w.root = q.root /\ w.depth = q.depth
        /\ w.ans = an /\ w.stack = st
    <3> HIDE DEF q
    <3>1. w \in CmdRecords
      BY <1>2 DEF CmdRecords
    <3> QED
      BY <1>2, <3>1 DEF CmdRecords
  <2> HIDE DEF w
  <2> QED
    BY <2>1, <2>2
<1>14. cmd'[c] = w
  BY <1>2, <1>13 DEF NodeTypeOK
<1>15. CmdAt(c)'
  <2>1. \A k \in DOMAIN st : FrameAt(c, st[k])'
    <3> SUFFICES ASSUME NEW k \in DOMAIN st
                 PROVE  FrameAt(c, st[k])'
      OBVIOUS
    <3>1. FrameAt(c, st[k])
      <4>1. CASE k \in DOMAIN X /\ st[k] = X[k]
        BY <1>3, <1>5, <4>1 DEF FrameAt, Follows
      <4>2. CASE \E m \in DOMAIN q.stack : st[k] = q.stack[m]
        BY <1>2, <4>2 DEF CmdAt
      <4> QED
        BY <1>11, <4>1, <4>2
    <3> QED
      BY <1>2, <1>13, <1>14, <3>1 DEF FrameAt
  <2>2. \A k \in DOMAIN an : NameAt(c, an[k])'
    <3> SUFFICES ASSUME NEW k \in DOMAIN an
                 PROVE  NameAt(c, an[k])'
      OBVIOUS
    <3>1. CASE k \in DOMAIN q.ans /\ an[k] = q.ans[k]
      <4>1. PICK b \in Named : b = q.ans[k]
        BY <1>2, <3>1
      <4>2. NameAt(c, b) /\ b.id \in Ids /\ b.n # None
        BY <1>2, <3>1, <4>1, NodesAssumption DEF CmdAt, Named
      <4>3. NameAt(c, b)'
        BY <1>4, <1>13, <1>14, <4>2 DEF NameAt
      <4> QED
        BY <3>1, <4>1, <4>3
    <3>2. CASE an[k] = a
      <4>1. NameAt(c, a)'
        BY <1>2, <1>3, <1>4, <1>7, <1>13, <1>14 DEF NameAt, FrameAt
      <4> QED
        BY <3>2, <4>1
    <3> QED
      BY <1>9, <3>1, <3>2
  <2> QED
    BY <1>2, <1>13, <1>14, <2>1, <2>2 DEF CmdAt, At
<1>16. WholeAt(c)'
  <2> SUFFICES ASSUME c \notin torn
               PROVE  /\ \A k \in DOMAIN an : an[k].at = epoch
                      /\ q.op \in Whole =>
                          /\ Parts(NodesIn(an), st, Expected(c))
                          /\ \A j, k \in DOMAIN an : j # k => an[j].n # an[k].n
    BY <1>2, <1>4, <1>13, <1>14, WalkGoesOn, ZenonT(60)
  <2>1. /\ \A k \in DOMAIN q.ans : q.ans[k].at = epoch
        /\ q.op \in Whole => /\ Parts(NodesIn(q.ans), q.stack, Expected(c))
                             /\ \A j, k \in DOMAIN q.ans : j # k => q.ans[j].n # q.ans[k].n
    BY <1>2 DEF WholeAt
  <2>2. \A k \in DOMAIN an : an[k].at = epoch
    BY <1>7, <1>9, <2>1
  <2>3. ASSUME q.op \in Whole
        PROVE  Parts(NodesIn(an), st, Expected(c))
    <3>1. PICK S \in Seq(Frames) : S = q.stack
      BY <1>2
    <3>2. PICK whole : whole = Expected(c)
      OBVIOUS
    <3>3. PICK found : found = NodesIn(q.ans)
      OBVIOUS
    <3>4. S # <<>> /\ S[1] = f /\ Parts(found, S, whole) /\ st = X \o Tail(S)
      BY <1>1, <1>10, <2>1, <2>3, <3>1, <3>2, <3>3
    <3>5. PICK new : new = {f.n}
      OBVIOUS
    <3>6. /\ new \cup UNION {Rest(X[k]) : k \in DOMAIN X} = Rest(S[1])
          /\ \A k \in DOMAIN X : Rest(X[k]) \cap new = {}
          /\ \A j, k \in DOMAIN X : j # k => Rest(X[j]) \cap Rest(X[k]) = {}
      BY <1>5, <3>4, <3>5
    <3>7. Parts(found \cup new, X \o Tail(S), whole)
      BY <3>4, <3>6, PartsMove
    <3> QED
      BY <1>9, <3>2, <3>3, <3>4, <3>5, <3>7
  <2>4. ASSUME q.op \in Whole
        PROVE  \A j, k \in DOMAIN an : j # k => an[j].n # an[k].n
    <3>1. f.n \in Rest(f)
      BY <1>5
    <3>2. f.n \notin NodesIn(q.ans)
      BY <1>1, <1>3, <2>1, <2>4, <3>1 DEF Parts
    <3>3. \A k \in DOMAIN q.ans : q.ans[k].n # f.n
      BY <3>2 DEF NodesIn
    <3> QED
      BY <1>7, <1>9, <2>1, <2>4, <3>3
  <2> QED
    BY <2>2, <2>3, <2>4
<1>17. Disturbs
  BY <1>2, <1>4 DEF Disturbs
<1>18. TreeOK' /\ NumbersMade'
  BY <1>2, <1>4 DEF TreeOK, Trees, NumbersMade
<1>19. /\ kids' \in [Nodes -> Seq(Nodes)] /\ made' \subseteq Nodes /\ shown' \in Docs \cup {None}
       /\ torn' \subseteq Cmds /\ epoch' \in Nat
  BY <1>2, <1>4 DEF NodeTypeOK
<1> QED
  BY <1>4, <1>13, <1>15, <1>16, <1>17, <1>18, <1>19, CommandMoves

(* The walk goes on without binding. *)
LEMMA StackMoves ==
    ASSUME NodeIInv, NEW c \in Cmds, At(c, "walk"), UNCHANGED <<store, tree, shown, torn>>,
           NEW S \in Seq(Frames), S = cmd[c].stack, S # <<>>, NEW f \in Frames, f = S[1],
           NEW X \in Seq(Frames), \A k \in DOMAIN X : Follows(f, X[k]),
           UNION {Rest(X[k]) : k \in DOMAIN X} = Rest(f),
           \A j, k \in DOMAIN X : j # k => Rest(X[j]) \cap Rest(X[k]) = {},
           cmd' = [cmd EXCEPT ![c] = [cmd[c] EXCEPT !.stack = X \o Tail(S)]]
    PROVE  NodeIInv'
<1> DEFINE q == cmd[c]
<1>1. /\ NodeTypeOK /\ CmdAt(c) /\ WholeAt(c) /\ q \in CmdRecords
      /\ UNCHANGED <<kids, made, epoch, idToNode, torn>>
  BY DEF NodeIInv, NodeTypeOK, tree, store
<1>2. 1 \in DOMAIN S /\ FrameAt(c, f)
  BY <1>1, EmptySeq DEF CmdAt
<1>3. PICK st \in Seq(Frames) : st = X \o Tail(S)
  BY ReplaceHead
<1>4. \A k \in DOMAIN st : \/ k \in DOMAIN X /\ st[k] = X[k]
                           \/ \E m \in DOMAIN S : st[k] = S[m]
  BY <1>3, ReplaceHead, SMTT(30)
<1>5. PICK w \in CmdRecords :
          /\ cmd' = [cmd EXCEPT ![c] = w]
          /\ w.pc = q.pc /\ w.op = q.op /\ w.root = q.root /\ w.depth = q.depth
          /\ w.ans = q.ans /\ w.stack = st
  <2> DEFINE w == [q EXCEPT !.stack = st]
  <2>1. cmd' = [cmd EXCEPT ![c] = w]
    BY <1>3
  <2>2. w \in CmdRecords
    <3> HIDE DEF q
    <3> QED
      BY <1>1 DEF CmdRecords
  <2>3. /\ w.pc = q.pc /\ w.op = q.op /\ w.root = q.root /\ w.depth = q.depth
        /\ w.ans = q.ans /\ w.stack = st
    <3> HIDE DEF q
    <3> QED
      BY <1>1 DEF CmdRecords
  <2> HIDE DEF w
  <2> QED
    BY <2>1, <2>2, <2>3
<1>6. cmd'[c] = w
  BY <1>1, <1>5 DEF NodeTypeOK
<1>7. CmdAt(c)'
  <2>1. \A k \in DOMAIN st : FrameAt(c, st[k])'
    <3> SUFFICES ASSUME NEW k \in DOMAIN st
                 PROVE  FrameAt(c, st[k])'
      OBVIOUS
    <3>1. FrameAt(c, st[k])
      <4>1. CASE k \in DOMAIN X /\ st[k] = X[k]
        BY <1>2, <4>1 DEF FrameAt, Follows
      <4>2. CASE \E m \in DOMAIN S : st[k] = S[m]
        BY <1>1, <4>2 DEF CmdAt
      <4> QED
        BY <1>4, <4>1, <4>2
    <3> QED
      BY <1>1, <1>5, <1>6, <3>1 DEF FrameAt
  <2>2. \A k \in DOMAIN w.ans : NameAt(c, w.ans[k])'
    <3> SUFFICES ASSUME NEW k \in DOMAIN w.ans
                 PROVE  NameAt(c, w.ans[k])'
      OBVIOUS
    <3>1. NameAt(c, w.ans[k])
      BY <1>1, <1>5 DEF CmdAt
    <3> QED
      BY <1>1, <1>5, <1>6, <3>1 DEF NameAt
  <2> QED
    BY <1>5, <1>6, <2>1, <2>2 DEF CmdAt, At
<1>8. WholeAt(c)'
  <2>1. c \notin torn => \A k \in DOMAIN q.ans : q.ans[k].at = epoch
    BY <1>1 DEF WholeAt
  <2>2. c \notin torn /\ q.op \in Whole =>
            \A j, k \in DOMAIN q.ans : j # k => q.ans[j].n # q.ans[k].n
    BY <1>1 DEF WholeAt
  <2> SUFFICES ASSUME c \notin torn, q.op \in Whole
               PROVE  Parts(NodesIn(q.ans), st, Expected(c))
    BY <1>1, <1>5, <1>6, <2>1, <2>2, WalkGoesOn
  <2>3. PICK whole : whole = Expected(c)
    OBVIOUS
  <2>4. PICK found : found = NodesIn(q.ans)
    OBVIOUS
  <2>5. Parts(found, S, whole)
    BY <1>1, <2>3, <2>4 DEF WholeAt
  <2>6. PICK new : new = {}
    OBVIOUS
  <2>7. /\ new \cup UNION {Rest(X[k]) : k \in DOMAIN X} = Rest(S[1])
        /\ \A k \in DOMAIN X : Rest(X[k]) \cap new = {}
    BY <2>6
  <2>8. Parts(found \cup new, X \o Tail(S), whole)
    BY <2>5, <2>7, PartsMove
  <2>9. found \cup new = found
    BY <2>6
  <2> QED
    BY <1>3, <2>3, <2>4, <2>8, <2>9
<1> QED
  BY <1>5, <1>7, <1>8, QuietMove

LEMMA NextSiblingKeeps ==
    ASSUME NodeIInv, NEW c \in Cmds, NextSibling(c)
    PROVE  NodeIInv'
<1>1. PICK S \in Seq(Frames) : S = cmd[c].stack /\ S # <<>>
  BY DEF NextSibling, NodeIInv, NodeTypeOK, CmdRecords
<1>2. PICK f \in Frames : f = S[1] /\ f.do = "next" /\ f = cmd[c].stack[1]
  <2>1. cmd[c].stack[1].do = "next"
    BY DEF NextSibling
  <2>2. S[1] \in Frames
    BY <1>1, EmptySeq
  <2> QED
    BY <1>1, <2>1, <2>2
<1>3. /\ NodeTypeOK /\ TreeOK /\ At(c, "walk") /\ UNCHANGED <<store, tree, shown, torn>>
      /\ f.n \in made /\ f.sib /\ f.d < 2 /\ f.n \in Nodes
  <2>1. FrameAt(c, f)
    BY <1>1, <1>2, EmptySeq DEF NodeIInv, CmdAt
  <2> QED
    BY <1>2, <2>1 DEF NextSibling, NodeIInv, FrameAt, Frames
<1>4. ASSUME NEW m \in NextSiblings(f.n),
             cmd' = [cmd EXCEPT ![c] = [cmd[c] EXCEPT !.stack = WithSiblings(m, f.d) \o Tail(S)]]
      PROVE  NodeIInv'
  <2> DEFINE X == WithSiblings(m, f.d)
  <2>1. /\ X \in Seq(Frames)
        /\ \A k \in DOMAIN X : Follows(f, X[k])
        /\ UNION {Rest(X[k]) : k \in DOMAIN X} = Rest(f)
        /\ \A j, k \in DOMAIN X : j # k => Rest(X[j]) \cap Rest(X[k]) = {}
    BY <1>2, <1>3, NextSplits
  <2>2. cmd' = [cmd EXCEPT ![c] = [cmd[c] EXCEPT !.stack = X \o Tail(S)]]
    BY <1>4
  <2> HIDE DEF X
  <2> QED
    BY <1>1, <1>2, <1>3, <2>1, <2>2, StackMoves
<1>5. ASSUME NextSiblings(f.n) = {},
             cmd' = [cmd EXCEPT ![c] = [cmd[c] EXCEPT !.stack = Tail(S)]]
      PROVE  NodeIInv'
  <2> DEFINE X == <<>>
  <2>1. X \in Seq(Frames) /\ DOMAIN X = {}
    OBVIOUS
  <2>2. Rest(f) = {}
    <3>1. Later(f.n) = {}
      BY <1>3, <1>5, LastSibling
    <3>2. TreesOf(Later(f.n), f.d) = {}
      BY <3>1 DEF TreesOf
    <3> QED
      BY <1>2, <3>2 DEF Rest
  <2>3. X \o Tail(S) = Tail(S)
    BY <1>1, EmptySeq, HeadTailProperties, ConcatEmptySeq
  <2>4. cmd' = [cmd EXCEPT ![c] = [cmd[c] EXCEPT !.stack = X \o Tail(S)]]
    BY <1>5, <2>3
  <2> HIDE DEF X
  <2>5. UNION {Rest(X[k]) : k \in DOMAIN X} = Rest(f)
    BY <2>1, <2>2
  <2> QED
    BY <1>1, <1>2, <1>3, <2>1, <2>4, <2>5, StackMoves
<1>6. \/ \E m \in NextSiblings(f.n) :
            cmd' = [cmd EXCEPT ![c] = [cmd[c] EXCEPT !.stack = WithSiblings(m, f.d) \o Tail(S)]]
      \/ /\ NextSiblings(f.n) = {}
         /\ cmd' = [cmd EXCEPT ![c] = [cmd[c] EXCEPT !.stack = Tail(S)]]
  BY <1>1, <1>2 DEF NextSibling
<1> QED
  BY <1>4, <1>5, <1>6

LEMMA AnswerKeeps ==
    ASSUME NodeIInv, NEW c \in Cmds, Answer(c)
    PROVE  NodeIInv'
<1> DEFINE q == cmd[c]
<1>1. /\ At(c, "walk") /\ q.stack = <<>> /\ cmd' = [cmd EXCEPT ![c] = [q EXCEPT !.pc = "done"]]
      /\ UNCHANGED <<store, tree, shown, torn>>
  BY DEF Answer, Goto
<1>2. /\ NodeTypeOK /\ CmdAt(c) /\ WholeAt(c) /\ q \in CmdRecords
      /\ UNCHANGED <<kids, made, epoch, idToNode, torn>>
  BY <1>1 DEF NodeIInv, NodeTypeOK, tree, store
<1>3. PICK w \in CmdRecords :
          /\ cmd' = [cmd EXCEPT ![c] = w]
          /\ w.pc = "done" /\ w.op = q.op /\ w.root = q.root /\ w.depth = q.depth
          /\ w.ans = q.ans /\ w.stack = q.stack
  <2> DEFINE u == [q EXCEPT !.pc = "done"]
  <2>1. /\ u \in CmdRecords
        /\ u.pc = "done" /\ u.op = q.op /\ u.root = q.root /\ u.depth = q.depth
        /\ u.ans = q.ans /\ u.stack = q.stack
    <3> HIDE DEF q
    <3> QED
      BY <1>2 DEF CmdRecords
  <2>2. cmd' = [cmd EXCEPT ![c] = u]
    BY <1>1
  <2> HIDE DEF u
  <2> QED
    BY <2>1, <2>2
<1>4. cmd'[c] = w
  BY <1>2, <1>3 DEF NodeTypeOK
<1>5. CmdAt(c)'
  <2>1. \A k \in DOMAIN w.ans : NameAt(c, w.ans[k])'
    <3> SUFFICES ASSUME NEW k \in DOMAIN w.ans
                 PROVE  NameAt(c, w.ans[k])'
      OBVIOUS
    <3>1. NameAt(c, w.ans[k])
      BY <1>2, <1>3 DEF CmdAt
    <3> QED
      BY <1>2, <1>3, <1>4, <3>1 DEF NameAt
  <2>2. DOMAIN w.stack = {}
    BY <1>1, <1>3
  <2> QED
    BY <1>1, <1>3, <1>4, <2>1, <2>2 DEF CmdAt, At
<1>6. WholeAt(c)'
  BY <1>1, <1>2, <1>3, <1>4, WalkGoesOn DEF WholeAt
<1> QED
  BY <1>1, <1>3, <1>5, <1>6, QuietMove

LEMMA ResetStoreKeeps ==
    ASSUME NodeIInv, NEW c \in Cmds, ResetStore(c)
    PROVE  NodeIInv'
<1> DEFINE q == cmd[c]
           st == Bindings(q.root, q.depth)
<1>1. /\ At(c, "reset") /\ Reset /\ torn' = torn \cup Begun /\ UNCHANGED <<kids, made, shown>>
      /\ cmd' = [cmd EXCEPT ![c] = [q EXCEPT !.pc = "walk", !.stack = st]]
  BY DEF ResetStore, tree
<1>2. /\ NodeTypeOK /\ TreeOK /\ CmdAt(c) /\ q \in CmdRecords
      /\ q.op = "getDocument" /\ q.root \in made /\ q.depth \in -1..2 /\ q.depth \in -2..2 /\ q.ans = <<>>
  BY <1>1 DEF NodeIInv, NodeTypeOK, CmdRecords, CmdAt, At, TreeOK
<1>3. /\ st \in Seq(Frames) /\ DOMAIN st = {1} /\ st[1].n = q.root /\ st[1].do = "bind" /\ st[1].sib = FALSE
      /\ Parts({}, st, Levels(q.root, q.depth))
  BY <1>2, OneBinding
<1>4. PICK w \in CmdRecords :
          /\ cmd' = [cmd EXCEPT ![c] = w]
          /\ w.pc = "walk" /\ w.op = q.op /\ w.root = q.root /\ w.depth = q.depth
          /\ w.ans = <<>> /\ w.stack = st
  <2> HIDE DEF st
  <2> DEFINE u == [q EXCEPT !.pc = "walk", !.stack = st]
  <2>1. /\ u \in CmdRecords
        /\ u.pc = "walk" /\ u.op = q.op /\ u.root = q.root /\ u.depth = q.depth
        /\ u.ans = q.ans /\ u.stack = st
    <3> HIDE DEF q
    <3> QED
      BY <1>2, <1>3 DEF CmdRecords
  <2>2. cmd' = [cmd EXCEPT ![c] = u]
    BY <1>1
  <2> HIDE DEF u
  <2> QED
    BY <1>2, <2>1, <2>2
<1>5. cmd'[c] = w
  BY <1>2, <1>4 DEF NodeTypeOK
<1>6. /\ nextID' \in 1..(MaxId + 1) /\ epoch' = epoch + 1 /\ epoch' \in Nat
      /\ nodeToID' \in [Nodes -> 0..MaxId] /\ idToNode' \in [Ids -> Nodes \cup {None}]
      /\ \A i \in Ids : idToNode'[i] = None
      /\ MapsInverse'
  BY <1>1, <1>2, ResetForgets
<1>7. DOMAIN w.ans = {} /\ NodesIn(w.ans) = {}
  BY <1>4 DEF NodesIn
<1>8. w.stack \in Seq(Frames) /\ DOMAIN w.stack = {1} /\ w.stack[1].n = w.root
      /\ w.stack[1].do = "bind" /\ w.stack[1].sib = FALSE
      /\ Parts({}, w.stack, Levels(w.root, w.depth))
  BY <1>3, <1>4
<1>9. CmdAt(c)'
  <2>1. FrameAt(c, w.stack[1])'
    BY <1>1, <1>2, <1>4, <1>5, <1>8 DEF FrameAt
  <2> QED
    BY <1>4, <1>5, <1>7, <1>8, <2>1 DEF CmdAt, At
<1>10. WholeAt(c)'
  <2>1. PICK whole : whole = Levels(w.root, w.depth)
    OBVIOUS
  <2>2. Parts({}, w.stack, whole)'
    BY <1>1, <1>8, <2>1, SameParts
  <2>3. Expected(c)' = whole
    BY <1>1, <1>2, <1>4, <1>5, <2>1, SameTree DEF Expected
  <2>4. NodesIn(cmd[c].ans)' = {} /\ (cmd[c].stack)' = w.stack
    BY <1>5, <1>7 DEF NodesIn
  <2>5. Parts(NodesIn(cmd[c].ans), cmd[c].stack, Expected(c))'
    BY <2>2, <2>3, <2>4 DEF Parts
  <2> QED
    BY <1>5, <1>7, <2>5 DEF WholeAt
<1>11. Disturbs
  BY <1>1, <1>6 DEF Disturbs
<1>12. TreeOK' /\ NumbersMade'
  BY <1>1, <1>2, <1>6 DEF TreeOK, Trees, NumbersMade
<1>13. /\ kids' \in [Nodes -> Seq(Nodes)] /\ made' \subseteq Nodes /\ shown' \in Docs \cup {None}
       /\ torn' \subseteq Cmds
  BY <1>1, <1>2 DEF NodeTypeOK, Begun
<1> QED
  BY <1>4, <1>6, <1>9, <1>10, <1>11, <1>12, <1>13, CommandMoves

(* A node gets other children: some of those it had, and new ones. *)
LEMMA TreeGrows ==
    ASSUME NodeTypeOK, TreeOK, NEW p \in made, NEW s \in Seq(Nodes), NEW F,
           F \subseteq Nodes \ made, \A x \in F : DocOf[x] = DocOf[p],
           \A i \in DOMAIN s : (i \in DOMAIN kids[p] /\ s[i] = kids[p][i]) \/ s[i] \in F,
           \A i, j \in DOMAIN s : s[i] = s[j] => i = j,
           kids' = [kids EXCEPT ![p] = s], made' = made \cup F
    PROVE  /\ TreeOK' /\ kids' \in [Nodes -> Seq(Nodes)] /\ made' \subseteq Nodes
           /\ made \subseteq made'
<1>1. p \in Nodes /\ kids'[p] = s /\ \A q \in Nodes : q # p => kids'[q] = kids[q]
  BY DEF NodeTypeOK
<1>2. kids' \in [Nodes -> Seq(Nodes)] /\ made' \subseteq Nodes /\ made \subseteq made'
  BY DEF NodeTypeOK
<1>3. \A q \in Nodes : \A i \in DOMAIN kids'[q] :
          \/ i \in DOMAIN kids[q] /\ kids'[q][i] = kids[q][i]
          \/ q = p /\ kids'[q][i] \in F
  BY <1>1
<1>4. \A q \in Nodes : \A i \in DOMAIN kids[q] : kids[q][i] \in made /\ kids[q][i] \notin F
  BY DEF TreeOK
<1>5. \A x \in F : x \in Nodes /\ x # p /\ kids'[x] = <<>>
  <2>1. \A x \in F : x \in Nodes /\ x # p /\ x \notin made
    OBVIOUS
  <2> QED
    BY <1>1, <2>1 DEF TreeOK
<1>6. ASSUME NEW q \in Nodes, NEW r \in Nodes, NEW i \in DOMAIN kids'[q], NEW j \in DOMAIN kids'[r],
             kids'[q][i] = kids'[r][j]
      PROVE  q = r /\ i = j
  <2>1. CASE kids'[q][i] \in F
    <3>1. q = p /\ r = p
      BY <1>3, <1>4, <1>6, <2>1
    <3> QED
      BY <1>1, <1>6, <3>1
  <2>2. CASE kids'[q][i] \notin F
    <3>1. /\ i \in DOMAIN kids[q] /\ kids'[q][i] = kids[q][i]
          /\ j \in DOMAIN kids[r] /\ kids'[r][j] = kids[r][j]
      BY <1>3, <1>6, <2>2
    <3> QED
      BY <1>6, <3>1 DEF TreeOK, Trees
  <2> QED
    BY <2>1, <2>2
<1>7. ASSUME NEW q \in Nodes, NEW i \in DOMAIN kids'[q]
      PROVE  /\ DocOf[kids'[q][i]] = DocOf[q]
             /\ kids'[q][i] # q
             /\ \A j \in DOMAIN kids'[kids'[q][i]] : kids'[kids'[q][i]][j] # q
             /\ kids'[q][i] \in made'
  <2>1. CASE q = p /\ kids'[q][i] \in F
    BY <1>5, <2>1
  <2>2. CASE i \in DOMAIN kids[q] /\ kids'[q][i] = kids[q][i]
    <3> DEFINE m == kids[q][i]
    <3>1. m \in Nodes /\ m \in made /\ DocOf[m] = DocOf[q] /\ m # q
      BY <2>2 DEF TreeOK, Trees, NodeTypeOK
    <3>2. \A j \in DOMAIN kids[m] : kids[m][j] # q
      BY <2>2 DEF TreeOK, Trees
    <3>3. q \notin F
      <4>1. kids[q] # <<>>
        BY <2>2
      <4> QED
        BY <4>1 DEF TreeOK
    <3> HIDE DEF m
    <3>4. \A j \in DOMAIN kids'[m] : kids'[m][j] # q
      BY <1>3, <3>1, <3>2, <3>3
    <3> QED
      BY <1>2, <2>2, <3>1, <3>4 DEF m
  <2> QED
    BY <1>3, <2>1, <2>2
<1>8. Trees(kids)'
  BY <1>6, <1>7 DEF Trees
<1>9. \A q \in Nodes : kids'[q] # <<>> => q \in made'
  BY <1>1, <1>2 DEF TreeOK
<1> QED
  BY <1>2, <1>7, <1>8, <1>9 DEF TreeOK

LEMMA NumbersStayMade ==
    ASSUME NodeIInv, UNCHANGED store, made \subseteq made'
    PROVE  /\ NumbersMade' /\ MapsInverse' /\ epoch' = epoch
           /\ nextID' \in 1..(MaxId + 1) /\ epoch' \in Nat
           /\ nodeToID' \in [Nodes -> 0..MaxId] /\ idToNode' \in [Ids -> Nodes \cup {None}]
           /\ \A i \in Ids : idToNode[i] # None => idToNode'[i] = idToNode[i]
BY DEF NodeIInv, NodeTypeOK, NumbersMade, MapsInverse, Bound, store

LEMMA ParseKeeps ==
    ASSUME NodeIInv, NEW c \in Cmds, Parse(c)
    PROVE  NodeIInv'
<1> DEFINE q == cmd[c]
<1>1. PICK new \in {<<>>} \cup {<<m>> : m \in {x \in Elements \ made : DocOf[x] = DocOf[q.root]}} :
          kids' = [kids EXCEPT ![q.root] = new] /\ made' = made \cup {m \in Nodes : new = <<m>>}
  BY DEF Parse
<1>2. /\ At(c, "parse") /\ torn' = torn \cup Begun /\ UNCHANGED <<store, shown>>
      /\ cmd' = [cmd EXCEPT ![c] = [q EXCEPT !.pc = "done"]]
  BY DEF Parse, Goto
<1>3. /\ NodeTypeOK /\ TreeOK /\ CmdAt(c) /\ q \in CmdRecords /\ Elements \subseteq Nodes
      /\ q.op = "setOuterHTML" /\ q.root \in made /\ q.ans = <<>> /\ q.stack = <<>>
  BY <1>2, NodesAssumption DEF NodeIInv, NodeTypeOK, CmdAt, At
<1> DEFINE F == {m \in Nodes : new = <<m>>}
<1>4. /\ new \in Seq(Nodes) /\ F \subseteq Nodes \ made /\ \A x \in F : DocOf[x] = DocOf[q.root]
      /\ \A i \in DOMAIN new : new[i] \in F
      /\ \A i, j \in DOMAIN new : new[i] = new[j] => i = j
  <2>1. CASE new = <<>>
    BY <2>1
  <2>2. CASE new \in {<<m>> : m \in {x \in Elements \ made : DocOf[x] = DocOf[q.root]}}
    <3>1. PICK m \in Elements \ made : DocOf[m] = DocOf[q.root] /\ new = <<m>>
      BY <2>2
    <3>2. m \in Nodes /\ F = {m} /\ DOMAIN new = {1} /\ new[1] = m /\ new \in Seq(Nodes)
      BY <1>3, <3>1
    <3> QED
      BY <3>1, <3>2
  <2> QED
    BY <2>1, <2>2
<1>5. made' = made \cup F
  BY <1>1
<1> HIDE DEF F
<1>6. TreeOK' /\ kids' \in [Nodes -> Seq(Nodes)] /\ made' \subseteq Nodes /\ made \subseteq made'
  BY <1>1, <1>3, <1>4, <1>5, TreeGrows
<1>7. PICK w \in CmdRecords :
          /\ cmd' = [cmd EXCEPT ![c] = w]
          /\ w.pc = "done" /\ w.op = "setOuterHTML" /\ w.ans = <<>> /\ w.stack = <<>>
  <2> DEFINE u == [q EXCEPT !.pc = "done"]
  <2>1. /\ u \in CmdRecords /\ u.pc = "done" /\ u.op = q.op /\ u.ans = q.ans /\ u.stack = q.stack
    <3> HIDE DEF q
    <3> QED
      BY <1>3 DEF CmdRecords
  <2>2. cmd' = [cmd EXCEPT ![c] = u]
    BY <1>2
  <2> HIDE DEF u
  <2> QED
    BY <1>3, <2>1, <2>2
<1>8. cmd'[c] = w /\ DOMAIN w.ans = {} /\ DOMAIN w.stack = {} /\ w.op \notin Whole
  BY <1>3, <1>7 DEF NodeTypeOK, Whole
<1>9. CmdAt(c)' /\ WholeAt(c)'
  BY <1>7, <1>8 DEF CmdAt, WholeAt, At
<1>10. /\ NumbersMade' /\ MapsInverse' /\ epoch' = epoch
       /\ nextID' \in 1..(MaxId + 1) /\ epoch' \in Nat
       /\ nodeToID' \in [Nodes -> 0..MaxId] /\ idToNode' \in [Ids -> Nodes \cup {None}]
       /\ \A i \in Ids : idToNode[i] # None => idToNode'[i] = idToNode[i]
  BY <1>2, <1>6, NumbersStayMade
<1>11. Disturbs
  BY <1>2, <1>6, <1>10 DEF Disturbs
<1>12. shown' \in Docs \cup {None} /\ torn' \subseteq Cmds
  BY <1>2, <1>3 DEF NodeTypeOK, Begun
<1> QED
  BY <1>6, <1>7, <1>9, <1>10, <1>11, <1>12, CommandMoves

(* A step of no command. *)
LEMMA NoCommandMoves ==
    ASSUME NodeIInv, Disturbs, UNCHANGED <<store, cmd>>, shown' \in Docs \cup {None}, torn' \subseteq Cmds,
           kids' \in [Nodes -> Seq(Nodes)], made' \subseteq Nodes, TreeOK'
    PROVE  NodeIInv'
<1>1. \A d \in Cmds : CmdAt(d)' /\ WholeAt(d)'
  BY OthersKeep
<1>2. /\ NumbersMade' /\ MapsInverse' /\ epoch' = epoch
      /\ nextID' \in 1..(MaxId + 1) /\ epoch' \in Nat
      /\ nodeToID' \in [Nodes -> 0..MaxId] /\ idToNode' \in [Ids -> Nodes \cup {None}]
  BY NumbersStayMade DEF Disturbs
<1>3. NodeTypeOK'
  BY <1>2 DEF NodeIInv, NodeTypeOK
<1> QED
  BY <1>1, <1>2, <1>3 DEF NodeIInv

LEMMA NavigatedKeeps ==
    ASSUME NodeIInv, Navigated
    PROVE  NodeIInv'
<1>1. UNCHANGED <<kids, made, torn, cmd>> /\ UNCHANGED store /\ shown' \in Docs
  BY NodesAssumption DEF Navigated, tree
<1>2. Disturbs
  BY <1>1 DEF Disturbs, store
<1>3. /\ kids' \in [Nodes -> Seq(Nodes)] /\ made' \subseteq Nodes /\ torn' \subseteq Cmds
      /\ TreeOK'
  BY <1>1 DEF NodeIInv, NodeTypeOK, TreeOK, Trees
<1> QED
  BY <1>1, <1>2, <1>3, NoCommandMoves

LEMMA ScriptKeepsNodes ==
    ASSUME NodeIInv, NEW c \in Cmds, ScriptChanges(c)
    PROVE  NodeIInv'
<1>1. PICK p \in made :
          /\ DocOf[p] = vmDoc
          /\ \E new \in {<<>>} \cup {<<m>> : m \in {x \in Elements \ made : DocOf[x] = vmDoc}} :
                /\ kids' = [kids EXCEPT ![p] = IF new = <<>> THEN <<>> ELSE kids[p] \o new]
                /\ made' = made \cup {m \in Nodes : new = <<m>>}
  BY DEF ScriptChanges
<1>2. PICK new \in {<<>>} \cup {<<m>> : m \in {x \in Elements \ made : DocOf[x] = vmDoc}} :
          /\ kids' = [kids EXCEPT ![p] = IF new = <<>> THEN <<>> ELSE kids[p] \o new]
          /\ made' = made \cup {m \in Nodes : new = <<m>>}
  BY <1>1
<1>3. torn' = torn \cup Begun /\ UNCHANGED store /\ UNCHANGED <<shown, cmd>>
  BY DEF ScriptChanges
<1>4. /\ NodeTypeOK /\ TreeOK /\ Elements \subseteq Nodes /\ p \in Nodes /\ kids[p] \in Seq(Nodes)
  BY NodesAssumption DEF NodeIInv, NodeTypeOK
<1>5. /\ TreeOK' /\ kids' \in [Nodes -> Seq(Nodes)] /\ made' \subseteq Nodes /\ made \subseteq made'
  <2>1. CASE new = <<>>
    <3> DEFINE s == <<>>
    <3>1. s \in Seq(Nodes) /\ DOMAIN s = {} /\ kids' = [kids EXCEPT ![p] = s]
      BY <1>2, <2>1
    <3>2. PICK F : F = {}
      OBVIOUS
    <3>3. made' = made \cup F
      BY <1>2, <2>1, <3>2
    <3> HIDE DEF s
    <3> QED
      BY <1>4, <3>1, <3>2, <3>3, TreeGrows
  <2>2. CASE new # <<>>
    <3>1. PICK m \in Elements \ made : DocOf[m] = vmDoc /\ new = <<m>>
      BY <2>2
    <3>2. m \in Nodes
      BY <1>4
    <3> DEFINE s == kids[p] \o <<m>>
    <3>3. /\ s \in Seq(Nodes) /\ DOMAIN s = 1..(Len(kids[p]) + 1)
          /\ s[Len(kids[p]) + 1] = m /\ \A i \in DOMAIN kids[p] : s[i] = kids[p][i]
      <4>1. /\ s = Append(kids[p], m)
        BY <1>4, <3>2
      <4>2. /\ Append(kids[p], m) \in Seq(Nodes)
            /\ Len(Append(kids[p], m)) = Len(kids[p]) + 1
            /\ Append(kids[p], m)[Len(kids[p]) + 1] = m
            /\ \A i \in 1..Len(kids[p]) : Append(kids[p], m)[i] = kids[p][i]
        BY <1>4, <3>2, AppendProperties
      <4> QED
        BY <1>4, <4>1, <4>2
    <3>4. kids' = [kids EXCEPT ![p] = s]
      BY <1>2, <2>2, <3>1
    <3>5. PICK F : F = {m}
      OBVIOUS
    <3>6. made' = made \cup F
      BY <1>2, <3>1, <3>2, <3>5
    <3> HIDE DEF s
    <3>7. F \subseteq Nodes \ made /\ \A x \in F : DocOf[x] = DocOf[p]
      BY <1>1, <3>1, <3>2, <3>5
    <3>8. \A i \in DOMAIN s : (i \in DOMAIN kids[p] /\ s[i] = kids[p][i])
                               \/ (i = Len(kids[p]) + 1 /\ s[i] \in F)
      BY <1>4, <3>3, <3>5
    <3>9. \A i, j \in DOMAIN kids[p] : kids[p][i] = kids[p][j] => i = j
      BY <1>4 DEF TreeOK, Trees
    <3>10. \A i \in DOMAIN kids[p] : kids[p][i] \notin F
      BY <1>4, <3>7 DEF TreeOK
    <3>11. \A i, j \in DOMAIN s : s[i] = s[j] => i = j
      BY <3>8, <3>9, <3>10
    <3> QED
      BY <1>4, <3>3, <3>4, <3>6, <3>7, <3>8, <3>11, TreeGrows
  <2> QED
    BY <2>1, <2>2
<1>6. Disturbs
  BY <1>3, <1>5 DEF Disturbs, store
<1>7. shown' \in Docs \cup {None} /\ torn' \subseteq Cmds
  BY <1>3, <1>4 DEF NodeTypeOK, Begun
<1> QED
  BY <1>3, <1>5, <1>6, <1>7, NoCommandMoves

LEMMA NodesStay ==
    ASSUME NodeIInv, UNCHANGED nodeVars
    PROVE  NodeIInv'
<1>1. UNCHANGED store /\ UNCHANGED <<kids, made, shown, cmd, torn>>
  BY DEF nodeVars, tree
<1>2. Disturbs
  BY <1>1 DEF Disturbs, store
<1>3. /\ kids' \in [Nodes -> Seq(Nodes)] /\ made' \subseteq Nodes /\ torn' \subseteq Cmds
      /\ shown' \in Docs \cup {None} /\ TreeOK'
  BY <1>1 DEF NodeIInv, NodeTypeOK, TreeOK, Trees
<1> QED
  BY <1>1, <1>2, <1>3, NoCommandMoves

LEMMA NodesStart == NodeInit => NodeIInv
<1> SUFFICES ASSUME NodeInit
             PROVE  NodeIInv
  OBVIOUS
<1>1. Idle \in CmdRecords
  BY DEF Idle, CmdRecords
<1>2. NodeTypeOK
  <2>1. /\ nextID \in 1..(MaxId + 1) /\ epoch \in Nat /\ nodeToID \in [Nodes -> 0..MaxId]
        /\ idToNode \in [Ids -> Nodes \cup {None}]
    BY MaxIdIsNat DEF NodeInit
  <2>2. kids \in [Nodes -> Seq(Nodes)] /\ made \subseteq Nodes
    BY NodesAssumption DEF NodeInit, Parsed
  <2>3. cmd \in [Cmds -> CmdRecords]
    BY <1>1 DEF NodeInit
  <2> QED
    BY <2>1, <2>2, <2>3 DEF NodeInit, NodeTypeOK
<1>3. MapsInverse /\ NumbersMade
  BY MaxIdIsNat DEF NodeInit, MapsInverse, NumbersMade, Bound, Ids
<1>4. TreeOK
  BY DocumentsAreTrees, NodesAssumption DEF NodeInit, TreeOK, Parsed
<1>5. \A c \in Cmds : CmdAt(c) /\ WholeAt(c)
  BY DEF NodeInit, Idle, CmdAt, WholeAt, At
<1> QED
  BY <1>2, <1>3, <1>4, <1>5 DEF NodeIInv

LEMMA DomKeepsNodes ==
    ASSUME NodeIInv, NEW c \in Cmds, DomStep(c)
    PROVE  NodeIInv'
BY GetDocumentKeeps, CommandKeeps, ResetStoreKeeps, ParseKeeps, SerializeNodeKeeps,
   NextSiblingKeeps, AnswerKeeps DEF DomStep, GetDocumentAny

LEMMA NodesAreNamed ==
    ASSUME NodeIInv
    PROVE  NodeTypeOK /\ MapsInverse /\ AnswersStand /\ OneDocument /\ AnswerIsWhole
<1>1. AnswersStand /\ OneDocument
  BY DEF NodeIInv, CmdAt, NameAt, AnswersStand, OneDocument
<1>2. ASSUME NEW c \in Cmds, At(c, "done"), c \notin torn,
             cmd[c].op \in {"getDocument", "describe", "children"}
      PROVE  LET ans == cmd[c].ans
             IN /\ {ans[k].n : k \in DOMAIN ans} = Expected(c)
                /\ \A j, k \in DOMAIN ans : j # k => ans[j].n # ans[k].n /\ ans[j].id # ans[k].id
  <2> DEFINE ans == cmd[c].ans
  <2>1. /\ CmdAt(c) /\ cmd[c].stack = <<>>
        /\ \A k \in DOMAIN ans : ans[k].at = epoch
        /\ Parts(NodesIn(ans), cmd[c].stack, Expected(c))
        /\ \A j, k \in DOMAIN ans : j # k => ans[j].n # ans[k].n
    BY <1>2 DEF NodeIInv, CmdAt, WholeAt, Whole, At
  <2>2. NodesIn(ans) = Expected(c)
    <3>1. PICK found, st, whole : found = NodesIn(ans) /\ st = cmd[c].stack /\ whole = Expected(c)
      OBVIOUS
    <3>2. DOMAIN st = {} /\ found \cup UNION {Rest(st[k]) : k \in DOMAIN st} = whole
      BY <2>1, <3>1 DEF Parts
    <3>3. found = whole
      BY <3>2
    <3> QED
      BY <3>1, <3>3
  <2>3. \A k \in DOMAIN ans : idToNode[ans[k].id] = ans[k].n
    BY <2>1 DEF CmdAt, NameAt
  <2>4. \A j, k \in DOMAIN ans : j # k => ans[j].n # ans[k].n /\ ans[j].id # ans[k].id
    BY <2>1, <2>3
  <2> QED
    BY <2>2, <2>4 DEF NodesIn
<1> QED
  BY <1>1, <1>2 DEF NodeIInv, AnswerIsWhole


-----------------------------------------------------------------------------
(* Both domains on one page *)

OnePage ==
    /\ vm \in BOOLEAN /\ vmDoc \in Docs \cup {None}
    /\ \A c \in Cmds : At(c, "idle") \/ In(c, "idle")

IInv == NodeIInv /\ ObjectsIInv /\ OnePage

(* A goroutine serves a command of one domain: who has begun in the other  *)
(* does not take a step in this one.                                       *)
LEMMA DomIsNotRuntime ==
    ASSUME IInv, NEW c \in Cmds, DomStep(c)
    PROVE  IInv'
<1>1. NodeIInv'
  BY DomKeepsNodes DEF IInv
<1>2. UNCHANGED objectVars /\ UNCHANGED <<vm, vmDoc>>
  BY DEF DomStep
<1>3. ObjectsIInv'
  BY <1>2, ObjectsStay DEF IInv
<1>4. In(c, "idle")
  BY DEF DomStep, May, Free, IInv, OnePage, ResetStore, Parse, SerializeNode, NextSibling, Answer, At
<1>5. \A d \in Cmds : d # c => cmd'[d] = cmd[d]
  <2>1. cmd \in [Cmds -> CmdRecords]
    BY DEF IInv, NodeIInv, NodeTypeOK
  <2>2. CASE GetDocumentAny(c)
    BY <2>1, <2>2 DEF GetDocumentAny, GetDocument, Nothing, Begin
  <2>3. CASE Command(c)
    <3>1. \A n \in Nodes : QuerySelector(c, n) \/ QuerySelectorAll(c, n) =>
              \A d \in Cmds : d # c => cmd'[d] = cmd[d]
      BY <2>1 DEF QuerySelector, QuerySelectorAll, Nothing, Begin
    <3>2. \A n \in Nodes, e \in Depths :
              RequestChildNodes(c, n, e) \/ DescribeNode(c, n, e) =>
                  \A d \in Cmds : d # c => cmd'[d] = cmd[d]
      BY <2>1 DEF RequestChildNodes, DescribeNode, Nothing, Begin
    <3>3. \A n \in Nodes : OuterHTML(c, n) \/ OfElement(c, n) \/ SetOuterHTML(c, n) \/ Nothing(c) =>
              \A d \in Cmds : d # c => cmd'[d] = cmd[d]
      BY <2>1 DEF OuterHTML, OfElement, SetOuterHTML, Nothing, Begin
    <3>4. \A i \in Ids : idToNode[i] # None => idToNode[i] \in Nodes
      BY DEF IInv, NodeIInv, NodeTypeOK
    <3>5. shown # None => shown \in Nodes
      BY NodesAssumption DEF IInv, NodeIInv, NodeTypeOK
    <3>6. ASSUME NEW i \in Ids, WithNode(c, i)
          PROVE  \A d \in Cmds : d # c => cmd'[d] = cmd[d]
      BY <3>1, <3>2, <3>3, <3>4, <3>6 DEF WithNode
    <3>7. ASSUME WithoutNode(c)
          PROVE  \A d \in Cmds : d # c => cmd'[d] = cmd[d]
      <4>1. Nothing(c) => \A d \in Cmds : d # c => cmd'[d] = cmd[d]
        BY <2>1 DEF Nothing, Begin
      <4> QED
        BY <3>2, <3>5, <3>7, <4>1 DEF WithoutNode
    <3> QED
      BY <2>3, <3>6, <3>7 DEF Command
  <2>4. CASE ResetStore(c) \/ Parse(c) \/ SerializeNode(c) \/ NextSibling(c) \/ Answer(c)
    BY <2>1, <2>4 DEF ResetStore, Parse, SerializeNode, NextSibling, Answer, Goto
  <2> QED
    BY <2>2, <2>3, <2>4 DEF DomStep
<1>6. OnePage'
  BY <1>2, <1>4, <1>5 DEF IInv, OnePage, objectVars, At, In
<1> QED
  BY <1>1, <1>3, <1>6 DEF IInv

LEMMA RuntimeIsNotDom ==
    ASSUME IInv, NEW c \in Cmds, RuntimeNext(c)
    PROVE  IInv'
<1>1. NodeIInv' /\ UNCHANGED cmd
  BY NodesStay DEF RuntimeNext, IInv, nodeVars
<1>2. RuntimeCommand(c) \/ RuntimeStep(c)
  BY DEF RuntimeNext
<1>3. ObjectsIInv'
  BY <1>2, RuntimeKeeps DEF IInv
<1>4. vm' \in BOOLEAN /\ vmDoc' \in Docs \cup {None}
  BY DEF RuntimeNext, VM, IInv, OnePage, NodeIInv, NodeTypeOK
<1>5. At(c, "idle")
  <2>1. CASE May(c, "runtime")
    BY <2>1 DEF May, Free
  <2>2. CASE RuntimeStep(c)
    <3>1. ~In(c, "idle")
      BY <2>2 DEF RuntimeStep, ResolveThis, ResolveArgument, Resolve, SetThis, SetArgument, Enter, Leave,
                  Log, ClearThis, ClearArgument, Serialize, Export, In, IInv, ObjectsIInv, CallAt, SawAt
    <3> QED
      BY <3>1 DEF IInv, OnePage
  <2> QED
    BY <2>1, <2>2 DEF RuntimeNext
<1>6. \A d \in Cmds : d # c => call'[d].pc = call[d].pc
  <2>1. call \in [Cmds -> CallRecords]
    BY DEF IInv, ObjectsIInv, ObjectsTypeOK
  <2>2. ASSUME NEW r, Accept(c, r)
        PROVE  \A d \in Cmds : d # c => call'[d].pc = call[d].pc
    BY <2>1, <2>2 DEF Accept, CallRecords
  <2>3. CASE RuntimeCommand(c)
    BY <2>2, <2>3 DEF RuntimeCommand, Evaluate, CallFunctionOn
  <2>4. CASE RuntimeStep(c)
    BY <2>1, <2>4 DEF RuntimeStep, ResolveThis, ResolveArgument, Resolve, SetThis, SetArgument, Enter,
       Leave, Log, ClearThis, ClearArgument, Serialize, SerializeGojaValue, Finish, Export, Go
  <2> QED
    BY <1>2, <2>3, <2>4
<1>7. OnePage'
  BY <1>1, <1>4, <1>5, <1>6 DEF IInv, OnePage, At, In
<1> QED
  BY <1>1, <1>3, <1>7 DEF IInv

LEMMA ScriptKeeps ==
    ASSUME IInv, NEW c \in Cmds, ScriptChanges(c)
    PROVE  IInv'
<1>1. NodeIInv'
  BY ScriptKeepsNodes DEF IInv
<1>2. /\ In(c, "inside") /\ Go(c, "acted") /\ UNCHANGED <<this, arg, inVM, raced>>
      /\ UNCHANGED objectStore /\ UNCHANGED <<cmd, vm, vmDoc>>
  BY DEF ScriptChanges
<1>3. ObjectsIInv'
  BY <1>2, ActsKeeps DEF IInv
<1>4. \A d \in Cmds : d # c => call'[d] = call[d]
  BY <1>2 DEF Go, IInv, ObjectsIInv, ObjectsTypeOK
<1>5. At(c, "idle")
  BY <1>2 DEF In, IInv, OnePage
<1>6. OnePage'
  BY <1>2, <1>4, <1>5 DEF IInv, OnePage, At, In
<1> QED
  BY <1>1, <1>3, <1>6 DEF IInv

LEMMA NavigationKeeps ==
    ASSUME IInv, PageNavigates
    PROVE  IInv'
<1>1. NodeIInv'
  BY NavigatedKeeps DEF PageNavigates, IInv
<1>2. ObjectsIInv'
  BY ObjectsStay DEF PageNavigates, IInv
<1>3. OnePage'
  BY DEF PageNavigates, Navigated, objectVars, IInv, OnePage, At, In
<1> QED
  BY <1>1, <1>2, <1>3 DEF IInv

(* What commands and scripts hold on to, whatever they do to each other.   *)
LEMMA PageInvariant == Spec => []IInv
<1>1. Init => IInv
  <2> SUFFICES ASSUME Init
               PROVE  IInv
    OBVIOUS
  <2>1. OnePage
    BY DEF Init, NodeInit, Idle, OnePage, At
  <2> QED
    BY <2>1, NodesStart, ObjectsStart DEF Init, IInv
<1>2. IInv /\ [Next]_vars => IInv'
  <2> SUFFICES ASSUME IInv, [Next]_vars
               PROVE  IInv'
    OBVIOUS
  <2>1. CASE Next
    BY <2>1, DomIsNotRuntime, RuntimeIsNotDom, ScriptKeeps, NavigationKeeps DEF Next
  <2>2. CASE UNCHANGED vars
    <3>1. NodeIInv' /\ ObjectsIInv'
      BY <2>2, NodesStay, ObjectsStay DEF vars, IInv
    <3>2. OnePage'
      BY <2>2 DEF vars, nodeVars, objectVars, IInv, OnePage, At, In
    <3> QED
      BY <3>1, <3>2 DEF IInv
  <2> QED
    BY <2>1, <2>2
<1> QED
  BY <1>1, <1>2, PTL DEF Spec

(* A number that a client was given, for a node until the store is reset   *)
(* (NodeStore.Bind, Reset) and for an object for good (ObjectStore.Store), *)
(* keeps its meaning, in whatever order commands, scripts and navigations  *)
(* come.                                                                   *)
THEOREM NumbersKeepTheirMeaning == Spec => []NamesStand
<1>1. IInv => NamesStand
  BY NodesAreNamed, ObjectsAreNamed DEF IInv, OnePage, NamesStand, TypeOK
<1> QED
  BY <1>1, PageInvariant, PTL

(* A walk of serializeNode that no other command or script disturbs has    *)
(* every node of the tree to the depth that was asked for, once, however   *)
(* its steps interleave with those of others; and no walk, disturbed or    *)
(* not, mixes two documents.                                               *)
THEOREM WalksAreWhole == Spec => []AnswersWhole
<1>1. IInv => AnswersWhole
  BY NodesAreNamed DEF IInv, AnswersWhole
<1> QED
  BY <1>1, PageInvariant, PTL

(* Calls of callFunctionOn pass this and the argument through globals of   *)
(* the one runtime, and calls that overlap may get each other's.  However  *)
(* many overlap, and whichever fail: what a function gets, its own command *)
(* or one that it met passed or cleared; and the globals hold nothing but  *)
(* what a call under way has set and not cleared.                          *)
THEOREM NothingPassedOutlastsItsCall == Spec => []PassedWhileUnderWay
<1>1. IInv => PassedWhileUnderWay
  BY ObjectsAreNamed DEF IInv, PassedWhileUnderWay
<1> QED
  BY <1>1, PageInvariant, PTL

=============================================================================
