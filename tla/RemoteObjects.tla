--------------------------- MODULE RemoteObjects ---------------------------
(***************************************************************************)
(* The Runtime domain of a CDP session (src/internal/cdp/                  *)
(* domain_runtime.go) and the objects it keeps for the client              *)
(* (remote_object.go).                                                     *)
(*                                                                         *)
(* Each command has a goroutine; ObjectStore.mu is taken for each Store    *)
(* and Get, and nothing guards the one goja runtime of the page.  What     *)
(* callFunctionOn passes to a function goes through globals of that        *)
(* runtime.  The interpreter is not made for two goroutines: when one      *)
(* enters it or sets a global while another is inside, raced becomes true, *)
(* and what the program does from there on is not modelled.                *)
(***************************************************************************)
EXTENDS SessionCommands

CONSTANTS
    Objects,    \* JavaScript objects that scripts return or log
    Given,      \* pairs of numbers that clients give for this and an argument
    MaxObject   \* bound on the objects that the store keeps

ASSUME MaxObjectIsNat == MaxObject \in Nat
ASSUME GivenAreNumbers == Given \subseteq (0..MaxObject) \X (0..MaxObject)
ASSUME NoneIsNoObject == None \notin Objects

(* A value is a JavaScript object, or a Go value: what Export makes of it. *)
Js(o) == [as |-> "js", obj |-> o]
Exported(v) == [v EXCEPT !.as = "go"]
Values == [as : {"js", "go"}, obj : Objects]
ObjectIds == 1..MaxObject

VARIABLES
    nextObj, byID,          \* ObjectStore; None where byID has no entry
    this, arg,              \* the globals __cdp_this and __cdp_arg0
    inVM, raced,            \* goroutines inside the interpreter; see above
    call                    \* what each command is doing

objectStore == <<nextObj, byID>>
objectVars == <<objectStore, this, arg, inVM, raced, call>>

(* self and val are what the command resolved, saw what the function got,  *)
(* res what the script returned, told the number answered for it; met are  *)
(* the commands that were under way while it was.                          *)
NoCall == [pc |-> "idle", fn |-> "none", byValue |-> FALSE, selfID |-> 0, argID |-> 0,
           self |-> None, val |-> None, saw |-> None, res |-> None, told |-> 0,
           met |-> {}]

ObjectsInit ==
    /\ nextObj = 1 /\ byID = [i \in ObjectIds |-> None]
    /\ this = None /\ arg = None
    /\ inVM = {} /\ raced = FALSE
    /\ call = [c \in Cmds |-> NoCall]

In(c, pc) == call[c].pc = pc
Go(c, pc) == call' = [call EXCEPT ![c].pc = pc]
UnderWay == {c \in Cmds : call[c].pc \notin {"idle", "done"}}

(* A write to the runtime, or its use, while another goroutine runs in it. *)
Touch == raced' = (raced \/ inVM # {})

(* The commands under way meet the one that comes in. *)
Accept(c, r) ==
    call' = [d \in Cmds |->
               IF d = c THEN [r EXCEPT !.met = UnderWay]
               ELSE IF d \in UnderWay THEN [call[d] EXCEPT !.met = @ \cup {c}] ELSE call[d]]

-----------------------------------------------------------------------------
(* ObjectStore *)

Store(v) ==
    /\ nextObj \in ObjectIds
    /\ byID' = [byID EXCEPT ![nextObj] = v]
    /\ nextObj' = nextObj + 1

Get(id) == byID[id]

(* A command leaves with nothing stored, or with v stored and answered.    *)
Finish(c) ==
    /\ call' = [call EXCEPT ![c].pc = "done"]
    /\ UNCHANGED objectStore

(* SerializeValue and SerializeGojaValue store what is not primitive.      *)
SerializeGojaValue(c, v) ==
    /\ Store(v)
    /\ call' = [call EXCEPT ![c].told = nextObj,
                            ![c].pc = IF call[c].byValue THEN "export" ELSE "done"]

-----------------------------------------------------------------------------
(* The commands *)

Evaluate(c, byValue) ==
    /\ In(c, "idle")
    /\ Accept(c, [NoCall EXCEPT !.pc = "run", !.fn = "evaluate", !.byValue = byValue])
    /\ UNCHANGED <<objectStore, this, arg, inVM, raced>>

(* The object is given by number (0: none is given), the argument by       *)
(* number or as a primitive value (0).                                     *)
CallFunctionOn(c, selfID, argID, byValue) ==
    /\ In(c, "idle")
    /\ Accept(c, [NoCall EXCEPT !.pc = "self", !.fn = "callFunctionOn", !.byValue = byValue,
                                !.selfID = selfID, !.argID = argID])
    /\ UNCHANGED <<objectStore, this, arg, inVM, raced>>

(* A number that names nothing ends the command before a global is set. *)
Resolve(c, from, id, r, to) ==
    /\ In(c, from)
    /\ IF id = 0 THEN Go(c, to)
       ELSE IF Get(id) = None THEN Go(c, "done")
       ELSE call' = [call EXCEPT ![c] = [r EXCEPT !.pc = to]]
    /\ UNCHANGED <<objectStore, this, arg, inVM, raced>>

ResolveThis(c) ==
    Resolve(c, "self", call[c].selfID, [call[c] EXCEPT !.self = Get(call[c].selfID)], "val")
ResolveArgument(c) ==
    Resolve(c, "val", call[c].argID, [call[c] EXCEPT !.val = Get(call[c].argID)], "setThis")

SetThis(c) ==
    /\ In(c, "setThis")
    /\ Touch /\ this' = call[c].self
    /\ Go(c, "setArg")
    /\ UNCHANGED <<objectStore, arg, inVM>>

SetArgument(c) ==
    /\ In(c, "setArg")
    /\ Touch /\ arg' = call[c].val
    /\ Go(c, "run")
    /\ UNCHANGED <<objectStore, this, inVM>>

(* vm.EvalRaw: the call expression reads the globals first. *)
Enter(c) ==
    /\ In(c, "run")
    /\ Touch /\ inVM' = inVM \cup {c}
    /\ call' = [call EXCEPT ![c].pc = "inside", ![c].saw = <<this, arg>>]
    /\ UNCHANGED <<objectStore, this, arg>>

(* Bug: only a call that succeeds clears the globals. *)
AfterRun_KeepsOnError(c, failed) ==
    IF call[c].fn = "callFunctionOn" /\ ~failed THEN "clearThis" ELSE "serialize"

AfterRun(c, failed) ==
    IF call[c].fn = "callFunctionOn" THEN "clearThis" ELSE "serialize"

(* A script that changes the document or logs does so once (ScriptChanges  *)
(* of module CdpObjects, Log).  It throws (the message is a primitive    *)
(* value), returns a primitive value or an object.                         *)
Leave(c) ==
    /\ c \in inVM
    /\ inVM' = inVM \ {c}
    /\ \/ \E o \in Objects :
             call' = [call EXCEPT ![c].pc = AfterRun(c, FALSE), ![c].res = Js(o)]
       \/ \E failed \in BOOLEAN : Go(c, AfterRun(c, failed))
    /\ UNCHANGED <<objectStore, this, arg, raced>>

(* ConsoleCallback: arguments are exported before they are stored. *)
Log(c) ==
    /\ In(c, "inside") /\ call[c].fn = "evaluate"
    /\ \E o \in Objects : Store(Exported(Js(o)))
    /\ Go(c, "acted")
    /\ UNCHANGED <<this, arg, inVM, raced>>

ClearThis(c) ==
    /\ In(c, "clearThis")
    /\ Touch /\ this' = None
    /\ Go(c, "clearArg")
    /\ UNCHANGED <<objectStore, arg, inVM>>

ClearArgument(c) ==
    /\ In(c, "clearArg")
    /\ Touch /\ arg' = None
    /\ Go(c, "serialize")
    /\ UNCHANGED <<objectStore, this, inVM>>

Serialize(c) ==
    /\ In(c, "serialize")
    /\ IF call[c].res = None THEN Finish(c) ELSE SerializeGojaValue(c, call[c].res)
    /\ UNCHANGED <<this, arg, inVM, raced>>

(* returnByValue: the exported object is stored like any other. *)
Export(c) ==
    /\ In(c, "export")
    /\ Store(Exported(call[c].res))
    /\ call' = [call EXCEPT ![c].told = nextObj, ![c].pc = "done"]
    /\ UNCHANGED <<this, arg, inVM, raced>>

RuntimeStep(c) ==
    /\ ~raced
    /\ \/ ResolveThis(c) \/ ResolveArgument(c)
       \/ SetThis(c) \/ SetArgument(c)
       \/ Enter(c) \/ Leave(c) \/ Log(c)
       \/ ClearThis(c) \/ ClearArgument(c)
       \/ Serialize(c) \/ Export(c)

RuntimeCommand(c) ==
    \/ \E v \in BOOLEAN : Evaluate(c, v)
    \/ \E g \in Given, v \in BOOLEAN : CallFunctionOn(c, g[1], g[2], v)

ObjectsNext == \E c \in Cmds : RuntimeCommand(c) \/ RuntimeStep(c)

ObjectsSpec == ObjectsInit /\ [][ObjectsNext]_objectVars

-----------------------------------------------------------------------------
(* Types of the variables. *)
Found == Values \cup {None}
Numbers == {0} \cup ObjectIds

CallRecords ==
    [pc : {"idle", "self", "val", "setThis", "setArg", "run", "inside", "acted",
           "clearThis", "clearArg", "serialize", "export", "done"},
     fn : {"none", "evaluate", "callFunctionOn"}, byValue : BOOLEAN,
     selfID : Numbers, argID : Numbers, self : Found, val : Found,
     saw : {None} \cup (Found \X Found), res : Found, told : Numbers,
     met : SUBSET Cmds]

ObjectsTypeOK ==
    /\ nextObj \in 1..(MaxObject + 1)
    /\ byID \in [ObjectIds -> Found]
    /\ this \in Found /\ arg \in Found
    /\ inVM \subseteq Cmds /\ raced \in BOOLEAN
    /\ call \in [Cmds -> CallRecords]

(* The number a command answered names, for as long as the session lasts,  *)
(* the object that the script returned: the object itself, or its exported *)
(* value if that was asked for, however many commands store and log.       *)
AnswersName ==
    \A c \in Cmds : (In(c, "done") /\ call[c].told # 0) =>
        byID[call[c].told] = IF call[c].byValue THEN Exported(call[c].res) ELSE call[c].res

(* Calls that overlap may get each other's object and argument: this and   *)
(* the argument are set, read and cleared in steps of their own.  What a   *)
(* function gets is then what its own command passes, or what a call that  *)
(* its command met passed or cleared: never what an earlier call left.     *)
MetCalls(c) == {d \in call[c].met : call[d].fn = "callFunctionOn"}
PassedThis(c, v) == v = call[c].self \/ \E d \in MetCalls(c) : v \in {None, call[d].self}
PassedArg(c, v) == v = call[c].val \/ \E d \in MetCalls(c) : v \in {None, call[d].val}

CallsGetWhatIsPassed ==
    \A c \in Cmds : (call[c].fn = "callFunctionOn" /\ call[c].saw # None) =>
        PassedThis(c, call[c].saw[1]) /\ PassedArg(c, call[c].saw[2])

(* A script that reads the globals finds in them what a call under way put *)
(* there, and nothing once each call has run, failed or not: an object     *)
(* that a client passed does not stay with the scripts of the page.        *)
HoldsThis == {"setArg", "run", "inside", "acted", "clearThis"}
HoldsArg == {"run", "inside", "acted", "clearThis", "clearArg"}
Holds(c, pcs) == call[c].fn = "callFunctionOn" /\ call[c].pc \in pcs

GlobalsOfCallsUnderWay ==
    /\ this # None => \E c \in Cmds : Holds(c, HoldsThis) /\ call[c].self = this
    /\ arg # None => \E c \in Cmds : Holds(c, HoldsArg) /\ call[c].val = arg

=============================================================================
