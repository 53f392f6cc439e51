---------------------------- MODULE CdpObjects -----------------------------
(***************************************************************************)
(* A CDP session's DOM and Runtime domains on one page: commands that      *)
(* number nodes and walk the tree beside scripts that change it.  Page.VM  *)
(* makes the VM when it is first asked for and binds it to the document of *)
(* that moment (src/internal/page/page.go); the VM stays when the page     *)
(* navigates, so its scripts go on changing that document.                 *)
(***************************************************************************)
EXTENDS NodeIds, RemoteObjects

CONSTANT Ops        \* what each goroutine may be asked for

ASSUME OpsOfCmds == DOMAIN Ops = Cmds

VARIABLES vm, vmDoc     \* whether the page has a VM, and its document

vars == <<nodeVars, objectVars, vm, vmDoc>>

Init == NodeInit /\ ObjectsInit /\ vm = FALSE /\ vmDoc = None

VM == vm' = TRUE /\ vmDoc' = IF vm THEN vmDoc ELSE shown

Free(c) == At(c, "idle") /\ In(c, "idle")
May(c, op) == Free(c) /\ op \in Ops[c]

GetDocumentAny(c) == \E d \in Depths : GetDocument(c, d)

DomStep(c) ==
    /\ ~raced
    /\ \/ May(c, "getDocument") /\ GetDocumentAny(c)
       \/ May(c, "dom") /\ Command(c)
       \/ ResetStore(c) \/ Parse(c) \/ SerializeNode(c) \/ NextSibling(c) \/ Answer(c)
    /\ UNCHANGED <<objectVars, vm, vmDoc>>

RuntimeNext(c) ==
    /\ \/ May(c, "runtime") /\ ~raced /\ RuntimeCommand(c) /\ VM
       \/ RuntimeStep(c) /\ UNCHANGED <<vm, vmDoc>>
    /\ UNCHANGED nodeVars

(* A script appends a new element to a node of the document it is bound    *)
(* to, or empties one.                                                     *)
ScriptChanges(c) ==
    /\ ~raced /\ In(c, "inside") /\ vmDoc # None
    /\ \E p \in made : DocOf[p] = vmDoc /\
         \E new \in {<<>>} \cup {<<m>> : m \in {x \in Elements \ made : DocOf[x] = vmDoc}} :
            /\ kids' = [kids EXCEPT ![p] = IF new = <<>> THEN <<>> ELSE @ \o new]
            /\ made' = made \cup {m \in Nodes : new = <<m>>}
    /\ torn' = torn \cup Begun
    /\ Go(c, "acted")
    /\ UNCHANGED <<store, shown, cmd, objectStore, this, arg, inVM, raced, vm, vmDoc>>

PageNavigates == ~raced /\ Navigated /\ UNCHANGED <<objectVars, vm, vmDoc>>

Next ==
    \/ PageNavigates
    \/ \E c \in Cmds : DomStep(c) \/ RuntimeNext(c) \/ ScriptChanges(c)

Spec == Init /\ [][Next]_vars

-----------------------------------------------------------------------------
(* Types, and one command to a goroutine. *)
TypeOK ==
    /\ NodeTypeOK /\ ObjectsTypeOK
    /\ vm \in BOOLEAN /\ vmDoc \in Docs \cup {None}
    /\ \A c \in Cmds : At(c, "idle") \/ In(c, "idle")

(* A number that a client was given for a node or an object, in whatever   *)
(* order commands bind, store, log and reset, keeps its meaning.           *)
NamesStand == TypeOK /\ MapsInverse /\ AnswersStand /\ AnswersName

(* Answers that walk a tree have all of one tree, and once.                *)
AnswersWhole == AnswerIsWhole /\ OneDocument

(* However calls overlap in the globals of one runtime, what a call passes *)
(* reaches no function or script after it but those that overlap it.       *)
PassedWhileUnderWay == CallsGetWhatIsPassed /\ GlobalsOfCallsUnderWay

=============================================================================
