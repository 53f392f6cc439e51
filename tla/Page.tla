-------------------------------- MODULE Page --------------------------------
(***************************************************************************)
(* A page (src/internal/page): any number of Navigate calls run at once,   *)
(* while other goroutines replace the observer and the interceptor and     *)
(* close the page.                                                         *)
(*                                                                         *)
(* Page.mu guards short sections that call nothing, each one step.  doc,   *)
(* url, respHeaders and respStatusCode are only written together, so one   *)
(* variable tells which navigation they come from.  The close observer     *)
(* belongs to the owner of the page (module Browser), the VM to the        *)
(* JavaScript part.  The fetcher, the parser and the hooks that the page's *)
(* user registered are the environment.                                    *)
(***************************************************************************)
EXTENDS Integers, Sequences, PageRequests

CONSTANT MaxHooks   \* bound on the length of the chain of interceptors

ASSUME MaxHooksIsPositive == MaxHooks \in Nat \ {0}

(* The chain of interceptors, first asked first: the callbacks of OnRequest *)
(* and OnResponse fall through to what was there before, and the            *)
(* interceptor given to New or SetRequestInterceptor ends the chain.        *)
Hooks == {"onRequest", "onResponse", "interceptor"}
Events == {"requestWillBeSent", "responseReceived", "loadingFinished", "loadingFailed"}

VARIABLES
    closed,     \* Page.closed
    canceled,   \* the page's context is done
    shown,      \* the navigation that doc, url and the response come from
    hooks,      \* Page.requestInterceptor, as the chain it asks
    reg,        \* what each OnRequest or OnResponse under way will write
    nav,        \* what each navigation is doing
    emitted,    \* history: the events of each navigation
    fetched     \* history: how far each navigation came with the fetcher

pageVars == <<closed, canceled, shown, hooks, reg, nav, ctxDone, emitted, fetched>>

userVars == <<closed, canceled, hooks, reg>>
histVars == <<emitted, fetched>>

PCs == {"idle", "announce", "request", "fetch", "fetching", "decode",
        "response", "respond", "finish", "store", "fail", "ok", "error"}

(* chain is the interceptor read at the start, rest what of it is still to *)
(* be asked in this stage.                                                 *)
NotStarted == [pc |-> "idle", chain |-> <<>>, rest |-> <<>>]

Init ==
    /\ closed = FALSE
    /\ canceled = FALSE
    /\ shown = None
    /\ hooks \in {<<>>, <<"interceptor">>}
    /\ reg = {}
    /\ nav = [n \in Requests |-> NotStarted]
    /\ ctxDone = {}
    /\ emitted = [n \in Requests |-> <<>>]
    /\ fetched = [n \in Requests |-> "no"]

At(n, pc) == nav[n].pc = pc
Goto(n, pc) == nav' = [nav EXCEPT ![n].pc = pc]
Running(n) == nav[n].pc \notin {"idle", "ok", "error"}

-----------------------------------------------------------------------------
(* Navigate *)

Begin(n) ==
    /\ At(n, "idle")
    /\ \/ closed /\ Goto(n, "error")
       \/ /\ ~closed
          /\ nav' = [nav EXCEPT ![n].pc = "announce", ![n].chain = hooks, ![n].rest = hooks]
    /\ UNCHANGED <<userVars, shown, ctxDone, histVars>>

(* emit hands the event to whoever observes the network at that moment. *)
Emit(n, from, evt, next) ==
    /\ At(n, from)
    /\ emitted' = [emitted EXCEPT ![n] = Append(@, evt)]
    /\ Goto(n, next)
    /\ UNCHANGED <<userVars, shown, ctxDone, fetched>>

(* Bug: the document is stored before loadingFinished. *)
Respond_ThenStore(n) == Emit(n, "respond", "responseReceived", "store")

RequestWillBeSent(n) == Emit(n, "announce", "requestWillBeSent", "request")
Respond(n) == Emit(n, "respond", "responseReceived", "finish")
Finish(n) == Emit(n, "finish", "loadingFinished", "store")
Fail(n) == Emit(n, "fail", "loadingFailed", "error")

-----------------------------------------------------------------------------
(* The two interception points. *)

(* Bugs: a case that does not return; an overridden request is intercepted *)
(* again.                                                                  *)
Resume_FallsThrough(n, s, result) ==
    LET next == IF result = "fulfill" THEN "respond"
                ELSE IF s = "request" THEN "fetch" ELSE "respond"
    IN nav' = [nav EXCEPT ![n].pc = next, ![n].rest = nav[n].chain]

Resume_AsksAgain(n, s, result) ==
    LET next == CASE result = "override" -> s
                  [] result = "continue" -> IF s = "request" THEN "fetch" ELSE "respond"
                  [] result = "fulfill" -> "respond"
                  [] result \in {"fail", "error"} -> "fail"
    IN nav' = [nav EXCEPT ![n].pc = next, ![n].rest = nav[n].chain]

(* What Navigate does with the result of the interceptor at stage s. *)
Resume(n, s, result) ==
    LET next == CASE result \in {"continue", "override"} ->
                        IF s = "request" THEN "fetch" ELSE "respond"
                  [] result = "fulfill" -> "respond"
                  [] result \in {"fail", "error"} -> "fail"
    IN nav' = [nav EXCEPT ![n].pc = next, ![n].rest = nav[n].chain]

(* A callback decides; it cannot return an error. *)
HookDecides(n, s) ==
    /\ At(n, s)
    /\ nav[n].rest # <<>>
    /\ Head(nav[n].rest) = IF s = "request" THEN "onRequest" ELSE "onResponse"
    /\ \E result \in {"continue", "override", "fulfill"}
                     \cup {r \in {"fail"} : s = "request"} : Resume(n, s, result)
    /\ UNCHANGED <<userVars, shown, ctxDone, histVars>>

(* A callback of the other stage, or one that did not decide. *)
HookPasses(n, s) ==
    /\ At(n, s)
    /\ nav[n].rest # <<>>
    /\ Head(nav[n].rest) # "interceptor"
    /\ nav' = [nav EXCEPT ![n].rest = Tail(@)]
    /\ UNCHANGED <<userVars, shown, ctxDone, histVars>>

(* The interceptor is asked while it is at the head of the chain. *)
Asks(n, s) ==
    /\ At(n, s)
    /\ nav[n].rest # <<>>
    /\ Head(nav[n].rest) = "interceptor"

InterceptorReturns(n, s, result) ==
    /\ Asks(n, s)
    /\ Resume(n, s, result)
    /\ UNCHANGED <<userVars, shown, ctxDone, histVars>>

NoHookLeft(n, s) ==
    /\ At(n, s)
    /\ nav[n].rest = <<>>
    /\ Resume(n, s, "continue")
    /\ UNCHANGED <<userVars, shown, ctxDone, histVars>>

-----------------------------------------------------------------------------
(* The fetcher gets nowhere with a context that is done. *)
StartFetch(n) ==
    /\ At(n, "fetch")
    /\ \/ n \in ctxDone /\ Goto(n, "fail") /\ UNCHANGED fetched
       \/ /\ n \notin ctxDone
          /\ Goto(n, "fetching")
          /\ fetched' = [fetched EXCEPT ![n] = "asked"]
    /\ UNCHANGED <<userVars, shown, ctxDone, emitted>>

(* Bug: a failed fetch is returned without an event. *)
EndFetch_Silent(n) ==
    /\ At(n, "fetching")
    /\ \/ Goto(n, "decode") /\ fetched' = [fetched EXCEPT ![n] = "answered"]
       \/ Goto(n, "error") /\ UNCHANGED fetched
    /\ UNCHANGED <<userVars, shown, ctxDone, emitted>>

EndFetch(n) ==
    /\ At(n, "fetching")
    /\ \/ Goto(n, "decode") /\ fetched' = [fetched EXCEPT ![n] = "answered"]
       \/ Goto(n, "fail") /\ UNCHANGED fetched
    /\ UNCHANGED <<userVars, shown, ctxDone, emitted>>

(* Decompressing, decoding and reading the body: an error ends Navigate    *)
(* without another event.                                                  *)
Decode(n) ==
    /\ At(n, "decode")
    /\ Goto(n, "response") \/ Goto(n, "error")
    /\ UNCHANGED <<userVars, shown, ctxDone, histVars>>

(* Parse and store.  closed is not looked at again.  The goroutine that    *)
(* requests favicon and resources afterwards only uses the fetcher.        *)
Store(n) ==
    /\ At(n, "store")
    /\ \/ Goto(n, "error") /\ UNCHANGED shown
       \/ Goto(n, "ok") /\ shown' = n
    /\ UNCHANGED <<userVars, ctxDone, histVars>>

-----------------------------------------------------------------------------
(* What the page's users do meanwhile. *)

Close ==
    /\ ~closed
    /\ closed' = TRUE
    /\ shown' = None
    /\ hooks' = <<>>
    /\ UNCHANGED <<canceled, reg, nav, ctxDone, histVars>>

(* Close cancels the page's context after it gave up the lock. *)
CancelContext ==
    /\ closed /\ ~canceled
    /\ canceled' = TRUE
    /\ UNCHANGED <<closed, shown, hooks, reg, nav, ctxDone, histVars>>

(* The goroutine of mergeContexts sees the page's context done ...         *)
MergeCancel(n) ==
    /\ canceled
    /\ Running(n) /\ n \notin ctxDone
    /\ ctxDone' = ctxDone \cup {n}
    /\ UNCHANGED <<userVars, shown, nav, histVars>>

(* ... or the caller of Navigate gives up. *)
CallerCancels(n) ==
    /\ Running(n) /\ n \notin ctxDone
    /\ ctxDone' = ctxDone \cup {n}
    /\ UNCHANGED <<userVars, shown, nav, histVars>>

SetRequestInterceptor(chain) ==
    /\ hooks' = chain
    /\ UNCHANGED <<closed, canceled, shown, reg, nav, ctxDone, histVars>>

(* OnRequest and OnResponse read the interceptor and write it without the  *)
(* lock, so one may overwrite what another, Close or SetRequestInterceptor *)
(* wrote in between.                                                       *)
BeginRegister(hook) ==
    /\ Len(hooks) < MaxHooks
    /\ reg' = reg \cup {<<hook>> \o hooks}
    /\ UNCHANGED <<closed, canceled, shown, hooks, nav, ctxDone, histVars>>

EndRegister(chain) ==
    /\ chain \in reg
    /\ hooks' = chain
    /\ reg' = reg \ {chain}
    /\ UNCHANGED <<closed, canceled, shown, nav, ctxDone, histVars>>

-----------------------------------------------------------------------------
(* Steps that Navigate takes by itself, and those it takes when somebody   *)
(* else is ready.                                                          *)
Proceed(n) ==
    \/ RequestWillBeSent(n) \/ Respond(n) \/ Finish(n) \/ Fail(n)
    \/ \E s \in Stages : HookDecides(n, s) \/ HookPasses(n, s) \/ NoHookLeft(n, s)
    \/ StartFetch(n) \/ Decode(n) \/ Store(n)

Await(n) ==
    \/ EndFetch(n)
    \/ \E s \in Stages, result \in Results : InterceptorReturns(n, s, result)

Use ==
    \/ Close
    \/ \E chain \in {<<>>, <<"interceptor">>} : SetRequestInterceptor(chain)
    \/ \E hook \in {"onRequest", "onResponse"} : BeginRegister(hook)
    \/ \E chain \in reg : EndRegister(chain)

(* The steps of the page that do not depend on what the interceptor is. *)
PageStep ==
    \/ Use \/ CancelContext
    \/ \E n \in Requests :
          Begin(n) \/ Proceed(n) \/ EndFetch(n) \/ MergeCancel(n) \/ CallerCancels(n)

Next ==
    \/ PageStep
    \/ \E n \in Requests, s \in Stages, result \in Results : InterceptorReturns(n, s, result)

Spec == Init /\ [][Next]_pageVars

(* Goroutines run on, a callback returns, and the fetcher and the          *)
(* interceptor return once the context they were given is done; before     *)
(* that they may wait forever.                                             *)
Fairness ==
    /\ WF_pageVars(CancelContext)
    /\ \A n \in Requests :
          /\ WF_pageVars(Proceed(n))
          /\ WF_pageVars(MergeCancel(n))
          /\ WF_pageVars(n \in ctxDone /\ Await(n))

FairSpec == Spec /\ Fairness

-----------------------------------------------------------------------------
TypeOK ==
    /\ closed \in BOOLEAN /\ canceled \in BOOLEAN
    /\ shown \in Requests \cup {None}
    /\ hooks \in Seq(Hooks)
    /\ reg \subseteq Seq(Hooks)
    /\ nav \in [Requests -> [pc : PCs, chain : Seq(Hooks), rest : Seq(Hooks)]]
    /\ ctxDone \subseteq Requests
    /\ emitted \in [Requests -> Seq(Events)]
    /\ fetched \in [Requests -> {"no", "asked", "answered"}]

Success == <<"requestWillBeSent", "responseReceived", "loadingFinished">>
Failure == <<"requestWillBeSent", "loadingFailed">>

(* What Navigate returns agrees with the events it sent: a nil error comes *)
(* after loadingFinished.  An error comes after loadingFailed, except that *)
(* a closed page sends nothing, a body that cannot be decoded ends the     *)
(* request without a last event (only after a response has come), and a    *)
(* document that cannot be parsed fails after loadingFinished.             *)
ReturnMatchesEvents ==
    \A n \in Requests :
        /\ At(n, "ok") => emitted[n] = Success
        /\ At(n, "error") =>
              \/ emitted[n] \in {<<>>, Failure, Success}
              \/ emitted[n] = <<"requestWillBeSent">> /\ fetched[n] = "answered"

(* Requests and the shown document follow RequestLifecycle. *)
PhaseAfter(events) ==
    IF events = <<>> THEN "new"
    ELSE CASE events[Len(events)] = "requestWillBeSent" -> "sent"
           [] events[Len(events)] = "responseReceived"  -> "received"
           [] events[Len(events)] = "loadingFinished"   -> "finished"
           [] events[Len(events)] = "loadingFailed"     -> "failed"

Lifecycle == INSTANCE RequestLifecycle
    WITH phase <- [n \in Requests |-> PhaseAfter(emitted[n])]
ImplementsLifecycle == Lifecycle!Spec

(* Closing the page ends every navigation, also one that waits for a       *)
(* server or for a client's decision.                                      *)
CloseEndsNavigations == closed ~> \A n \in Requests : ~Running(n)

(* "Close releases all resources held by this page (VM, DOM, observers)."  *)
(* (the comment of Page.Close): a closed page holds no document.  Navigate *)
(* does not look at closed again when it stores, so the code breaks this.  *)
ClosedHoldsNoDocument == closed => shown = None

=============================================================================
