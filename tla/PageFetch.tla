------------------------------ MODULE PageFetch ------------------------------
(***************************************************************************)
(* A page whose interceptor is the CDP Fetch domain, as Setup in           *)
(* src/internal/cdp/setup.go wires them: modules FetchDomain and Page      *)
(* joined at the calls of intercept.  What each takes as given of the      *)
(* other (Page: an interceptor that returns something at some time;        *)
(* FetchDomain: navigations that call it in a certain order) is here the   *)
(* work of the other, and is checked.                                      *)
(***************************************************************************)
EXTENDS FetchDomain, Page

(* The context that Navigate hands to intercept is its own merged one, so  *)
(* ctxDone is shared, and the requestId names the navigation.              *)
pageOnlyVars == <<closed, canceled, shown, hooks, reg, nav, emitted, fetched>>
fetchOnlyVars == <<enabled, patterns, pending, paused, chan, call, outcome, cmd, malformed>>
vars == <<fetchVars, pageOnlyVars>>

JointInit == FetchInit /\ Init

-----------------------------------------------------------------------------
(* Navigate calls intercept: with the domain disabled, or no pattern that   *)
(* matches, it returns at once.                                             *)
CallPasses(n, s) ==
    /\ call[n].pc = "out"
    /\ PassThrough(n, s)
    /\ InterceptorReturns(n, s, "continue")

CallPauses(n, s) ==
    /\ Asks(n, s)
    /\ Pause(n, s)
    /\ UNCHANGED pageOnlyVars

(* intercept returns to Navigate. *)
CallReturns(n) ==
    LET s == call[n].stage
    IN \/ ReturnDecision(n) /\ InterceptorReturns(n, s, call[n].decision)
       \/ ReturnError(n) /\ InterceptorReturns(n, s, "error")

Intercept(n) ==
    \/ \E s \in Stages : CallPasses(n, s) \/ CallPauses(n, s)
    \/ CallReturns(n)
    \/ (Announce(n) \/ Receive(n) \/ SeeDone(n)) /\ UNCHANGED pageOnlyVars

Client(c) ==
    /\ Command(c) \/ Answer(c)
    /\ UNCHANGED pageOnlyVars

JointNext ==
    \/ \E n \in Requests : Intercept(n)
    \/ \E c \in Commands : Client(c)
    \/ PageStep /\ UNCHANGED fetchOnlyVars

JointSpec == JointInit /\ [][JointNext]_vars

(* As in Page and in FetchDomain.  Nothing is said of commands and of      *)
(* servers, so both may stay silent.                                       *)
JointFairSpec ==
    /\ JointSpec
    /\ WF_vars(CancelContext /\ UNCHANGED fetchOnlyVars)
    /\ \A n \in Requests :
          /\ WF_vars((Proceed(n) \/ MergeCancel(n)) /\ UNCHANGED fetchOnlyVars)
          /\ WF_vars(n \in ctxDone /\ EndFetch(n) /\ UNCHANGED fetchOnlyVars)
          /\ WF_vars(Intercept(n))
    /\ \A c \in Commands : WF_vars(Answer(c) /\ UNCHANGED pageOnlyVars)

-----------------------------------------------------------------------------
(* The page keeps its fair specification, in which it took for granted     *)
(* that its interceptor returns once the context is done: that is what the *)
(* Fetch domain provides.                                                  *)
PageIsKept == FairSpec

(* Navigate never calls intercept in an order that FetchDomain does not    *)
(* expect: twice in a stage, or after a decision that ended it.            *)
CallsAreExpected ==
    \A n \in Requests, s \in Stages :
        Asks(n, s) /\ call[n].pc = "out" => MayCall(n, s)

(* A paused request stands where its client believes it to stand: between  *)
(* requestWillBeSent and any other event of it, not yet asked of a server  *)
(* in the request stage and answered by one in the response stage.         *)
PausedInPlace ==
    \A n \in Requests : Waits(n) =>
        /\ emitted[n] = <<"requestWillBeSent">>
        /\ Asks(n, call[n].stage)
        /\ call[n].stage = "request" <=> fetched[n] = "no"

(* The Fetch domain is asked once per stage, in order (CallsAreExpected),  *)
(* and pauses a request where its client believes it to be.                *)
AskedInPlace == CallsAreExpected /\ PausedInPlace

(* The client's decision is carried out, whatever happens to page, domain  *)
(* and context afterwards: a request that was failed or fulfilled before   *)
(* it was sent never reaches a server, and a failed one is never shown.    *)
DecisionStands ==
    \A n \in Requests :
        /\ outcome[<<n, "request">>] \in {"fail", "fulfill", "error"} => fetched[n] = "no"
        /\ "fail" \in {outcome[<<n, s>>] : s \in Stages} =>
              /\ shown # n
              /\ emitted[n] \in {<<"requestWillBeSent">>, Failure}

(* A request that waits when the domain is disabled goes on, although no   *)
(* client answers it.                                                      *)
DisabledGoesOn ==
    \A n \in Requests : Waits(n) /\ ~enabled ~> ~Waits(n) \/ n \in malformed

(* Closing the page ends the navigations that wait for a client: the page  *)
(* cancels its context, the context wakes intercept, and intercept gives   *)
(* the request back.  Nothing of it stays in the Fetch domain.             *)
CloseFreesTheDomain ==
    closed ~> \A n \in Requests : ~Running(n) /\ pending[n] = None /\ n \notin paused

=============================================================================
