----------------------------- MODULE CdpEvents ------------------------------
(***************************************************************************)
(* The handlers of the Network, Page, Runtime and Target domains that      *)
(* report to connections (src/internal/cdp/domain_network.go,              *)
(* domain_page.go, domain_runtime.go, setup.go), on the server of module   *)
(* CdpServer, for one page.                                                *)
(*                                                                         *)
(* Every session that is attached has domain objects of its own, and the   *)
(* server has a set for requests without a session; the page has one       *)
(* observer, the Network domain of whoever was wired last.  A navigation   *)
(* reports through the page's observer to the connection that this domain  *)
(* knows at that moment, while other requests change both.                 *)
(*                                                                         *)
(* Not here: what is between the events of a navigation (module Page), the *)
(* values of evaluations (module CdpObjects), several targets (Targets).   *)
(***************************************************************************)
EXTENDS CdpServer

VARIABLES
    net,        \* NetworkDomain.session and bodies, of each session and the server
    rt,         \* RuntimeDomain.session, likewise
    observer,   \* whose Network domain Page.networkObserver is
    shown,      \* the page's document, by how many were stored before it
    disturbed   \* history: navigations during which who is told changed

eventVars == <<net, rt, observer, shown, disturbed>>
vars == <<serverVars, eventVars>>

Domains == Sids \cup {None}

Init ==
    /\ ServerInit
    /\ net = [d \in Domains |-> [sess |-> None, bodies |-> {}]]
    /\ rt = [d \in Domains |-> None]
    /\ observer = None
    /\ shown = 0
    /\ disturbed = {}

(* What a handler returns besides its answer. *)
Event(kind, about) == [kind |-> kind, about |-> about]

Handling(r, m) == At(r, "handle") /\ rq[r].by = Domain /\ rq[r].method = m
(* Who is told of the page's network now.                                  *)
Listener == net[observer].sess

Navigating == {r \in Reqs : rq[r].method = "Page.navigate"
                              /\ rq[r].pc \in {"emit", "deliver", "keep", "send"}}

-----------------------------------------------------------------------------
(* Network, Runtime *)

NetworkEnable(r) ==
    /\ Handling(r, "Network.enable")
    /\ net' = [net EXCEPT ![rq[r].at].sess = rq[r].conn]
    /\ Reply(r, "result", <<>>)
    /\ disturbed' = IF rq[r].at = observer /\ rq[r].conn # Listener
                     THEN disturbed \cup Navigating ELSE disturbed
    /\ UNCHANGED <<conn, scopes, wired, out, rt, observer, shown>>

GetResponseBody(r) ==
    /\ Handling(r, "Network.getResponseBody")
    /\ \E n \in Reqs : Reply(r, IF n \in net[rq[r].at].bodies THEN "result" ELSE "error", <<>>)
    /\ UNCHANGED <<conn, scopes, wired, out, eventVars>>

RuntimeEnable(r) ==
    /\ Handling(r, "Runtime.enable")
    /\ rt' = [rt EXCEPT ![rq[r].at] = rq[r].conn]
    /\ Reply(r, "result", <<>>)
    /\ UNCHANGED <<conn, scopes, wired, out, net, observer, shown, disturbed>>

(* The expression has a value, throws, or calls console.log first.  The    *)
(* page's VM was made with the callback of the server's Runtime domain.    *)
Evaluate(r) ==
    /\ Handling(r, "Runtime.evaluate")
    /\ \/ Reply(r, "result", <<>>)
       \/ Reply(r, "error", <<Event("exceptionThrown", None)>>)
       \/ rt[None] # None /\ Goto(r, "console")
    /\ UNCHANGED <<conn, scopes, wired, out, eventVars>>

Console(r) ==
    /\ At(r, "console")
    /\ Write(r, Message(rt[None], "consoleAPICalled", None, None))
    /\ Reply(r, "result", <<>>)
    /\ UNCHANGED <<conn, scopes, wired, eventVars>>

(* The Fetch domain is module FetchDomain. *)
FetchEnable(r) ==
    /\ Handling(r, "Fetch.enable")
    /\ Reply(r, "result", <<>>)
    /\ UNCHANGED <<conn, scopes, wired, out, eventVars>>

-----------------------------------------------------------------------------
(* Target: a session's scope, its domains wired to the page; Broadcast.    *)

AttachToTarget(r, s) ==
    /\ Handling(r, "Target.attachToTarget")
    /\ \A q \in Reqs : rq[q].made # s
    /\ scopes' = scopes \cup {s}
    /\ rq' = [rq EXCEPT ![r].pc = "observe", ![r].made = s]
    /\ UNCHANGED <<conn, wired, out, eventVars>>

(* Identifiers have run out in the model. *)
AttachFails(r) ==
    /\ Handling(r, "Target.attachToTarget")
    /\ \A s \in Sids : \E q \in Reqs : rq[q].made = s
    /\ Reply(r, "error", <<>>)
    /\ UNCHANGED <<conn, scopes, wired, out, eventVars>>

SetObserver(r) ==
    /\ At(r, "observe")
    /\ observer' = rq[r].made
    /\ Goto(r, "wire")
    /\ disturbed' = disturbed \cup Navigating
    /\ UNCHANGED <<conn, scopes, wired, out, net, rt, shown>>

(* The next handler is added; requests may use the scope already.          *)
WireScope(r) ==
    LET Has(i) == <<rq[r].made, ScopeOrder[i]>> \in wired
    IN /\ At(r, "wire")
       /\ \E i \in DOMAIN ScopeOrder :
             /\ ~Has(i) /\ \A j \in 1..(i - 1) : Has(j)
             /\ wired' = wired \cup {<<rq[r].made, ScopeOrder[i]>>}
             /\ IF i = Len(ScopeOrder) THEN Reply(r, "result", <<>>) ELSE UNCHANGED rq
       /\ UNCHANGED <<conn, scopes, out, eventVars>>

(* The scope leaves the map; the page keeps its observer. *)
DetachFromTarget(r, s) ==
    /\ Handling(r, "Target.detachFromTarget")
    /\ scopes' = scopes \ {s}
    /\ Reply(r, IF s \in scopes THEN "result" ELSE "error", <<>>)
    /\ UNCHANGED <<conn, wired, out, eventVars>>

CreateTarget(r) ==
    /\ Handling(r, "Target.createTarget")
    /\ BroadcastStart(r, "broadcast")
    /\ UNCHANGED eventVars

Broadcast(r) ==
    /\ At(r, "broadcast")
    /\ BroadcastNext(r, "targetCreated", "result")
    /\ UNCHANGED eventVars

-----------------------------------------------------------------------------
(* Page.navigate.  The events of the navigation come first. *)

Reporting(r, pc, evt, obs, sess) ==
    rq' = [rq EXCEPT ![r].pc = pc,
                     ![r].x = [Nothing EXCEPT !.evt = evt, !.obs = obs, !.sess = sess]]

Navigate(r) ==
    /\ Handling(r, "Page.navigate")
    /\ Reporting(r, "emit", "requestWillBeSent", None, None)
    /\ UNCHANGED <<conn, scopes, wired, out, eventVars>>

(* Page.emit reads the observer under its lock and calls it without. *)
Emit(r) ==
    /\ At(r, "emit")
    /\ Reporting(r, "deliver", rq[r].x.evt, observer, None)
    /\ UNCHANGED <<conn, scopes, wired, out, eventVars>>

(* The events that Navigate may send next.                                 *)
After(evt) ==
    CASE evt = "requestWillBeSent" -> {"responseReceived", "loadingFailed"}
      [] evt = "responseReceived" -> {"loadingFinished"}
      [] evt \in {"loadingFinished", "loadingFailed"} -> {}

(* Bug: nobody answers a request whose navigation failed. *)
Proceed_FailureUnanswered(r) ==
    LET evt == rq[r].x.evt
    IN \/ \E e \in After(evt) : Reporting(r, "emit", e, None, None)
       \/ evt = "loadingFinished" /\ Goto(r, "store")
       \/ evt \in {"requestWillBeSent", "loadingFinished"} /\ Reply(r, "errorText", <<>>)

(* Navigate returns an error after loadingFailed, without another event    *)
(* when a body cannot be decompressed, decoded or read, and after          *)
(* loadingFinished when the document cannot be parsed.                     *)
Proceed(r) ==
    LET evt == rq[r].x.evt
    IN \/ \E e \in After(evt) : Reporting(r, "emit", e, None, None)
       \/ evt = "loadingFinished" /\ Goto(r, "store")
       \/ /\ evt \in {"requestWillBeSent", "loadingFinished", "loadingFailed"}
          /\ Reply(r, "errorText", <<>>)

(* Bug: the body is kept when the client has been told. *)
Deliver_SendsFirst(r) ==
    LET x == rq[r].x
        sess == net[x.obs].sess
    IN /\ At(r, "deliver")
       /\ IF sess = None THEN Proceed(r) ELSE Reporting(r, "send", x.evt, x.obs, sess)
       /\ UNCHANGED <<conn, scopes, wired, out, eventVars>>

(* NetworkDomain.handleNetworkEvent; nothing is kept either when nobody    *)
(* listens.                                                                *)
Deliver(r) ==
    LET x == rq[r].x
        sess == net[x.obs].sess
    IN /\ At(r, "deliver")
       /\ IF sess = None THEN Proceed(r)
          ELSE Reporting(r, IF x.evt = "loadingFinished" THEN "keep" ELSE "send",
                         x.evt, x.obs, sess)
       /\ UNCHANGED <<conn, scopes, wired, out, eventVars>>

StoreBody(r) ==
    /\ At(r, "keep")
    /\ net' = [net EXCEPT ![rq[r].x.obs].bodies = @ \cup {r}]
    /\ Goto(r, "send")
    /\ UNCHANGED <<conn, scopes, wired, out, rt, observer, shown, disturbed>>

SendEvent(r) ==
    /\ At(r, "send")
    /\ Write(r, Message(rq[r].x.sess, rq[r].x.evt, None, rq[r].x.obs))
    /\ Proceed(r)
    /\ UNCHANGED <<conn, scopes, wired, eventVars>>

(* Navigate stores the document and its URL and returns. *)
StoreDocument(r) ==
    /\ At(r, "store")
    /\ shown' = shown + 1
    /\ rq' = [rq EXCEPT ![r].pc = "url", ![r].x = [Nothing EXCEPT !.mine = shown + 1]]
    /\ UNCHANGED <<conn, scopes, wired, out, net, rt, observer, disturbed>>

(* The handler asks the page again, for its URL and then for its title. *)
ReadURL(r) ==
    /\ At(r, "url")
    /\ rq' = [rq EXCEPT ![r].pc = "title", ![r].x.url = shown]
    /\ UNCHANGED <<conn, scopes, wired, out, eventVars>>

(* Eight events, of which two stand for all. *)
Loaded(page) == <<Event("frameNavigated", page), Event("loadEventFired", None)>>

(* Bug: the title is asked for first. *)
ReadTitle_BeforeURL(r) ==
    /\ At(r, "title")
    /\ Reply(r, "result",
             Loaded([mine |-> rq[r].x.mine, url |-> shown, title |-> rq[r].x.url]))
    /\ UNCHANGED <<conn, scopes, wired, out, eventVars>>

ReadTitle(r) ==
    /\ At(r, "title")
    /\ Reply(r, "result",
             Loaded([mine |-> rq[r].x.mine, url |-> rq[r].x.url, title |-> shown]))
    /\ UNCHANGED <<conn, scopes, wired, out, eventVars>>

-----------------------------------------------------------------------------
(* Of a connection that leaves only the place in the list is forgotten. *)
Leave(c) ==
    /\ Disconnect(c)
    /\ disturbed' = IF c = Listener THEN disturbed \cup Navigating ELSE disturbed
    /\ UNCHANGED <<net, rt, observer, shown>>

Client ==
    \/ \E c \in Conns : Leave(c)
    \/ \E r \in Reqs : \E call \in Calls[r] : Receive(r, call) /\ UNCHANGED eventVars
    \/ \E r \in Reqs, c \in Conns : Malformed(r, c) /\ UNCHANGED eventVars

Goroutine(r) ==
    \/ (FindScope(r) \/ LookupScoped(r) \/ LookupGlobal(r) \/ ServeStub(r)
          \/ Respond(r) \/ SendReturned(r)) /\ UNCHANGED eventVars
    \/ NetworkEnable(r) \/ GetResponseBody(r) \/ RuntimeEnable(r) \/ Evaluate(r)
    \/ Console(r) \/ FetchEnable(r)
    \/ \E s \in Sids : AttachToTarget(r, s) \/ DetachFromTarget(r, s)
    \/ AttachFails(r) \/ SetObserver(r) \/ WireScope(r) \/ CreateTarget(r) \/ Broadcast(r)
    \/ Navigate(r) \/ Emit(r) \/ Deliver(r) \/ StoreBody(r) \/ SendEvent(r)
    \/ StoreDocument(r) \/ ReadURL(r) \/ ReadTitle(r)

Next == Client \/ \E r \in Reqs : Goroutine(r)

Spec == Init /\ [][Next]_vars

(* The Go scheduler runs every goroutine, and Navigate returns. *)
FairSpec == Spec /\ \A r \in Reqs : WF_vars(Goroutine(r))

-----------------------------------------------------------------------------
Details == [evt : NetKinds \cup {None}, obs : Domains, sess : Conns \cup {None}, mine : Nat, url : Nat]
Returned == [kind : {"exceptionThrown", "loadEventFired"}, about : {None}]
              \cup [kind : {"frameNavigated"}, about : Pages]

PCs == {"idle", "scope", "scoped", "global", "handle", "console", "observe", "wire", "broadcast",
        "emit", "deliver", "keep", "send", "store", "url", "title", "respond", "events", "done"}

Answers == {"none", "result", "error", "errorText", "session not found", "method not found"}

Requests ==
    [pc : PCs, conn : Conns \cup {None}, sid : Sids \cup {None}, method : Methods,
     at : Domains, by : {None, Stub, Domain}, owned : BOOLEAN,
     answer : Answers, todo : Seq(Returned), made : Sids \cup {None}, left : SUBSET Conns, x : Details]

TypeOK ==
    /\ conn \in [Conns -> {"open", "gone"}]
    /\ scopes \subseteq Sids /\ wired \subseteq Sids \X Methods
    /\ rq \in [Reqs -> Requests]
    /\ out \in [Reqs -> Seq(Messages)]
    /\ net \in [Domains -> [sess : Conns \cup {None}, bodies : SUBSET Reqs]]
    /\ rt \in [Domains -> Conns \cup {None}]
    /\ observer \in Domains /\ shown \in 0..MaxReqs /\ disturbed \subseteq Reqs

Rank(kind) ==
    CASE kind = "requestWillBeSent" -> 1
      [] kind = "responseReceived" -> 2
      [] kind \in {"loadingFinished", "loadingFailed"} -> 3
      [] kind = "response" -> 4
      [] kind = "frameNavigated" -> 5
      [] kind = "loadEventFired" -> 6

Navs == {r \in Reqs : rq[r].method = "Page.navigate"}
NetEvents(r) == {i \in DOMAIN out[r] : out[r][i].kind \in NetKinds}

(* What clients hear of a navigation comes in order, whoever hears it: the *)
(* network events, then the answer, then the events of the page.           *)
StoryInOrder ==
    \A r \in Navs : \A i, j \in DOMAIN out[r] :
        i < j => Rank(out[r][i].kind) < Rank(out[r][j].kind)

TellsPage(r) == \E i \in DOMAIN out[r] : out[r][i].kind = "frameNavigated"
ToldOf(r, kind) == \E i \in NetEvents(r) : out[r][i].kind = kind

(* Unless the listener of the page changes or leaves during a navigation,  *)
(* one connection hears of all its events or nobody of any; whoever hears  *)
(* of one has heard that it began, and when its page is told of, that it   *)
(* has finished.  Other clients that enable, attach or leave are no excuse; *)
(* but a navigation that ends in an error may have no last event.          *)
StoryToOne ==
    \A r \in Navs \ disturbed : NetEvents(r) # {} =>
        /\ \A i, j \in NetEvents(r) : out[r][i].to = out[r][j].to
        /\ ToldOf(r, "requestWillBeSent")
        /\ TellsPage(r) => ToldOf(r, "loadingFinished")

(* Whatever changes meanwhile, nobody who was told that a navigation has   *)
(* failed is told of its page.                                             *)
FailedShowsNothing == \A r \in Navs : ~(TellsPage(r) /\ ToldOf(r, "loadingFailed"))

(* A client that was told a request has finished gets its body from the    *)
(* domain that told it.                                                    *)
BodyKept ==
    \A r \in Navs : \A i \in NetEvents(r) :
        out[r][i].kind = "loadingFinished" => r \in net[out[r][i].about].bodies

(* The page that frameNavigated describes may be a later one, never one    *)
(* that this navigation replaced; nor is the title older than the URL.     *)
NavigatedNotStale ==
    \A r \in Navs : \A i \in DOMAIN out[r] :
        out[r][i].kind = "frameNavigated" =>
            LET page == out[r][i].about
            IN page.mine <= page.url /\ page.url <= page.title

(* Every request that is read comes to its end, whatever the others do:    *)
(* clients send finitely many, and then none stays under way.              *)
RequestsEnd == []<>(\A r \in Reqs : rq[r].pc \in {"idle", "done"})

(* What a request owes to its client: one answer, from the domain that the *)
(* request was for, whatever else is served at the same time.              *)
AnsweredByOwn == TypeOK /\ AnsweredOnce /\ ServedByOwn

(* What clients hear of a navigation is one story: in order, told to one   *)
(* of them, and true when they come back for the body.                     *)
Stories == StoryInOrder /\ StoryToOne /\ FailedShowsNothing /\ BodyKept

=============================================================================
