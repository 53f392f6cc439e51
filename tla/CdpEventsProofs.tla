-------------------------- MODULE CdpEventsProofs --------------------------
(***************************************************************************)
(* Proofs about CdpEvents, for any number of connections, of sessions and  *)
(* of requests: each request is answered once and by the domain it is for, *)
(* and what clients hear of a navigation is one story, never a stale one.  *)
(***************************************************************************)
EXTENDS CdpEvents, FiniteSetTheorems, SequenceTheorems, TLAPS

Unserved == {"idle", "scope", "scoped", "global"}
Telling == {"emit", "deliver", "keep", "send"}
Ended == {"respond", "events", "done"}

(* Where a goroutine stands tells what its record holds. *)
TypedAt(r) ==
    /\ ~At(r, "idle") => rq[r].conn \in Conns
    /\ At(r, "idle") => rq[r] = NotRead /\ out[r] = <<>>
    /\ rq[r].pc \in {"observe", "wire"} => rq[r].made \in Sids
    /\ At(r, "console") => rt[None] \in Conns
    /\ rq[r].pc \in Telling \cup {"store", "url", "title"} => r \in Navs
    /\ rq[r].pc \in {"console", "observe", "wire", "broadcast"} => r \notin Navs
    /\ rq[r].pc \in Telling => rq[r].x.evt \in NetKinds
    /\ rq[r].pc \in {"keep", "send"} => rq[r].x.sess \in Conns
    /\ At(r, "keep") => rq[r].x.evt = "loadingFinished"

(* A document is stored by a request that then never stores another. *)
Past == {r \in Reqs : rq[r].pc \in {"url", "title"} \cup Ended}
ShownByPast == shown <= Cardinality(Past)

(* A session keeps the handlers it has, so a request for one of them never *)
(* comes to the handlers of the server.                                    *)
ServedAt(r) ==
    /\ rq[r].pc \in Unserved => rq[r].by = None
    /\ rq[r].pc \in {"scope", "scoped"} /\ rq[r].owned => <<rq[r].sid, rq[r].method>> \in wired
    /\ At(r, "global") => ~(rq[r].owned /\ rq[r].method \in ScopedMethods)
    /\ rq[r].by # None =>
          /\ (rq[r].owned /\ rq[r].method \in ScopedMethods) => rq[r].at = rq[r].sid
          /\ rq[r].method \in ScopedMethods => rq[r].by = Domain

AnsweredAt(r) ==
    /\ rq[r].pc \notin {"events", "done"} => Responses(r) = {}
    /\ \A i, j \in Responses(r) : i = j
    /\ \A i \in Responses(r) : out[r][i].to = rq[r].conn /\ out[r][i].sid = rq[r].sid
    /\ rq[r].pc \in {"events", "done"} /\ conn[rq[r].conn] = "open" =>
          \/ Responses(r) # {}
          \/ At(r, "done") /\ out[r] # <<>> /\ out[r][1].kind = "parse error"

(* How far the story of a navigation has been told. *)
Top(r) ==
    CASE rq[r].pc \in Unserved \cup {"handle"} -> 0
      [] rq[r].pc \in Telling -> Rank(rq[r].x.evt) - 1
      [] rq[r].pc \in {"store", "url", "title", "respond"} -> 3
      [] rq[r].pc = "events" -> 6 - Len(rq[r].todo)
      [] rq[r].pc = "done" -> 6

OrderAt(r) ==
    r \in Navs =>
        /\ rq[r].pc \in {"respond", "events"} =>
              /\ Len(rq[r].todo) <= 2
              /\ \A i \in DOMAIN rq[r].todo : Rank(rq[r].todo[i].kind) = 6 - Len(rq[r].todo) + i
        /\ \A i \in DOMAIN out[r] : Rank(out[r][i].kind) \in 1..Top(r)
        /\ \A i, j \in DOMAIN out[r] : i < j => Rank(out[r][i].kind) < Rank(out[r][j].kind)

(* The page that a navigation loaded is about to be told of, or was.       *)
Shows(r) ==
    \/ rq[r].pc \in {"store", "url", "title"}
    \/ /\ rq[r].pc \in {"respond", "events"}
       /\ \E i \in DOMAIN rq[r].todo : rq[r].todo[i].kind = "frameNavigated"
    \/ TellsPage(r)

(* While nothing is disturbed there is one listener, who has heard all.    *)
OneAt(r) ==
    r \in Navs \ disturbed =>
        /\ rq[r].pc \in Telling =>
              /\ ~At(r, "emit") => rq[r].x.obs = observer
              /\ rq[r].pc \in {"keep", "send"} => rq[r].x.sess = Listener
              /\ \A i \in NetEvents(r) : out[r][i].to = Listener
              /\ NetEvents(r) # {} => Listener \in Conns /\ conn[Listener] = "open"
              /\ rq[r].x.evt # "requestWillBeSent" /\ Listener \in Conns /\ conn[Listener] = "open"
                    => \E i \in NetEvents(r) : out[r][i].kind = "requestWillBeSent"
        /\ rq[r].pc \notin Telling =>
              /\ \A i, j \in NetEvents(r) : out[r][i].to = out[r][j].to
              /\ NetEvents(r) # {} => \E i \in NetEvents(r) : out[r][i].kind = "requestWillBeSent"
              /\ NetEvents(r) # {} /\ Shows(r)
                    => \E i \in NetEvents(r) : out[r][i].kind = "loadingFinished"

FailedAt(r) ==
    r \in Navs /\ Shows(r) => \A i \in NetEvents(r) : out[r][i].kind # "loadingFailed"

BodyAt(r) ==
    /\ At(r, "send") /\ rq[r].x.evt = "loadingFinished" => r \in net[rq[r].x.obs].bodies
    /\ \A i \in NetEvents(r) :
          /\ out[r][i].about \in Domains
          /\ out[r][i].kind = "loadingFinished" => r \in net[out[r][i].about].bodies

Fresh(page) == page.mine <= page.url /\ page.url <= page.title

FreshAt(r) ==
    /\ At(r, "url") => rq[r].x.mine <= shown
    /\ At(r, "title") => rq[r].x.mine <= rq[r].x.url /\ rq[r].x.url <= shown
    /\ \A i \in DOMAIN rq[r].todo : rq[r].todo[i].kind = "frameNavigated" => Fresh(rq[r].todo[i].about)
    /\ \A i \in DOMAIN out[r] : out[r][i].kind = "frameNavigated" => Fresh(out[r][i].about)

Local(r) == TypedAt(r) /\ ServedAt(r) /\ AnsweredAt(r) /\ OrderAt(r) /\ OneAt(r)
              /\ FailedAt(r) /\ BodyAt(r) /\ FreshAt(r)

IInv == TypeOK /\ ShownByPast /\ \A r \in Reqs : Local(r)

-----------------------------------------------------------------------------
(* What a step does to the record of its own request and to no other. *)

Only(r) == rq' \in [Reqs -> Requests] /\ \A s \in Reqs : s # r => rq'[s] = rq[s]

(* The request itself, and who serves it, stay the same. *)
Same(r) ==
    /\ rq'[r].conn = rq[r].conn /\ rq'[r].sid = rq[r].sid /\ rq'[r].method = rq[r].method
    /\ rq'[r].at = rq[r].at /\ rq'[r].by = rq[r].by /\ rq'[r].owned = rq[r].owned

LEMMA NothingIsDetails == Nothing \in Details
BY DEF Nothing, Details, Domains

LEMMA NotReadIsRequest == NotRead \in Requests
BY NothingIsDetails DEF NotRead, Requests, PCs, Methods, Domains, Answers

LEMMA GotoRecord ==
    ASSUME rq \in [Reqs -> Requests], NEW r \in Reqs, NEW p \in PCs, Goto(r, p)
    PROVE  /\ Only(r) /\ Same(r) /\ rq'[r].pc = p /\ rq'[r].x = rq[r].x
           /\ rq'[r].todo = rq[r].todo /\ rq'[r].made = rq[r].made
BY ZenonT(60) DEF Goto, Only, Same, Requests

LEMMA ServeType ==
    ASSUME NEW q \in Requests, NEW pc \in PCs, NEW at \in Domains, NEW by \in {Stub, Domain}
    PROVE  [q EXCEPT !.pc = pc, !.at = at, !.by = by] \in Requests
BY DEF Requests

LEMMA ReplyType ==
    ASSUME NEW q \in Requests, NEW pc \in PCs, NEW answer \in Answers, NEW todo \in Seq(Returned),
           NEW x \in Details
    PROVE  [q EXCEPT !.pc = pc, !.answer = answer, !.todo = todo, !.x = x] \in Requests
BY DEF Requests

LEMMA ReportingType ==
    ASSUME NEW q \in Requests, NEW pc \in PCs, NEW x \in Details
    PROVE  [q EXCEPT !.pc = pc, !.x = x] \in Requests
BY DEF Requests

LEMMA RecordSet ==
    ASSUME rq \in [Reqs -> Requests], NEW r \in Reqs, NEW w \in Requests, rq' = [rq EXCEPT ![r] = w]
    PROVE  Only(r) /\ rq'[r] = w
BY DEF Only

LEMMA ReplyRecord ==
    ASSUME rq \in [Reqs -> Requests], NEW r \in Reqs, NEW events \in Seq(Returned),
           NEW answer \in Answers,
           Reply(r, answer, events)
    PROVE  Only(r) /\ Same(r) /\ rq'[r].pc = "respond" /\ rq'[r].todo = events
<1> DEFINE w == [rq[r] EXCEPT !.pc = "respond", !.answer = answer, !.todo = events, !.x = Nothing]
<1>1. w.pc = "respond" /\ w.todo = events
  BY DEF Requests
<1>2. /\ w.conn = rq[r].conn /\ w.sid = rq[r].sid /\ w.method = rq[r].method
      /\ w.at = rq[r].at /\ w.by = rq[r].by /\ w.owned = rq[r].owned
  BY DEF Requests
<1>3. w \in Requests
  <2>1. rq[r] \in Requests /\ "respond" \in PCs /\ Nothing \in Details
    BY NothingIsDetails DEF PCs
  <2> QED
    BY <2>1, ReplyType, Zenon
<1>4. rq' = [rq EXCEPT ![r] = w]
  BY DEF Reply
<1> HIDE DEF w
<1> QED
  BY <1>1, <1>2, <1>3, <1>4, RecordSet DEF Same

LEMMA ServeRecord ==
    ASSUME rq \in [Reqs -> Requests], NEW r \in Reqs, NEW at \in Domains, NEW by \in {Stub, Domain},
           Serve(r, at, by)
    PROVE  /\ Only(r) /\ rq'[r].pc = "handle" /\ rq'[r].at = at /\ rq'[r].by = by
           /\ rq'[r].conn = rq[r].conn /\ rq'[r].sid = rq[r].sid /\ rq'[r].method = rq[r].method
           /\ rq'[r].owned = rq[r].owned /\ rq'[r].todo = rq[r].todo
<1> DEFINE w == [rq[r] EXCEPT !.pc = "handle", !.at = at, !.by = by]
<1>1. /\ w.pc = "handle" /\ w.at = at /\ w.by = by
      /\ w.conn = rq[r].conn /\ w.sid = rq[r].sid /\ w.method = rq[r].method
      /\ w.owned = rq[r].owned /\ w.todo = rq[r].todo
  BY DEF Requests
<1>2. w \in Requests
  <2>1. rq[r] \in Requests /\ "handle" \in PCs
    BY DEF PCs
  <2> QED
    BY <2>1, ServeType, Zenon
<1>3. rq' = [rq EXCEPT ![r] = w]
  BY DEF Serve
<1> HIDE DEF w
<1> QED
  BY <1>1, <1>2, <1>3, RecordSet

LEMMA ReportingRecord ==
    ASSUME rq \in [Reqs -> Requests], NEW r \in Reqs, NEW pc \in PCs, NEW evt \in NetKinds,
           NEW obs \in Domains, NEW sess \in Conns \cup {None}, Reporting(r, pc, evt, obs, sess)
    PROVE  /\ Only(r) /\ Same(r) /\ rq'[r].pc = pc /\ rq'[r].todo = rq[r].todo
           /\ rq'[r].x.evt = evt /\ rq'[r].x.obs = obs /\ rq'[r].x.sess = sess
<1> DEFINE x == [Nothing EXCEPT !.evt = evt, !.obs = obs, !.sess = sess]
           w == [rq[r] EXCEPT !.pc = pc, !.x = x]
<1>1. x \in Details /\ x.evt = evt /\ x.obs = obs /\ x.sess = sess
  BY DEF Nothing, Details
<1>2. rq' = [rq EXCEPT ![r] = w]
  BY DEF Reporting
<1> HIDE DEF x
<1>3. /\ w.pc = pc /\ w.x = x /\ w.todo = rq[r].todo
      /\ w.conn = rq[r].conn /\ w.sid = rq[r].sid /\ w.method = rq[r].method
      /\ w.at = rq[r].at /\ w.by = rq[r].by /\ w.owned = rq[r].owned
  BY DEF Requests
<1>4. w \in Requests
  <2>1. rq[r] \in Requests
    OBVIOUS
  <2> QED
    BY <1>1, <2>1, ReportingType, Zenon
<1> HIDE DEF w
<1> QED
  BY <1>1, <1>2, <1>3, <1>4, RecordSet DEF Same

(* A message is added at the end of what was sent, or the connection is gone. *)
Adds(r, msg) ==
    /\ \A s \in Reqs : s # r => out'[s] = out[s]
    /\ out' \in [Reqs -> Seq(Messages)]
    /\ IF conn[msg.to] = "open"
       THEN /\ DOMAIN out'[r] = 1 .. (Len(out[r]) + 1)
            /\ out'[r] # <<>>
            /\ out'[r][Len(out[r]) + 1] = msg
            /\ \A i \in DOMAIN out[r] : out'[r][i] = out[r][i]
       ELSE out'[r] = out[r]

LEMMA WriteAdds ==
    ASSUME out \in [Reqs -> Seq(Messages)], NEW r \in Reqs, NEW msg \in Messages, Write(r, msg)
    PROVE  Adds(r, msg) /\ DOMAIN out[r] = 1 .. Len(out[r]) /\ Len(out[r]) \in Nat
<1>1. out[r] \in Seq(Messages)
  OBVIOUS
<1>2. DOMAIN out[r] = 1 .. Len(out[r]) /\ Len(out[r]) \in Nat
  BY <1>1
<1>3. CASE conn[msg.to] = "open"
  <2>1. out' = [out EXCEPT ![r] = Append(out[r], msg)]
    BY <1>3 DEF Write
  <2>2. Append(out[r], msg) \in Seq(Messages) /\ Len(Append(out[r], msg)) = Len(out[r]) + 1
        /\ Append(out[r], msg)[Len(out[r]) + 1] = msg
        /\ \A i \in 1 .. Len(out[r]) : Append(out[r], msg)[i] = out[r][i]
    BY <1>1, AppendProperties
  <2>3. out'[r] = Append(out[r], msg) /\ out' \in [Reqs -> Seq(Messages)]
    BY <2>1, <2>2
  <2>4. DOMAIN out'[r] = 1 .. (Len(out[r]) + 1) /\ out'[r] # <<>>
    BY <1>2, <2>2, <2>3
  <2> QED
    BY <1>2, <1>3, <2>1, <2>2, <2>3, <2>4 DEF Adds
<1>4. CASE conn[msg.to] # "open"
  BY <1>2, <1>4 DEF Write, Adds
<1> QED
  BY <1>3, <1>4

-----------------------------------------------------------------------------
(* What a step may do to what the requests share: connections only leave,  *)
(* handlers and bodies only come, documents only replace older ones, and   *)
(* who changes who is told disturbs the navigations under way.             *)
Benign ==
    /\ \A c \in Conns : conn'[c] = "open" => conn[c] = "open"
    /\ wired \subseteq wired'
    /\ rt[None] \in Conns => rt'[None] \in Conns
    /\ \A d \in Domains : net[d].bodies \subseteq net'[d].bodies
    /\ shown' \in Nat /\ shown <= shown'
    /\ disturbed \subseteq disturbed'
    /\ \/ Navigating \subseteq disturbed'
       \/ /\ UNCHANGED <<observer, Listener>>
          /\ Listener \in Conns => conn'[Listener] = conn[Listener]

SharedOK ==
    /\ conn \in [Conns -> {"open", "gone"}]
    /\ scopes \subseteq Sids /\ wired \subseteq Sids \X Methods
    /\ net \in [Domains -> [sess : Conns \cup {None}, bodies : SUBSET Reqs]]
    /\ rt \in [Domains -> Conns \cup {None}]
    /\ observer \in Domains /\ disturbed \subseteq Reqs

Counted(r) ==
    \/ shown' = shown /\ (r \in Past => r \in Past')
    \/ shown' = shown + 1 /\ r \notin Past /\ r \in Past'

(* A step of a request that keeps the invariant for all of them. *)
Moves(r) ==
    /\ Only(r) /\ Benign /\ SharedOK' /\ Counted(r) /\ Local(r)'
    /\ out' \in [Reqs -> Seq(Messages)] /\ \A s \in Reqs : s # r => out'[s] = out[s]

LEMMA KindsOfRequest ==
    ASSUME TypeOK, NEW r \in Reqs
    PROVE  /\ rq \in [Reqs -> Requests] /\ rq[r] \in Requests
           /\ out \in [Reqs -> Seq(Messages)] /\ out[r] \in Seq(Messages)
           /\ shown \in Nat /\ <<>> \in Seq(Returned)
BY MaxReqsIsNat DEF TypeOK

LEMMA NothingChanges ==
    ASSUME TypeOK, UNCHANGED <<conn, scopes, wired, eventVars>>
    PROVE  Benign /\ SharedOK'
BY MaxReqsIsNat DEF TypeOK, Benign, Listener, SharedOK, eventVars

LEMMA OtherKeeps ==
    ASSUME TypeOK, Benign, NEW s \in Reqs, Local(s), rq'[s] = rq[s], out'[s] = out[s]
    PROVE  Local(s)'
<1>0. rq[s] \in Requests /\ out[s] \in Seq(Messages)
  BY DEF TypeOK
<1>1. TypedAt(s)'
  BY DEF Local, TypedAt, Benign, At, Navs
<1>2. ServedAt(s)'
  BY DEF Local, ServedAt, Benign, At
<1>3. AnsweredAt(s)'
  <2>1. Responses(s)' = Responses(s)
    BY DEF Responses
  <2>2. rq[s].pc \in {"events", "done"} => rq[s].conn \in Conns
    BY DEF Local, TypedAt, At
  <2> QED
    BY <2>1, <2>2 DEF Local, AnsweredAt, Benign, At
<1>4. OrderAt(s)'
  BY DEF Local, OrderAt, Top, Navs
<1>5. OneAt(s)'
  <2> SUFFICES ASSUME s \in Navs' \ disturbed'
               PROVE  OneAt(s)'
    BY DEF OneAt
  <2>1. s \in Navs \ disturbed /\ NetEvents(s)' = NetEvents(s)
    BY DEF Navs, Benign, NetEvents
  <2>2. CASE rq[s].pc \in Telling
    <3>1. /\ UNCHANGED <<observer, Listener>>
          /\ Listener \in Conns => conn'[Listener] = conn[Listener]
      BY <2>2, <2>1 DEF Benign, Navigating, Telling, Navs
    <3> QED
      BY <2>1, <2>2, <3>1 DEF Local, OneAt, At
  <2>3. CASE rq[s].pc \notin Telling
    <3>1. Shows(s)' <=> Shows(s)
      BY DEF Shows, TellsPage
    <3> QED
      BY <2>1, <2>3, <3>1 DEF Local, OneAt
  <2> QED
    BY <2>2, <2>3
<1>8. FailedAt(s)'
  BY DEF Local, FailedAt, Shows, TellsPage, NetEvents, Navs
<1>6. BodyAt(s)'
  <2>1. NetEvents(s)' = NetEvents(s)
    BY DEF NetEvents
  <2>2. rq[s].x.obs \in Domains
    BY <1>0 DEF Requests, Details
  <2> QED
    BY <2>1, <2>2 DEF Local, BodyAt, Benign, At
<1>7. FreshAt(s)'
  <2>1. shown \in Nat /\ rq[s].x.mine \in Nat /\ rq[s].x.url \in Nat
    BY <1>0, MaxReqsIsNat DEF TypeOK, Requests, Details
  <2> QED
    BY <2>1 DEF Local, FreshAt, Benign, At
<1> QED
  BY <1>1, <1>2, <1>3, <1>4, <1>5, <1>6, <1>7, <1>8 DEF Local

-----------------------------------------------------------------------------
(* Steps that send nothing, of a request that has told nothing yet of a    *)
(* navigation: up to its handler, in it, and to its answer.                *)
Before == {"scope", "scoped", "global", "handle", "console", "observe", "wire", "broadcast"}

SmallTodo == {<<>>, <<Event("exceptionThrown", None)>>}

LEMMA BeforeTold ==
    ASSUME TypeOK, NEW r \in Navs, Local(r), rq[r].pc \in Before \cup {"idle"}
    PROVE  DOMAIN out[r] = {}
<1>1. rq[r].pc \in Unserved \cup {"handle"}
  BY DEF Local, TypedAt, Before, Unserved, Navs, At
<1>2. Top(r) = 0
  BY <1>1 DEF Top, Unserved, Telling
<1>3. \A i \in DOMAIN out[r] : Rank(out[r][i].kind) \in 1..0
  BY <1>2 DEF Local, OrderAt
<1> QED
  BY <1>3

LEMMA BeforeMoves ==
    ASSUME TypeOK, Benign, SharedOK', NEW r \in Reqs, Local(r), Only(r), UNCHANGED <<out, shown>>,
           rq[r].pc \in Before, rq'[r].pc \in (Before \ {"scope"}) \cup {"respond", "emit"},
           rq'[r].conn = rq[r].conn, rq'[r].sid = rq[r].sid, rq'[r].method = rq[r].method,
           \/ rq'[r].pc # "respond" /\ rq'[r].todo = rq[r].todo
           \/ rq'[r].todo \in SmallTodo /\ (r \in Navs => rq'[r].todo = <<>>),
           At(r, "emit")' => rq'[r].x.evt = "requestWillBeSent",
           TypedAt(r)', ServedAt(r)'
    PROVE  Moves(r)
<1>0. r \in Navs' <=> r \in Navs
  BY DEF Navs
<1>1. AnsweredAt(r)'
  BY DEF Local, AnsweredAt, Responses, Before, At
<1>2. r \in Navs => DOMAIN out[r] = {} /\ NetEvents(r) = {}
  BY BeforeTold DEF NetEvents
<1>3. NetEvents(r)' = NetEvents(r)
  BY DEF NetEvents
<1>4. OrderAt(r)'
  <2> SUFFICES ASSUME r \in Navs
               PROVE  rq'[r].pc \in {"respond", "events"} => rq'[r].todo = <<>>
    BY <1>0, <1>2 DEF OrderAt
  <2> QED
    BY DEF Before
<1>5. OneAt(r)'
  BY <1>0, <1>2, <1>3 DEF OneAt, Telling, Before, At
<1>6. BodyAt(r)'
  BY <1>3 DEF Local, BodyAt, Benign, Before, At
<1>7. FreshAt(r)'
  BY DEF Local, FreshAt, Before, SmallTodo, Event, At
<1>8. r \notin Past /\ out \in [Reqs -> Seq(Messages)]
  BY DEF TypeOK, Past, Ended, Before
<1>9. FailedAt(r)'
  BY <1>0, <1>2, <1>3 DEF FailedAt
<1> QED
  BY <1>1, <1>4, <1>5, <1>6, <1>7, <1>8, <1>9 DEF Local, Moves, Counted

-----------------------------------------------------------------------------
(* The read loop and dispatch. *)

LEMMA ReceiveMoves ==
    ASSUME TypeOK, NEW r \in Reqs, Local(r), NEW call \in Calls[r], Receive(r, call),
           UNCHANGED eventVars
    PROVE  Moves(r)
<1>1. call.conn \in Conns /\ call.sid \in Sids \cup {None} /\ call.method \in Methods
  BY CallsAreCalls DEF Reqs
<1> DEFINE pc == IF call.sid = None THEN "global" ELSE "scope"
           owned == <<call.sid, call.method>> \in wired
           w == [NotRead EXCEPT !.pc = pc, !.conn = call.conn, !.sid = call.sid,
                                !.method = call.method, !.owned = owned]
<1>2. pc \in PCs /\ owned \in BOOLEAN
  BY DEF PCs
<1>3. rq' = [rq EXCEPT ![r] = w]
  BY DEF Receive
<1>4. /\ w \in Requests /\ w.pc = pc /\ w.conn = call.conn /\ w.sid = call.sid
      /\ w.method = call.method /\ w.owned = owned /\ w.by = None /\ w.todo = <<>> /\ w.at = None
  <2> HIDE DEF pc, owned
  <2>1. NotRead \in Requests /\ NotRead.by = None /\ NotRead.todo = <<>> /\ NotRead.at = None
    BY NotReadIsRequest DEF NotRead
  <2> HIDE DEF NotRead
  <2> QED
    BY <1>1, <1>2, <2>1 DEF Requests
<1> HIDE DEF w
<1>5. Only(r) /\ rq'[r] = w
  BY <1>3, <1>4, RecordSet, KindsOfRequest
<1>6. UNCHANGED <<conn, wired, out>> /\ out[r] = <<>>
  BY DEF Receive, IsNext, Local, TypedAt
<1>7. DOMAIN out'[r] = {} /\ Responses(r)' = {} /\ NetEvents(r)' = {}
  BY <1>6 DEF Responses, NetEvents
<1>8. rq'[r].pc \in {"global", "scope"} /\ rq'[r].todo = <<>> /\ rq'[r].by = None /\ rq'[r].conn \in Conns
  BY <1>1, <1>4, <1>5
<1>9. TypedAt(r)'
  BY <1>8 DEF TypedAt, At, Telling
<1>10. ServedAt(r)'
  <2>1. call.sid = None => <<call.sid, call.method>> \notin wired
    BY NamesDiffer DEF TypeOK
  <2> QED
    BY <1>4, <1>5, <1>6, <1>8, <2>1 DEF ServedAt, Unserved, At
<1>11. AnsweredAt(r)'
  BY <1>7, <1>8 DEF AnsweredAt, At
<1>12. OrderAt(r)'
  BY <1>7, <1>8 DEF OrderAt
<1>13. OneAt(r)' /\ FailedAt(r)'
  BY <1>7, <1>8 DEF OneAt, FailedAt, Telling
<1>14. BodyAt(r)'
  BY <1>7, <1>8 DEF BodyAt, At
<1>15. DOMAIN rq'[r].todo = {}
  BY <1>8
<1>16. FreshAt(r)'
  BY <1>7, <1>8, <1>15 DEF FreshAt, At
<1>17. r \notin Past /\ Benign /\ SharedOK' /\ UNCHANGED <<shown, out>>
  BY NothingChanges DEF Past, Ended, Receive, IsNext, At, eventVars
<1> QED
  BY <1>5, <1>9, <1>10, <1>11, <1>12, <1>13, <1>14, <1>16, <1>17, KindsOfRequest
  DEF Local, Moves, Counted

LEMMA MalformedMoves ==
    ASSUME TypeOK, NEW r \in Reqs, Local(r), NEW c \in Conns, Malformed(r, c), UNCHANGED eventVars
    PROVE  Moves(r)
<1> DEFINE msg == Message(c, "parse error", None, None)
<1>1. rq[r] = NotRead /\ out[r] = <<>> /\ conn[c] = "open" /\ UNCHANGED conn
  BY DEF Malformed, IsNext, Local, TypedAt
<1>2. msg \in Messages /\ msg.to = c /\ msg.kind = "parse error"
  BY DEF Message, Messages, Kinds
<1>3. Write(r, msg)
  BY DEF Malformed
<1> HIDE DEF msg
<1>4. Adds(r, msg)
  BY <1>2, <1>3, WriteAdds, KindsOfRequest
<1>5. DOMAIN out'[r] = {1} /\ out'[r][1] = msg /\ out'[r] # <<>>
  <2>1. Len(out[r]) = 0 /\ Len(out[r]) + 1 = 1 /\ 1..1 = {1}
    BY <1>1
  <2>2. conn[msg.to] = "open"
    BY <1>1, <1>2
  <2>3. DOMAIN out'[r] = 1..1 /\ out'[r][1] = msg /\ out'[r] # <<>>
    BY <1>4, <2>1, <2>2 DEF Adds
  <2> QED
    BY <2>1, <2>3
<1> DEFINE w == [NotRead EXCEPT !.pc = "done", !.conn = c]
<1>6. rq' = [rq EXCEPT ![r] = w]
  BY <1>1, KindsOfRequest DEF Malformed
<1>7. /\ w \in Requests /\ w.pc = "done" /\ w.conn = c /\ w.method = "Unknown"
      /\ w.by = None /\ w.todo = <<>>
  <2>1. NotRead \in Requests /\ NotRead.by = None /\ NotRead.todo = <<>> /\ NotRead.method = "Unknown"
    BY NotReadIsRequest DEF NotRead
  <2>2. "done" \in PCs
    BY DEF PCs
  <2> HIDE DEF NotRead
  <2> QED
    BY <2>1, <2>2 DEF Requests
<1> HIDE DEF w
<1>8. Only(r) /\ rq'[r] = w
  BY <1>6, <1>7, RecordSet, KindsOfRequest
<1>9. Responses(r)' = {} /\ NetEvents(r)' = {} /\ r \notin Navs'
  BY <1>2, <1>5, <1>7, <1>8 DEF Responses, NetEvents, NetKinds, Navs
<1>10. TypedAt(r)' /\ ServedAt(r)'
  BY <1>7, <1>8 DEF TypedAt, ServedAt, At, Telling, Unserved
<1>11. AnsweredAt(r)'
  BY <1>2, <1>5, <1>7, <1>8, <1>9 DEF AnsweredAt, At
<1>12. OrderAt(r)' /\ OneAt(r)' /\ FailedAt(r)'
  BY <1>9 DEF OrderAt, OneAt, FailedAt
<1>13. BodyAt(r)'
  BY <1>7, <1>8, <1>9 DEF BodyAt, At
<1>14. DOMAIN rq'[r].todo = {}
  BY <1>7, <1>8
<1>15. FreshAt(r)'
  BY <1>2, <1>5, <1>7, <1>8, <1>14 DEF FreshAt, At
<1>16. r \notin Past /\ Benign /\ SharedOK' /\ UNCHANGED shown
  BY NothingChanges DEF Past, Ended, Malformed, IsNext, At, eventVars
<1> QED
  BY <1>4, <1>8, <1>10, <1>11, <1>12, <1>13, <1>15, <1>16 DEF Local, Adds, Moves, Counted

(* A request before its answer is answered. *)
LEMMA ReplyMoves ==
    ASSUME TypeOK, Benign, SharedOK', NEW r \in Reqs, Local(r), UNCHANGED <<out, shown>>,
           rq[r].pc \in Before, NEW answer \in Answers, NEW todo \in SmallTodo,
           r \in Navs => todo = <<>>, Reply(r, answer, todo)
    PROVE  Moves(r)
<1>1. todo \in Seq(Returned)
  <2>1. Event("exceptionThrown", None) \in Returned
    BY DEF Event, Returned
  <2>2. <<Event("exceptionThrown", None)>> \in Seq(Returned) /\ <<>> \in Seq(Returned)
    BY <2>1
  <2> QED
    BY <2>2 DEF SmallTodo
<1>2. Only(r) /\ Same(r) /\ rq'[r].pc = "respond" /\ rq'[r].todo = todo
  BY <1>1, ReplyRecord, KindsOfRequest
<1>3. rq[r].conn \in Conns
  BY DEF Local, TypedAt, At, Before
<1>4. TypedAt(r)'
  BY <1>2, <1>3 DEF TypedAt, At, Telling, Same
<1>5. ServedAt(r)'
  BY <1>2 DEF Local, ServedAt, At, Unserved, Same
<1> QED
  BY <1>2, <1>4, <1>5, BeforeMoves DEF Same, At

(* It takes a step on its way. *)
LEMMA GotoMoves ==
    ASSUME TypeOK, Benign, SharedOK', NEW r \in Reqs, Local(r), UNCHANGED <<out, shown>>,
           rq[r].pc \in Before, NEW p \in Before \ {"scope"}, Goto(r, p), TypedAt(r)', ServedAt(r)'
    PROVE  Moves(r)
<1>1. p \in PCs
  BY DEF Before, PCs
<1>2. /\ Only(r) /\ Same(r) /\ rq'[r].pc = p /\ rq'[r].x = rq[r].x
      /\ rq'[r].todo = rq[r].todo
  BY <1>1, GotoRecord, KindsOfRequest
<1>3. p # "respond" /\ p # "emit"
  BY DEF Before
<1> QED
  BY <1>2, <1>3, BeforeMoves DEF Same, At

LEMMA FindScopeMoves ==
    ASSUME TypeOK, NEW r \in Reqs, Local(r), FindScope(r), UNCHANGED eventVars
    PROVE  Moves(r)
<1>1. Benign /\ SharedOK' /\ UNCHANGED <<out, shown, wired>> /\ At(r, "scope")
  BY NothingChanges DEF FindScope, eventVars
<1>2. rq[r].pc \in Before
  BY <1>1 DEF Before, At
<1>3. CASE Goto(r, "scoped")
  <2>1. Only(r) /\ Same(r) /\ rq'[r].pc = "scoped"
    BY <1>3, GotoRecord, KindsOfRequest DEF PCs
  <2>2. TypedAt(r)'
    BY <1>1, <2>1 DEF Local, TypedAt, At, Telling, Same
  <2>3. ServedAt(r)'
    BY <1>1, <2>1 DEF Local, ServedAt, At, Unserved, Same
  <2>4. "scoped" \in Before \ {"scope"}
    BY DEF Before
  <2> QED
    BY <1>1, <1>2, <1>3, <2>2, <2>3, <2>4, GotoMoves
<1>4. CASE Reply(r, "session not found", <<>>)
  BY <1>1, <1>2, <1>4, ReplyMoves DEF Answers, SmallTodo
<1> QED
  BY <1>3, <1>4 DEF FindScope

(* The tables know a handler that is not a stub for every method of a      *)
(* session.                                                                *)
LEMMA TablesServe ==
    ASSUME NEW m \in Methods
    PROVE  /\ Lookup(ScopeTables, m) \in {None, Stub, Domain}
           /\ Lookup(GlobalTables, m) \in {None, Stub, Domain}
           /\ m \in ScopedMethods => Lookup(ScopeTables, m) = Domain /\ Lookup(GlobalTables, m) = Domain
<1>1. /\ ScopeTables.session = [k \in SessionMethods |-> Domain]
      /\ ScopeTables.plain = Stubbed({"Log.enable"}, PlainMethods)
      /\ GlobalTables.session = [k \in SessionMethods \cup TargetMethods |-> Domain]
      /\ GlobalTables.plain = Stubbed({"Log.enable", "Fetch.enable"},
                                      PlainMethods \cup {"Target.detachFromTarget"})
  BY DEF ScopeTables, GlobalTables, All
<1> HIDE DEF ScopeTables, GlobalTables
<1>3. Lookup(ScopeTables, m) = CASE m \in SessionMethods -> Domain
                                 [] m \in ({"Log.enable"} \cup PlainMethods) \ SessionMethods ->
                                      IF m = "Log.enable" THEN Stub ELSE Domain
                                 [] OTHER -> None
  BY <1>1 DEF Lookup, Stubbed, SessionMethods, PlainMethods
<1>4. Lookup(GlobalTables, m) =
          CASE m \in SessionMethods \cup TargetMethods -> Domain
            [] m \in ({"Log.enable", "Fetch.enable", "Target.detachFromTarget"} \cup PlainMethods)
                        \ (SessionMethods \cup TargetMethods) ->
                 IF m \in {"Log.enable", "Fetch.enable"} THEN Stub ELSE Domain
            [] OTHER -> None
  BY <1>1 DEF Lookup, Stubbed, SessionMethods, PlainMethods, TargetMethods
<1> QED
  BY <1>3, <1>4 DEF SessionMethods, PlainMethods, TargetMethods, ScopedMethods

LEMMA LookupScopedMoves ==
    ASSUME TypeOK, NEW r \in Reqs, Local(r), LookupScoped(r), UNCHANGED eventVars
    PROVE  Moves(r)
<1> DEFINE h == IF <<rq[r].sid, rq[r].method>> \in wired
                THEN Lookup(ScopeTables, rq[r].method) ELSE None
<1>1. Benign /\ SharedOK' /\ UNCHANGED <<out, shown, wired>> /\ At(r, "scoped")
  BY NothingChanges DEF LookupScoped, eventVars
<1>2. rq[r].pc \in Before /\ rq[r].conn \in Conns /\ rq[r].method \in Methods
  BY <1>1, KindsOfRequest DEF Local, TypedAt, Before, At, Requests
<1>3. rq[r].owned => <<rq[r].sid, rq[r].method>> \in wired
  BY <1>1 DEF Local, ServedAt, At
<1>4. IF h = None THEN Goto(r, "global") ELSE Serve(r, rq[r].sid, h)
  BY DEF LookupScoped
<1>5. h \in {None, Stub, Domain}
  BY <1>2, TablesServe
<1>6. rq[r].owned /\ rq[r].method \in ScopedMethods => h = Domain
  BY <1>2, <1>3, TablesServe
<1>7. rq[r].method \in ScopedMethods /\ h # None => h = Domain
  BY <1>2, TablesServe
<1>8. h # None => rq[r].sid \in Domains
  BY DEF TypeOK, Domains
<1> HIDE DEF h
<1>9. CASE h = None
  <2>1. Only(r) /\ Same(r) /\ rq'[r].pc = "global"
    BY <1>4, <1>9, GotoRecord, KindsOfRequest DEF PCs
  <2>2. TypedAt(r)'
    BY <1>1, <1>2, <2>1 DEF TypedAt, At, Telling, Same
  <2>3. ServedAt(r)'
    <3>1. ~(rq[r].owned /\ rq[r].method \in ScopedMethods)
      BY <1>6, <1>9, HandlersAreSome
    <3> QED
      BY <1>1, <2>1, <3>1 DEF Local, ServedAt, At, Unserved, Same
  <2>4. "global" \in Before \ {"scope"}
    BY DEF Before
  <2> QED
    BY <1>1, <1>2, <1>4, <1>9, <2>2, <2>3, <2>4, GotoMoves
<1>10. CASE h # None
  <2>1. /\ Only(r) /\ rq'[r].pc = "handle" /\ rq'[r].at = rq[r].sid /\ rq'[r].by = h
        /\ rq'[r].conn = rq[r].conn /\ rq'[r].sid = rq[r].sid /\ rq'[r].method = rq[r].method
        /\ rq'[r].owned = rq[r].owned /\ rq'[r].todo = rq[r].todo
    BY <1>4, <1>5, <1>8, <1>10, ServeRecord, KindsOfRequest
  <2>2. TypedAt(r)'
    BY <1>2, <2>1 DEF TypedAt, At, Telling
  <2>3. ServedAt(r)'
    BY <1>7, <1>10, <2>1 DEF ServedAt, At, Unserved
  <2>4. "handle" \in Before
    BY DEF Before
  <2> QED
    BY <1>1, <1>2, <2>1, <2>2, <2>3, <2>4, BeforeMoves DEF At
<1> QED
  BY <1>9, <1>10

LEMMA LookupGlobalMoves ==
    ASSUME TypeOK, NEW r \in Reqs, Local(r), LookupGlobal(r), UNCHANGED eventVars
    PROVE  Moves(r)
<1> DEFINE h == Lookup(GlobalTables, rq[r].method)
<1>1. Benign /\ SharedOK' /\ UNCHANGED <<out, shown, wired>> /\ At(r, "global")
  BY NothingChanges DEF LookupGlobal, eventVars
<1>2. rq[r].pc \in Before /\ rq[r].conn \in Conns /\ rq[r].method \in Methods
  BY <1>1, KindsOfRequest DEF Local, TypedAt, Before, At, Requests
<1>3. ~(rq[r].owned /\ rq[r].method \in ScopedMethods)
  BY <1>1 DEF Local, ServedAt, At
<1>4. IF h = None THEN Reply(r, "method not found", <<>>) ELSE Serve(r, None, h)
  BY DEF LookupGlobal
<1>5. h \in {None, Stub, Domain} /\ (rq[r].method \in ScopedMethods => h = Domain)
  BY <1>2, TablesServe
<1> HIDE DEF h
<1>6. CASE h = None
  BY <1>1, <1>2, <1>4, <1>6, ReplyMoves DEF Answers, SmallTodo
<1>7. CASE h # None
  <2>1. /\ Only(r) /\ rq'[r].pc = "handle" /\ rq'[r].at = None /\ rq'[r].by = h
        /\ rq'[r].conn = rq[r].conn /\ rq'[r].sid = rq[r].sid /\ rq'[r].method = rq[r].method
        /\ rq'[r].owned = rq[r].owned /\ rq'[r].todo = rq[r].todo
    BY <1>4, <1>5, <1>7, ServeRecord, KindsOfRequest DEF Domains
  <2>2. TypedAt(r)'
    BY <1>2, <2>1 DEF TypedAt, At, Telling
  <2>3. ServedAt(r)'
    BY <1>3, <1>5, <1>7, <2>1 DEF ServedAt, At, Unserved
  <2>4. "handle" \in Before
    BY DEF Before
  <2> QED
    BY <1>1, <1>2, <2>1, <2>2, <2>3, <2>4, BeforeMoves DEF At
<1> QED
  BY <1>6, <1>7

(* Handlers that answer at once. *)
LEMMA HandleReplyMoves ==
    ASSUME TypeOK, Benign, SharedOK', NEW r \in Reqs, Local(r), UNCHANGED <<out, shown>>,
           rq[r].pc \in {"handle", "wire", "broadcast"}, NEW answer \in Answers, Reply(r, answer, <<>>)
    PROVE  Moves(r)
BY ReplyMoves DEF Before, SmallTodo

LEMMA ServeStubMoves ==
    ASSUME TypeOK, NEW r \in Reqs, Local(r), UNCHANGED eventVars,
           \/ ServeStub(r) \/ GetResponseBody(r) \/ FetchEnable(r)
    PROVE  Moves(r)
<1>1. /\ UNCHANGED <<conn, scopes, wired, out, shown>> /\ At(r, "handle")
      /\ \E answer \in Answers : Reply(r, answer, <<>>)
  BY DEF ServeStub, GetResponseBody, FetchEnable, Handling, Answers, eventVars
<1> QED
  BY <1>1, NothingChanges, HandleReplyMoves DEF At

LEMMA NetworkEnableMoves ==
    ASSUME TypeOK, NEW r \in Reqs, Local(r), NetworkEnable(r)
    PROVE  Moves(r)
<1>1. /\ At(r, "handle") /\ Reply(r, "result", <<>>) /\ "result" \in Answers
      /\ UNCHANGED <<conn, scopes, wired, out, rt, observer, shown>>
      /\ disturbed' = IF rq[r].at = observer /\ rq[r].conn # Listener
                       THEN disturbed \cup Navigating ELSE disturbed
  BY DEF NetworkEnable, Handling, Answers
<1>2. rq[r].conn \in Conns /\ rq[r].at \in Domains
  BY <1>1, KindsOfRequest DEF Local, TypedAt, At, Requests
<1>3. net' = [net EXCEPT ![rq[r].at] = [@ EXCEPT !.sess = rq[r].conn]]
  BY DEF NetworkEnable
<1>4. /\ net' \in [Domains -> [sess : Conns \cup {None}, bodies : SUBSET Reqs]]
      /\ \A d \in Domains : net'[d].bodies = net[d].bodies
      /\ net'[rq[r].at].sess = rq[r].conn
      /\ \A d \in Domains \ {rq[r].at} : net'[d].sess = net[d].sess
  BY <1>2, <1>3 DEF TypeOK
<1>5. Benign /\ SharedOK'
  <2>1. rq[r].at # observer \/ rq[r].conn = Listener => Listener' = Listener
    BY <1>1, <1>4 DEF TypeOK, Listener
  <2>2. /\ disturbed \subseteq disturbed'
        /\ Navigating \subseteq disturbed' \/ UNCHANGED <<observer, Listener>>
    BY <1>1, <2>1
  <2>3. Benign
    BY <1>1, <1>4, <2>2, KindsOfRequest DEF TypeOK, Benign
  <2> QED
    BY <1>1, <1>4, <2>3 DEF TypeOK, SharedOK, Navigating
<1> QED
  BY <1>1, <1>5, HandleReplyMoves DEF At

LEMMA RuntimeEnableMoves ==
    ASSUME TypeOK, NEW r \in Reqs, Local(r), RuntimeEnable(r)
    PROVE  Moves(r)
<1>1. /\ At(r, "handle") /\ Reply(r, "result", <<>>) /\ "result" \in Answers
      /\ UNCHANGED <<conn, scopes, wired, out, net, observer, shown, disturbed>>
      /\ rt' = [rt EXCEPT ![rq[r].at] = rq[r].conn]
  BY DEF RuntimeEnable, Handling, Answers
<1>2. rq[r].conn \in Conns /\ rq[r].at \in Domains /\ None \in Domains
  BY <1>1, KindsOfRequest DEF Local, TypedAt, At, Requests, Domains
<1>3. Benign /\ SharedOK'
  BY <1>1, <1>2, KindsOfRequest DEF TypeOK, Benign, SharedOK, Listener
<1> QED
  BY <1>1, <1>3, HandleReplyMoves DEF At

LEMMA EvaluateMoves ==
    ASSUME TypeOK, NEW r \in Reqs, Local(r), Evaluate(r)
    PROVE  Moves(r)
<1>1. /\ Benign /\ SharedOK' /\ UNCHANGED <<conn, scopes, wired, out, eventVars>>
      /\ UNCHANGED <<out, shown, rt>>
      /\ At(r, "handle") /\ rq[r].by = Domain /\ rq[r].method = "Runtime.evaluate"
  BY NothingChanges DEF Evaluate, Handling, eventVars
<1>2. rq[r].pc \in Before /\ r \notin Navs
  BY <1>1 DEF Before, At, Navs
<1>3. CASE Reply(r, "result", <<>>)
  BY <1>1, <1>2, <1>3, ReplyMoves DEF Answers, SmallTodo
<1>4. CASE Reply(r, "error", <<Event("exceptionThrown", None)>>)
  BY <1>1, <1>2, <1>4, ReplyMoves DEF Answers, SmallTodo
<1>5. CASE rt[None] # None /\ Goto(r, "console")
  <2>1. Only(r) /\ Same(r) /\ rq'[r].pc = "console"
    BY <1>5, GotoRecord, KindsOfRequest DEF PCs
  <2>2. rt[None] \in Conns
    BY <1>5 DEF TypeOK, Domains
  <2>3. TypedAt(r)'
    BY <1>1, <1>2, <2>1, <2>2 DEF Local, TypedAt, At, Telling, Same, Navs
  <2>4. ServedAt(r)'
    BY <2>1 DEF Local, ServedAt, At, Unserved, Same
  <2>5. "console" \in Before \ {"scope"}
    BY DEF Before
  <2> QED
    BY <1>1, <1>2, <1>5, <2>3, <2>4, <2>5, GotoMoves
<1> QED
  BY <1>3, <1>4, <1>5 DEF Evaluate

-----------------------------------------------------------------------------
(* Target. *)

LEMMA AttachType ==
    ASSUME NEW q \in Requests, NEW s \in Sids
    PROVE  [q EXCEPT !.pc = "observe", !.made = s] \in Requests
BY DEF Requests, PCs

LEMMA AttachMoves ==
    ASSUME TypeOK, NEW r \in Reqs, Local(r), NEW s \in Sids, AttachToTarget(r, s)
    PROVE  Moves(r)
<1> DEFINE w == [rq[r] EXCEPT !.pc = "observe", !.made = s]
<1>1. /\ At(r, "handle") /\ rq[r].method = "Target.attachToTarget"
      /\ UNCHANGED <<conn, wired, out, net, rt, observer, shown, disturbed>>
      /\ scopes' = scopes \cup {s} /\ rq' = [rq EXCEPT ![r] = w]
  BY DEF AttachToTarget, Handling, eventVars
<1>2. /\ w.pc = "observe" /\ w.made = s /\ w.todo = rq[r].todo
      /\ w.conn = rq[r].conn /\ w.sid = rq[r].sid /\ w.method = rq[r].method
      /\ w.at = rq[r].at /\ w.by = rq[r].by /\ w.owned = rq[r].owned
  BY KindsOfRequest DEF Requests
<1>3. w \in Requests
  BY AttachType, KindsOfRequest, Zenon
<1>4. Benign /\ SharedOK'
  BY <1>1, KindsOfRequest DEF TypeOK, Benign, SharedOK, Listener
<1> HIDE DEF w
<1>5. Only(r) /\ Same(r) /\ rq'[r] = w
  BY <1>1, <1>2, <1>3, RecordSet, KindsOfRequest DEF Same
<1>6. rq[r].pc \in Before /\ rq[r].conn \in Conns /\ "observe" \in Before
  BY <1>1 DEF Local, TypedAt, Before, At
<1>7. TypedAt(r)'
  BY <1>1, <1>2, <1>5, <1>6 DEF TypedAt, At, Telling, Navs
<1>8. ServedAt(r)'
  BY <1>2, <1>5 DEF Local, ServedAt, At, Unserved, Same
<1> QED
  BY <1>1, <1>2, <1>4, <1>5, <1>6, <1>7, <1>8, BeforeMoves DEF At

LEMMA AttachFailsMoves ==
    ASSUME TypeOK, NEW r \in Reqs, Local(r), AttachFails(r)
    PROVE  Moves(r)
<1>1. /\ UNCHANGED <<conn, scopes, wired, out, shown, eventVars>> /\ At(r, "handle")
      /\ Reply(r, "error", <<>>) /\ "error" \in Answers
  BY DEF AttachFails, Handling, Answers, eventVars
<1> QED
  BY <1>1, NothingChanges, HandleReplyMoves DEF At

LEMMA SetObserverMoves ==
    ASSUME TypeOK, NEW r \in Reqs, Local(r), SetObserver(r)
    PROVE  Moves(r)
<1>1. /\ At(r, "observe") /\ Goto(r, "wire") /\ observer' = rq[r].made
      /\ UNCHANGED <<conn, scopes, wired, out, net, rt, shown>>
      /\ disturbed' = disturbed \cup Navigating
  BY DEF SetObserver
<1>2. rq[r].pc \in Before /\ "wire" \in Before \ {"scope"} /\ "wire" \in PCs
  BY <1>1 DEF Before, At, PCs
<1>3. rq[r].conn \in Conns /\ rq[r].made \in Sids /\ r \notin Navs
  BY <1>1 DEF Local, TypedAt, At
<1>4. Benign /\ SharedOK'
  BY <1>1, <1>3, KindsOfRequest DEF TypeOK, Benign, SharedOK, Navigating, Domains
<1>5. Only(r) /\ Same(r) /\ rq'[r].pc = "wire" /\ rq'[r].made = rq[r].made
  BY <1>1, <1>2, GotoRecord, KindsOfRequest
<1>6. TypedAt(r)'
  BY <1>3, <1>5 DEF TypedAt, At, Telling, Same, Navs
<1>7. ServedAt(r)'
  BY <1>5 DEF Local, ServedAt, At, Unserved, Same
<1> QED
  BY <1>1, <1>2, <1>4, <1>6, <1>7, GotoMoves

LEMMA ScopeOrderType == \A i \in DOMAIN ScopeOrder : ScopeOrder[i] \in Methods
BY DEF ScopeOrder, Methods, ScopedMethods, SessionMethods, PlainMethods

LEMMA WireScopeMoves ==
    ASSUME TypeOK, NEW r \in Reqs, Local(r), WireScope(r)
    PROVE  Moves(r)
<1>1. PICK i \in DOMAIN ScopeOrder :
          /\ wired' = wired \cup {<<rq[r].made, ScopeOrder[i]>>}
          /\ Reply(r, "result", <<>>) \/ UNCHANGED rq
  BY DEF WireScope
<1>2. /\ At(r, "wire") /\ "result" \in Answers
      /\ UNCHANGED <<conn, scopes, out, net, rt, observer, shown, disturbed>>
  BY DEF WireScope, Answers, eventVars
<1>3. rq[r].made \in Sids /\ rq[r].conn \in Conns /\ r \notin Navs
  BY <1>2 DEF Local, TypedAt, At
<1>4. Benign /\ SharedOK'
  <2>1. Listener' = Listener
    BY <1>2 DEF Listener
  <2>2. wired \subseteq wired' /\ wired' \subseteq Sids \X Methods
    BY <1>1, <1>3, ScopeOrderType DEF TypeOK
  <2> QED
    BY <1>2, <2>1, <2>2, KindsOfRequest DEF TypeOK, Benign, SharedOK
<1>5. CASE Reply(r, "result", <<>>)
  BY <1>2, <1>4, <1>5, HandleReplyMoves DEF At
<1>6. CASE UNCHANGED rq
  <2>1. Only(r)
    BY <1>6, KindsOfRequest DEF Only
  <2>2. TypedAt(r)' /\ ServedAt(r)'
    BY <1>2, <1>3, <1>6 DEF Local, TypedAt, ServedAt, At, Telling, Unserved, Navs
  <2> QED
    BY <1>2, <1>4, <1>6, <2>1, <2>2, BeforeMoves DEF At, Before
<1> QED
  BY <1>1, <1>5, <1>6

LEMMA DetachMoves ==
    ASSUME TypeOK, NEW r \in Reqs, Local(r), NEW s \in Sids, DetachFromTarget(r, s)
    PROVE  Moves(r)
<1>1. /\ At(r, "handle") /\ \E answer \in Answers : Reply(r, answer, <<>>)
      /\ scopes' = scopes \ {s}
      /\ UNCHANGED <<conn, wired, out, net, rt, observer, shown, disturbed>>
  BY DEF DetachFromTarget, Handling, Answers, eventVars
<1>2. Benign /\ SharedOK'
  BY <1>1, KindsOfRequest DEF TypeOK, Benign, SharedOK, Listener
<1> QED
  BY <1>1, <1>2, HandleReplyMoves DEF At

LEMMA LeftType ==
    ASSUME NEW q \in Requests, NEW pc \in PCs, NEW left \in SUBSET Conns
    PROVE  [q EXCEPT !.pc = pc, !.left = left] \in Requests
BY DEF Requests

LEMMA CreateTargetMoves ==
    ASSUME TypeOK, NEW r \in Reqs, Local(r), CreateTarget(r)
    PROVE  Moves(r)
<1> DEFINE open == {c \in Conns : conn[c] = "open"}
           w == [rq[r] EXCEPT !.pc = "broadcast", !.left = open]
<1>1. /\ At(r, "handle") /\ rq[r].method = "Target.createTarget"
      /\ UNCHANGED <<conn, scopes, wired, out, shown, eventVars>>
      /\ rq' = [rq EXCEPT ![r] = w]
  BY DEF CreateTarget, BroadcastStart, Handling, eventVars
<1>2. /\ w.pc = "broadcast" /\ w.todo = rq[r].todo
      /\ w.conn = rq[r].conn /\ w.sid = rq[r].sid /\ w.method = rq[r].method
      /\ w.at = rq[r].at /\ w.by = rq[r].by /\ w.owned = rq[r].owned
  BY KindsOfRequest DEF Requests
<1>3. w \in Requests
  <2>1. open \in SUBSET Conns /\ "broadcast" \in PCs
    BY DEF PCs
  <2> HIDE DEF open
  <2> QED
    BY <2>1, LeftType, KindsOfRequest, Zenon
<1> HIDE DEF w
<1>4. Only(r) /\ Same(r) /\ rq'[r] = w
  BY <1>1, <1>2, <1>3, RecordSet, KindsOfRequest DEF Same
<1>5. rq[r].pc \in Before /\ rq[r].conn \in Conns /\ "broadcast" \in Before
  BY <1>1 DEF Local, TypedAt, Before, At
<1>6. TypedAt(r)'
  BY <1>1, <1>2, <1>4, <1>5 DEF TypedAt, At, Telling, Navs
<1>7. ServedAt(r)'
  BY <1>2, <1>4 DEF Local, ServedAt, At, Unserved, Same
<1> QED
  BY <1>1, <1>2, <1>4, <1>5, <1>6, <1>7, NothingChanges, BeforeMoves DEF At

(* A handler of the server writes to connections on its way. *)
LEMMA AsideMoves ==
    ASSUME TypeOK, NEW r \in Reqs \ Navs, Local(r), Only(r), Same(r),
           rq[r].pc \in {"console", "broadcast"}, rq'[r].pc \in {"respond", "broadcast"},
           rq'[r].todo \in {rq[r].todo, <<>>},
           UNCHANGED <<conn, scopes, wired, eventVars>>,
           NEW msg \in Messages, msg.kind \in {"targetCreated", "consoleAPICalled"}, Write(r, msg)
    PROVE  Moves(r)
<1>1. /\ Adds(r, msg) /\ DOMAIN out[r] = 1 .. Len(out[r]) /\ Len(out[r]) \in Nat
      /\ Benign /\ SharedOK' /\ UNCHANGED shown
  BY WriteAdds, NothingChanges, KindsOfRequest DEF eventVars
<1>2. \A i \in DOMAIN out'[r] :
          out'[r][i] = msg \/ (i \in DOMAIN out[r] /\ out'[r][i] = out[r][i])
  BY <1>1 DEF Adds
<1>3. Responses(r) = {} /\ rq[r].conn \in Conns
  BY DEF Local, AnsweredAt, TypedAt, At
<1>4. Responses(r)' = {}
  BY <1>2, <1>3 DEF Responses
<1>5. r \notin Navs'
  BY DEF Same, Navs
<1>6. TypedAt(r)'
  BY <1>3, <1>5 DEF TypedAt, At, Telling, Same
<1>7. ServedAt(r)'
  BY DEF Local, ServedAt, At, Unserved, Same
<1>8. AnsweredAt(r)'
  BY <1>4 DEF AnsweredAt, At
<1>9. OrderAt(r)' /\ OneAt(r)' /\ FailedAt(r)'
  BY <1>5 DEF OrderAt, OneAt, FailedAt
<1>10. BodyAt(r)'
  <2>1. \A i \in NetEvents(r)' : i \in NetEvents(r) /\ out'[r][i] = out[r][i]
    BY <1>2 DEF NetEvents, NetKinds
  <2> QED
    BY <1>1, <2>1 DEF Local, BodyAt, Benign, At
<1>11. FreshAt(r)'
  BY <1>2 DEF Local, FreshAt, At
<1>12. r \notin Past
  BY DEF Past, Ended
<1> QED
  BY <1>1, <1>6, <1>7, <1>8, <1>9, <1>10, <1>11, <1>12 DEF Moves, Counted, Local, Adds

LEMMA ConsoleMoves ==
    ASSUME TypeOK, NEW r \in Reqs, Local(r), Console(r)
    PROVE  Moves(r)
<1> DEFINE msg == Message(rt[None], "consoleAPICalled", None, None)
<1>1. /\ At(r, "console") /\ Write(r, msg) /\ Reply(r, "result", <<>>)
      /\ UNCHANGED <<conn, scopes, wired, eventVars>>
  BY DEF Console
<1>2. r \notin Navs /\ rt[None] \in Conns
  BY <1>1 DEF Local, TypedAt, At
<1>3. msg \in Messages /\ msg.kind = "consoleAPICalled"
  BY <1>2 DEF Message, Messages, Kinds
<1> HIDE DEF msg
<1>4. Only(r) /\ Same(r) /\ rq'[r].pc = "respond" /\ rq'[r].todo = <<>>
  BY <1>1, ReplyRecord, KindsOfRequest DEF Answers
<1> QED
  BY <1>1, <1>2, <1>3, <1>4, AsideMoves DEF At

LEMMA BroadcastMoves ==
    ASSUME TypeOK, NEW r \in Reqs, Local(r), Broadcast(r)
    PROVE  Moves(r)
<1>1. /\ At(r, "broadcast") /\ BroadcastNext(r, "targetCreated", "result")
      /\ UNCHANGED eventVars /\ "result" \in Answers
  BY DEF Broadcast, Answers
<1>2. CASE rq[r].left = {}
  BY <1>1, <1>2, NothingChanges, HandleReplyMoves DEF BroadcastNext, At, eventVars
<1>3. CASE rq[r].left # {}
  <2>1. PICK c \in rq[r].left :
            /\ Write(r, Message(c, "targetCreated", None, None))
            /\ rq' = [rq EXCEPT ![r].left = @ \ {c}]
            /\ UNCHANGED <<conn, scopes, wired>>
    BY <1>1, <1>3 DEF BroadcastNext
  <2> DEFINE msg == Message(c, "targetCreated", None, None)
  <2>2. c \in Conns
    BY KindsOfRequest DEF Requests
  <2>3. msg \in Messages /\ msg.kind = "targetCreated"
    BY <2>2 DEF Message, Messages, Kinds
  <2>4. Write(r, msg)
    BY <2>1
  <2> HIDE DEF msg
  <2>5. Only(r) /\ Same(r) /\ rq'[r].pc = rq[r].pc /\ rq'[r].todo = rq[r].todo
    BY <2>1, KindsOfRequest, ZenonT(60) DEF Only, Same, Requests
  <2>6. r \notin Navs
    BY <1>1 DEF Local, TypedAt, At
  <2> QED
    BY <1>1, <2>1, <2>3, <2>4, <2>5, <2>6, AsideMoves DEF At
<1> QED
  BY <1>2, <1>3

-----------------------------------------------------------------------------
(* The answer, and the events that come with it. *)

LEMMA RespondMoves ==
    ASSUME TypeOK, NEW r \in Reqs, Local(r), Respond(r), UNCHANGED eventVars
    PROVE  Moves(r)
<1> DEFINE msg == Message(rq[r].conn, "response", rq[r].sid, None)
<1>1. /\ At(r, "respond") /\ Write(r, msg) /\ Goto(r, "events") /\ "events" \in PCs
      /\ UNCHANGED <<conn, scopes, wired, eventVars>>
  BY DEF Respond, PCs
<1>2. rq[r].conn \in Conns /\ rq[r].sid \in Sids \cup {None}
  BY <1>1, KindsOfRequest DEF Local, TypedAt, At, Requests
<1>3. /\ msg \in Messages /\ msg.kind = "response"
      /\ msg.to = rq[r].conn /\ msg.sid = rq[r].sid
  BY <1>2 DEF Message, Messages, Kinds
<1> HIDE DEF msg
<1>4. /\ Adds(r, msg) /\ DOMAIN out[r] = 1 .. Len(out[r]) /\ Len(out[r]) \in Nat
      /\ Benign /\ SharedOK' /\ UNCHANGED shown
  BY <1>1, <1>3, WriteAdds, NothingChanges, KindsOfRequest DEF eventVars
<1>5. \A i \in DOMAIN out'[r] :
          \/ i = Len(out[r]) + 1 /\ out'[r][i] = msg
          \/ i \in DOMAIN out[r] /\ out'[r][i] = out[r][i]
  BY <1>4 DEF Adds
<1>6. /\ Only(r) /\ Same(r) /\ rq'[r].pc = "events" /\ rq'[r].x = rq[r].x
      /\ rq'[r].todo = rq[r].todo
  BY <1>1, GotoRecord, KindsOfRequest
<1>7. Responses(r) = {}
  BY <1>1 DEF Local, AnsweredAt, At
<1>8. TypedAt(r)'
  BY <1>2, <1>6 DEF TypedAt, At, Telling, Same
<1>9. ServedAt(r)'
  BY <1>6 DEF Local, ServedAt, At, Unserved, Same
<1>10. AnsweredAt(r)'
  <2>1. \A i \in Responses(r)' : i = Len(out[r]) + 1 /\ out'[r][i] = msg
    BY <1>5, <1>7 DEF Responses
  <2>2. conn[rq[r].conn] = "open" => Responses(r)' # {}
    BY <1>3, <1>4 DEF Adds, Responses
  <2> QED
    BY <1>1, <1>3, <1>6, <2>1, <2>2 DEF AnsweredAt, At, Same
<1>11. OrderAt(r)'
  <2> SUFFICES ASSUME r \in Navs
               PROVE  OrderAt(r)'
    BY <1>6 DEF OrderAt, Same, Navs
  <2>1. /\ Len(rq[r].todo) <= 2 /\ Len(rq[r].todo) \in Nat
        /\ \A i \in DOMAIN rq[r].todo : Rank(rq[r].todo[i].kind) = 6 - Len(rq[r].todo) + i
    BY <1>1, KindsOfRequest DEF Local, OrderAt, At, Requests
  <2>2. Top(r) = 3
    BY <1>1 DEF Top, At, Unserved, Telling
  <2>3. Top(r)' = 6 - Len(rq[r].todo)
    BY <1>6 DEF Top, Unserved, Telling
  <2>4. \A i \in DOMAIN out[r] : Rank(out[r][i].kind) \in 1..3
    BY <2>2 DEF Local, OrderAt
  <2>5. Rank(msg.kind) = 4
    BY <1>3 DEF Rank
  <2>6. \A i \in DOMAIN out'[r] : Rank(out'[r][i].kind) \in 1..4
    BY <1>5, <2>4, <2>5
  <2>7. \A i, j \in DOMAIN out'[r] : i < j => Rank(out'[r][i].kind) < Rank(out'[r][j].kind)
    BY <1>4, <1>5, <2>4, <2>5, SMTT(30) DEF Local, OrderAt
  <2> QED
    BY <1>6, <2>1, <2>3, <2>6, <2>7 DEF OrderAt
<1>12. \A i : i \in NetEvents(r)' <=> i \in NetEvents(r)
  BY <1>3, <1>4, <1>5 DEF NetEvents, NetKinds, Adds
<1>13. \A i \in NetEvents(r) : out'[r][i] = out[r][i]
  BY <1>3, <1>5, <1>12 DEF NetEvents, NetKinds
<1>14. OneAt(r)' /\ FailedAt(r)'
  <2>1. Shows(r)' => Shows(r)
    BY <1>1, <1>3, <1>5, <1>6 DEF Shows, TellsPage, At
  <2>2. OneAt(r)'
    BY <1>1, <1>6, <1>12, <1>13, <2>1 DEF Local, OneAt, At, Same, Navs, Telling, eventVars
  <2>3. FailedAt(r)'
    BY <1>6, <1>12, <1>13, <2>1 DEF Local, FailedAt, Same, Navs
  <2> QED
    BY <2>2, <2>3
<1>15. BodyAt(r)'
  BY <1>4, <1>6, <1>12, <1>13 DEF Local, BodyAt, Benign, At
<1>16. FreshAt(r)'
  BY <1>3, <1>5, <1>6 DEF Local, FreshAt, At
<1>17. r \in Past'
  BY <1>6 DEF Past, Ended
<1> QED
  BY <1>4, <1>6, <1>8, <1>9, <1>10, <1>11, <1>14, <1>15, <1>16, <1>17
  DEF Moves, Counted, Local, Adds

LEMMA FinishedType ==
    ASSUME NEW q \in Requests
    PROVE  [q EXCEPT !.pc = "done", !.answer = "none"] \in Requests
BY DEF Requests, PCs, Answers

LEMMA FinishMoves ==
    ASSUME TypeOK, NEW r \in Reqs, Local(r), At(r, "events"), rq[r].todo = <<>>,
           rq' = [rq EXCEPT ![r] = [@ EXCEPT !.pc = "done", !.answer = "none"]],
           UNCHANGED <<out, conn, scopes, wired, eventVars>>
    PROVE  Moves(r)
<1> DEFINE w == [rq[r] EXCEPT !.pc = "done", !.answer = "none"]
<1>1. /\ w.pc = "done" /\ w.todo = rq[r].todo /\ w.x = rq[r].x
      /\ w.conn = rq[r].conn /\ w.sid = rq[r].sid /\ w.method = rq[r].method
      /\ w.at = rq[r].at /\ w.by = rq[r].by /\ w.owned = rq[r].owned
  BY KindsOfRequest DEF Requests
<1>2. w \in Requests
  BY FinishedType, KindsOfRequest, Zenon
<1>3. rq' = [rq EXCEPT ![r] = w]
  BY KindsOfRequest
<1> HIDE DEF w
<1>4. Only(r) /\ Same(r) /\ rq'[r] = w
  BY <1>1, <1>2, <1>3, RecordSet, KindsOfRequest DEF Same
<1>5. Benign /\ SharedOK' /\ UNCHANGED shown
  BY NothingChanges DEF eventVars
<1>6. Responses(r)' = Responses(r) /\ NetEvents(r)' = NetEvents(r)
  BY DEF Responses, NetEvents
<1>7. TypedAt(r)'
  BY <1>1, <1>4 DEF Local, TypedAt, At, Telling, Same
<1>8. ServedAt(r)'
  BY <1>1, <1>4 DEF Local, ServedAt, At, Unserved, Same
<1>9. AnsweredAt(r)'
  BY <1>1, <1>4, <1>6 DEF Local, AnsweredAt, At, Same
<1>10. OrderAt(r)'
  <2> SUFFICES ASSUME r \in Navs
               PROVE  OrderAt(r)'
    BY <1>4 DEF OrderAt, Same, Navs
  <2>1. Top(r) = 6
    <3>1. Len(rq[r].todo) = 0
      OBVIOUS
    <3> QED
      BY <3>1 DEF Top, At, Unserved, Telling
  <2>2. Top(r)' = 6
    BY <1>1, <1>4 DEF Top, Unserved, Telling
  <2> QED
    BY <1>1, <1>4, <2>1, <2>2 DEF Local, OrderAt
<1>11. OneAt(r)' /\ FailedAt(r)'
  <2>1. Shows(r)' => Shows(r)
    BY <1>1, <1>4 DEF Shows, TellsPage
  <2>2. OneAt(r)'
    BY <1>1, <1>4, <1>6, <2>1 DEF Local, OneAt, At, Same, Navs, Telling, eventVars
  <2>3. FailedAt(r)'
    BY <1>4, <1>6, <2>1 DEF Local, FailedAt, Same, Navs
  <2> QED
    BY <2>2, <2>3
<1>12. BodyAt(r)'
  BY <1>1, <1>4, <1>5, <1>6 DEF Local, BodyAt, Benign, At
<1>13. FreshAt(r)'
  BY <1>1, <1>4 DEF Local, FreshAt, At
<1>14. r \in Past'
  BY <1>1, <1>4 DEF Past, Ended
<1> QED
  BY <1>4, <1>5, <1>7, <1>8, <1>9, <1>10, <1>11, <1>12, <1>13, <1>14, KindsOfRequest
  DEF Moves, Counted, Local

LEMMA HeadAndTail ==
    ASSUME NEW S, NEW s \in Seq(S), s # <<>>
    PROVE  /\ Head(s) \in S /\ Head(s) = s[1] /\ 1 \in DOMAIN s /\ Len(s) \in Nat
           /\ Tail(s) \in Seq(S) /\ Len(Tail(s)) = Len(s) - 1
           /\ \A i \in DOMAIN Tail(s) : i + 1 \in DOMAIN s /\ Tail(s)[i] = s[i + 1]
OBVIOUS

LEMMA SendOneMoves ==
    ASSUME TypeOK, NEW r \in Reqs, Local(r), At(r, "events"), rq[r].todo # <<>>,
           Write(r, Message(rq[r].conn, Head(rq[r].todo).kind, rq[r].sid, Head(rq[r].todo).about)),
           rq' = [rq EXCEPT ![r].todo = Tail(@)],
           UNCHANGED <<conn, scopes, wired, eventVars>>
    PROVE  Moves(r)
<1> DEFINE evt == Head(rq[r].todo)
           msg == Message(rq[r].conn, evt.kind, rq[r].sid, evt.about)
           L == Len(rq[r].todo)
<1>1. rq[r].todo \in Seq(Returned) /\ rq[r].conn \in Conns /\ rq[r].sid \in Sids \cup {None}
  BY KindsOfRequest DEF Local, TypedAt, At, Requests
<1>2. /\ evt \in Returned /\ evt = rq[r].todo[1] /\ 1 \in DOMAIN rq[r].todo /\ L \in Nat
      /\ Tail(rq[r].todo) \in Seq(Returned) /\ Len(Tail(rq[r].todo)) = L - 1
      /\ \A i \in DOMAIN Tail(rq[r].todo) :
            i + 1 \in DOMAIN rq[r].todo /\ Tail(rq[r].todo)[i] = rq[r].todo[i + 1]
  BY <1>1, HeadAndTail
<1> HIDE DEF evt, L
<1>3. /\ evt.kind \in {"exceptionThrown", "loadEventFired", "frameNavigated"}
      /\ evt.about \in {None} \cup Pages
  BY <1>2 DEF Returned
<1>4. /\ msg \in Messages /\ msg.kind = evt.kind /\ msg.about = evt.about
  BY <1>1, <1>3 DEF Message, Messages, Kinds
<1>5. Write(r, msg)
  BY DEF evt
<1> HIDE DEF msg
<1>6. /\ Adds(r, msg) /\ DOMAIN out[r] = 1 .. Len(out[r]) /\ Len(out[r]) \in Nat
      /\ Benign /\ SharedOK' /\ UNCHANGED shown
  BY <1>4, <1>5, WriteAdds, NothingChanges, KindsOfRequest DEF eventVars
<1>7. \A i \in DOMAIN out'[r] :
          \/ i = Len(out[r]) + 1 /\ out'[r][i] = msg
          \/ i \in DOMAIN out[r] /\ out'[r][i] = out[r][i]
  BY <1>6 DEF Adds
<1>8. /\ Only(r) /\ Same(r) /\ rq'[r].pc = "events" /\ rq'[r].x = rq[r].x
      /\ rq'[r].todo = Tail(rq[r].todo)
  <2>1. rq[r] \in Requests /\ rq[r].pc = "events"
    BY KindsOfRequest DEF At
  <2>2. [rq[r] EXCEPT !.todo = Tail(@)] \in Requests
    BY <1>2, <2>1 DEF Requests
  <2>3. rq' = [rq EXCEPT ![r] = [rq[r] EXCEPT !.todo = Tail(@)]]
    OBVIOUS
  <2>4. Only(r) /\ rq'[r] = [rq[r] EXCEPT !.todo = Tail(@)]
    BY <2>2, <2>3, RecordSet, KindsOfRequest
  <2> QED
    BY <2>1, <2>4 DEF Same, Requests
<1>9. Responses(r)' = Responses(r) /\ NetEvents(r)' = NetEvents(r)
  <2>1. \A i : /\ i \in Responses(r)' <=> i \in Responses(r)
               /\ i \in NetEvents(r)' <=> i \in NetEvents(r)
    BY <1>3, <1>4, <1>6, <1>7 DEF Responses, NetEvents, NetKinds, Adds
  <2> QED
    BY <2>1
<1>10. \A i \in Responses(r) \cup NetEvents(r) : out'[r][i] = out[r][i]
  BY <1>3, <1>4, <1>7, <1>9 DEF Responses, NetEvents, NetKinds
<1>11. TypedAt(r)'
  BY <1>1, <1>8 DEF TypedAt, At, Telling, Same
<1>12. ServedAt(r)'
  BY <1>8 DEF Local, ServedAt, At, Unserved, Same
<1>13. AnsweredAt(r)'
  BY <1>8, <1>9, <1>10, ZenonT(60) DEF Local, AnsweredAt, At, Same
<1>14. OrderAt(r)'
  <2> SUFFICES ASSUME r \in Navs
               PROVE  OrderAt(r)'
    BY <1>8 DEF OrderAt, Same, Navs
  <2>1. /\ L <= 2
        /\ \A i \in DOMAIN rq[r].todo : Rank(rq[r].todo[i].kind) = 6 - L + i
    BY DEF Local, OrderAt, At, L
  <2>2. Top(r) = 6 - L
    BY DEF Top, At, Unserved, Telling, L
  <2>3. Top(r)' = 7 - L
    <3>1. Len(rq'[r].todo) = L - 1
      BY <1>2, <1>8
    <3>2. Top(r)' = 6 - Len(rq'[r].todo)
      BY <1>8 DEF Top, Unserved, Telling
    <3> QED
      BY <1>2, <3>1, <3>2
  <2>4. \A i \in DOMAIN out[r] : Rank(out[r][i].kind) \in 1..(6 - L)
    BY <2>2 DEF Local, OrderAt
  <2>5. Rank(msg.kind) = 7 - L
    BY <1>2, <1>4, <2>1
  <2>6. \A i \in DOMAIN out'[r] : Rank(out'[r][i].kind) \in 1..(7 - L)
    BY <1>2, <1>7, <2>1, <2>4, <2>5
  <2>7. \A i, j \in DOMAIN out'[r] : i < j => Rank(out'[r][i].kind) < Rank(out'[r][j].kind)
    <3> SUFFICES ASSUME NEW i \in DOMAIN out'[r], NEW j \in DOMAIN out'[r], i < j
                 PROVE  Rank(out'[r][i].kind) < Rank(out'[r][j].kind)
      OBVIOUS
    <3>1. i \in DOMAIN out[r] /\ out'[r][i] = out[r][i]
      BY <1>6, <1>7 DEF Adds
    <3>2. CASE j \in DOMAIN out[r] /\ out'[r][j] = out[r][j]
      BY <3>1, <3>2 DEF Local, OrderAt
    <3>3. CASE out'[r][j] = msg
      BY <1>2, <3>1, <3>3, <2>4, <2>5
    <3> QED
      BY <1>7, <3>2, <3>3
  <2>8. \A i \in DOMAIN rq'[r].todo : Rank(rq'[r].todo[i].kind) = 7 - L + i
    <3> SUFFICES ASSUME NEW i \in DOMAIN Tail(rq[r].todo)
                 PROVE  Rank(Tail(rq[r].todo)[i].kind) = 7 - L + i
      BY <1>8
    <3>1. i \in Nat /\ i + 1 \in DOMAIN rq[r].todo /\ Tail(rq[r].todo)[i] = rq[r].todo[i + 1]
      BY <1>2
    <3>2. Rank(rq[r].todo[i + 1].kind) = 6 - L + (i + 1)
      BY <2>1, <3>1
    <3> QED
      BY <1>2, <3>1, <3>2
  <2>9. Len(rq'[r].todo) = L - 1
    BY <1>2, <1>8
  <2>10. /\ Len(rq'[r].todo) <= 2
         /\ \A i \in DOMAIN rq'[r].todo : Rank(rq'[r].todo[i].kind) = 6 - Len(rq'[r].todo) + i
    <3>1. \A i \in DOMAIN rq'[r].todo : i \in Nat
      BY <1>2, <1>8
    <3> QED
      BY <1>2, <2>1, <2>8, <2>9, <3>1, SMTT(30)
  <2> QED
    BY <2>3, <2>6, <2>7, <2>10 DEF OrderAt
<1>15. OneAt(r)' /\ FailedAt(r)'
  <2>1. Shows(r)' => Shows(r)
    <3>1. TellsPage(r)' => TellsPage(r) \/ evt.kind = "frameNavigated"
      BY <1>4, <1>7 DEF TellsPage
    <3>2. \A i \in DOMAIN rq'[r].todo : i + 1 \in DOMAIN rq[r].todo
                                        /\ rq'[r].todo[i] = rq[r].todo[i + 1]
      BY <1>2, <1>8
    <3> QED
      BY <1>2, <1>8, <3>1, <3>2 DEF Shows, At
  <2>2. OneAt(r)'
    BY <1>8, <1>9, <1>10, <2>1 DEF Local, OneAt, At, Same, Navs, Telling, eventVars
  <2>3. FailedAt(r)'
    BY <1>8, <1>9, <1>10, <2>1 DEF Local, FailedAt, Same, Navs
  <2> QED
    BY <2>2, <2>3
<1>16. BodyAt(r)'
  BY <1>6, <1>8, <1>9, <1>10 DEF Local, BodyAt, Benign, At
<1>17. FreshAt(r)'
  <2>1. evt.kind = "frameNavigated" => Fresh(evt.about)
    BY <1>2 DEF Local, FreshAt
  <2>2. \A i \in DOMAIN out'[r] : out'[r][i].kind = "frameNavigated" => Fresh(out'[r][i].about)
    BY <1>4, <1>7, <2>1 DEF Local, FreshAt
  <2>3. \A i \in DOMAIN rq'[r].todo :
            rq'[r].todo[i].kind = "frameNavigated" => Fresh(rq'[r].todo[i].about)
    BY <1>2, <1>8 DEF Local, FreshAt
  <2> QED
    BY <1>8, <2>2, <2>3 DEF FreshAt, At
<1>18. r \in Past'
  BY <1>8 DEF Past, Ended
<1> QED
  BY <1>6, <1>8, <1>11, <1>12, <1>13, <1>14, <1>15, <1>16, <1>17, <1>18
  DEF Moves, Counted, Local, Adds

LEMMA SendReturnedMoves ==
    ASSUME TypeOK, NEW r \in Reqs, Local(r), SendReturned(r), UNCHANGED eventVars
    PROVE  Moves(r)
<1>1. At(r, "events") /\ UNCHANGED <<conn, scopes, wired, eventVars>>
  BY DEF SendReturned
<1>2. CASE rq[r].todo = <<>>
  BY <1>1, <1>2, FinishMoves DEF SendReturned
<1>3. CASE rq[r].todo # <<>>
  BY <1>1, <1>3, SendOneMoves DEF SendReturned
<1> QED
  BY <1>2, <1>3

-----------------------------------------------------------------------------
(* A navigation, up to its document. *)

LEMMA NavigateMoves ==
    ASSUME TypeOK, NEW r \in Reqs, Local(r), Navigate(r)
    PROVE  Moves(r)
<1>1. /\ At(r, "handle") /\ r \in Navs
      /\ Reporting(r, "emit", "requestWillBeSent", None, None)
      /\ UNCHANGED <<conn, scopes, wired, out, shown, eventVars>>
  BY DEF Navigate, Handling, Navs, eventVars
<1>2. "emit" \in PCs /\ "requestWillBeSent" \in NetKinds /\ None \in Domains
  BY DEF PCs, NetKinds, Domains
<1>3. /\ Only(r) /\ Same(r) /\ rq'[r].pc = "emit" /\ rq'[r].todo = rq[r].todo
      /\ rq'[r].x.evt = "requestWillBeSent"
  BY <1>1, <1>2, ReportingRecord, KindsOfRequest
<1>4. rq[r].pc \in Before /\ rq[r].conn \in Conns
  BY <1>1 DEF Local, TypedAt, At, Before
<1>5. TypedAt(r)'
  BY <1>1, <1>2, <1>3, <1>4 DEF TypedAt, At, Same, Navs
<1>6. ServedAt(r)'
  BY <1>3 DEF Local, ServedAt, At, Unserved, Same
<1> QED
  BY <1>1, <1>3, <1>4, <1>5, <1>6, NothingChanges, BeforeMoves DEF At, Same

(* While events of the network are told, none has told of a failure, and   *)
(* none of the page.                                                       *)
LEMMA NothingFailedYet ==
    ASSUME NEW r \in Navs, Local(r), rq[r].pc \in Telling, rq[r].x.evt \in NetKinds
    PROVE  /\ \A i \in NetEvents(r) : out[r][i].kind # "loadingFailed"
           /\ ~Shows(r)
<1>1. Top(r) = Rank(rq[r].x.evt) - 1 /\ Rank(rq[r].x.evt) \in 1..3
  BY DEF Top, Telling, Unserved, Rank, NetKinds
<1>2. \A i \in DOMAIN out[r] : Rank(out[r][i].kind) \in 1..2
  BY <1>1 DEF Local, OrderAt
<1>3. Rank("loadingFailed") = 3 /\ Rank("frameNavigated") = 5
  BY DEF Rank
<1>4. \A i \in DOMAIN out[r] : out[r][i].kind \notin {"loadingFailed", "frameNavigated"}
  BY <1>2, <1>3
<1> QED
  BY <1>4 DEF NetEvents, Shows, TellsPage, Telling

(* Steps of a navigation that send nothing and leave its record what it is *)
(* but for what is told next.                                              *)
LEMMA QuietMoves ==
    ASSUME TypeOK, NEW r \in Reqs, Local(r), Only(r), Same(r), UNCHANGED out,
           Benign, SharedOK', UNCHANGED shown,
           rq[r].pc \in Telling, rq'[r].pc \in Telling \cup {"store", "respond"},
           rq'[r].todo = rq[r].todo \/ rq'[r].todo = <<>>,
           rq'[r].pc = "respond" => rq'[r].todo = <<>>,
           rq'[r].pc \in Telling => rq'[r].x.evt \in NetKinds /\ Rank(rq[r].x.evt) <= Rank(rq'[r].x.evt),
           rq'[r].pc \in {"keep", "send"} => rq'[r].x.sess \in Conns,
           rq'[r].pc = "keep" => rq'[r].x.evt = "loadingFinished",
           rq'[r].pc = "send" /\ rq'[r].x.evt = "loadingFinished"
                => r \in net'[rq'[r].x.obs].bodies,
           OneAt(r)'
    PROVE  Moves(r)
<1>1. r \in Navs /\ r \in Navs' /\ rq[r].conn \in Conns /\ rq[r].x.evt \in NetKinds
  BY DEF Local, TypedAt, At, Same, Navs, Telling
<1>2. TypedAt(r)'
  BY <1>1 DEF TypedAt, At, Same, Telling
<1>3. ServedAt(r)'
  BY DEF Local, ServedAt, At, Unserved, Same, Telling
<1>4. AnsweredAt(r)'
  <2>1. Responses(r)' = {}
    BY DEF Local, AnsweredAt, Responses, Telling
  <2> QED
    BY <2>1 DEF AnsweredAt, At, Telling
<1>5. OrderAt(r)'
  <2>1. Top(r) = Rank(rq[r].x.evt) - 1 /\ Rank(rq[r].x.evt) \in 1..3
    BY <1>1 DEF Top, Telling, Unserved, Rank, NetKinds
  <2>2. rq'[r].pc \in Telling => Top(r)' = Rank(rq'[r].x.evt) - 1 /\ Rank(rq'[r].x.evt) \in 1..3
    BY DEF Top, Telling, Unserved, Rank, NetKinds
  <2>3. rq'[r].pc \notin Telling => Top(r)' = 3
    BY DEF Top, Telling, Unserved
  <2>4. Top(r) <= Top(r)' /\ Top(r) \in Nat /\ Top(r)' \in Nat
    BY <2>1, <2>2, <2>3
  <2>5. \A i \in DOMAIN out'[r] : Rank(out'[r][i].kind) \in 1..Top(r)'
    BY <1>1, <2>4 DEF Local, OrderAt
  <2>6. rq'[r].pc \in {"respond", "events"} => Len(rq'[r].todo) = 0 /\ DOMAIN rq'[r].todo = {}
    BY DEF Telling
  <2> QED
    BY <1>1, <2>5, <2>6 DEF Local, OrderAt
<1>6. BodyAt(r)'
  <2>1. NetEvents(r)' = NetEvents(r)
    BY DEF NetEvents
  <2> QED
    BY <2>1 DEF Local, BodyAt, Benign, At
<1>7. FreshAt(r)'
  BY DEF Local, FreshAt, At, Telling
<1>8. r \notin Past /\ out \in [Reqs -> Seq(Messages)]
  BY DEF TypeOK, Past, Ended, Telling
<1>9. FailedAt(r)'
  BY <1>1, NothingFailedYet DEF FailedAt, NetEvents
<1> QED
  BY <1>2, <1>3, <1>4, <1>5, <1>6, <1>7, <1>8, <1>9 DEF Moves, Counted, Local

LEMMA EmitMoves ==
    ASSUME TypeOK, NEW r \in Reqs, Local(r), Emit(r)
    PROVE  Moves(r)
<1>1. /\ At(r, "emit") /\ Reporting(r, "deliver", rq[r].x.evt, observer, None)
      /\ UNCHANGED <<conn, scopes, wired, out, shown, eventVars>>
  BY DEF Emit, eventVars
<1>2. r \in Navs /\ rq[r].x.evt \in NetKinds /\ observer \in Domains /\ "deliver" \in PCs
  BY <1>1 DEF Local, TypedAt, At, Telling, TypeOK, PCs
<1>3. /\ Only(r) /\ Same(r) /\ rq'[r].pc = "deliver" /\ rq'[r].todo = rq[r].todo
      /\ rq'[r].x.evt = rq[r].x.evt /\ rq'[r].x.obs = observer
  BY <1>1, <1>2, ReportingRecord, KindsOfRequest
<1>4. UNCHANGED <<observer, conn, Listener, disturbed>> /\ NetEvents(r)' = NetEvents(r)
  BY <1>1 DEF eventVars, Listener, NetEvents
<1>5. OneAt(r)'
  BY <1>1, <1>3, <1>4 DEF Local, OneAt, At, Telling, Same, Navs
<1>6. Rank(rq[r].x.evt) \in 1..3
  BY <1>2 DEF Rank, NetKinds
<1> QED
  BY <1>1, <1>2, <1>3, <1>5, <1>6, NothingChanges, QuietMoves DEF At, Telling

(* Where a navigation goes when what it tells has been told. *)
LEMMA ProceedRecord ==
    ASSUME rq \in [Reqs -> Requests], NEW r \in Reqs, rq[r].x.evt \in NetKinds, Proceed(r)
    PROVE  /\ Only(r) /\ Same(r)
           /\ \/ /\ rq'[r].pc = "emit" /\ rq'[r].todo = rq[r].todo
                 /\ rq'[r].x.evt \in NetKinds \ {"requestWillBeSent"}
                 /\ Rank(rq[r].x.evt) < Rank(rq'[r].x.evt)
              \/ /\ rq'[r].pc = "store" /\ rq'[r].todo = rq[r].todo
                 /\ rq[r].x.evt = "loadingFinished"
              \/ rq'[r].pc = "respond" /\ rq'[r].todo = <<>>
<1>1. CASE \E e \in After(rq[r].x.evt) : Reporting(r, "emit", e, None, None)
  <2>1. PICK e \in After(rq[r].x.evt) : Reporting(r, "emit", e, None, None)
    BY <1>1
  <2>2. /\ e \in NetKinds \ {"requestWillBeSent"} /\ Rank(rq[r].x.evt) < Rank(e)
        /\ "emit" \in PCs /\ None \in Domains
    <3>1. \/ rq[r].x.evt = "requestWillBeSent" /\ e \in {"responseReceived", "loadingFailed"}
          \/ rq[r].x.evt = "responseReceived" /\ e = "loadingFinished"
      BY DEF After, NetKinds
    <3>2. e \in NetKinds \ {"requestWillBeSent"}
      BY <3>1 DEF NetKinds
    <3>3. CASE rq[r].x.evt = "requestWillBeSent" /\ e = "responseReceived"
      BY <3>2, <3>3 DEF Rank, PCs, Domains
    <3>4. CASE rq[r].x.evt = "requestWillBeSent" /\ e = "loadingFailed"
      BY <3>2, <3>4 DEF Rank, PCs, Domains
    <3>5. CASE rq[r].x.evt = "responseReceived" /\ e = "loadingFinished"
      BY <3>2, <3>5 DEF Rank, PCs, Domains
    <3> QED
      BY <3>1, <3>3, <3>4, <3>5
  <2> QED
    BY <2>1, <2>2, ReportingRecord
<1>2. CASE rq[r].x.evt = "loadingFinished" /\ Goto(r, "store")
  BY <1>2, GotoRecord DEF PCs
<1>3. CASE Reply(r, "errorText", <<>>)
  <2>1. <<>> \in Seq(Returned) /\ "errorText" \in Answers
    BY DEF Answers
  <2> QED
    BY <1>3, <2>1, ReplyRecord
<1> QED
  BY <1>1, <1>2, <1>3 DEF Proceed

LEMMA DeliverMoves ==
    ASSUME TypeOK, NEW r \in Reqs, Local(r), Deliver(r)
    PROVE  Moves(r)
<1> DEFINE x == rq[r].x
           sess == net[x.obs].sess
           pc == IF x.evt = "loadingFinished" THEN "keep" ELSE "send"
<1>1. /\ At(r, "deliver") /\ UNCHANGED <<conn, scopes, wired, out, shown, eventVars>>
      /\ IF sess = None THEN Proceed(r) ELSE Reporting(r, pc, x.evt, x.obs, sess)
  BY DEF Deliver, eventVars
<1>2. r \in Navs /\ x.evt \in NetKinds /\ x.obs \in Domains
  BY <1>1, KindsOfRequest DEF Local, TypedAt, At, Telling, Requests, Details
<1>3. sess \in Conns \cup {None} /\ pc \in PCs
  BY <1>2 DEF TypeOK, PCs
<1>4. UNCHANGED <<observer, conn, Listener, disturbed>> /\ NetEvents(r)' = NetEvents(r)
  BY <1>1 DEF eventVars, Listener, NetEvents
<1>5. r \notin disturbed => sess = Listener
  BY <1>1, <1>2 DEF Local, OneAt, Listener, At, Telling
<1>6. Rank(x.evt) \in 1..3 /\ \A e \in NetKinds : Rank(e) \in 1..3
  BY <1>2 DEF Rank, NetKinds
<1> HIDE DEF x, sess
<1>7. CASE sess = None
  <2>1. /\ Only(r) /\ Same(r)
        /\ \/ /\ rq'[r].pc = "emit" /\ rq'[r].todo = rq[r].todo
              /\ rq'[r].x.evt \in NetKinds \ {"requestWillBeSent"}
              /\ Rank(x.evt) < Rank(rq'[r].x.evt)
           \/ /\ rq'[r].pc = "store" /\ rq'[r].todo = rq[r].todo
           \/ /\ rq'[r].pc = "respond" /\ rq'[r].todo = <<>>
    BY <1>1, <1>2, <1>7, ProceedRecord, KindsOfRequest DEF x
  <2>2. r \notin disturbed => Listener \notin Conns
    BY <1>5, <1>7, NamesDiffer
  <2>3. r \notin disturbed => NetEvents(r) = {}
    BY <1>1, <1>2, <2>2 DEF Local, OneAt, At, Telling
  <2>4. OneAt(r)'
    BY <1>4, <2>1, <2>2, <2>3 DEF OneAt, At, Telling
  <2> QED
    BY <1>1, <1>6, <2>1, <2>4, NothingChanges, QuietMoves DEF At, Telling, x
<1>8. CASE sess # None
  <2>1. /\ Only(r) /\ Same(r) /\ rq'[r].pc = pc /\ rq'[r].todo = rq[r].todo
        /\ rq'[r].x.evt = x.evt /\ rq'[r].x.obs = x.obs /\ rq'[r].x.sess = sess
    BY <1>1, <1>2, <1>3, <1>8, ReportingRecord, KindsOfRequest
  <2>2. OneAt(r)'
    BY <1>1, <1>4, <1>5, <2>1 DEF Local, OneAt, At, Telling, Same, Navs, x
  <2> QED
    BY <1>1, <1>2, <1>3, <1>6, <1>8, <2>1, <2>2, NothingChanges, QuietMoves DEF At, Telling, x
<1> QED
  BY <1>7, <1>8

LEMMA StoreBodyMoves ==
    ASSUME TypeOK, NEW r \in Reqs, Local(r), StoreBody(r)
    PROVE  Moves(r)
<1> DEFINE obs == rq[r].x.obs
<1>1. /\ At(r, "keep") /\ Goto(r, "send") /\ "send" \in PCs
      /\ UNCHANGED <<conn, scopes, wired, out, rt, observer, shown, disturbed>>
      /\ net' = [net EXCEPT ![obs].bodies = @ \cup {r}]
  BY DEF StoreBody, PCs
<1>2. /\ r \in Navs /\ rq[r].x.evt = "loadingFinished" /\ obs \in Domains
      /\ rq[r].x.sess \in Conns
  BY <1>1, KindsOfRequest DEF Local, TypedAt, At, Telling, Requests, Details
<1>3. /\ net' \in [Domains -> [sess : Conns \cup {None}, bodies : SUBSET Reqs]]
      /\ \A d \in Domains : net'[d].sess = net[d].sess /\ net[d].bodies \subseteq net'[d].bodies
      /\ r \in net'[obs].bodies
  <2>1. net \in [Domains -> [sess : Conns \cup {None}, bodies : SUBSET Reqs]]
    BY DEF TypeOK
  <2> DEFINE n == [net[obs] EXCEPT !.bodies = @ \cup {r}]
  <2>2. /\ n \in [sess : Conns \cup {None}, bodies : SUBSET Reqs]
        /\ n.sess = net[obs].sess /\ net[obs].bodies \subseteq n.bodies /\ r \in n.bodies
    BY <1>2, <2>1
  <2>3. net' = [net EXCEPT ![obs] = n]
    BY <1>1
  <2> HIDE DEF n, obs
  <2> QED
    BY <1>2, <2>1, <2>2, <2>3
<1>4. Benign /\ SharedOK'
  <2>1. Listener' = Listener
    BY <1>1, <1>3 DEF Listener, TypeOK
  <2>2. Benign
    <3>1. shown \in Nat
      BY DEF TypeOK
    <3>2. \A d \in Domains : net[d].bodies \subseteq net'[d].bodies
      BY <1>3
    <3> QED
      BY <1>1, <2>1, <3>1, <3>2 DEF Benign
  <2> QED
    BY <1>1, <1>3, <2>2 DEF TypeOK, SharedOK
<1>5. /\ Only(r) /\ Same(r) /\ rq'[r].pc = "send" /\ rq'[r].todo = rq[r].todo
      /\ rq'[r].x = rq[r].x
  BY <1>1, GotoRecord, KindsOfRequest
<1>6. UNCHANGED <<observer, conn, Listener, disturbed>> /\ NetEvents(r)' = NetEvents(r)
  BY <1>1, <1>3 DEF Listener, NetEvents, TypeOK
<1>7. OneAt(r)'
  BY <1>1, <1>5, <1>6 DEF Local, OneAt, At, Telling, Same, Navs
<1>8. Rank(rq[r].x.evt) = 3 /\ rq[r].x.evt \in NetKinds
  BY <1>2 DEF Rank, NetKinds
<1>9. /\ rq[r].pc \in Telling /\ rq'[r].pc \in Telling /\ rq'[r].pc # "respond"
      /\ rq'[r].pc # "keep" /\ rq'[r].x.sess \in Conns
      /\ r \in net'[rq'[r].x.obs].bodies /\ UNCHANGED out /\ UNCHANGED shown
  BY <1>1, <1>2, <1>3, <1>5 DEF At, Telling
<1>10. rq'[r].x.evt \in NetKinds /\ Rank(rq[r].x.evt) <= Rank(rq'[r].x.evt)
  BY <1>5, <1>8
<1> QED
  BY <1>4, <1>5, <1>7, <1>9, <1>10, QuietMoves, SMTT(30)

LEMMA SendEventMoves ==
    ASSUME TypeOK, NEW r \in Reqs, Local(r), SendEvent(r)
    PROVE  Moves(r)
<1> DEFINE x == rq[r].x
           msg == Message(x.sess, x.evt, None, x.obs)
<1>1. /\ At(r, "send") /\ Write(r, msg) /\ Proceed(r)
      /\ UNCHANGED <<conn, scopes, wired, eventVars>>
  BY DEF SendEvent
<1>2. /\ r \in Navs /\ x.evt \in NetKinds /\ x.sess \in Conns /\ x.obs \in Domains
      /\ rq[r].conn \in Conns
  BY <1>1, KindsOfRequest DEF Local, TypedAt, At, Telling, Requests, Details
<1>3. msg \in Messages /\ msg.kind = x.evt /\ msg.to = x.sess /\ msg.about = x.obs
  BY <1>2 DEF Message, Messages, Kinds, Domains
<1>4. /\ Only(r) /\ Same(r)
      /\ \/ /\ rq'[r].pc = "emit" /\ rq'[r].todo = rq[r].todo
            /\ rq'[r].x.evt \in NetKinds \ {"requestWillBeSent"}
            /\ Rank(x.evt) < Rank(rq'[r].x.evt)
         \/ /\ rq'[r].pc = "store" /\ rq'[r].todo = rq[r].todo
            /\ x.evt = "loadingFinished"
         \/ rq'[r].pc = "respond" /\ rq'[r].todo = <<>>
  BY <1>1, <1>2, ProceedRecord, KindsOfRequest
<1>5. r \notin disturbed => x.sess = Listener
  BY <1>1, <1>2 DEF Local, OneAt, At, Telling
<1> HIDE DEF msg, x
<1>6. /\ Adds(r, msg) /\ DOMAIN out[r] = 1 .. Len(out[r]) /\ Len(out[r]) \in Nat
      /\ Benign /\ SharedOK' /\ UNCHANGED shown
  BY <1>1, <1>3, WriteAdds, NothingChanges, KindsOfRequest DEF eventVars
<1>7. \A i \in DOMAIN out'[r] :
          \/ i = Len(out[r]) + 1 /\ out'[r][i] = msg
          \/ i \in DOMAIN out[r] /\ out'[r][i] = out[r][i]
  BY <1>6 DEF Adds
<1>8. /\ Rank(x.evt) \in 1..3 /\ \A e \in NetKinds : Rank(e) \in 1..3
      /\ x.evt \in {"loadingFinished", "loadingFailed"} => Rank(x.evt) = 3
      /\ x.evt = "requestWillBeSent" => Rank(x.evt) = 1
      /\ \A e \in NetKinds : Rank(e) = 3 => e # "requestWillBeSent"
  BY <1>2 DEF Rank, NetKinds
<1>9. UNCHANGED <<observer, conn, Listener, disturbed, net>>
  BY <1>1 DEF eventVars, Listener
<1>10. \A i \in NetEvents(r) : i \in NetEvents(r)' /\ out'[r][i] = out[r][i]
  BY <1>6 DEF NetEvents, Adds
<1>11. \A i \in NetEvents(r)' :
          \/ i = Len(out[r]) + 1 /\ out'[r][i] = msg
          \/ i \in NetEvents(r) /\ out'[r][i] = out[r][i]
  BY <1>7 DEF NetEvents
<1>12. conn[x.sess] = "open" =>
          Len(out[r]) + 1 \in NetEvents(r)' /\ out'[r][Len(out[r]) + 1] = msg
  BY <1>2, <1>3, <1>6 DEF NetEvents, Adds
<1>13. conn[x.sess] # "open" => NetEvents(r)' = NetEvents(r) /\ out'[r] = out[r]
  BY <1>3, <1>6 DEF NetEvents, Adds
<1>14. TypedAt(r)'
  BY <1>2, <1>4 DEF TypedAt, At, Same, Telling, Navs
<1>15. ServedAt(r)'
  BY <1>1, <1>4 DEF Local, ServedAt, At, Unserved, Same
<1>16. AnsweredAt(r)'
  <2>1. Responses(r)' = {}
    BY <1>1, <1>2, <1>3, <1>7 DEF Local, AnsweredAt, Responses, At, NetKinds
  <2> QED
    BY <1>4, <2>1 DEF AnsweredAt, At
<1>17. OrderAt(r)'
  <2>1. Top(r) = Rank(x.evt) - 1
    BY <1>1 DEF Top, At, Telling, Unserved, x
  <2>2. Rank(x.evt) <= Top(r)' /\ Top(r)' \in Nat
    <3>1. rq'[r].pc = "emit" => Top(r)' = Rank(rq'[r].x.evt) - 1
      BY DEF Top, Telling, Unserved
    <3>2. rq'[r].pc \in {"store", "respond"} => Top(r)' = 3
      BY DEF Top, Telling, Unserved
    <3> QED
      BY <1>4, <1>8, <3>1, <3>2
  <2>3. \A i \in DOMAIN out[r] : Rank(out[r][i].kind) \in 1..(Rank(x.evt) - 1)
    BY <1>2, <2>1 DEF Local, OrderAt
  <2>4. \A i \in DOMAIN out'[r] : Rank(out'[r][i].kind) \in 1..Top(r)'
    BY <1>3, <1>7, <1>8, <2>2, <2>3
  <2>5. \A i, j \in DOMAIN out'[r] : i < j => Rank(out'[r][i].kind) < Rank(out'[r][j].kind)
    <3> SUFFICES ASSUME NEW i \in DOMAIN out'[r], NEW j \in DOMAIN out'[r], i < j
                 PROVE  Rank(out'[r][i].kind) < Rank(out'[r][j].kind)
      OBVIOUS
    <3>1. i \in DOMAIN out[r] /\ out'[r][i] = out[r][i]
      BY <1>6, <1>7 DEF Adds
    <3>2. CASE j \in DOMAIN out[r] /\ out'[r][j] = out[r][j]
      BY <1>2, <3>1, <3>2 DEF Local, OrderAt
    <3>3. CASE out'[r][j] = msg
      BY <1>3, <1>8, <3>1, <3>3, <2>3
    <3> QED
      BY <1>7, <3>2, <3>3
  <2>6. rq'[r].pc \in {"respond", "events"} => Len(rq'[r].todo) = 0 /\ DOMAIN rq'[r].todo = {}
    BY <1>4
  <2> QED
    BY <2>4, <2>5, <2>6 DEF OrderAt
<1>18. Shows(r)' => rq'[r].pc = "store"
  <2>1. ~TellsPage(r)
    BY <1>1, <1>2, NothingFailedYet DEF Shows, At, Telling, x
  <2>2. ~TellsPage(r)'
    BY <1>2, <1>3, <1>7, <2>1 DEF TellsPage, NetKinds
  <2> QED
    BY <1>4, <2>2 DEF Shows
<1>19. FailedAt(r)'
  <2>1. \A i \in NetEvents(r) : out[r][i].kind # "loadingFailed"
    BY <1>1, <1>2, NothingFailedYet DEF At, Telling, x
  <2> QED
    BY <1>3, <1>4, <1>11, <1>18, <2>1 DEF FailedAt
<1>20. OneAt(r)'
  <2> SUFFICES ASSUME r \in Navs \ disturbed
               PROVE  OneAt(r)'
    BY <1>2, <1>9 DEF OneAt
  <2>1. x.sess = Listener /\ Listener \in Conns
    BY <1>2, <1>5
  <2>2. /\ \A i \in NetEvents(r) : out[r][i].to = Listener
        /\ NetEvents(r) # {} => conn[Listener] = "open"
        /\ x.evt # "requestWillBeSent" /\ conn[Listener] = "open"
              => \E i \in NetEvents(r) : out[r][i].kind = "requestWillBeSent"
    BY <1>1, <2>1 DEF Local, OneAt, At, Telling, x
  <2>3. \A i \in NetEvents(r)' : out'[r][i].to = Listener
    BY <1>3, <1>11, <2>1, <2>2
  <2>4. NetEvents(r)' # {} => conn[Listener] = "open"
    BY <1>13, <2>1, <2>2
  <2>5. conn[Listener] = "open" => \E i \in NetEvents(r)' : out'[r][i].kind = "requestWillBeSent"
    BY <1>3, <1>10, <1>12, <2>1, <2>2
  <2>6. CASE rq'[r].pc = "emit"
    BY <1>9, <2>1, <2>3, <2>4, <2>5, <2>6 DEF OneAt, At, Telling
  <2>7. CASE rq'[r].pc = "store"
    <3>1. conn[Listener] = "open" => \E j \in NetEvents(r)' : out'[r][j].kind = "loadingFinished"
      BY <1>3, <1>4, <1>12, <2>1, <2>7
    <3> QED
      BY <2>3, <2>4, <2>5, <2>7, <3>1 DEF OneAt, Telling
  <2>8. CASE rq'[r].pc = "respond"
    BY <1>18, <2>3, <2>4, <2>5, <2>8 DEF OneAt, Telling
  <2> QED
    BY <1>4, <2>6, <2>7, <2>8
<1>21. BodyAt(r)'
  <2>1. x.evt = "loadingFinished" => r \in net[x.obs].bodies
    BY <1>1 DEF Local, BodyAt, x, At
  <2>2. \A i \in NetEvents(r)' :
            /\ out'[r][i].about \in Domains
            /\ out'[r][i].kind = "loadingFinished" => r \in net[out'[r][i].about].bodies
    BY <1>2, <1>3, <1>11, <2>1 DEF Local, BodyAt
  <2> QED
    BY <1>4, <1>9, <2>2 DEF BodyAt, At
<1>22. FreshAt(r)'
  <2>1. \A i \in DOMAIN out'[r] : out'[r][i].kind = "frameNavigated" => Fresh(out'[r][i].about)
    BY <1>2, <1>3, <1>7 DEF Local, FreshAt, NetKinds
  <2>2. \A i \in DOMAIN rq'[r].todo :
            rq'[r].todo[i].kind = "frameNavigated" => Fresh(rq'[r].todo[i].about)
    BY <1>4 DEF Local, FreshAt
  <2> QED
    BY <1>4, <2>1, <2>2 DEF FreshAt, At
<1>23. r \notin Past
  BY <1>1 DEF Past, Ended, At
<1> QED
  BY <1>4, <1>6, <1>14, <1>15, <1>16, <1>17, <1>20, <1>21, <1>22, <1>23, <1>19
  DEF Moves, Counted, Local, Adds

-----------------------------------------------------------------------------
(* A navigation stores its document and describes the page. *)

(* shown is all that such a step may change beside its record. *)
LEMMA DocumentMoves ==
    ASSUME TypeOK, NEW r \in Reqs, Local(r), Only(r), Same(r), Counted(r), shown <= shown',
           shown' \in Nat,
           UNCHANGED <<conn, scopes, wired, out, net, rt, observer, disturbed>>,
           rq[r].pc \in {"store", "url", "title"}, rq'[r].pc \in {"url", "title", "respond"},
           rq'[r].pc = "respond" =>
              /\ Len(rq'[r].todo) <= 2
              /\ \A i \in DOMAIN rq'[r].todo :
                    Rank(rq'[r].todo[i].kind) = 6 - Len(rq'[r].todo) + i,
           FreshAt(r)'
    PROVE  Moves(r)
<1>1. r \in Navs /\ r \in Navs' /\ rq[r].conn \in Conns
  BY DEF Local, TypedAt, At, Same, Navs, Telling
<1>2. Benign /\ SharedOK'
  <2>1. Benign
    BY DEF TypeOK, Benign, Listener
  <2> QED
    BY <2>1 DEF TypeOK, SharedOK
<1>3. TypedAt(r)'
  BY <1>1 DEF TypedAt, At, Same, Telling
<1>4. ServedAt(r)'
  BY DEF Local, ServedAt, At, Unserved, Same
<1>5. AnsweredAt(r)'
  <2>1. Responses(r)' = {}
    BY DEF Local, AnsweredAt, Responses
  <2> QED
    BY <2>1 DEF AnsweredAt, At
<1>6. OrderAt(r)'
  <2>1. Top(r) = 3 /\ Top(r)' = 3
    BY DEF Top, Telling, Unserved
  <2>2. \A i \in DOMAIN out'[r] : Rank(out'[r][i].kind) \in 1..Top(r)'
    BY <1>1, <2>1 DEF Local, OrderAt
  <2>3. \A i, j \in DOMAIN out'[r] : i < j => Rank(out'[r][i].kind) < Rank(out'[r][j].kind)
    BY <1>1 DEF Local, OrderAt
  <2>4. rq'[r].pc \in {"respond", "events"} =>
            /\ Len(rq'[r].todo) <= 2
            /\ \A i \in DOMAIN rq'[r].todo :
                  Rank(rq'[r].todo[i].kind) = 6 - Len(rq'[r].todo) + i
    OBVIOUS
  <2> QED
    BY <2>2, <2>3, <2>4 DEF OrderAt
<1>7. NetEvents(r)' = NetEvents(r)
  BY DEF NetEvents
<1>8. OneAt(r)' /\ FailedAt(r)'
  <2>1. Shows(r)
    BY DEF Shows
  <2>2. OneAt(r)'
    BY <1>1, <1>7, <2>1 DEF Local, OneAt, Telling, At
  <2>3. FailedAt(r)'
    BY <1>1, <1>7, <2>1 DEF Local, FailedAt
  <2> QED
    BY <2>2, <2>3
<1>9. BodyAt(r)'
  BY <1>7 DEF Local, BodyAt, At
<1> QED
  BY <1>2, <1>3, <1>4, <1>5, <1>6, <1>8, <1>9, KindsOfRequest DEF Moves, Local

LEMMA StoreDocumentMoves ==
    ASSUME TypeOK, NEW r \in Reqs, Local(r), StoreDocument(r)
    PROVE  Moves(r)
<1> DEFINE x == [Nothing EXCEPT !.mine = shown + 1]
           w == [rq[r] EXCEPT !.pc = "url", !.x = x]
<1>1. /\ At(r, "store") /\ shown' = shown + 1 /\ rq' = [rq EXCEPT ![r] = w]
      /\ UNCHANGED <<conn, scopes, wired, out, net, rt, observer, disturbed>>
  BY DEF StoreDocument
<1>2. x \in Details /\ x.mine = shown + 1
  BY KindsOfRequest, NothingIsDetails DEF Nothing, Details
<1> HIDE DEF x
<1>3. /\ w.pc = "url" /\ w.x = x /\ w.todo = rq[r].todo
      /\ w.conn = rq[r].conn /\ w.sid = rq[r].sid /\ w.method = rq[r].method
      /\ w.at = rq[r].at /\ w.by = rq[r].by /\ w.owned = rq[r].owned
  BY KindsOfRequest DEF Requests
<1>4. w \in Requests
  <2>1. "url" \in PCs
    BY DEF PCs
  <2> QED
    BY <1>2, <2>1, ReportingType, KindsOfRequest, Zenon
<1> HIDE DEF w
<1>5. Only(r) /\ Same(r) /\ rq'[r] = w
  BY <1>1, <1>3, <1>4, RecordSet, KindsOfRequest DEF Same
<1>6. Counted(r)
  BY <1>1, <1>3, <1>5 DEF Counted, Past, Ended, At
<1>7. FreshAt(r)'
  <2>1. rq'[r].x.mine <= shown'
    BY <1>1, <1>2, <1>3, <1>5, KindsOfRequest
  <2> QED
    BY <1>1, <1>3, <1>5, <2>1 DEF Local, FreshAt, At
<1> QED
  BY <1>1, <1>3, <1>5, <1>6, <1>7, KindsOfRequest, DocumentMoves DEF At

LEMMA ReadURLMoves ==
    ASSUME TypeOK, NEW r \in Reqs, Local(r), ReadURL(r)
    PROVE  Moves(r)
<1> DEFINE x == [rq[r].x EXCEPT !.url = shown]
           w == [rq[r] EXCEPT !.pc = "title", !.x = x]
<1>1. /\ At(r, "url")
      /\ rq' = [rq EXCEPT ![r].pc = "title", ![r].x.url = shown]
      /\ UNCHANGED <<conn, scopes, wired, out, net, rt, observer, shown, disturbed>>
  BY DEF ReadURL, eventVars
<1>2. rq' = [rq EXCEPT ![r] = w]
  BY <1>1
<1>3. x \in Details /\ x.mine = rq[r].x.mine /\ x.url = shown
  BY KindsOfRequest DEF Requests, Details
<1> HIDE DEF x
<1>4. /\ w.pc = "title" /\ w.x = x /\ w.todo = rq[r].todo
      /\ w.conn = rq[r].conn /\ w.sid = rq[r].sid /\ w.method = rq[r].method
      /\ w.at = rq[r].at /\ w.by = rq[r].by /\ w.owned = rq[r].owned
  BY KindsOfRequest DEF Requests
<1>5. w \in Requests
  <2>1. "title" \in PCs
    BY DEF PCs
  <2> QED
    BY <1>3, <2>1, ReportingType, KindsOfRequest, Zenon
<1> HIDE DEF w
<1>6. Only(r) /\ Same(r) /\ rq'[r] = w
  BY <1>2, <1>4, <1>5, RecordSet, KindsOfRequest DEF Same
<1>7. Counted(r)
  BY <1>1, <1>4, <1>6 DEF Counted, Past
<1>8. FreshAt(r)'
  <2>1. rq'[r].x.mine <= rq'[r].x.url /\ rq'[r].x.url <= shown'
    BY <1>1, <1>3, <1>4, <1>6, KindsOfRequest DEF Local, FreshAt, At
  <2> QED
    BY <1>1, <1>4, <1>6, <2>1 DEF Local, FreshAt, At
<1> QED
  BY <1>1, <1>4, <1>6, <1>7, <1>8, KindsOfRequest, DocumentMoves DEF At

LEMMA ReadTitleMoves ==
    ASSUME TypeOK, NEW r \in Reqs, Local(r), ReadTitle(r)
    PROVE  Moves(r)
<1> DEFINE page == [mine |-> rq[r].x.mine, url |-> rq[r].x.url, title |-> shown]
<1>1. /\ At(r, "title") /\ Reply(r, "result", Loaded(page)) /\ "result" \in Answers
      /\ UNCHANGED <<conn, scopes, wired, out, net, rt, observer, shown, disturbed>>
  BY DEF ReadTitle, Answers, eventVars
<1>2. page \in Pages /\ Fresh(page)
  BY <1>1, KindsOfRequest DEF Local, FreshAt, At, Fresh, Pages, Requests, Details
<1> HIDE DEF page
<1>3. /\ Loaded(page) \in Seq(Returned) /\ Len(Loaded(page)) = 2
      /\ Loaded(page)[1] = Event("frameNavigated", page)
      /\ Loaded(page)[2] = Event("loadEventFired", None)
  <2>1. Event("frameNavigated", page) \in Returned /\ Event("loadEventFired", None) \in Returned
    BY <1>2 DEF Event, Returned
  <2> QED
    BY <2>1 DEF Loaded
<1>4. DOMAIN Loaded(page) = {1, 2}
  BY DEF Loaded
<1>5. \A i \in DOMAIN Loaded(page) :
          Rank(Loaded(page)[i].kind) = 6 - Len(Loaded(page)) + i
  <2>1. Rank("frameNavigated") = 6 - 2 + 1 /\ Rank("loadEventFired") = 6 - 2 + 2
    BY DEF Rank
  <2>2. Loaded(page)[1].kind = "frameNavigated" /\ Loaded(page)[2].kind = "loadEventFired"
    BY <1>3 DEF Event
  <2> QED
    BY <1>3, <1>4, <2>1, <2>2
<1>6. \A i \in DOMAIN Loaded(page) :
          Loaded(page)[i].kind = "frameNavigated" => Fresh(Loaded(page)[i].about)
  BY <1>2, <1>3, <1>4 DEF Event
<1>7. Only(r) /\ Same(r) /\ rq'[r].pc = "respond" /\ rq'[r].todo = Loaded(page)
  BY <1>1, <1>3, ReplyRecord, KindsOfRequest
<1>8. Counted(r)
  BY <1>1, <1>7 DEF Counted, Past, Ended
<1>9. FreshAt(r)'
  BY <1>1, <1>6, <1>7 DEF Local, FreshAt, At
<1>10. /\ Len(rq'[r].todo) <= 2
       /\ \A i \in DOMAIN rq'[r].todo : Rank(rq'[r].todo[i].kind) = 6 - Len(rq'[r].todo) + i
  <2>1. Len(Loaded(page)) <= 2
    BY <1>3
  <2> QED
    BY <1>5, <1>7, <2>1
<1>11. shown <= shown' /\ shown' \in Nat
  BY <1>1, KindsOfRequest
<1> QED
  BY <1>1, <1>7, <1>8, <1>9, <1>10, <1>11, DocumentMoves DEF At

-----------------------------------------------------------------------------
(* The invariant. *)

LEMMA InitIInv == Init => IInv
<1> SUFFICES ASSUME Init
             PROVE  IInv
  OBVIOUS
<1>1. \A r \in Reqs : rq[r] = NotRead /\ out[r] = <<>>
  BY DEF Init, ServerInit
<1>2. /\ rq \in [Reqs -> Requests] /\ out \in [Reqs -> Seq(Messages)]
  <2>1. <<>> \in Seq(Messages)
    OBVIOUS
  <2> QED
    BY <2>1, NotReadIsRequest DEF Init, ServerInit
<1>3. TypeOK
  <2>1. None \in Domains /\ 0 \in 0..MaxReqs
    BY MaxReqsIsNat DEF Domains
  <2> QED
    BY <1>2, <2>1 DEF TypeOK, Init, ServerInit
<1>4. ShownByPast
  <2>1. Past = {}
    BY <1>1 DEF Past, Ended, NotRead
  <2> QED
    BY <2>1, FS_EmptySet DEF ShownByPast, Init
<1>5. ASSUME NEW r \in Reqs
      PROVE  Local(r)
  <2>1. /\ rq[r].pc = "idle" /\ rq[r].method = "Unknown" /\ rq[r].by = None
        /\ DOMAIN rq[r].todo = {} /\ rq[r].owned = FALSE
    BY <1>1 DEF NotRead
  <2>2. DOMAIN out[r] = {} /\ Responses(r) = {} /\ NetEvents(r) = {} /\ r \notin Navs
    BY <1>1, <2>1 DEF Responses, NetEvents, Navs
  <2>3. TypedAt(r)
    BY <1>1, <2>1 DEF TypedAt, At, Telling
  <2>4. ServedAt(r)
    BY <2>1 DEF ServedAt, At
  <2>5. AnsweredAt(r)
    BY <2>1, <2>2 DEF AnsweredAt, At
  <2>6. OrderAt(r) /\ OneAt(r) /\ FailedAt(r)
    BY <2>2 DEF OrderAt, OneAt, FailedAt
  <2>7. BodyAt(r)
    BY <2>1, <2>2 DEF BodyAt, At
  <2>8. FreshAt(r)
    BY <2>1, <2>2 DEF FreshAt, At
  <2> QED
    BY <2>3, <2>4, <2>5, <2>6, <2>7, <2>8 DEF Local
<1> QED
  BY <1>3, <1>4, <1>5 DEF IInv

(* At most as many documents as requests. *)
LEMMA PastIsFinite ==
    /\ IsFiniteSet(Past) /\ Cardinality(Past) \in 0..MaxReqs
<1>1. IsFiniteSet(Reqs) /\ Cardinality(Reqs) = MaxReqs
  BY MaxReqsIsNat, FS_Interval DEF Reqs
<1>2. Past \subseteq Reqs
  BY DEF Past
<1> QED
  BY <1>1, <1>2, FS_Subset, FS_CardinalityType, MaxReqsIsNat

LEMMA MovesKeep ==
    ASSUME IInv, NEW r \in Reqs, Moves(r)
    PROVE  IInv'
<1>1. \A s \in Reqs : Local(s)'
  <2> SUFFICES ASSUME NEW s \in Reqs, s # r
               PROVE  Local(s)'
    BY DEF Moves
  <2> QED
    BY OtherKeeps DEF IInv, Moves, Only
<1>2. \A s \in Reqs : s # r => (s \in Past <=> s \in Past')
  BY DEF Moves, Only, Past
<1>3. /\ IsFiniteSet(Past) /\ Cardinality(Past) \in 0..MaxReqs
      /\ IsFiniteSet(Past') /\ Cardinality(Past') \in 0..MaxReqs
  <2>1. IsFiniteSet(Reqs) /\ Cardinality(Reqs) = MaxReqs
    BY MaxReqsIsNat, FS_Interval DEF Reqs
  <2>2. Past' \subseteq Reqs
    BY DEF Past
  <2> QED
    BY <2>1, <2>2, PastIsFinite, FS_Subset, FS_CardinalityType, MaxReqsIsNat
<1>4. shown' <= Cardinality(Past')
  <2>1. CASE shown' = shown /\ (r \in Past => r \in Past')
    <3>1. Past \subseteq Past'
      BY <1>2, <2>1 DEF Past
    <3>2. Cardinality(Past) <= Cardinality(Past')
      BY <1>3, <3>1, FS_Subset
    <3> QED
      BY <1>3, <2>1, <3>2, KindsOfRequest DEF IInv, ShownByPast
  <2>2. CASE shown' = shown + 1 /\ r \notin Past /\ r \in Past'
    <3>1. Past' = Past \cup {r}
      BY <1>2, <2>2 DEF Past
    <3>2. Cardinality(Past') = Cardinality(Past) + 1
      BY <1>3, <2>2, <3>1, FS_AddElement
    <3> QED
      BY <1>3, <2>2, <3>2, KindsOfRequest DEF IInv, ShownByPast
  <2> QED
    BY <2>1, <2>2 DEF Moves, Counted
<1>5. shown' \in 0..MaxReqs
  BY <1>3, <1>4, MaxReqsIsNat DEF Moves, Benign
<1>6. TypeOK'
  BY <1>5 DEF Moves, Only, SharedOK, TypeOK
<1> QED
  BY <1>1, <1>4, <1>6 DEF IInv, ShownByPast

LEMMA LeaveKeeps ==
    ASSUME IInv, NEW c \in Conns, Leave(c)
    PROVE  IInv'
<1>1. /\ conn' = [conn EXCEPT ![c] = "gone"]
      /\ disturbed' = IF c = Listener THEN disturbed \cup Navigating ELSE disturbed
      /\ UNCHANGED <<scopes, wired, rq, out, net, rt, observer, shown>>
  BY DEF Leave, Disconnect
<1>2. Benign
  <2>1. Listener' = Listener /\ conn \in [Conns -> {"open", "gone"}]
    BY <1>1 DEF Listener, IInv, TypeOK
  <2>2. /\ disturbed \subseteq disturbed'
        /\ Navigating \subseteq disturbed' \/ (Listener \in Conns => conn'[Listener] = conn[Listener])
    BY <1>1, <2>1
  <2> QED
    BY <1>1, <2>1, <2>2, KindsOfRequest DEF IInv, TypeOK, Benign
<1>3. \A s \in Reqs : Local(s)'
  BY <1>1, <1>2, OtherKeeps DEF IInv
<1>4. TypeOK'
  BY <1>1 DEF IInv, TypeOK, Navigating
<1>5. ShownByPast'
  BY <1>1 DEF IInv, ShownByPast, Past
<1> QED
  BY <1>3, <1>4, <1>5 DEF IInv

LEMMA GoroutineKeeps ==
    ASSUME IInv, NEW r \in Reqs, Goroutine(r)
    PROVE  IInv'
<1>1. TypeOK /\ Local(r)
  BY DEF IInv
<1>2. CASE FindScope(r) /\ UNCHANGED eventVars
  BY <1>1, <1>2, FindScopeMoves, MovesKeep
<1>3. CASE LookupScoped(r) /\ UNCHANGED eventVars
  BY <1>1, <1>3, LookupScopedMoves, MovesKeep
<1>4. CASE LookupGlobal(r) /\ UNCHANGED eventVars
  BY <1>1, <1>4, LookupGlobalMoves, MovesKeep
<1>5. CASE ServeStub(r) /\ UNCHANGED eventVars
  BY <1>1, <1>5, ServeStubMoves, MovesKeep
<1>6. CASE Respond(r) /\ UNCHANGED eventVars
  BY <1>1, <1>6, RespondMoves, MovesKeep
<1>7. CASE SendReturned(r) /\ UNCHANGED eventVars
  BY <1>1, <1>7, SendReturnedMoves, MovesKeep
<1>8. CASE NetworkEnable(r)
  BY <1>1, <1>8, NetworkEnableMoves, MovesKeep
<1>9. CASE GetResponseBody(r) \/ FetchEnable(r)
  <2>1. UNCHANGED eventVars
    BY <1>9 DEF GetResponseBody, FetchEnable
  <2> QED
    BY <1>1, <1>9, <2>1, ServeStubMoves, MovesKeep
<1>10. CASE RuntimeEnable(r)
  BY <1>1, <1>10, RuntimeEnableMoves, MovesKeep
<1>11. CASE Evaluate(r)
  BY <1>1, <1>11, EvaluateMoves, MovesKeep
<1>12. CASE Console(r)
  BY <1>1, <1>12, ConsoleMoves, MovesKeep
<1>13. CASE \E s \in Sids : AttachToTarget(r, s) \/ DetachFromTarget(r, s)
  BY <1>1, <1>13, AttachMoves, DetachMoves, MovesKeep
<1>14. CASE AttachFails(r)
  BY <1>1, <1>14, AttachFailsMoves, MovesKeep
<1>15. CASE SetObserver(r)
  BY <1>1, <1>15, SetObserverMoves, MovesKeep
<1>16. CASE WireScope(r)
  BY <1>1, <1>16, WireScopeMoves, MovesKeep
<1>17. CASE CreateTarget(r)
  BY <1>1, <1>17, CreateTargetMoves, MovesKeep
<1>18. CASE Broadcast(r)
  BY <1>1, <1>18, BroadcastMoves, MovesKeep
<1>19. CASE Navigate(r)
  BY <1>1, <1>19, NavigateMoves, MovesKeep
<1>20. CASE Emit(r)
  BY <1>1, <1>20, EmitMoves, MovesKeep
<1>21. CASE Deliver(r)
  BY <1>1, <1>21, DeliverMoves, MovesKeep
<1>22. CASE StoreBody(r)
  BY <1>1, <1>22, StoreBodyMoves, MovesKeep
<1>23. CASE SendEvent(r)
  BY <1>1, <1>23, SendEventMoves, MovesKeep
<1>24. CASE StoreDocument(r)
  BY <1>1, <1>24, StoreDocumentMoves, MovesKeep
<1>25. CASE ReadURL(r)
  BY <1>1, <1>25, ReadURLMoves, MovesKeep
<1>26. CASE ReadTitle(r)
  BY <1>1, <1>26, ReadTitleMoves, MovesKeep
<1> QED
  BY <1>2, <1>3, <1>4, <1>5, <1>6, <1>7, <1>8, <1>9, <1>10, <1>11, <1>12, <1>13, <1>14, <1>15,
     <1>16, <1>17, <1>18, <1>19, <1>20, <1>21, <1>22, <1>23, <1>24, <1>25, <1>26
  DEF Goroutine

LEMMA StutterKeeps == IInv /\ UNCHANGED vars => IInv'
<1> SUFFICES ASSUME IInv, UNCHANGED vars
             PROVE  IInv'
  OBVIOUS
<1>1. UNCHANGED <<conn, scopes, wired, rq, out, net, rt, observer, shown, disturbed>>
  BY DEF vars, serverVars, eventVars
<1>2. TypeOK' /\ Benign
  <2>1. TypeOK /\ shown \in Nat
    BY MaxReqsIsNat DEF IInv, TypeOK
  <2> QED
    BY <1>1, <2>1 DEF TypeOK, Benign, Listener
<1>3. \A s \in Reqs : Local(s)'
  BY <1>1, <1>2, OtherKeeps DEF IInv
<1>4. ShownByPast'
  BY <1>1 DEF IInv, ShownByPast, Past
<1> QED
  BY <1>2, <1>3, <1>4 DEF IInv

LEMMA StepIInv == IInv /\ [Next]_vars => IInv'
<1> SUFFICES ASSUME IInv, [Next]_vars
             PROVE  IInv'
  OBVIOUS
<1>1. CASE Client
  <2>1. CASE \E c \in Conns : Leave(c)
    BY <2>1, LeaveKeeps
  <2>2. CASE \E r \in Reqs : \E call \in Calls[r] : Receive(r, call) /\ UNCHANGED eventVars
    BY <2>2, ReceiveMoves, MovesKeep DEF IInv
  <2>3. CASE \E r \in Reqs, c \in Conns : Malformed(r, c) /\ UNCHANGED eventVars
    BY <2>3, MalformedMoves, MovesKeep DEF IInv
  <2> QED
    BY <1>1, <2>1, <2>2, <2>3 DEF Client
<1>2. CASE \E r \in Reqs : Goroutine(r)
  BY <1>2, GoroutineKeeps
<1>3. CASE UNCHANGED vars
  BY <1>3, StutterKeeps
<1> QED
  BY <1>1, <1>2, <1>3 DEF Next

-----------------------------------------------------------------------------
(* What clients may rely on. *)

LEMMA AtMostOne ==
    ASSUME NEW S, \A i, j \in S : i = j
    PROVE  Cardinality(S) <= 1
<1>1. CASE S = {}
  BY <1>1, FS_EmptySet
<1>2. CASE S # {}
  <2>1. PICK i \in S : S = {i}
    BY <1>2
  <2>2. Cardinality({i}) = 1
    BY FS_Singleton
  <2> QED
    BY <2>1, <2>2
<1> QED
  BY <1>1, <1>2

LEMMA AnsweredOfIInv == IInv => AnsweredByOwn
<1> SUFFICES ASSUME IInv
             PROVE  AnsweredByOwn
  OBVIOUS
<1>1. AnsweredOnce
  <2> SUFFICES ASSUME NEW r \in Reqs
               PROVE  /\ Cardinality(Responses(r)) <= 1
                      /\ \A i \in Responses(r) : out[r][i].to = rq[r].conn /\ out[r][i].sid = rq[r].sid
                      /\ (At(r, "done") /\ rq[r].conn # None /\ conn[rq[r].conn] = "open")
                            => Responses(r) # {} \/ out[r][1].kind = "parse error"
    BY DEF AnsweredOnce
  <2>1. AnsweredAt(r)
    BY DEF IInv, Local
  <2>2. Cardinality(Responses(r)) <= 1
    BY <2>1, AtMostOne DEF AnsweredAt
  <2> QED
    BY <2>1, <2>2 DEF AnsweredAt, At
<1>2. ServedByOwn
  BY DEF IInv, Local, ServedAt, ServedByOwn
<1> QED
  BY <1>1, <1>2 DEF IInv, AnsweredByOwn

LEMMA StoriesOfIInv == IInv => Stories
<1> SUFFICES ASSUME IInv
             PROVE  Stories
  OBVIOUS
<1>1. StoryInOrder
  BY DEF IInv, Local, OrderAt, StoryInOrder, Navs
<1>2. StoryToOne
  <2> SUFFICES ASSUME NEW r \in Navs \ disturbed, NetEvents(r) # {}
               PROVE  /\ \A i, j \in NetEvents(r) : out[r][i].to = out[r][j].to
                      /\ ToldOf(r, "requestWillBeSent")
                      /\ TellsPage(r) => ToldOf(r, "loadingFinished")
    BY DEF StoryToOne
  <2>1. r \in Reqs /\ OneAt(r) /\ Local(r)
    BY DEF IInv, Local, Navs
  <2>2. CASE rq[r].pc \in Telling
    <3>1. rq[r].x.evt \in NetKinds /\ ~Shows(r)
      BY <2>1, <2>2, NothingFailedYet DEF Local, TypedAt
    <3>2. rq[r].x.evt # "requestWillBeSent"
      <4>1. Top(r) = Rank(rq[r].x.evt) - 1
        BY <2>2 DEF Top, Telling, Unserved
      <4>2. \A i \in DOMAIN out[r] : Rank(out[r][i].kind) \in 1..Top(r)
        BY <2>1 DEF Local, OrderAt
      <4>3. Rank("requestWillBeSent") = 1
        BY DEF Rank
      <4> QED
        BY <4>1, <4>2, <4>3 DEF NetEvents
    <3> QED
      BY <2>1, <2>2, <3>1, <3>2 DEF OneAt, ToldOf, Shows
  <2>3. CASE rq[r].pc \notin Telling
    BY <2>1, <2>3 DEF OneAt, ToldOf, Shows
  <2> QED
    BY <2>2, <2>3
<1>4. FailedShowsNothing
  BY DEF IInv, Local, FailedAt, Shows, ToldOf, FailedShowsNothing, Navs
<1>3. BodyKept
  BY DEF IInv, Local, BodyAt, BodyKept, Navs
<1> QED
  BY <1>1, <1>2, <1>3, <1>4 DEF Stories

LEMMA FreshOfIInv == IInv => NavigatedNotStale
BY DEF IInv, Local, FreshAt, Fresh, NavigatedNotStale, Navs

LEMMA Invariance == Spec => []IInv
BY InitIInv, StepIInv, PTL DEF Spec

(* Whatever runs beside it, a request is answered at most once, to its     *)
(* connection and for its session, and no later than when its goroutine    *)
(* ends unless the client is gone; the session's own domains serve it      *)
(* (handleWebSocket, dispatch, handleSessionRequest).                      *)
THEOREM EveryRequestAnswered == Spec => []AnsweredByOwn
BY Invariance, AnsweredOfIInv, PTL

(* The events of a navigation reach clients in their order; unless the     *)
(* page's listener changes one of them hears all from the beginning, and   *)
(* of the end before the page; nobody told of a failure is told of a page; *)
(* and who was told that a request finished gets its body (Page.navigate,  *)
(* handleNetworkEvent, Navigate with the errors it returns early).         *)
THEOREM OneStoryOfEach == Spec => []Stories
BY Invariance, StoriesOfIInv, PTL

(* frameNavigated never describes a page that its navigation replaced, nor *)
(* a title that is older than the URL beside it (Page.navigate).           *)
THEOREM NeverAnOlderPage == Spec => []NavigatedNotStale
BY Invariance, FreshOfIInv, PTL

=============================================================================
