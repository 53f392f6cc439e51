----------------------------- MODULE CdpServer ------------------------------
(***************************************************************************)
(* The CDP server (src/internal/cdp/server.go, session.go, scope.go): a    *)
(* read loop for each connection, a goroutine for each request, handlers   *)
(* of a session's scope before those of the server, and answers that are   *)
(* written when they are ready.                                            *)
(*                                                                         *)
(* Server.mu and handlerScope.mu guard maps; each section is a step.  The  *)
(* lock of a connection makes a message arrive whole: a write is a step,   *)
(* and one to a connection that is gone fails and is not looked at.  What  *)
(* a handler does is in module CdpEvents.                                  *)
(***************************************************************************)
EXTENDS Integers, Sequences, FiniteSets

CONSTANTS
    Conns,      \* connections, each used once
    Sids,       \* identifiers of CDP sessions
    MaxReqs,    \* bound on the requests that are read
    Calls,      \* what clients may ask as their first, second, ... request
    Lost,       \* connections whose client may go away
    None        \* no connection, no session

ASSUME MaxReqsIsNat == MaxReqs \in Nat
ASSUME NamesDiffer == None \notin Conns \cup Sids

VARIABLES
    conn,       \* connections: "open" (listed in Server.sessions) or "gone"
    scopes,     \* keys of Server.scopes
    wired,      \* which handlers the scope object of each session has
    rq,         \* what the goroutine of each request is doing
    out         \* history: what was sent on behalf of each request

serverVars == <<conn, scopes, wired, rq, out>>

Reqs == 1..MaxReqs

(* Setup registers the domains, then the stubs, each in one of two tables. *)
(* handlers of a domain that know the connection are in sessionHandlers.   *)
SessionMethods == {"Network.enable", "Runtime.enable", "Runtime.evaluate",
                   "Page.navigate", "Fetch.enable"}
PlainMethods == {"Network.getResponseBody"}
TargetMethods == {"Target.attachToTarget", "Target.createTarget"}
ScopedMethods == SessionMethods \cup PlainMethods
Methods == ScopedMethods \cup TargetMethods
             \cup {"Target.detachFromTarget", "Log.enable", "Unknown"}

ASSUME CallsAreCalls ==
    \A r \in 1..MaxReqs :
        Calls[r] \subseteq [conn : Conns, sid : Sids \cup {None}, method : Methods]

Stub == "stub"
Domain == "domain"

ASSUME HandlersAreSome == None \notin {Stub, Domain}

All(methods, h) == [m \in methods |-> h]

(* In the table of plain handlers the stubs, registered later, replace     *)
(* what was there.                                                         *)
Stubbed(stubs, methods) ==
    [m \in stubs \cup methods |-> IF m \in stubs THEN Stub ELSE Domain]

GlobalTables ==
    [session |-> All(SessionMethods \cup TargetMethods, Domain),
     plain |-> Stubbed({"Log.enable", "Fetch.enable"},
                       PlainMethods \cup {"Target.detachFromTarget"})]

ScopeTables ==
    [session |-> All(SessionMethods, Domain),
     plain |-> Stubbed({"Log.enable"}, PlainMethods)]

(* An attachment adds the handlers of a scope one after the other.         *)
ScopeOrder == <<"Page.navigate", "Runtime.enable", "Runtime.evaluate", "Network.enable",
                "Network.getResponseBody", "Fetch.enable", "Log.enable">>

Lookup(tables, m) ==
    CASE m \in DOMAIN tables.session -> tables.session[m]
      [] m \in DOMAIN tables.plain \ DOMAIN tables.session -> tables.plain[m]
      [] OTHER -> None

(* What a handler remembers of a navigation: the event to report, to which *)
(* observer and connection, and then the documents it stored and looked at. *)
Nothing == [evt |-> None, obs |-> None, sess |-> None, mine |-> 0, url |-> 0]

(* at is the domain object, that of a session or the server's (None), by   *)
(* is what kind of handler served the request, owned that the session had  *)
(* a handler for it when it was read; made is the session that an          *)
(* attachToTarget makes, left the connections that Broadcast still writes  *)
(* to.                                                                     *)
NotRead == [pc |-> "idle", conn |-> None, sid |-> None, method |-> "Unknown",
            at |-> None, by |-> None, owned |-> FALSE, answer |-> "none",
            todo |-> <<>>, made |-> None, left |-> {}, x |-> Nothing]

ServerInit ==
    /\ conn = [c \in Conns |-> "open"]
    /\ scopes = {} /\ wired = {}
    /\ rq = [r \in Reqs |-> NotRead]
    /\ out = [r \in Reqs |-> <<>>]

At(r, pc) == rq[r].pc = pc
Goto(r, pc) == rq' = [rq EXCEPT ![r].pc = pc]
IsNext(r) == At(r, "idle") /\ \A q \in 1..(r - 1) : ~At(q, "idle")

(* Session.WriteJSON and Session.SendEvent.  A message is about something, *)
(* but only of some events does anything depend on what.                   *)
Message(to, kind, sid, about) == [to |-> to, kind |-> kind, sid |-> sid, about |-> about]

Write(r, msg) ==
    out' = IF conn[msg.to] = "open" THEN [out EXCEPT ![r] = Append(@, msg)] ELSE out

Reply(r, answer, events) ==
    rq' = [rq EXCEPT ![r].pc = "respond", ![r].answer = answer, ![r].todo = events,
                     ![r].x = Nothing]

-----------------------------------------------------------------------------
(* handleWebSocket *)

(* Read fails, the connection is taken off the list and closed.  Nothing   *)
(* else forgets it.                                                        *)
Disconnect(c) ==
    /\ c \in Lost
    /\ conn[c] = "open"
    /\ conn' = [conn EXCEPT ![c] = "gone"]
    /\ UNCHANGED <<scopes, wired, rq, out>>

Receive(r, call) ==
    /\ IsNext(r)
    /\ conn[call.conn] = "open"
    /\ rq' = [rq EXCEPT ![r] = [NotRead EXCEPT
                 !.pc = IF call.sid = None THEN "global" ELSE "scope",
                 !.conn = call.conn, !.sid = call.sid, !.method = call.method,
                 !.owned = <<call.sid, call.method>> \in wired]]
    /\ UNCHANGED <<conn, scopes, wired, out>>

(* The read loop answers what is not JSON itself, with no id. *)
Malformed(r, c) ==
    /\ IsNext(r)
    /\ conn[c] = "open"
    /\ rq' = [rq EXCEPT ![r].pc = "done", ![r].conn = c]
    /\ Write(r, Message(c, "parse error", None, None))
    /\ UNCHANGED <<conn, scopes, wired>>

-----------------------------------------------------------------------------
(* dispatch *)

FindScope(r) ==
    /\ At(r, "scope")
    /\ IF rq[r].sid \in scopes THEN Goto(r, "scoped")
                               ELSE Reply(r, "session not found", <<>>)
    /\ UNCHANGED <<conn, scopes, wired, out>>

Serve(r, at, by) ==
    rq' = [rq EXCEPT ![r].pc = "handle", ![r].at = at, ![r].by = by]

(* Bug: a session's methods are looked for among the server's handlers. *)
LookupScoped_Skips(r) ==
    /\ At(r, "scoped")
    /\ Goto(r, "global")
    /\ UNCHANGED <<conn, scopes, wired, out>>

(* The scope object is asked, even if it has left the map since.  What it  *)
(* does not know falls through to the handlers of the server.              *)
LookupScoped(r) ==
    LET h == IF <<rq[r].sid, rq[r].method>> \in wired
             THEN Lookup(ScopeTables, rq[r].method) ELSE None
    IN /\ At(r, "scoped")
       /\ IF h = None THEN Goto(r, "global") ELSE Serve(r, rq[r].sid, h)
       /\ UNCHANGED <<conn, scopes, wired, out>>

LookupGlobal(r) ==
    LET h == Lookup(GlobalTables, rq[r].method)
    IN /\ At(r, "global")
       /\ IF h = None THEN Reply(r, "method not found", <<>>) ELSE Serve(r, None, h)
       /\ UNCHANGED <<conn, scopes, wired, out>>

(* A stub answers an empty object. *)
ServeStub(r) ==
    /\ At(r, "handle") /\ rq[r].by = Stub
    /\ Reply(r, "result", <<>>)
    /\ UNCHANGED <<conn, scopes, wired, out>>

Respond(r) ==
    /\ At(r, "respond")
    /\ Write(r, Message(rq[r].conn, "response", rq[r].sid, None))
    /\ Goto(r, "events")
    /\ UNCHANGED <<conn, scopes, wired>>

(* The events that the handler returned, with the session of the request.  *)
SendReturned(r) ==
    /\ At(r, "events")
    /\ IF rq[r].todo = <<>>
       THEN /\ rq' = [rq EXCEPT ![r] = [@ EXCEPT !.pc = "done", !.answer = "none"]]
            /\ UNCHANGED out
       ELSE /\ LET evt == Head(rq[r].todo)
               IN Write(r, Message(rq[r].conn, evt.kind, rq[r].sid, evt.about))
            /\ rq' = [rq EXCEPT ![r].todo = Tail(@)]
    /\ UNCHANGED <<conn, scopes, wired>>

-----------------------------------------------------------------------------
(* Broadcast copies the list of connections and writes to each in turn.    *)

BroadcastStart(r, next) ==
    /\ rq' = [rq EXCEPT ![r].pc = next, ![r].left = {c \in Conns : conn[c] = "open"}]
    /\ UNCHANGED <<conn, scopes, wired, out>>

BroadcastNext(r, kind, answer) ==
    IF rq[r].left = {}
    THEN Reply(r, answer, <<>>) /\ UNCHANGED <<conn, scopes, wired, out>>
    ELSE \E c \in rq[r].left :
            /\ Write(r, Message(c, kind, None, None))
            /\ rq' = [rq EXCEPT ![r].left = @ \ {c}]
            /\ UNCHANGED <<conn, scopes, wired>>

-----------------------------------------------------------------------------
(* frameNavigated is about a page: the document that the navigation        *)
(* stored, and those whose URL and title it tells.                         *)
Pages == [mine : Nat, url : Nat, title : Nat]

NetKinds == {"requestWillBeSent", "responseReceived", "loadingFinished", "loadingFailed"}
Kinds == {"parse error", "response", "targetCreated", "frameNavigated", "loadEventFired",
          "consoleAPICalled", "exceptionThrown"} \cup NetKinds

(* A network event is about the domain that sends it. *)
Messages == [to : Conns, kind : Kinds, sid : Sids \cup {None},
             about : Sids \cup {None} \cup Pages]

Responses(r) == {i \in DOMAIN out[r] : out[r][i].kind = "response"}

(* Each request is answered once, on its connection and for its session,   *)
(* unless that connection is gone; requests that run beside it, sessions   *)
(* that end and connections that come and go change nothing of it.         *)
AnsweredOnce ==
    \A r \in Reqs :
        /\ Cardinality(Responses(r)) <= 1
        /\ \A i \in Responses(r) : out[r][i].to = rq[r].conn /\ out[r][i].sid = rq[r].sid
        /\ (At(r, "done") /\ rq[r].conn # None /\ conn[rq[r].conn] = "open")
              => Responses(r) # {} \/ out[r][1].kind = "parse error"

(* A request for a session that had a handler for it when it was read is   *)
(* served by that session's domains or told that the session is gone, and  *)
(* never by those of another page; and no stub stands in for a domain.     *)
ServedByOwn ==
    \A r \in Reqs : rq[r].by # None =>
        /\ (rq[r].owned /\ rq[r].method \in ScopedMethods) => rq[r].at = rq[r].sid
        /\ rq[r].method \in ScopedMethods => rq[r].by = Domain

=============================================================================
