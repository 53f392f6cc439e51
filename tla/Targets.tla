------------------------------- MODULE Targets -------------------------------
(***************************************************************************)
(* CDP targets and the sessions that multiplex them over one connection    *)
(* (src/internal/cdp/domain_target.go, domain_target_handlers.go, and the  *)
(* handler scopes of server.go).                                           *)
(*                                                                         *)
(* The server runs each request in a goroutine of its own: a handler here. *)
(* TargetDomain.mu guards short sections and Server.mu shorter ones inside *)
(* them or alone; a section is one step.  What a handler does between two  *)
(* sections with what it read in the first is the subject of this module.  *)
(*                                                                         *)
(* Not here: titles, URLs and browser contexts, which nothing depends on;  *)
(* requests that change nothing (setDiscoverTargets, getTargets,           *)
(* getTargetInfo, errors); which session's domains a page reports to.      *)
(***************************************************************************)
EXTENDS Integers

CONSTANTS
    Targets,    \* page identifiers, each used once
    Initial,    \* the page that Setup adds
    SessionIds, \* numbers of the sessions that may be made
    Handlers,   \* goroutines that serve a request
    None        \* no target, no session, no page

ASSUME InitialIsTarget == Initial \in Targets
ASSUME NoneIsNone == None \notin Targets \cup SessionIds
ASSUME SessionsAreNumbered == SessionIds \subseteq Nat
ASSUME BareIsBare == "bare" \notin Targets \cup {None}

VARIABLES
    known,      \* keys of TargetDomain.targets, and of pages
    attached,   \* TargetInfo.Attached; a handler may hold the info of a removed target
    sessions,   \* TargetDomain.sessions
    scopes,     \* Server.scopes: the page a session's scope is wired to
    made,       \* pages that were created
    closed,     \* pages with Page.closed set
    handler,    \* what each handler is doing
    crashed,    \* a handler dereferenced a nil *TargetInfo, which ends the process
    used,       \* history: session identifiers generated
    told,       \* history: sessions whose identifier a client was given ...
    announced,  \* history: ... by an attachedToTarget event
    destroyed   \* history: targetDestroyed events sent

vars == <<known, attached, sessions, scopes, made, closed, handler, crashed,
          used, told, announced, destroyed>>

infoVars == <<known, attached, made, closed, crashed, destroyed>>

(* A scope that setupScope has registered and not wired, or that it had no *)
(* page to wire to, sends every request on to the global handlers.         *)
Bare == "bare"

PCs == {"idle", "create", "register", "wire", "tell", "auto", "unscope",
        "close", "remove", "destroyed"}

(* What a handler does when it has no session to finish. *)
At(pc, target, session, todo) ==
    [pc |-> pc, target |-> target, session |-> session, page |-> None,
     event |-> FALSE, todo |-> todo]

Idle == At("idle", None, None, {})

Doing == [pc : PCs, target : Targets \cup {None}, session : SessionIds \cup {None},
          page : Targets \cup {None}, event : BOOLEAN, todo : SUBSET Targets]

Init ==
    /\ known = {Initial}
    /\ attached = [t \in Targets |-> FALSE]
    /\ sessions = [s \in SessionIds |-> None]
    /\ scopes = [s \in SessionIds |-> None]
    /\ made = {Initial}
    /\ closed = {}
    /\ handler = [h \in Handlers |-> Idle]
    /\ crashed = FALSE
    /\ used = {} /\ told = {} /\ announced = {}
    /\ destroyed = [t \in Targets |-> 0]

-----------------------------------------------------------------------------
(* A new session, and the scope that serves it. *)

(* In the critical section: the target is marked and the session recorded. *)
(* The page is what TargetDomain.pages has, which is nil for a target that *)
(* was removed since the handler read it.  Sessions are numbered here as   *)
(* they are recorded: nothing depends on what generateSessionID calls them. *)
Attach(h, t, s, event, todo) ==
    /\ s \notin used /\ \A other \in SessionIds \ used : s <= other
    /\ used' = used \cup {s}
    /\ attached' = [attached EXCEPT ![t] = TRUE]
    /\ sessions' = [sessions EXCEPT ![s] = t]
    /\ handler' = [handler EXCEPT ![h] =
          [pc |-> "register", target |-> t, session |-> s,
           page |-> IF t \in known THEN t ELSE None, event |-> event, todo |-> todo]]
    /\ UNCHANGED <<known, scopes, made, closed, crashed, told, announced, destroyed>>

(* Bug: the scope is registered and not wired before the client is told. *)
RegisterScope_ThenTells(h) ==
    /\ handler[h].pc = "register"
    /\ scopes' = [scopes EXCEPT ![handler[h].session] = Bare]
    /\ handler' = [handler EXCEPT ![h].pc = "tell"]
    /\ UNCHANGED <<infoVars, sessions, used, told, announced>>

(* setupScope runs without the lock. *)
RegisterScope(h) ==
    /\ handler[h].pc = "register"
    /\ scopes' = [scopes EXCEPT ![handler[h].session] = Bare]
    /\ handler' = [handler EXCEPT ![h].pc = "wire"]
    /\ UNCHANGED <<infoVars, sessions, used, told, announced>>

(* The handlers are added to the scope that was registered, even if it is  *)
(* no longer in the map.                                                   *)
WireScope(h) ==
    LET s == handler[h].session
    IN /\ handler[h].pc = "wire"
       /\ scopes' = IF scopes[s] = Bare /\ handler[h].page # None
                    THEN [scopes EXCEPT ![s] = handler[h].page]
                    ELSE scopes
       /\ handler' = [handler EXCEPT ![h].pc = "tell"]
       /\ UNCHANGED <<infoVars, sessions, used, told, announced>>

(* The client learns the session, from an event or from the response of    *)
(* attachToTarget.  The handler goes on with the targets that it has left. *)
Tell(h) ==
    LET s == handler[h].session
    IN /\ handler[h].pc = "tell"
       /\ told' = told \cup {s}
       /\ announced' = IF handler[h].event THEN announced \cup {s} ELSE announced
       /\ handler' = [handler EXCEPT ![h] = At("auto", None, None, handler[h].todo)]
       /\ UNCHANGED <<infoVars, sessions, scopes, used>>

-----------------------------------------------------------------------------
(* Target.setAutoAttach: the targets are copied in one section, each is    *)
(* looked at in another.                                                   *)

SetAutoAttach(h) ==
    /\ handler[h].pc = "idle"
    /\ handler' = [handler EXCEPT ![h] = At("auto", None, None, known)]
    /\ UNCHANGED <<infoVars, sessions, scopes, used, told, announced>>

AutoAttach(h, t, s) ==
    /\ handler[h].pc = "auto"
    /\ t \in handler[h].todo
    /\ ~attached[t]
    /\ Attach(h, t, s, TRUE, handler[h].todo \ {t})

(* The identifier generated for a target that is skipped is not used.      *)
AutoSkip(h, t) ==
    /\ handler[h].pc = "auto"
    /\ t \in handler[h].todo
    /\ attached[t]
    /\ handler' = [handler EXCEPT ![h].todo = @ \ {t}]
    /\ UNCHANGED <<infoVars, sessions, scopes, used, told, announced>>

Respond(h) ==
    /\ handler[h].pc = "auto"
    /\ handler[h].todo = {}
    /\ handler' = [handler EXCEPT ![h] = Idle]
    /\ UNCHANGED <<infoVars, sessions, scopes, used, told, announced>>

-----------------------------------------------------------------------------
(* Target.createTarget: AddPage, whose targetCreated is sent without the   *)
(* lock, and then an attachment in a critical section of its own.          *)

AddPage(h, t) ==
    /\ handler[h].pc = "idle"
    /\ t \notin made
    /\ made' = made \cup {t}
    /\ known' = known \cup {t}
    /\ handler' = [handler EXCEPT ![h] = At("create", t, None, {})]
    /\ UNCHANGED <<attached, sessions, scopes, closed, crashed, used, told, announced, destroyed>>

AttachCreated(h, s) ==
    /\ handler[h].pc = "create"
    /\ handler[h].target \in known
    /\ Attach(h, handler[h].target, s, TRUE, {})

(* A client that saw the target may have closed it in between. *)
CrashCreated(h) ==
    /\ handler[h].pc = "create"
    /\ handler[h].target \notin known
    /\ crashed' = TRUE
    /\ UNCHANGED <<known, attached, sessions, scopes, made, closed, handler,
                   used, told, announced, destroyed>>

AttachToTarget(h, t, s) ==
    /\ handler[h].pc = "idle"
    /\ t \in known
    /\ Attach(h, t, s, FALSE, {})

-----------------------------------------------------------------------------
(* Any identifier may be sent, also of a session that the client was not   *)
(* told of yet: identifiers are counted, so they can be guessed.           *)
DetachFromTarget(h, s) ==
    LET t == sessions[s]
    IN /\ handler[h].pc = "idle"
       /\ t # None
       /\ sessions' = [sessions EXCEPT ![s] = None]
       /\ attached' = IF t \in known THEN [attached EXCEPT ![t] = FALSE] ELSE attached
       /\ handler' = [handler EXCEPT ![h] = At("unscope", None, s, {})]
       /\ UNCHANGED <<known, scopes, made, closed, crashed, used, told, announced, destroyed>>

RemoveScope(h) ==
    /\ handler[h].pc = "unscope"
    /\ scopes' = [scopes EXCEPT ![handler[h].session] = None]
    /\ handler' = [handler EXCEPT ![h] = Idle]
    /\ UNCHANGED <<infoVars, sessions, used, told, announced>>

-----------------------------------------------------------------------------
(* Target.closeTarget: the page is looked up, closed and removed in three  *)
(* steps, so two requests may close one target.                            *)

CloseTarget(h, t) ==
    /\ handler[h].pc = "idle"
    /\ t \in known
    /\ handler' = [handler EXCEPT ![h] = At("close", t, None, {})]
    /\ UNCHANGED <<infoVars, sessions, scopes, used, told, announced>>

ClosePage(h) ==
    /\ handler[h].pc = "close"
    /\ closed' = closed \cup {handler[h].target}
    /\ handler' = [handler EXCEPT ![h].pc = "remove"]
    /\ UNCHANGED <<known, attached, sessions, scopes, made, crashed, used, told,
                   announced, destroyed>>

Pointing(t) == {s \in SessionIds : sessions[s] = t}

DropSessions(t) ==
    /\ sessions' = [s \in SessionIds |-> IF s \in Pointing(t) THEN None ELSE sessions[s]]
    /\ scopes' = [s \in SessionIds |-> IF s \in Pointing(t) THEN None ELSE scopes[s]]

(* Bugs: a request reports an end that it did not cause; or it looks for   *)
(* the target when it has deleted it, and reports none.                    *)
RemovePage_Unchecked(h) ==
    /\ handler[h].pc = "remove"
    /\ known' = known \ {handler[h].target}
    /\ DropSessions(handler[h].target)
    /\ handler' = [handler EXCEPT ![h].pc = "destroyed"]
    /\ UNCHANGED <<attached, made, closed, crashed, used, told, announced, destroyed>>

RemovePage_LooksLate(h) ==
    /\ handler[h].pc = "remove"
    /\ known' = known \ {handler[h].target}
    /\ DropSessions(handler[h].target)
    /\ handler' = [handler EXCEPT ![h] = Idle]
    /\ UNCHANGED <<attached, made, closed, crashed, used, told, announced, destroyed>>

(* Only the request that finds the target in the map reports its end.      *)
RemovePage(h) ==
    LET t == handler[h].target
    IN /\ handler[h].pc = "remove"
       /\ known' = known \ {t}
       /\ DropSessions(t)
       /\ handler' = [handler EXCEPT ![h] =
             IF t \in known THEN [@ EXCEPT !.pc = "destroyed"] ELSE Idle]
       /\ UNCHANGED <<attached, made, closed, crashed, used, told, announced, destroyed>>

BroadcastDestroyed(h) ==
    /\ handler[h].pc = "destroyed"
    /\ destroyed' = [destroyed EXCEPT ![handler[h].target] = @ + 1]
    /\ handler' = [handler EXCEPT ![h] = Idle]
    /\ UNCHANGED <<known, attached, sessions, scopes, made, closed, crashed, used,
                   told, announced>>

-----------------------------------------------------------------------------
Request(h) ==
    \/ SetAutoAttach(h)
    \/ \E t \in Targets : AddPage(h, t) \/ CloseTarget(h, t)
    \/ \E t \in Targets, s \in SessionIds : AttachToTarget(h, t, s)
    \/ \E s \in SessionIds : DetachFromTarget(h, s)

Serve(h) ==
    \/ RegisterScope(h) \/ WireScope(h) \/ Tell(h) \/ Respond(h)
    \/ \E t \in Targets : AutoSkip(h, t)
    \/ \E t \in Targets, s \in SessionIds : AutoAttach(h, t, s)
    \/ \E s \in SessionIds : AttachCreated(h, s)
    \/ CrashCreated(h)
    \/ RemoveScope(h) \/ ClosePage(h) \/ RemovePage(h) \/ BroadcastDestroyed(h)

Next == ~crashed /\ \E h \in Handlers : Request(h) \/ Serve(h)

Spec == Init /\ [][Next]_vars

(* The Go scheduler runs every goroutine: a request that closes a target   *)
(* goes on.  Of the others nothing is asked.                               *)
Closes(h) == ClosePage(h) \/ RemovePage(h) \/ BroadcastDestroyed(h)
FairSpec == Spec /\ \A h \in Handlers : WF_vars(~crashed /\ Closes(h))

-----------------------------------------------------------------------------
TypeOK ==
    /\ known \subseteq made /\ made \subseteq Targets /\ closed \subseteq made
    /\ attached \in [Targets -> BOOLEAN]
    /\ sessions \in [SessionIds -> Targets \cup {None}]
    /\ scopes \in [SessionIds -> Targets \cup {None, Bare}]
    /\ handler \in [Handlers -> Doing]
    /\ crashed \in BOOLEAN
    /\ announced \subseteq told /\ told \subseteq used /\ used \subseteq SessionIds
    /\ destroyed \in [Targets -> Nat]

(* A session that a client was told of, and whose target is there, is      *)
(* served by a scope wired to the page of that target: no request of the   *)
(* client is refused, or falls through to the handlers of the first page.  *)
SessionServed ==
    \A s \in told : sessions[s] \in known => scopes[s] = sessions[s]

(* A target that is marked attached has a session.  A mark without one     *)
(* would hide the target from every setAutoAttach to come.                 *)
MarkHasSession ==
    \A t \in known : attached[t] => \E s \in SessionIds : sessions[s] = t

(* The end of a target is reported once, after its page was closed and the *)
(* target removed, although several requests may be closing it.            *)
DestroyedOnce ==
    \A t \in Targets : destroyed[t] > 0 =>
        destroyed[t] = 1 /\ t \in closed /\ t \notin known

(* A closed page does not stay a target: its end is reported.              *)
ClosedIsReported ==
    \A t \in Targets : (t \in closed) ~> (destroyed[t] = 1 \/ crashed)

(* Issue #51, domain_target_test.go: "a duplicate Target.attachedToTarget  *)
(* for the same targetId makes Playwright's CRBrowser assert".  While the  *)
(* session of one such event lasts, no other event names its target.       *)
NoDuplicateAttach ==
    \A s1, s2 \in announced :
        sessions[s1] # None /\ sessions[s1] = sessions[s2] => s1 = s2

=============================================================================
