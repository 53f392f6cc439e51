----------------------------- MODULE FetchDomain -----------------------------
(***************************************************************************)
(* The CDP Fetch domain (src/internal/cdp/domain_fetch.go and              *)
(* domain_fetch_rewrite.go): the page calls intercept, which pauses a      *)
(* request until a client command sends it a decision, until               *)
(* Fetch.disable releases it, or until the navigation's context is done.   *)
(*                                                                         *)
(* The server runs every command in a goroutine of its own, so commands    *)
(* interleave with each other and with the navigations.  FetchDomain.mu    *)
(* guards short sections, each one step; what the code does between two    *)
(* sections with a channel it took from the map is a step too.             *)
(*                                                                         *)
(* FetchDomain.session is set and cleared with enabled and only says where *)
(* the requestPaused event goes, so it is not a variable.                  *)
(***************************************************************************)
EXTENDS Integers, Sequences, PageRequests

CONSTANTS
    Commands,       \* goroutines that serve a command of a client
    PatternSets     \* what a client may enable, as the calls that it matches

(* A navigation calls intercept at most once per stage, and each call makes *)
(* a channel: calls also identify the channels.                             *)
Calls == Requests \X Stages

ASSUME PatternsMatchCalls == PatternSets \subseteq SUBSET Calls

VARIABLES
    enabled,    \* FetchDomain.enabled
    patterns,   \* the calls that FetchDomain.patterns match
    pending,    \* FetchDomain.pending: the call whose channel is registered
    paused,     \* keys of FetchDomain.pausedResponses
    chan,       \* contents of each call's channel, which has room for one
    call,       \* what intercept is doing for a request
    outcome,    \* what intercept returned for a call
    cmd,        \* what each command is doing
    malformed   \* history: requests whose fulfillment could not be decoded

fetchVars == <<enabled, patterns, pending, paused, chan, call, outcome, cmd,
               ctxDone, malformed>>

domainVars == <<enabled, patterns>>

ASSUME NoneIsNone == None \notin Calls \cup Stages \cup Results

NoCall == [pc |-> "out", stage |-> None, decision |-> None]
NoCmd  == [pc |-> "idle", ch |-> None, decision |-> None]

Paused ==
    {NoCall}
    \cup [pc : {"announce", "select", "canceled"}, stage : Stages, decision : {None}]
    \cup [pc : {"received"}, stage : Stages, decision : Decisions]
Serving == {NoCmd} \cup [pc : {"send"}, ch : Calls, decision : Decisions]

FetchInit ==
    /\ enabled = FALSE
    /\ patterns = {}
    /\ pending = [r \in Requests |-> None]
    /\ paused = {}
    /\ chan = [ch \in Calls |-> <<>>]
    /\ call = [r \in Requests |-> NoCall]
    /\ outcome = [ch \in Calls |-> None]
    /\ cmd = [c \in Commands |-> NoCmd]
    /\ ctxDone = {}
    /\ malformed = {}

-----------------------------------------------------------------------------
(* intercept *)

(* The navigation of r may come to stage s: once per stage, the request    *)
(* stage first, and not after a decision that ended the navigation.        *)
MayCall(r, s) ==
    /\ call[r].pc = "out"
    /\ outcome[<<r, s>>] = None
    /\ outcome[<<r, "response">>] = None
    /\ outcome[<<r, "request">>] \in {None, "continue", "override"}

PassThrough(r, s) ==
    /\ MayCall(r, s)
    /\ ~enabled \/ <<r, s>> \notin patterns
    /\ outcome' = [outcome EXCEPT ![<<r, s>>] = "continue"]
    /\ UNCHANGED <<domainVars, pending, paused, chan, call, cmd, ctxDone, malformed>>

(* enabled and the patterns are looked at and the channel is registered in *)
(* one critical section.                                                   *)
Pause(r, s) ==
    /\ MayCall(r, s)
    /\ enabled /\ <<r, s>> \in patterns
    /\ pending' = [pending EXCEPT ![r] = <<r, s>>]
    /\ paused' = IF s = "response" THEN paused \cup {r} ELSE paused
    /\ call' = [call EXCEPT ![r].pc = "announce", ![r].stage = s]
    /\ UNCHANGED <<domainVars, chan, outcome, cmd, ctxDone, malformed>>

(* Fetch.requestPaused is sent without the lock: a decision may come       *)
(* before it, since Network.requestWillBeSent has told the identifier.     *)
Announce(r) ==
    /\ call[r].pc = "announce"
    /\ call' = [call EXCEPT ![r].pc = "select"]
    /\ UNCHANGED <<domainVars, pending, paused, chan, outcome, cmd, ctxDone, malformed>>

(* select chooses freely when both of its cases are ready. *)
Receive(r) ==
    LET ch == <<r, call[r].stage>>
    IN /\ call[r].pc = "select"
       /\ chan[ch] # <<>>
       /\ call' = [call EXCEPT ![r].pc = "received", ![r].decision = Head(chan[ch])]
       /\ chan' = [chan EXCEPT ![ch] = Tail(@)]
       /\ UNCHANGED <<domainVars, pending, paused, outcome, cmd, ctxDone, malformed>>

(* Bug: the context is looked at before the select, not in it. *)
SeeDone_Early(r) ==
    /\ call[r].pc = "announce"
    /\ r \in ctxDone
    /\ call' = [call EXCEPT ![r].pc = "canceled"]
    /\ UNCHANGED <<domainVars, pending, paused, chan, outcome, cmd, ctxDone, malformed>>

SeeDone(r) ==
    /\ call[r].pc = "select"
    /\ r \in ctxDone
    /\ call' = [call EXCEPT ![r].pc = "canceled"]
    /\ UNCHANGED <<domainVars, pending, paused, chan, outcome, cmd, ctxDone, malformed>>

Return(r, result) ==
    /\ call' = [call EXCEPT ![r] = NoCall]
    /\ outcome' = [outcome EXCEPT ![<<r, call[r].stage>>] = result]
    /\ UNCHANGED <<domainVars, chan, cmd, ctxDone, malformed>>

ReturnDecision(r) ==
    /\ call[r].pc = "received"
    /\ paused' = paused \ {r}
    /\ Return(r, call[r].decision)
    /\ UNCHANGED pending

(* Bugs: an entry is left behind in one of the maps. *)
ReturnError_KeepsPending(r) ==
    /\ call[r].pc = "canceled"
    /\ paused' = paused \ {r}
    /\ Return(r, "error")
    /\ UNCHANGED pending

ReturnError(r) ==
    /\ call[r].pc = "canceled"
    /\ pending' = [pending EXCEPT ![r] = None]
    /\ paused' = paused \ {r}
    /\ Return(r, "error")

-----------------------------------------------------------------------------
(* The commands of clients. *)

Enable(c, matched) ==
    /\ cmd[c].pc = "idle"
    /\ enabled' = TRUE
    /\ patterns' = matched
    /\ UNCHANGED <<pending, paused, chan, call, outcome, cmd, ctxDone, malformed>>

Registered == {r \in Requests : pending[r] # None}

(* Bug: the pending requests are forgotten, not released. *)
Disable_Drops(c) ==
    /\ cmd[c].pc = "idle"
    /\ enabled' = FALSE
    /\ patterns' = {}
    /\ pending' = [r \in Requests |-> None]
    /\ UNCHANGED <<paused, chan, call, outcome, cmd, ctxDone, malformed>>

(* Fetch.disable sends a continue to every pending request while it holds  *)
(* the lock; a full channel would block it there.                          *)
Disable(c) ==
    /\ cmd[c].pc = "idle"
    /\ \A r \in Registered : chan[pending[r]] = <<>>
    /\ enabled' = FALSE
    /\ patterns' = {}
    /\ chan' = [ch \in Calls |-> IF pending[ch[1]] = ch THEN <<"continue">> ELSE chan[ch]]
    /\ pending' = [r \in Requests |-> None]
    /\ UNCHANGED <<paused, call, outcome, cmd, ctxDone, malformed>>

(* Bug: the entry is looked up and not deleted. *)
Take_Keeps(c, r, decision) ==
    /\ cmd[c].pc = "idle"
    /\ pending[r] # None
    /\ cmd' = [cmd EXCEPT ![c] = [pc |-> "send", ch |-> pending[r], decision |-> decision]]
    /\ UNCHANGED pending

(* A command takes the channel of a pending request out of the map ...     *)
Take(c, r, decision) ==
    /\ cmd[c].pc = "idle"
    /\ pending[r] # None
    /\ pending' = [pending EXCEPT ![r] = None]
    /\ cmd' = [cmd EXCEPT ![c] = [pc |-> "send", ch |-> pending[r], decision |-> decision]]

ContinueRequest(c, r) ==
    /\ \E decision \in {"continue", "override"} : Take(c, r, decision)
    /\ UNCHANGED <<domainVars, paused, chan, call, outcome, ctxDone, malformed>>

(* Either command is accepted in either stage; one that names no pending   *)
(* request answers with an error and changes nothing.                      *)
ContinueResponse(c, r) ==
    /\ \E decision \in {"continue", "override"} : Take(c, r, decision)
    /\ UNCHANGED <<domainVars, paused, chan, call, outcome, ctxDone, malformed>>

FailRequest(c, r) ==
    /\ Take(c, r, "fail")
    /\ UNCHANGED <<domainVars, paused, chan, call, outcome, ctxDone, malformed>>

(* ... and then sends its decision.  fulfillRequest decodes the body in    *)
(* between, and answers with an error if it is not base64.                 *)
FulfillRequest(c, r) ==
    /\ Take(c, r, "fulfill")
    /\ UNCHANGED <<domainVars, paused, chan, call, outcome, ctxDone, malformed>>

FulfillRequestMalformed(c) ==
    /\ cmd[c].pc = "send" /\ cmd[c].decision = "fulfill"
    /\ malformed' = malformed \cup {cmd[c].ch[1]}
    /\ cmd' = [cmd EXCEPT ![c] = NoCmd]
    /\ UNCHANGED <<domainVars, pending, paused, chan, call, outcome, ctxDone>>

Send(c) ==
    /\ cmd[c].pc = "send"
    /\ chan[cmd[c].ch] = <<>>
    /\ chan' = [chan EXCEPT ![cmd[c].ch] = <<cmd[c].decision>>]
    /\ cmd' = [cmd EXCEPT ![c] = NoCmd]
    /\ UNCHANGED <<domainVars, pending, paused, call, outcome, ctxDone, malformed>>

(* The navigation times out, its caller gives up, or the page is closed. *)
ContextDone(r) ==
    /\ r \notin ctxDone
    /\ ctxDone' = ctxDone \cup {r}
    /\ UNCHANGED <<domainVars, pending, paused, chan, call, outcome, cmd, malformed>>

-----------------------------------------------------------------------------
Command(c) ==
    \/ \E matched \in PatternSets : Enable(c, matched)
    \/ Disable(c)
    \/ \E r \in Requests :
          \/ ContinueRequest(c, r)
          \/ ContinueResponse(c, r)
          \/ FailRequest(c, r)
          \/ FulfillRequest(c, r)

Answer(c) == Send(c) \/ FulfillRequestMalformed(c)

Wait(r) == Announce(r) \/ Receive(r) \/ SeeDone(r) \/ ReturnDecision(r) \/ ReturnError(r)

FetchNext ==
    \/ \E c \in Commands : Command(c) \/ Answer(c)
    \/ \E r \in Requests, s \in Stages : PassThrough(r, s) \/ Pause(r, s)
    \/ \E r \in Requests : Wait(r) \/ ContextDone(r)

FetchSpec == FetchInit /\ [][FetchNext]_fetchVars

-----------------------------------------------------------------------------
Waits(r) == call[r].pc \in {"announce", "select"}
CallOf(r) == <<r, call[r].stage>>
Holds(c, ch) == cmd[c].pc = "send" /\ cmd[c].ch = ch

FetchTypeOK ==
    /\ enabled \in BOOLEAN
    /\ patterns \in SUBSET Calls
    /\ pending \in [Requests -> Calls \cup {None}]
    /\ paused \subseteq Requests
    /\ chan \in [Calls -> {<<>>} \cup {<<d>> : d \in Decisions}]
    /\ call \in [Requests -> Paused]
    /\ outcome \in [Calls -> Results \cup {None}]
    /\ cmd \in [Commands -> Serving]
    /\ ctxDone \subseteq Requests
    /\ malformed \subseteq Requests

(* No send ever finds its channel full, so no command blocks, and          *)
(* Fetch.disable, which sends while it holds the lock, blocks nobody: a    *)
(* channel gets one decision in its life, from the one goroutine that      *)
(* deleted it from pending.                                                *)
SendNeverBlocks ==
    /\ \A r \in Registered : chan[pending[r]] = <<>>
    /\ \A c \in Commands : cmd[c].pc = "send" =>
          /\ chan[cmd[c].ch] = <<>>
          /\ cmd[c].ch \notin {pending[r] : r \in Requests}
          /\ \A d \in Commands \ {c} : ~Holds(d, cmd[c].ch)

(* A request that waits can still be answered or has been, whatever        *)
(* commands raced for it and however often the domain was disabled: only   *)
(* one whose fulfillment was malformed is lost to its clients.             *)
WaiterHasAnswerer ==
    \A r \in Requests : Waits(r) =>
        \/ pending[r] = CallOf(r)
        \/ \E c \in Commands : Holds(c, CallOf(r))
        \/ chan[CallOf(r)] # <<>>
        \/ r \in malformed

(* The maps hold what is paused now and nothing else: no return path, of a *)
(* decision, a cancellation or a release, leaves an entry behind.          *)
NoLeftovers ==
    /\ paused = {r \in Requests : call[r].stage = "response"}
    /\ \A r \in Requests : pending[r] # None =>
          /\ call[r].pc \in {"announce", "select", "canceled"}
          /\ pending[r] = CallOf(r)
          /\ enabled

(* "Release any pending intercepted requests so they don't hang." (the     *)
(* comment in disable): when the domain is disabled, whatever waits has a  *)
(* decision or is about to get one.  fulfillRequest takes the request out  *)
(* of pending before it decodes the body, so a body that is not base64     *)
(* leaves a request that disable does not find.                            *)
DisableReleases ==
    ~enabled => \A r \in Requests : Waits(r) =>
        chan[CallOf(r)] # <<>> \/ \E c \in Commands : Holds(c, CallOf(r))

=============================================================================
