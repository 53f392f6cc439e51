-------------------------- MODULE PageFetchProofs --------------------------
(***************************************************************************)
(* Proofs about a page, its Fetch domain and the two together, for any     *)
(* number of navigations and of commands, and chains of interceptors of    *)
(* any length: each part by itself, then that the composition keeps both   *)
(* specifications, that a request is paused where its client believes it   *)
(* to be, and that the decision of the client stands.                      *)
(***************************************************************************)
EXTENDS PageFetch, SequenceTheorems, TLAPS

-----------------------------------------------------------------------------
(* The Fetch domain by itself, for any set of requests, of commands and of *)
(* pattern lists: no blocked send, nobody forgotten, no leftovers.         *)

(* What the stated invariants lack to be inductive: a channel is empty and *)
(* in nobody's hands until its call begins.                                *)
Begun(ch) == outcome[ch] # None \/ call[ch[1]].stage = ch[2]

Untouched ==
    \A ch \in Calls : ~Begun(ch) =>
        chan[ch] = <<>> /\ \A c \in Commands : ~Holds(c, ch)

IInv == FetchTypeOK /\ SendNeverBlocks /\ WaiterHasAnswerer /\ NoLeftovers /\ Untouched

LEMMA InitIInv == FetchInit => IInv
<1> SUFFICES ASSUME FetchInit
             PROVE  IInv
  OBVIOUS
<1>1. FetchTypeOK
  BY DEF FetchInit, FetchTypeOK, Paused, Serving
<1>2. Registered = {} /\ \A r \in Requests : ~Waits(r)
  BY DEF FetchInit, Registered, Waits, NoCall
<1>3. SendNeverBlocks /\ WaiterHasAnswerer
  BY <1>2 DEF FetchInit, SendNeverBlocks, WaiterHasAnswerer, NoCmd
<1>4. NoLeftovers
  BY NoneIsNone DEF FetchInit, NoLeftovers, NoCall, Stages
<1>5. Untouched
  BY DEF FetchInit, Untouched, Holds, NoCmd
<1> QED
  BY <1>1, <1>3, <1>4, <1>5 DEF IInv

LEMMA PauseCall ==
    ASSUME FetchTypeOK, NEW r \in Requests, NEW s \in Stages, Pause(r, s)
    PROVE  call' = [call EXCEPT ![r] = [pc |-> "announce", stage |-> s, decision |-> None]]
<1> USE NoneIsNone DEF FetchTypeOK, domainVars
<1>1. Pause(r, s)
  OBVIOUS
<1> QED
  BY <1>1 DEF Pause, MayCall, Paused, NoCall

LEMMA TypeStep == FetchTypeOK /\ [FetchNext]_fetchVars => FetchTypeOK'
<1> SUFFICES ASSUME FetchTypeOK, [FetchNext]_fetchVars
             PROVE  FetchTypeOK'
  OBVIOUS
<1> USE NoneIsNone DEF FetchTypeOK, domainVars
<1>1. ASSUME NEW c \in Commands, NEW matched \in PatternSets, Enable(c, matched)
      PROVE  FetchTypeOK'
  BY <1>1, PatternsMatchCalls DEF Enable
<1>2. ASSUME NEW c \in Commands, Disable(c)
      PROVE  FetchTypeOK'
  BY <1>2 DEF Disable, Decisions
<1>3. ASSUME NEW c \in Commands, NEW r \in Requests, NEW d \in Decisions, Take(c, r, d),
             UNCHANGED <<domainVars, paused, chan, call, outcome, ctxDone, malformed>>
      PROVE  FetchTypeOK'
  <2>1. pending[r] \in Calls
    BY <1>3 DEF Take
  <2>2. [pc |-> "send", ch |-> pending[r], decision |-> d] \in Serving
    BY <2>1 DEF Serving
  <2> QED
    BY <1>3, <2>2 DEF Take
<1>4. ASSUME NEW c \in Commands, FulfillRequestMalformed(c)
      PROVE  FetchTypeOK'
  <2>1. cmd[c].ch[1] \in Requests
    BY <1>4 DEF FulfillRequestMalformed, Serving, NoCmd, Calls
  <2> QED
    BY <1>4, <2>1 DEF FulfillRequestMalformed, Serving
<1>5. ASSUME NEW c \in Commands, Send(c)
      PROVE  FetchTypeOK'
  BY <1>5 DEF Send, Serving, NoCmd
<1>6. ASSUME NEW r \in Requests, NEW s \in Stages, PassThrough(r, s)
      PROVE  FetchTypeOK'
  BY <1>6 DEF PassThrough, Results, Decisions, Calls
<1>7. ASSUME NEW r \in Requests, NEW s \in Stages, Pause(r, s)
      PROVE  FetchTypeOK'
  <2>1. call' = [call EXCEPT ![r] = [pc |-> "announce", stage |-> s, decision |-> None]]
    BY <1>7, PauseCall
  <2>2. [pc |-> "announce", stage |-> s, decision |-> None] \in Paused
    BY DEF Paused
  <2>3. call' \in [Requests -> Paused]
    BY <2>1, <2>2
  <2> QED
    BY <1>7, <2>3 DEF Pause, Calls
<1>8. ASSUME NEW r \in Requests, Announce(r) \/ SeeDone(r)
      PROVE  FetchTypeOK'
  <2>1. PICK pc \in {"select", "canceled"} : call' = [call EXCEPT ![r].pc = pc]
    BY <1>8 DEF Announce, SeeDone
  <2>2. [call[r] EXCEPT !.pc = pc] \in Paused
    BY <1>8 DEF Announce, SeeDone, Paused, NoCall
  <2>3. call' \in [Requests -> Paused]
    BY <2>1, <2>2
  <2> QED
    BY <1>8, <2>3 DEF Announce, SeeDone
<1>9. ASSUME NEW r \in Requests, Receive(r)
      PROVE  FetchTypeOK'
  <2> DEFINE ch == <<r, call[r].stage>>
  <2>1. call[r] \in [pc : {"announce", "select", "canceled"}, stage : Stages, decision : {None}]
    BY <1>9 DEF Receive, Paused, NoCall
  <2>2. ch \in Calls
    BY <2>1 DEF Calls
  <2>3. PICK d \in Decisions : chan[ch] = <<d>>
    <3>1. chan[ch] \in {<<>>} \cup {<<d>> : d \in Decisions}
      BY <2>2
    <3>2. chan[ch] # <<>>
      BY <1>9 DEF Receive
    <3>3. chan[ch] \in {<<d>> : d \in Decisions}
      BY <3>1, <3>2
    <3> QED
      BY <3>3
  <2>4. Head(chan[ch]) = d /\ Tail(chan[ch]) = <<>>
    BY <2>3
  <2>5. [call[r] EXCEPT !.pc = "received", !.decision = d] \in Paused
    BY <2>1 DEF Paused
  <2>6. call' \in [Requests -> Paused]
    BY <1>9, <2>4, <2>5 DEF Receive
  <2> QED
    BY <1>9, <2>4, <2>6 DEF Receive
<1>10. ASSUME NEW r \in Requests, ReturnDecision(r) \/ ReturnError(r)
       PROVE  FetchTypeOK'
  <2>1. NoCall \in Paused
    BY DEF Paused
  <2>2. CASE ReturnDecision(r)
    <3>1. call[r].decision \in Results
      BY <2>2 DEF ReturnDecision, Paused, NoCall, Results
    <3> QED
      BY <2>1, <2>2, <3>1 DEF ReturnDecision, Return
  <2>3. CASE ReturnError(r)
    BY <2>1, <2>3 DEF ReturnError, Return, Results
  <2> QED
    BY <1>10, <2>2, <2>3
<1>11. ASSUME NEW r \in Requests, ContextDone(r)
       PROVE  FetchTypeOK'
  BY <1>11 DEF ContextDone
<1>12. CASE UNCHANGED fetchVars
  BY <1>12 DEF fetchVars
<1> QED
  BY <1>1, <1>2, <1>3, <1>4, <1>5, <1>6, <1>7, <1>8, <1>9, <1>10, <1>11, <1>12
     DEF FetchNext, Command, Answer, Wait, ContinueRequest, ContinueResponse, FailRequest,
         FulfillRequest, Decisions

-----------------------------------------------------------------------------
(* The channels: who holds which, and what is in them. *)

LEMMA PendingIsCallOf ==
    ASSUME IInv, NEW r \in Requests, pending[r] # None
    PROVE  /\ pending[r] = <<r, call[r].stage>>
           /\ call[r].stage \in Stages
           /\ pending[r] \in Calls
           /\ call[r].pc \in {"announce", "select", "canceled"}
<1>1. pending[r] = <<r, call[r].stage>> /\ call[r].pc \in {"announce", "select", "canceled"}
  BY DEF IInv, NoLeftovers, CallOf
<1>2. call[r].stage \in Stages
  BY <1>1 DEF IInv, FetchTypeOK, Paused, NoCall
<1> QED
  BY <1>1, <1>2 DEF Calls

LEMMA HeldIsCall ==
    ASSUME FetchTypeOK, NEW c \in Commands, cmd[c].pc = "send"
    PROVE  cmd[c].ch \in Calls /\ cmd[c].ch # None /\ cmd[c].decision \in Decisions
BY NoneIsNone DEF FetchTypeOK, Serving, NoCmd

(* Steps that put nothing in a channel, register none and take none keep   *)
(* what is known of the channels.                                          *)
LEMMA ChannelsKept ==
    ASSUME IInv, FetchTypeOK',
           \A r \in Requests : pending'[r] \in {pending[r], None},
           \A ch \in Calls : chan'[ch] \in {chan[ch], <<>>},
           \A c \in Commands : cmd'[c] \in {cmd[c], NoCmd},
           \A ch \in Calls : Begun(ch) => Begun(ch)'
    PROVE  SendNeverBlocks' /\ Untouched'
<1>1. ASSUME NEW r \in Requests, pending'[r] # None
      PROVE  chan'[pending'[r]] = <<>>
  <2>1. pending'[r] = pending[r] /\ r \in Registered
    BY <1>1 DEF Registered
  <2>2. chan[pending[r]] = <<>> /\ pending[r] \in Calls
    BY <2>1, PendingIsCallOf DEF IInv, SendNeverBlocks, Registered
  <2> QED
    BY <2>1, <2>2
<1>2. ASSUME NEW c \in Commands, cmd'[c].pc = "send"
      PROVE  /\ chan'[cmd'[c].ch] = <<>>
             /\ cmd'[c].ch \notin {pending'[r] : r \in Requests}
             /\ \A d \in Commands \ {c} : ~Holds(d, cmd[c].ch)'
  <2>1. cmd'[c] = cmd[c]
    BY <1>2 DEF NoCmd
  <2>2. cmd[c].ch \in Calls /\ cmd[c].ch # None
    BY <1>2, <2>1, HeldIsCall DEF IInv
  <2>3. /\ chan[cmd[c].ch] = <<>>
        /\ cmd[c].ch \notin {pending[r] : r \in Requests}
        /\ \A d \in Commands \ {c} : ~Holds(d, cmd[c].ch)
    BY <1>2, <2>1 DEF IInv, SendNeverBlocks
  <2>4. \A d \in Commands \ {c} : ~Holds(d, cmd[c].ch)'
    BY <2>1, <2>3 DEF Holds, NoCmd
  <2>5. cmd'[c].ch \notin {pending'[r] : r \in Requests}
    BY <2>1, <2>2, <2>3
  <2> QED
    BY <2>1, <2>2, <2>3, <2>4, <2>5
<1>3. ASSUME NEW ch \in Calls, ~Begun(ch)'
      PROVE  chan'[ch] = <<>> /\ \A c \in Commands : ~Holds(c, ch)'
  <2>1. chan[ch] = <<>> /\ \A c \in Commands : ~Holds(c, ch)
    BY <1>3 DEF IInv, Untouched
  <2> QED
    BY <2>1 DEF Holds, NoCmd
<1> QED
  BY <1>1, <1>2, <1>3 DEF SendNeverBlocks, Untouched, Registered

LEMMA SendStep ==
    ASSUME IInv, [FetchNext]_fetchVars, FetchTypeOK'
    PROVE  SendNeverBlocks' /\ Untouched'
<1> USE DEF domainVars
<1> DEFINE Goal == SendNeverBlocks' /\ Untouched'
<1>1. ASSUME NEW c \in Commands, NEW matched \in PatternSets, Enable(c, matched)
      PROVE  Goal
  BY <1>1, ChannelsKept DEF Enable, Begun
<1>2. ASSUME NEW c \in Commands, Disable(c)
      PROVE  Goal
  <2>1. Registered' = {}
    BY <1>2 DEF Disable, Registered
  <2>2. ASSUME NEW d \in Commands, cmd[d].pc = "send"
        PROVE  /\ chan'[cmd[d].ch] = <<>>
               /\ cmd[d].ch # None
               /\ \A e \in Commands \ {d} : ~Holds(e, cmd[d].ch)
    <3>1. cmd[d].ch \in Calls /\ cmd[d].ch # None
      BY <2>2, HeldIsCall DEF IInv
    <3>2. cmd[d].ch[1] \in Requests
      BY <3>1 DEF Calls
    <3>3. /\ pending[cmd[d].ch[1]] # cmd[d].ch
          /\ chan[cmd[d].ch] = <<>>
          /\ \A e \in Commands \ {d} : ~Holds(e, cmd[d].ch)
      BY <2>2, <3>2 DEF IInv, SendNeverBlocks
    <3> QED
      BY <1>2, <3>1, <3>3 DEF Disable
  <2>3. cmd' = cmd /\ \A r \in Requests : pending'[r] = None
    BY <1>2 DEF Disable
  <2>4. SendNeverBlocks'
    BY <2>1, <2>2, <2>3 DEF SendNeverBlocks, Holds
  <2>5. ASSUME NEW ch \in Calls, ~Begun(ch)'
        PROVE  chan'[ch] = <<>> /\ \A d \in Commands : ~Holds(d, ch)'
    <3>1. ~Begun(ch)
      BY <1>2, <2>5 DEF Disable, Begun
    <3>2. ch[1] \in Requests /\ ch # None
      BY NoneIsNone DEF Calls
    <3>3. pending[ch[1]] # ch
      BY <3>1, <3>2, PendingIsCallOf DEF Begun
    <3> QED
      BY <1>2, <3>1, <3>3 DEF Disable, IInv, Untouched, Holds
  <2> QED
    BY <2>4, <2>5 DEF Untouched
<1>3. ASSUME NEW c \in Commands, NEW r \in Requests, NEW d \in Decisions, Take(c, r, d),
             UNCHANGED <<domainVars, paused, chan, call, outcome, ctxDone, malformed>>
      PROVE  Goal
  <2>1. pending[r] # None /\ cmd[c].pc = "idle"
    BY <1>3 DEF Take
  <2>2. pending[r] = <<r, call[r].stage>> /\ pending[r] \in Calls
    BY <2>1, PendingIsCallOf
  <2>3. chan[pending[r]] = <<>>
    BY <2>1 DEF IInv, SendNeverBlocks, Registered
  <2>4. \A q \in Requests : pending'[q] = IF q = r THEN None ELSE pending[q]
    BY <1>3 DEF Take, IInv, FetchTypeOK
  <2>5. \A q \in Requests \ {r} : pending[q] # pending[r]
    BY <2>1, <2>2, PendingIsCallOf, NoneIsNone
  <2>6. \A e \in Commands : cmd'[e] = IF e = c
          THEN [pc |-> "send", ch |-> pending[r], decision |-> d] ELSE cmd[e]
    BY <1>3 DEF Take, IInv, FetchTypeOK
  <2>7. \A e \in Commands : ~Holds(e, pending[r])
    BY <2>1 DEF IInv, SendNeverBlocks, Holds
  <2>8. \A q \in Registered' : chan'[pending'[q]] = <<>>
    BY <1>3, <2>4 DEF IInv, SendNeverBlocks, Registered
  <2>9. ASSUME NEW e \in Commands, cmd'[e].pc = "send"
        PROVE  /\ chan'[cmd'[e].ch] = <<>>
               /\ cmd'[e].ch \notin {pending'[q] : q \in Requests}
               /\ \A f \in Commands \ {e} : ~Holds(f, cmd[e].ch)'
    <3>1. CASE e = c
      <4>1. cmd'[e].ch = pending[r]
        BY <2>6, <3>1
      <4>2. \A f \in Commands \ {e} : cmd'[f] = cmd[f]
        BY <2>6, <3>1
      <4>3. \A f \in Commands \ {e} : ~Holds(f, cmd[e].ch)'
        BY <2>7, <4>1, <4>2 DEF Holds
      <4>4. \A q \in Requests : pending'[q] # pending[r]
        BY <2>1, <2>4, <2>5
      <4> QED
        BY <1>3, <2>3, <4>1, <4>3, <4>4
    <3>2. CASE e # c
      <4>1. cmd'[e] = cmd[e] /\ cmd[e].pc = "send"
        BY <2>6, <2>9, <3>2
      <4>2. /\ chan[cmd[e].ch] = <<>>
            /\ \A q \in Requests : cmd[e].ch # pending[q]
            /\ \A f \in Commands \ {e} : ~Holds(f, cmd[e].ch)
        BY <4>1 DEF IInv, SendNeverBlocks
      <4>3. cmd[e].ch # None
        BY <4>1, HeldIsCall DEF IInv
      <4>4. \A q \in Requests : pending'[q] # cmd[e].ch
        BY <2>4, <4>2, <4>3
      <4>5. ASSUME NEW f \in Commands \ {e}
            PROVE  ~Holds(f, cmd[e].ch)'
        BY <2>6, <4>1, <4>2 DEF Holds
      <4> QED
        BY <1>3, <4>1, <4>2, <4>4, <4>5 DEF Holds
    <3> QED
      BY <3>1, <3>2
  <2>10. ASSUME NEW ch \in Calls, ~Begun(ch)'
         PROVE  chan'[ch] = <<>> /\ \A e \in Commands : ~Holds(e, ch)'
    <3>1. ~Begun(ch)
      BY <1>3, <2>10 DEF Begun
    <3>2. pending[r] # ch
      BY <2>2, <3>1 DEF Begun
    <3> QED
      BY <1>3, <2>6, <3>1, <3>2 DEF IInv, Untouched, Holds
  <2> QED
    BY <2>8, <2>9, <2>10 DEF SendNeverBlocks, Untouched
<1>4. ASSUME NEW c \in Commands, FulfillRequestMalformed(c)
      PROVE  Goal
  BY <1>4, ChannelsKept DEF FulfillRequestMalformed, IInv, FetchTypeOK, Begun
<1>5. ASSUME NEW c \in Commands, Send(c)
      PROVE  Goal
  BY <1>5 DEF Send, IInv, FetchTypeOK, SendNeverBlocks, Untouched, Begun, Holds, Registered, NoCmd
<1>6. ASSUME NEW r \in Requests, NEW s \in Stages, PassThrough(r, s)
      PROVE  Goal
  <2>1. \A ch \in Calls : Begun(ch) => Begun(ch)'
    BY <1>6, NoneIsNone DEF PassThrough, Begun, IInv, FetchTypeOK, Calls, Results, Decisions
  <2> QED
    BY <1>6, <2>1, ChannelsKept DEF PassThrough
<1>7. ASSUME NEW r \in Requests, NEW s \in Stages, Pause(r, s)
      PROVE  Goal
  BY <1>7, NoneIsNone DEF Pause, MayCall, IInv, FetchTypeOK, SendNeverBlocks, Untouched, Begun, Holds,
     Registered, Paused, NoCall, Calls
<1>8. ASSUME NEW r \in Requests, Announce(r) \/ SeeDone(r)
      PROVE  Goal
  <2>1. \A q \in Requests : call'[q].stage = call[q].stage
    BY <1>8 DEF Announce, SeeDone, IInv, FetchTypeOK, Paused, NoCall
  <2>2. \A ch \in Calls : Begun(ch) => Begun(ch)'
    BY <1>8, <2>1 DEF Announce, SeeDone, Begun, Calls
  <2> QED
    BY <1>8, <2>2, ChannelsKept DEF Announce, SeeDone
<1>9. ASSUME NEW r \in Requests, Receive(r)
      PROVE  Goal
  <2> DEFINE own == <<r, call[r].stage>>
  <2>1. \A q \in Requests : call'[q].stage = call[q].stage
    BY <1>9 DEF Receive, IInv, FetchTypeOK, Paused, NoCall
  <2>2. \A ch \in Calls : Begun(ch) => Begun(ch)'
    BY <1>9, <2>1 DEF Receive, Begun, Calls
  <2>3. own \in Calls
    BY <1>9 DEF Receive, IInv, FetchTypeOK, Paused, NoCall, Calls
  <2>4. Tail(chan[own]) = <<>>
    <3>1. chan[own] \in {<<>>} \cup {<<d>> : d \in Decisions} /\ chan[own] # <<>>
      BY <1>9, <2>3 DEF Receive, IInv, FetchTypeOK
    <3>2. PICK d \in Decisions : chan[own] = <<d>>
      BY <3>1
    <3> QED
      BY <3>2
  <2>5. \A ch \in Calls : chan'[ch] \in {chan[ch], <<>>}
    BY <1>9, <2>4 DEF Receive, IInv, FetchTypeOK
  <2> QED
    BY <1>9, <2>2, <2>5, ChannelsKept DEF Receive
<1>10. ASSUME NEW r \in Requests, ReturnDecision(r) \/ ReturnError(r)
       PROVE  Goal
  <2>1. PICK result \in Results : Return(r, result)
    BY <1>10 DEF ReturnDecision, ReturnError, Results, IInv, FetchTypeOK, Paused, NoCall
  <2>2. ASSUME NEW ch \in Calls, Begun(ch)
        PROVE  Begun(ch)'
    <3>1. ch = <<ch[1], ch[2]>> /\ ch[1] \in Requests
      BY DEF Calls
    <3>2. result # None
      BY NoneIsNone
    <3> QED
      BY <2>1, <2>2, <3>1, <3>2 DEF Return, Begun, IInv, FetchTypeOK
  <2>3. \A q \in Requests : pending'[q] \in {pending[q], None}
    BY <1>10 DEF ReturnDecision, ReturnError, IInv, FetchTypeOK
  <2> QED
    BY <2>1, <2>2, <2>3, ChannelsKept DEF Return
<1>11. ASSUME NEW r \in Requests, ContextDone(r)
       PROVE  Goal
  BY <1>11, ChannelsKept DEF ContextDone, Begun
<1>12. CASE UNCHANGED fetchVars
  BY <1>12, ChannelsKept DEF fetchVars, Begun
<1> QED
  BY <1>1, <1>2, <1>3, <1>4, <1>5, <1>6, <1>7, <1>8, <1>9, <1>10, <1>11, <1>12
     DEF FetchNext, Command, Answer, Wait, ContinueRequest, ContinueResponse, FailRequest,
         FulfillRequest, Decisions

-----------------------------------------------------------------------------
(* The maps: what is registered is what is paused. *)

LEMMA LeftoversStep ==
    ASSUME IInv, [FetchNext]_fetchVars, FetchTypeOK'
    PROVE  NoLeftovers'
<1> USE DEF domainVars
<1>1. ASSUME NEW c \in Commands, NEW matched \in PatternSets, Enable(c, matched)
      PROVE  NoLeftovers'
  BY <1>1 DEF Enable, IInv, NoLeftovers, CallOf
<1>2. ASSUME NEW c \in Commands, Disable(c)
      PROVE  NoLeftovers'
  BY <1>2 DEF Disable, IInv, NoLeftovers, CallOf
<1>3. ASSUME NEW c \in Commands, NEW r \in Requests, NEW d \in Decisions, Take(c, r, d),
             UNCHANGED <<domainVars, paused, chan, call, outcome, ctxDone, malformed>>
      PROVE  NoLeftovers'
  BY <1>3 DEF Take, IInv, FetchTypeOK, NoLeftovers, CallOf
<1>4. ASSUME NEW c \in Commands, Answer(c)
      PROVE  NoLeftovers'
  BY <1>4 DEF Answer, Send, FulfillRequestMalformed, IInv, NoLeftovers, CallOf
<1>5. ASSUME NEW r \in Requests, NEW s \in Stages, PassThrough(r, s)
      PROVE  NoLeftovers'
  BY <1>5 DEF PassThrough, IInv, NoLeftovers, CallOf
<1>6. ASSUME NEW r \in Requests, NEW s \in Stages, Pause(r, s)
      PROVE  NoLeftovers'
  <2>1. \A q \in Requests : call'[q] = IF q = r
          THEN [pc |-> "announce", stage |-> s, decision |-> None] ELSE call[q]
    BY <1>6, PauseCall DEF IInv, FetchTypeOK
  <2>2. \A q \in Requests : pending'[q] = IF q = r THEN <<r, s>> ELSE pending[q]
    BY <1>6 DEF Pause, IInv, FetchTypeOK
  <2>3. call[r].stage # "response"
    BY <1>6, NoneIsNone DEF Pause, MayCall, IInv, FetchTypeOK, Paused, NoCall, Stages
  <2>4. paused' = {q \in Requests : call'[q].stage = "response"}
    <3>1. paused = {q \in Requests : call[q].stage = "response"}
      BY DEF IInv, NoLeftovers
    <3>2. paused' = IF s = "response" THEN paused \cup {r} ELSE paused
      BY <1>6 DEF Pause
    <3>3. \A q \in Requests : q \in paused' <=> call'[q].stage = "response"
      <4>1. r \in paused' <=> call'[r].stage = "response"
        BY <2>1, <2>3, <3>1, <3>2
      <4>2. \A q \in Requests \ {r} : q \in paused' <=> call'[q].stage = "response"
        BY <2>1, <3>1, <3>2
      <4> QED
        BY <4>1, <4>2
    <3>4. paused' \subseteq Requests
      BY <3>1, <3>2
    <3> QED
      BY <3>3, <3>4
  <2>5. enabled'
    BY <1>6 DEF Pause
  <2>6. ASSUME NEW q \in Requests, pending'[q] # None
        PROVE  /\ call'[q].pc \in {"announce", "select", "canceled"}
               /\ pending'[q] = <<q, call'[q].stage>>
    BY <2>1, <2>2, <2>6, PendingIsCallOf
  <2> QED
    BY <2>4, <2>5, <2>6 DEF NoLeftovers, CallOf
<1>7. ASSUME NEW r \in Requests, Announce(r) \/ SeeDone(r)
      PROVE  NoLeftovers'
  <2>1. \A q \in Requests : /\ call'[q].stage = call[q].stage
                            /\ q # r => call'[q] = call[q]
    BY <1>7 DEF Announce, SeeDone, IInv, FetchTypeOK, Paused, NoCall
  <2>2. call'[r].pc \in {"select", "canceled"}
    <3>1. PICK pc \in {"select", "canceled"} : call' = [call EXCEPT ![r].pc = pc]
      BY <1>7 DEF Announce, SeeDone
    <3>2. call'[r] = [call[r] EXCEPT !.pc = pc]
      BY <3>1 DEF IInv, FetchTypeOK
    <3>3. call[r] \in Paused
      BY DEF IInv, FetchTypeOK
    <3> QED
      BY <3>2, <3>3 DEF Paused, NoCall
  <2> QED
    BY <1>7, <2>1, <2>2 DEF Announce, SeeDone, IInv, NoLeftovers, CallOf
<1>8. ASSUME NEW r \in Requests, Receive(r)
      PROVE  NoLeftovers'
  <2>1. \A q \in Requests : /\ call'[q].stage = call[q].stage
                            /\ q # r => call'[q] = call[q]
    BY <1>8 DEF Receive, IInv, FetchTypeOK, Paused, NoCall
  <2>2. pending[r] = None
    BY <1>8, PendingIsCallOf DEF Receive, IInv, SendNeverBlocks, Registered
  <2> QED
    BY <1>8, <2>1, <2>2, ZenonT(60) DEF Receive, IInv, NoLeftovers, CallOf
<1>9. ASSUME NEW r \in Requests, ReturnDecision(r) \/ ReturnError(r)
      PROVE  NoLeftovers'
  <2>1. \A q \in Requests : call'[q] = IF q = r THEN NoCall ELSE call[q]
    BY <1>9 DEF ReturnDecision, ReturnError, Return, IInv, FetchTypeOK
  <2>2. pending'[r] = None /\ \A q \in Requests \ {r} : pending'[q] = pending[q]
    <3>1. CASE ReturnDecision(r)
      BY <3>1, PendingIsCallOf DEF ReturnDecision
    <3>2. CASE ReturnError(r)
      BY <3>2 DEF ReturnError, IInv, FetchTypeOK
    <3> QED
      BY <1>9, <3>1, <3>2
  <2>3. NoCall.stage # "response"
    BY NoneIsNone DEF NoCall, Stages
  <2>4. paused' = paused \ {r} /\ enabled' = enabled
    BY <1>9 DEF ReturnDecision, ReturnError, Return
  <2> QED
    BY <2>1, <2>2, <2>3, <2>4 DEF IInv, NoLeftovers, CallOf
<1>10. ASSUME NEW r \in Requests, ContextDone(r)
       PROVE  NoLeftovers'
  BY <1>10 DEF ContextDone, IInv, NoLeftovers, CallOf
<1>11. CASE UNCHANGED fetchVars
  BY <1>11 DEF fetchVars, IInv, NoLeftovers, CallOf
<1> QED
  BY <1>1, <1>2, <1>3, <1>4, <1>5, <1>6, <1>7, <1>8, <1>9, <1>10, <1>11
     DEF FetchNext, Command, Wait, ContinueRequest, ContinueResponse, FailRequest,
         FulfillRequest, Decisions

-----------------------------------------------------------------------------
(* The waiters. *)

Answerable(r) ==
    \/ pending[r] = CallOf(r)
    \/ \E c \in Commands : Holds(c, CallOf(r))
    \/ chan[CallOf(r)] # <<>>
    \/ r \in malformed

LEMMA WaitersStep ==
    ASSUME IInv, [FetchNext]_fetchVars, FetchTypeOK'
    PROVE  WaiterHasAnswerer'
<1> USE DEF domainVars
<1> SUFFICES ASSUME NEW w \in Requests, Waits(w)'
             PROVE  Answerable(w)'
  BY DEF WaiterHasAnswerer, Answerable
<1>a. Waits(w) => Answerable(w)
  BY DEF IInv, WaiterHasAnswerer, Answerable
<1>b. Waits(w) => CallOf(w) \in Calls
  BY DEF Waits, CallOf, IInv, FetchTypeOK, Paused, NoCall, Calls
<1>1. ASSUME NEW c \in Commands, NEW matched \in PatternSets, Enable(c, matched)
      PROVE  Answerable(w)'
  BY <1>1, <1>a DEF Enable, Answerable, Waits, CallOf, Holds
<1>2. ASSUME NEW c \in Commands, Disable(c)
      PROVE  Answerable(w)'
  <2>1. Waits(w) /\ CallOf(w)' = CallOf(w)
    BY <1>2 DEF Disable, Waits, CallOf
  <2>2. chan'[CallOf(w)] = IF pending[w] = CallOf(w) THEN <<"continue">> ELSE chan[CallOf(w)]
    BY <1>2, <1>b, <2>1 DEF Disable, CallOf
  <2> QED
    BY <1>2, <1>a, <2>1, <2>2 DEF Disable, Answerable, Holds
<1>3. ASSUME NEW c \in Commands, NEW r \in Requests, NEW d \in Decisions, Take(c, r, d),
             UNCHANGED <<domainVars, paused, chan, call, outcome, ctxDone, malformed>>
      PROVE  Answerable(w)'
  <2>1. Waits(w) /\ CallOf(w)' = CallOf(w)
    BY <1>3 DEF Waits, CallOf
  <2>2. \A e \in Commands : cmd'[e] = IF e = c
          THEN [pc |-> "send", ch |-> pending[r], decision |-> d] ELSE cmd[e]
    BY <1>3 DEF Take, IInv, FetchTypeOK
  <2>3. \A q \in Requests : pending'[q] = IF q = r THEN None ELSE pending[q]
    BY <1>3 DEF Take, IInv, FetchTypeOK
  <2>4. \A e \in Commands : Holds(e, CallOf(w)) => e # c
    BY <1>3 DEF Take, Holds
  <2>5. CASE \E e \in Commands : Holds(e, CallOf(w))
    BY <2>1, <2>2, <2>4, <2>5 DEF Answerable, Holds
  <2>6. CASE pending[w] = CallOf(w) /\ w = r
    BY <2>1, <2>2, <2>6 DEF Answerable, Holds
  <2>7. CASE pending[w] = CallOf(w) /\ w # r
    BY <2>1, <2>3, <2>7 DEF Answerable
  <2>8. CASE chan[CallOf(w)] # <<>> \/ w \in malformed
    BY <1>3, <2>1, <2>8 DEF Answerable
  <2> QED
    BY <1>a, <2>1, <2>5, <2>6, <2>7, <2>8 DEF Answerable
<1>4. ASSUME NEW c \in Commands, FulfillRequestMalformed(c)
      PROVE  Answerable(w)'
  <2>1. Waits(w) /\ CallOf(w)' = CallOf(w)
    BY <1>4 DEF FulfillRequestMalformed, Waits, CallOf
  <2>2. \A e \in Commands \ {c} : cmd'[e] = cmd[e]
    BY <1>4 DEF FulfillRequestMalformed, IInv, FetchTypeOK
  <2>3. Holds(c, CallOf(w)) => w \in malformed'
    BY <1>4 DEF FulfillRequestMalformed, Holds, CallOf
  <2> QED
    BY <1>4, <1>a, <2>1, <2>2, <2>3 DEF FulfillRequestMalformed, Answerable, Holds
<1>5. ASSUME NEW c \in Commands, Send(c)
      PROVE  Answerable(w)'
  <2>1. Waits(w) /\ CallOf(w)' = CallOf(w)
    BY <1>5 DEF Send, Waits, CallOf
  <2>2. \A e \in Commands \ {c} : cmd'[e] = cmd[e]
    BY <1>5 DEF Send, IInv, FetchTypeOK
  <2>3. chan'[CallOf(w)] = IF cmd[c].ch = CallOf(w) THEN <<cmd[c].decision>> ELSE chan[CallOf(w)]
    BY <1>5, <1>b, <2>1 DEF Send, IInv, FetchTypeOK
  <2> QED
    BY <1>5, <1>a, <2>1, <2>2, <2>3 DEF Send, Answerable, Holds
<1>6. ASSUME NEW r \in Requests, NEW s \in Stages, PassThrough(r, s)
      PROVE  Answerable(w)'
  BY <1>6, <1>a DEF PassThrough, Answerable, Waits, CallOf, Holds
<1>7. ASSUME NEW r \in Requests, NEW s \in Stages, Pause(r, s)
      PROVE  Answerable(w)'
  <2>1. \A q \in Requests : call'[q] = IF q = r
          THEN [pc |-> "announce", stage |-> s, decision |-> None] ELSE call[q]
    BY <1>7, PauseCall DEF IInv, FetchTypeOK
  <2>2. \A q \in Requests : pending'[q] = IF q = r THEN <<r, s>> ELSE pending[q]
    BY <1>7 DEF Pause, IInv, FetchTypeOK
  <2>3. CASE w = r
    BY <2>1, <2>2, <2>3 DEF Answerable, CallOf
  <2>4. CASE w # r
    <3>1. Waits(w) /\ CallOf(w)' = CallOf(w) /\ pending'[w] = pending[w]
      BY <2>1, <2>2, <2>4 DEF Waits, CallOf
    <3> QED
      BY <1>7, <1>a, <3>1 DEF Pause, Answerable, Holds
  <2> QED
    BY <2>3, <2>4
<1>8. ASSUME NEW r \in Requests, Announce(r) \/ SeeDone(r)
      PROVE  Answerable(w)'
  <2>1. call'[w].stage = call[w].stage /\ Waits(w)
    BY <1>8 DEF Announce, SeeDone, Waits, IInv, FetchTypeOK, Paused, NoCall
  <2> QED
    BY <1>8, <1>a, <2>1 DEF Announce, SeeDone, Answerable, CallOf, Holds
<1>9. ASSUME NEW r \in Requests, Receive(r)
      PROVE  Answerable(w)'
  <2>1. w # r /\ call'[w] = call[w]
    BY <1>9 DEF Receive, Waits, IInv, FetchTypeOK
  <2>2. Waits(w) /\ CallOf(w)' = CallOf(w) /\ CallOf(w) # <<r, call[r].stage>>
    BY <2>1 DEF Waits, CallOf
  <2>3. chan'[CallOf(w)] = chan[CallOf(w)]
    BY <1>9, <1>b, <2>2 DEF Receive, IInv, FetchTypeOK
  <2> QED
    BY <1>9, <1>a, <2>2, <2>3 DEF Receive, Answerable, Holds
<1>10. ASSUME NEW r \in Requests, ReturnDecision(r) \/ ReturnError(r)
       PROVE  Answerable(w)'
  <2>1. call' = [call EXCEPT ![r] = NoCall] /\ chan' = chan /\ cmd' = cmd /\ malformed' = malformed
    BY <1>10 DEF ReturnDecision, ReturnError, Return
  <2>2. w # r /\ call'[w] = call[w]
    BY <2>1 DEF Waits, NoCall, IInv, FetchTypeOK
  <2>3. pending'[w] = pending[w]
    BY <1>10, <2>2 DEF ReturnDecision, ReturnError, IInv, FetchTypeOK
  <2> QED
    BY <1>a, <2>1, <2>2, <2>3 DEF Answerable, Waits, CallOf, Holds
<1>11. ASSUME NEW r \in Requests, ContextDone(r)
       PROVE  Answerable(w)'
  BY <1>11, <1>a DEF ContextDone, Answerable, Waits, CallOf, Holds
<1>12. CASE UNCHANGED fetchVars
  BY <1>12, <1>a DEF fetchVars, Answerable, Waits, CallOf, Holds
<1> QED
  BY <1>1, <1>2, <1>3, <1>4, <1>5, <1>6, <1>7, <1>8, <1>9, <1>10, <1>11, <1>12
     DEF FetchNext, Command, Answer, Wait, ContinueRequest, ContinueResponse, FailRequest,
         FulfillRequest, Decisions

-----------------------------------------------------------------------------
LEMMA StepIInv == IInv /\ [FetchNext]_fetchVars => IInv'
<1> SUFFICES ASSUME IInv, [FetchNext]_fetchVars
             PROVE  IInv'
  OBVIOUS
<1>1. FetchTypeOK'
  BY TypeStep DEF IInv
<1> QED
  BY <1>1, SendStep, LeftoversStep, WaitersStep DEF IInv

LEMMA AlwaysIInv == FetchSpec => []IInv
BY InitIInv, StepIInv, PTL DEF FetchSpec

(* Every variable keeps its type, whatever the clients and the navigations *)
(* of FetchDomain do and however many there are.                           *)
THEOREM FetchTypeCorrect == FetchSpec => []FetchTypeOK
BY AlwaysIInv, PTL DEF IInv

(* No goroutine ever blocks sending to a paused request's channel of       *)
(* capacity one, not the four commands that answer, nor Fetch.disable,     *)
(* which would block with FetchDomain.mu held: for any number of clients.  *)
THEOREM NoSendBlocks == FetchSpec => []SendNeverBlocks
BY AlwaysIInv, PTL DEF IInv

(* The two maps of FetchDomain name the calls of intercept in progress and *)
(* nothing else, and nothing is registered while the domain is disabled.   *)
THEOREM MapsAreExact == FetchSpec => []NoLeftovers
BY AlwaysIInv, PTL DEF IInv

(* No race of commands loses a paused request: what waits in intercept is  *)
(* registered, or held by a command about to send, or already has its      *)
(* decision; the one exception is a fulfillment that does not decode.      *)
THEOREM NobodyForgotten == FetchSpec => []WaiterHasAnswerer
BY AlwaysIInv, PTL DEF IInv

-----------------------------------------------------------------------------
(* The page by itself, for any set of navigations and chains of any        *)
(* length: types, what Navigate returns, the lifecycle of its requests.    *)

(* ReturnMatchesEvents speaks of navigations that have ended.  Told says   *)
(* of each step of Navigate which events went before it.                   *)
ToldAt(pc, events, got) ==
    /\ pc \in {"idle", "announce"} => events = <<>>
    /\ pc \in {"request", "fetch", "fetching", "decode", "response", "respond", "fail"}
          => events = <<"requestWillBeSent">>
    /\ pc = "finish" => events = <<"requestWillBeSent", "responseReceived">>
    /\ pc \in {"store", "ok"} => events = Success
    /\ pc = "decode" => got = "answered"
    /\ pc = "error" => \/ events \in {<<>>, Failure, Success}
                       \/ events = <<"requestWillBeSent">> /\ got = "answered"

Told == \A n \in Requests : ToldAt(nav[n].pc, emitted[n], fetched[n])

PageIInv == TypeOK /\ Told

Records == [pc : PCs, chain : Seq(Hooks), rest : Seq(Hooks)]

LEMMA PageInit == Init => PageIInv
<1> SUFFICES ASSUME Init
             PROVE  PageIInv
  OBVIOUS
<1>1. NotStarted \in Records
  BY DEF NotStarted, PCs, Records
<1>2. <<"interceptor">> \in Seq(Hooks) /\ <<>> \in Seq(Hooks)
  BY DEF Hooks
<1>3. TypeOK
  <2>1. nav \in [Requests -> Records]
    BY <1>1 DEF Init
  <2>2. hooks \in Seq(Hooks)
    BY <1>2 DEF Init
  <2>3. emitted \in [Requests -> Seq(Events)]
    BY DEF Init
  <2> QED
    BY <2>1, <2>2, <2>3 DEF Init, TypeOK, Records
<1>4. Told
  BY DEF Init, Told, ToldAt, NotStarted
<1> QED
  BY <1>3, <1>4 DEF PageIInv

(* A navigation goes on to pc, and the others stay where they are. *)
Moves(n, pc) ==
    /\ nav' \in [Requests -> Records]
    /\ nav'[n].pc = pc
    /\ \A m \in Requests : m # n => nav'[m] = nav[m]

LEMMA GotoMoves ==
    ASSUME TypeOK, NEW n \in Requests, NEW pc \in PCs, Goto(n, pc)
    PROVE  Moves(n, pc)
BY DEF TypeOK, Moves, Records, Goto

(* A decision sends Navigate on, to a step before which nothing was told   *)
(* since the request was announced.                                        *)
LEMMA ResumeMoves ==
    ASSUME TypeOK, NEW n \in Requests, NEW s \in Stages, NEW result \in Results, Resume(n, s, result)
    PROVE  \E pc \in {"fetch", "respond", "fail"} : Moves(n, pc)
<1> DEFINE next == CASE result \in {"continue", "override"} ->
                          IF s = "request" THEN "fetch" ELSE "respond"
                     [] result = "fulfill" -> "respond"
                     [] result \in {"fail", "error"} -> "fail"
<1>1. next \in {"fetch", "respond", "fail"}
  BY DEF Results, Decisions
<1>2. nav' = [nav EXCEPT ![n].pc = next, ![n].rest = nav[n].chain]
  BY DEF Resume
<1>3. next \in PCs
  BY <1>1 DEF PCs
<1> HIDE DEF next
<1>4. Moves(n, next)
  BY <1>2, <1>3 DEF TypeOK, Moves, Records
<1> QED
  BY <1>1, <1>4

(* A step of a navigation: it moves, the event e may be sent and the fetch *)
(* go on, and nothing else of the page changes but, perhaps, what is shown. *)
LEMMA StepKeeps ==
    ASSUME PageIInv, NEW n \in Requests, NEW pc \in PCs, NEW events \in Seq(Events),
           NEW got \in {"no", "asked", "answered"},
           Moves(n, pc),
           emitted' = [emitted EXCEPT ![n] = events],
           fetched' = [fetched EXCEPT ![n] = got],
           UNCHANGED <<userVars, ctxDone>>,
           shown' \in Requests \cup {None},
           ToldAt(pc, events, got)
    PROVE  PageIInv'
<1>1. TypeOK'
  <2>1. nav' \in [Requests -> [pc : PCs, chain : Seq(Hooks), rest : Seq(Hooks)]]
    BY DEF Moves, Records
  <2> QED
    BY <2>1 DEF PageIInv, TypeOK, userVars
<1>2. Told'
  <2> SUFFICES ASSUME NEW m \in Requests
               PROVE  ToldAt(nav'[m].pc, emitted'[m], fetched'[m])
    BY DEF Told
  <2>1. CASE m = n
    <3>1. nav'[m].pc = pc /\ emitted'[m] = events /\ fetched'[m] = got
      BY <2>1 DEF PageIInv, TypeOK, Moves
    <3> QED
      BY <3>1
  <2>2. CASE m # n
    <3>1. nav'[m] = nav[m] /\ emitted'[m] = emitted[m] /\ fetched'[m] = fetched[m]
      BY <2>2 DEF PageIInv, TypeOK, Moves
    <3> QED
      BY <3>1 DEF PageIInv, Told
  <2> QED
    BY <2>1, <2>2
<1> QED
  BY <1>1, <1>2 DEF PageIInv

-----------------------------------------------------------------------------
(* Each step of Navigate keeps the invariant. *)

(* A step that sends nothing. *)
LEMMA QuietKeeps ==
    ASSUME PageIInv, NEW n \in Requests, NEW pc \in PCs, Moves(n, pc),
           UNCHANGED <<userVars, ctxDone, histVars>>, shown' \in Requests \cup {None},
           ToldAt(pc, emitted[n], fetched[n])
    PROVE  PageIInv'
<1>1. emitted[n] \in Seq(Events) /\ fetched[n] \in {"no", "asked", "answered"}
  BY DEF PageIInv, TypeOK
<1>2. emitted' = [emitted EXCEPT ![n] = emitted[n]] /\ fetched' = [fetched EXCEPT ![n] = fetched[n]]
  BY DEF PageIInv, TypeOK, histVars
<1> QED
  BY <1>1, <1>2, StepKeeps

LEMMA EmitKeeps ==
    ASSUME PageIInv, NEW n \in Requests, NEW from \in PCs, NEW evt \in Events, NEW next \in PCs,
           Emit(n, from, evt, next), ToldAt(next, Append(emitted[n], evt), fetched[n])
    PROVE  PageIInv'
<1> DEFINE events == Append(emitted[n], evt)
<1>1. Moves(n, next) /\ shown' \in Requests \cup {None} /\ UNCHANGED <<userVars, ctxDone>>
  BY GotoMoves DEF Emit, PageIInv, TypeOK
<1>2. events \in Seq(Events) /\ fetched[n] \in {"no", "asked", "answered"}
  BY DEF PageIInv, TypeOK
<1>3. emitted' = [emitted EXCEPT ![n] = events] /\ fetched' = [fetched EXCEPT ![n] = fetched[n]]
  BY DEF Emit, PageIInv, TypeOK
<1>4. ToldAt(next, events, fetched[n])
  OBVIOUS
<1> HIDE DEF events
<1> QED
  BY <1>1, <1>2, <1>3, <1>4, StepKeeps

LEMMA BeginKeeps ==
    ASSUME PageIInv, NEW n \in Requests, Begin(n)
    PROVE  PageIInv'
<1>1. emitted[n] = <<>>
  BY DEF Begin, At, PageIInv, Told, ToldAt
<1>2. shown' \in Requests \cup {None} /\ UNCHANGED <<userVars, ctxDone, histVars>>
  BY DEF Begin, PageIInv, TypeOK
<1>3. Moves(n, "error") \/ Moves(n, "announce")
  <2>1. CASE Goto(n, "error")
    BY <2>1, GotoMoves DEF PageIInv, PCs
  <2>2. CASE nav' = [nav EXCEPT ![n].pc = "announce", ![n].chain = hooks, ![n].rest = hooks]
    BY <2>2, ZenonT(60) DEF PageIInv, TypeOK, Moves, Records, PCs
  <2> QED
    BY <2>1, <2>2 DEF Begin
<1>4. \A pc \in {"error", "announce"} : pc \in PCs /\ ToldAt(pc, emitted[n], fetched[n])
  BY <1>1 DEF ToldAt, PCs
<1> QED
  BY <1>2, <1>3, <1>4, QuietKeeps

LEMMA ResumeKeeps ==
    ASSUME PageIInv, NEW n \in Requests, NEW s \in Stages, NEW result \in Results,
           At(n, s), Resume(n, s, result), UNCHANGED <<userVars, shown, ctxDone, histVars>>
    PROVE  PageIInv'
<1>1. emitted[n] = <<"requestWillBeSent">>
  BY DEF At, PageIInv, Told, ToldAt, Stages
<1>2. PICK pc \in {"fetch", "respond", "fail"} : Moves(n, pc)
  BY ResumeMoves DEF PageIInv
<1>3. pc \in PCs /\ ToldAt(pc, emitted[n], fetched[n])
  BY <1>1 DEF ToldAt, PCs
<1>4. shown' \in Requests \cup {None}
  BY DEF PageIInv, TypeOK
<1> QED
  BY <1>2, <1>3, <1>4, QuietKeeps

LEMMA HookPassesKeeps ==
    ASSUME PageIInv, NEW n \in Requests, NEW s \in Stages, HookPasses(n, s)
    PROVE  PageIInv'
<1>1. nav[n].rest \in Seq(Hooks) /\ nav[n].rest # <<>> /\ nav[n].pc \in PCs
  BY DEF HookPasses, PageIInv, TypeOK
<1>2. Tail(nav[n].rest) \in Seq(Hooks)
  BY <1>1
<1>3. Moves(n, nav[n].pc)
  BY <1>2 DEF HookPasses, PageIInv, TypeOK, Moves, Records
<1>4. ToldAt(nav[n].pc, emitted[n], fetched[n])
  BY DEF PageIInv, Told
<1>5. shown' \in Requests \cup {None} /\ UNCHANGED <<userVars, ctxDone, histVars>>
  BY DEF HookPasses, PageIInv, TypeOK
<1> QED
  BY <1>1, <1>3, <1>4, <1>5, QuietKeeps

LEMMA StartFetchKeeps ==
    ASSUME PageIInv, NEW n \in Requests, StartFetch(n)
    PROVE  PageIInv'
<1>1. emitted[n] = <<"requestWillBeSent">> /\ emitted[n] \in Seq(Events)
  BY DEF StartFetch, At, PageIInv, Told, ToldAt, TypeOK
<1>2. shown' \in Requests \cup {None} /\ UNCHANGED <<userVars, ctxDone, emitted>>
  BY DEF StartFetch, PageIInv, TypeOK
<1>3. CASE Goto(n, "fail") /\ UNCHANGED fetched
  BY <1>1, <1>2, <1>3, GotoMoves, QuietKeeps DEF ToldAt, PCs, histVars, PageIInv
<1>4. CASE Goto(n, "fetching") /\ fetched' = [fetched EXCEPT ![n] = "asked"]
  <2>1. emitted' = [emitted EXCEPT ![n] = emitted[n]]
    BY <1>2 DEF PageIInv, TypeOK
  <2>2. Moves(n, "fetching") /\ "fetching" \in PCs
    BY <1>4, GotoMoves DEF PageIInv, PCs
  <2> QED
    BY <1>1, <1>2, <1>4, <2>1, <2>2, StepKeeps DEF ToldAt
<1> QED
  BY <1>3, <1>4 DEF StartFetch

LEMMA EndFetchKeeps ==
    ASSUME PageIInv, NEW n \in Requests, EndFetch(n)
    PROVE  PageIInv'
<1>1. emitted[n] = <<"requestWillBeSent">> /\ emitted[n] \in Seq(Events)
  BY DEF EndFetch, At, PageIInv, Told, ToldAt, TypeOK
<1>2. shown' \in Requests \cup {None} /\ UNCHANGED <<userVars, ctxDone, emitted>>
  BY DEF EndFetch, PageIInv, TypeOK
<1>3. CASE Goto(n, "fail") /\ UNCHANGED fetched
  BY <1>1, <1>2, <1>3, GotoMoves, QuietKeeps DEF ToldAt, PCs, histVars, PageIInv
<1>4. CASE Goto(n, "decode") /\ fetched' = [fetched EXCEPT ![n] = "answered"]
  <2>1. emitted' = [emitted EXCEPT ![n] = emitted[n]]
    BY <1>2 DEF PageIInv, TypeOK
  <2>2. Moves(n, "decode") /\ "decode" \in PCs
    BY <1>4, GotoMoves DEF PageIInv, PCs
  <2> QED
    BY <1>1, <1>2, <1>4, <2>1, <2>2, StepKeeps DEF ToldAt
<1> QED
  BY <1>3, <1>4 DEF EndFetch

LEMMA DecodeKeeps ==
    ASSUME PageIInv, NEW n \in Requests, Decode(n)
    PROVE  PageIInv'
<1>1. emitted[n] = <<"requestWillBeSent">> /\ fetched[n] = "answered"
  BY DEF Decode, At, PageIInv, Told, ToldAt
<1>2. PICK pc \in {"response", "error"} : Goto(n, pc)
  BY DEF Decode
<1>3. Moves(n, pc) /\ pc \in PCs
  BY <1>2, GotoMoves DEF PageIInv, PCs
<1>4. shown' \in Requests \cup {None} /\ UNCHANGED <<userVars, ctxDone, histVars>>
  BY DEF Decode, PageIInv, TypeOK
<1>5. ToldAt(pc, emitted[n], fetched[n])
  BY <1>1 DEF ToldAt
<1> QED
  BY <1>3, <1>4, <1>5, QuietKeeps

LEMMA StoreKeeps ==
    ASSUME PageIInv, NEW n \in Requests, Store(n)
    PROVE  PageIInv'
<1>1. emitted[n] = Success
  BY DEF Store, At, PageIInv, Told, ToldAt
<1>2. PICK pc \in {"ok", "error"} : Goto(n, pc)
  BY DEF Store
<1>3. Moves(n, pc) /\ pc \in PCs
  BY <1>2, GotoMoves DEF PageIInv, PCs
<1>4. shown' \in Requests \cup {None} /\ UNCHANGED <<userVars, ctxDone, histVars>>
  BY DEF Store, PageIInv, TypeOK
<1>5. ToldAt(pc, emitted[n], fetched[n])
  BY <1>1 DEF ToldAt
<1> QED
  BY <1>3, <1>4, <1>5, QuietKeeps

-----------------------------------------------------------------------------
(* And so do the events that Navigate sends ...                            *)

LEMMA Appends ==
    ASSUME NEW a \in Events, NEW b \in Events, NEW c \in Events
    PROVE  /\ Append(<<a>>, b) = <<a, b>>
           /\ Append(<<a, b>>, c) = <<a, b, c>>
<1>1. <<a>> \in Seq(Events) /\ <<a, b>> \in Seq(Events) /\ <<a, b, c>> \in Seq(Events)
  OBVIOUS
<1>2. Append(<<a>>, b) = <<a, b>>
  <2> DEFINE s == Append(<<a>>, b)
             t == <<a, b>>
  <2>1. s \in Seq(Events) /\ Len(s) = 2 /\ s[1] = a /\ s[2] = b
    BY <1>1, AppendProperties
  <2>2. t \in Seq(Events) /\ Len(t) = 2 /\ t[1] = a /\ t[2] = b
    BY <1>1
  <2> HIDE DEF s, t
  <2>3. \A i \in 1 .. Len(s) : s[i] = t[i]
    BY <2>1, <2>2
  <2>4. s = t
    BY <2>1, <2>2, <2>3, SeqEqual
  <2> QED
    BY <2>4 DEF s, t
<1>3. Append(<<a, b>>, c) = <<a, b, c>>
  <2> DEFINE s == Append(<<a, b>>, c)
             t == <<a, b, c>>
  <2>1. s \in Seq(Events) /\ Len(s) = 3 /\ s[1] = a /\ s[2] = b /\ s[3] = c
    BY <1>1, AppendProperties
  <2>2. t \in Seq(Events) /\ Len(t) = 3 /\ t[1] = a /\ t[2] = b /\ t[3] = c
    BY <1>1
  <2> HIDE DEF s, t
  <2>3. \A i \in 1 .. Len(s) : s[i] = t[i]
    BY <2>1, <2>2
  <2>4. s = t
    BY <2>1, <2>2, <2>3, SeqEqual
  <2> QED
    BY <2>4 DEF s, t
<1> QED
  BY <1>2, <1>3

LEMMA EmitsKeep ==
    ASSUME PageIInv, NEW n \in Requests, RequestWillBeSent(n) \/ Respond(n) \/ Finish(n) \/ Fail(n)
    PROVE  PageIInv'
<1>0. "requestWillBeSent" \in Events /\ "responseReceived" \in Events
      /\ "loadingFinished" \in Events /\ "loadingFailed" \in Events
  BY DEF Events
<1>1. CASE RequestWillBeSent(n)
  <2>0. emitted[n] = <<>>
    BY <1>1 DEF RequestWillBeSent, Emit, At, PageIInv, Told, ToldAt
  <2>1. Append(emitted[n], "requestWillBeSent") = <<"requestWillBeSent">>
    BY <2>0
  <2>2. Emit(n, "announce", "requestWillBeSent", "request")
    BY <1>1 DEF RequestWillBeSent
  <2>3. ToldAt("request", Append(emitted[n], "requestWillBeSent"), fetched[n])
    BY <2>1 DEF ToldAt
  <2>4. "announce" \in PCs /\ "requestWillBeSent" \in Events /\ "request" \in PCs
    BY DEF PCs, Events
  <2> QED
    BY <2>2, <2>3, <2>4, EmitKeeps
<1>2. CASE Respond(n)
  <2>0. emitted[n] = <<"requestWillBeSent">>
    BY <1>2 DEF Respond, Emit, At, PageIInv, Told, ToldAt
  <2>1. Append(emitted[n], "responseReceived") = <<"requestWillBeSent", "responseReceived">>
    BY <1>0, <2>0, Appends, ZenonT(60)
  <2>2. Emit(n, "respond", "responseReceived", "finish")
    BY <1>2 DEF Respond
  <2>3. ToldAt("finish", Append(emitted[n], "responseReceived"), fetched[n])
    BY <2>1 DEF ToldAt
  <2>4. "respond" \in PCs /\ "responseReceived" \in Events /\ "finish" \in PCs
    BY DEF PCs, Events
  <2> QED
    BY <2>2, <2>3, <2>4, EmitKeeps
<1>3. CASE Finish(n)
  <2>0. emitted[n] = <<"requestWillBeSent", "responseReceived">>
    BY <1>3 DEF Finish, Emit, At, PageIInv, Told, ToldAt
  <2>1. Append(emitted[n], "loadingFinished") = Success
    <3>1. Append(<<"requestWillBeSent", "responseReceived">>, "loadingFinished")
            = <<"requestWillBeSent", "responseReceived", "loadingFinished">>
      BY <1>0, Appends, Zenon
    <3> QED
      BY <2>0, <3>1 DEF Success
  <2>2. Emit(n, "finish", "loadingFinished", "store")
    BY <1>3 DEF Finish
  <2>3. ToldAt("store", Append(emitted[n], "loadingFinished"), fetched[n])
    BY <2>1 DEF ToldAt
  <2>4. "finish" \in PCs /\ "loadingFinished" \in Events /\ "store" \in PCs
    BY DEF PCs, Events
  <2> QED
    BY <2>2, <2>3, <2>4, EmitKeeps
<1>4. CASE Fail(n)
  <2>0. emitted[n] = <<"requestWillBeSent">>
    BY <1>4 DEF Fail, Emit, At, PageIInv, Told, ToldAt
  <2>1. Append(emitted[n], "loadingFailed") = Failure
    BY <1>0, <2>0, Appends, ZenonT(60) DEF Failure
  <2>2. Emit(n, "fail", "loadingFailed", "error")
    BY <1>4 DEF Fail
  <2>3. ToldAt("error", Append(emitted[n], "loadingFailed"), fetched[n])
    BY <2>1 DEF ToldAt
  <2>4. "fail" \in PCs /\ "loadingFailed" \in Events /\ "error" \in PCs
    BY DEF PCs, Events
  <2> QED
    BY <2>2, <2>3, <2>4, EmitKeeps
<1> QED
  BY <1>1, <1>2, <1>3, <1>4

(* ... and what the page's users and its context do. *)
LEMMA UseKeeps ==
    ASSUME PageIInv, Use \/ CancelContext \/ \E n \in Requests : MergeCancel(n) \/ CallerCancels(n)
    PROVE  PageIInv'
<1>1. UNCHANGED <<nav, histVars>>
  BY DEF Use, Close, SetRequestInterceptor, BeginRegister, EndRegister,
         CancelContext, MergeCancel, CallerCancels
<1>2. Told'
  BY <1>1 DEF PageIInv, Told, histVars
<1>3. ASSUME NEW hook \in {"onRequest", "onResponse"}
      PROVE  <<hook>> \o hooks \in Seq(Hooks)
  BY DEF PageIInv, TypeOK, Hooks
<1>4. <<"interceptor">> \in Seq(Hooks) /\ <<>> \in Seq(Hooks)
  BY DEF Hooks
<1>5. hooks' \in Seq(Hooks) /\ reg' \subseteq Seq(Hooks)
  BY <1>3, <1>4 DEF PageIInv, TypeOK, Use, Close, SetRequestInterceptor,
                    BeginRegister, EndRegister,
                    CancelContext, MergeCancel, CallerCancels, userVars
<1>6. closed' \in BOOLEAN /\ canceled' \in BOOLEAN /\ shown' \in Requests \cup {None} /\ ctxDone' \subseteq Requests
  BY DEF PageIInv, TypeOK, Use, Close, SetRequestInterceptor, BeginRegister, EndRegister,
         CancelContext, MergeCancel, CallerCancels, userVars
<1>7. TypeOK'
  BY <1>1, <1>5, <1>6 DEF PageIInv, TypeOK, histVars
<1> QED
  BY <1>2, <1>7 DEF PageIInv

LEMMA PageSteps == PageIInv /\ [Next]_pageVars => PageIInv'
<1> SUFFICES ASSUME PageIInv, [Next]_pageVars
             PROVE  PageIInv'
  OBVIOUS
<1>1. ASSUME NEW n \in Requests, Proceed(n)
      PROVE  PageIInv'
  <2>1. ASSUME NEW s \in Stages, HookDecides(n, s)
        PROVE  PageIInv'
    <3>1. PICK result \in Results : Resume(n, s, result)
      BY <2>1 DEF HookDecides, Results, Decisions
    <3> QED
      BY <2>1, <3>1, ResumeKeeps DEF HookDecides
  <2>2. ASSUME NEW s \in Stages, NoHookLeft(n, s)
        PROVE  PageIInv'
    BY <2>2, ResumeKeeps DEF NoHookLeft, Results, Decisions
  <2> QED
    BY <1>1, <2>1, <2>2, EmitsKeep, HookPassesKeeps, StartFetchKeeps, DecodeKeeps,
       StoreKeeps DEF Proceed
<1>2. ASSUME NEW n \in Requests, NEW s \in Stages, NEW result \in Results, InterceptorReturns(n, s, result)
      PROVE  PageIInv'
  BY <1>2, ResumeKeeps DEF InterceptorReturns, Asks
<1>3. CASE UNCHANGED pageVars
  BY <1>3 DEF PageIInv, TypeOK, Told, pageVars
<1> QED
  BY <1>1, <1>2, <1>3, BeginKeeps, EndFetchKeeps, UseKeeps DEF Next, PageStep

-----------------------------------------------------------------------------
LEMMA PageInvariance == Spec => []PageIInv
BY PageInit, PageSteps, PTL DEF Spec

(* Types of the variables of a page. *)
THEOREM PageTypeCorrect == Spec => []TypeOK
<1>1. PageIInv => TypeOK
  BY DEF PageIInv
<1> QED
  BY <1>1, PageInvariance, PTL

(* What Navigate returns agrees with the events it sent, however           *)
(* navigations, registrations, cancellations and a close overlap.          *)
THEOREM ReturnsMatch == Spec => []ReturnMatchesEvents
<1>1. PageIInv => ReturnMatchesEvents
  BY DEF PageIInv, Told, ToldAt, ReturnMatchesEvents, At
<1> QED
  BY <1>1, PageInvariance, PTL

-----------------------------------------------------------------------------
(* Requests and the shown document follow RequestLifecycle.                *)

Phases == [n \in Requests |-> PhaseAfter(emitted[n])]

LEMMA PhaseOf ==
    /\ PhaseAfter(<<>>) = "new"
    /\ PhaseAfter(<<"requestWillBeSent">>) = "sent"
    /\ PhaseAfter(<<"requestWillBeSent", "responseReceived">>) = "received"
    /\ PhaseAfter(Success) = "finished"
    /\ PhaseAfter(Failure) = "failed"
BY DEF PhaseAfter, Success, Failure

(* An event takes its request one phase further. *)
LEMMA EventAdvances ==
    ASSUME PageIInv, NEW n \in Requests, NEW from, NEW to, NEW events,
           emitted' = [emitted EXCEPT ![n] = events], UNCHANGED shown,
           PhaseAfter(emitted[n]) = from, PhaseAfter(events) = to
    PROVE  Lifecycle!Advance(n, from, to)
<1>1. Phases' = [Phases EXCEPT ![n] = to]
  <2>1. ASSUME NEW m \in Requests, m # n PROVE emitted'[m] = emitted[m]
    BY <2>1 DEF PageIInv, TypeOK
  <2>2. emitted'[n] = events
    BY DEF PageIInv, TypeOK
  <2>3. Phases' = [m \in Requests |-> PhaseAfter(emitted'[m])]
    BY DEF Phases
  <2>4. ASSUME NEW m \in Requests
        PROVE  PhaseAfter(emitted'[m]) = IF m = n THEN to ELSE PhaseAfter(emitted[m])
    BY <2>1, <2>2
  <2> QED
    BY <2>3, <2>4 DEF Phases
<1>2. Phases[n] = from
  BY DEF Phases
<1> QED
  BY <1>1, <1>2 DEF Phases, Lifecycle!Advance

LEMMA EmitsAdvance ==
    ASSUME PageIInv, NEW n \in Requests, RequestWillBeSent(n) \/ Respond(n) \/ Finish(n) \/ Fail(n)
    PROVE  Lifecycle!Next
<1>0. "requestWillBeSent" \in Events /\ "responseReceived" \in Events
      /\ "loadingFinished" \in Events /\ "loadingFailed" \in Events
  BY DEF Events
<1>1. CASE RequestWillBeSent(n)
  <2>1. /\ emitted[n] = <<>> /\ UNCHANGED shown
        /\ emitted' = [emitted EXCEPT ![n] = Append(emitted[n], "requestWillBeSent")]
    BY <1>1 DEF RequestWillBeSent, Emit, At, PageIInv, Told, ToldAt
  <2>2. Append(emitted[n], "requestWillBeSent") = <<"requestWillBeSent">>
    BY <2>1
  <2>3. Lifecycle!Advance(n, "new", "sent")
    BY <2>1, <2>2, PhaseOf, EventAdvances
  <2> QED
    BY <2>3 DEF Lifecycle!Next
<1>2. CASE Respond(n)
  <2>1. /\ emitted[n] = <<"requestWillBeSent">> /\ UNCHANGED shown
        /\ emitted' = [emitted EXCEPT ![n] = Append(emitted[n], "responseReceived")]
    BY <1>2 DEF Respond, Emit, At, PageIInv, Told, ToldAt
  <2>2. Append(emitted[n], "responseReceived") = <<"requestWillBeSent", "responseReceived">>
    BY <1>0, <2>1, Appends, ZenonT(60)
  <2>3. Lifecycle!Advance(n, "sent", "received")
    BY <2>1, <2>2, PhaseOf, EventAdvances
  <2> QED
    BY <2>3 DEF Lifecycle!Next
<1>3. CASE Finish(n)
  <2>1. /\ emitted[n] = <<"requestWillBeSent", "responseReceived">> /\ UNCHANGED shown
        /\ emitted' = [emitted EXCEPT ![n] = Append(emitted[n], "loadingFinished")]
    BY <1>3 DEF Finish, Emit, At, PageIInv, Told, ToldAt
  <2>2. Append(emitted[n], "loadingFinished") = Success
    <3>1. Append(<<"requestWillBeSent", "responseReceived">>, "loadingFinished")
            = <<"requestWillBeSent", "responseReceived", "loadingFinished">>
      BY <1>0, Appends, Zenon
    <3> QED
      BY <2>1, <3>1 DEF Success
  <2>3. Lifecycle!Advance(n, "received", "finished")
    BY <2>1, <2>2, PhaseOf, EventAdvances
  <2> QED
    BY <2>3 DEF Lifecycle!Next
<1>4. CASE Fail(n)
  <2>1. /\ emitted[n] = <<"requestWillBeSent">> /\ UNCHANGED shown
        /\ emitted' = [emitted EXCEPT ![n] = Append(emitted[n], "loadingFailed")]
    BY <1>4 DEF Fail, Emit, At, PageIInv, Told, ToldAt
  <2>2. Append(emitted[n], "loadingFailed") = Failure
    BY <1>0, <2>1, Appends, ZenonT(60) DEF Failure
  <2>3. Lifecycle!Advance(n, "sent", "failed")
    BY <2>1, <2>2, PhaseOf, EventAdvances
  <2> QED
    BY <2>3 DEF Lifecycle!Next
<1> QED
  BY <1>1, <1>2, <1>3, <1>4

(* Whatever navigations and users do at the same time, the events of each  *)
(* request come in order and end once, and the page shows the document of  *)
(* a request that has finished, or none.                                   *)
THEOREM LifecycleIsKept == Spec => ImplementsLifecycle
<1>1. Init => Lifecycle!Init
  BY PhaseOf DEF Init, Lifecycle!Init
<1>2. PageIInv /\ [Next]_pageVars => [Lifecycle!Next]_<<Phases, shown>>
  <2> SUFFICES ASSUME PageIInv, [Next]_pageVars
               PROVE  [Lifecycle!Next]_<<Phases, shown>>
    OBVIOUS
  <2>1. CASE UNCHANGED <<emitted, shown>>
    BY <2>1 DEF Phases
  <2>2. ASSUME NEW n \in Requests, Store(n)
        PROVE  Lifecycle!Show(n) \/ UNCHANGED <<emitted, shown>>
    <3>1. emitted[n] = Success /\ UNCHANGED emitted
      BY <2>2 DEF Store, At, PageIInv, Told, ToldAt, histVars
    <3>2. Phases[n] = "finished" /\ UNCHANGED Phases
      BY <3>1, PhaseOf DEF Phases
    <3> QED
      BY <2>2, <3>1, <3>2 DEF Store, Lifecycle!Show, Phases
  <2>3. CASE Close
    <3>1. Lifecycle!Clear
      BY <2>3 DEF Close, histVars, Lifecycle!Clear
    <3> QED
      BY <3>1 DEF Lifecycle!Next
  <2>4. CASE Use
    BY <2>1, <2>3, <2>4 DEF Use, SetRequestInterceptor, BeginRegister, EndRegister, histVars
  <2>5. ASSUME NEW n \in Requests, Proceed(n)
        PROVE  [Lifecycle!Next]_<<Phases, shown>>
    BY <2>1, <2>2, <2>5, EmitsAdvance
       DEF Proceed, HookDecides, HookPasses, NoHookLeft, StartFetch, Decode,
           histVars, Lifecycle!Next
  <2>6. CASE UNCHANGED pageVars
    BY <2>1, <2>6 DEF pageVars
  <2> QED
    BY <2>1, <2>4, <2>5, <2>6
       DEF Next, PageStep, CancelContext, Begin, EndFetch, MergeCancel,
           CallerCancels, InterceptorReturns, histVars
<1>3. Spec => []PageIInv
  BY PageInvariance
<1> QED
  BY <1>1, <1>2, <1>3, PTL DEF Spec, ImplementsLifecycle, Lifecycle!Spec,
                               Lifecycle!lifecycleVars, Phases

-----------------------------------------------------------------------------
(* The two together. *)

(* The inductive invariant.  What it adds to the types and to Told: where   *)
(* Navigate stands tells how far it came with the fetcher and which         *)
(* decisions it may have got.                                               *)
BeforeFetch == {"idle", "announce", "request", "fetch"}
BeforeResult == {"fetching", "decode", "response"}

PlacedAt(pc, got, events, request, response) ==
    /\ pc \in BeforeFetch => got = "no"
    /\ pc \in {"decode", "response"} => got = "answered"
    /\ pc \in BeforeFetch \ {"fetch"} => request = None
    /\ pc \in {"fetch"} \cup BeforeResult => request \in {None, "continue", "override"}
    /\ pc \in BeforeFetch \cup BeforeResult => response = None
    /\ request \in {"fail", "fulfill", "error"} => got = "no"
    /\ "fail" \in {request, response} =>
          \/ pc = "fail"
          \/ pc = "error" /\ events = Failure

Placed(n) ==
    /\ call[n].pc # "out" => Asks(n, call[n].stage)
    /\ PlacedAt(nav[n].pc, fetched[n], emitted[n], outcome[<<n, "request">>], outcome[<<n, "response">>])
    /\ shown = n => At(n, "ok")

AllPlaced == \A n \in Requests : Placed(n)

JointIInv == FetchTypeOK /\ PageIInv /\ AllPlaced

-----------------------------------------------------------------------------
(* Every step of the two is one of each. *)

LEMMA ReturnsResult ==
    ASSUME FetchTypeOK, NEW n \in Requests, CallReturns(n)
    PROVE  \E s \in Stages, result \in Results :
              /\ s = call[n].stage
              /\ InterceptorReturns(n, s, result)
              /\ outcome' = [outcome EXCEPT ![<<n, s>>] = result]
              /\ call' = [call EXCEPT ![n] = NoCall]
              /\ UNCHANGED ctxDone
              /\ ReturnDecision(n) \/ ReturnError(n)
<1>1. call[n] \in Paused
  BY DEF FetchTypeOK
<1>2. CASE ReturnDecision(n) /\ InterceptorReturns(n, call[n].stage, call[n].decision)
  <2>1. call[n].pc = "received"
    BY <1>2 DEF ReturnDecision
  <2>2. call[n].stage \in Stages /\ call[n].decision \in Results
    BY <1>1, <2>1 DEF Paused, NoCall, Results
  <2> QED
    BY <1>2, <2>2 DEF ReturnDecision, Return
<1>3. CASE ReturnError(n) /\ InterceptorReturns(n, call[n].stage, "error")
  <2>1. call[n].pc = "canceled"
    BY <1>3 DEF ReturnError
  <2>2. call[n].stage \in Stages /\ "error" \in Results
    BY <1>1, <2>1 DEF Paused, NoCall, Results
  <2> QED
    BY <1>3, <2>2 DEF ReturnError, Return
<1> QED
  BY <1>2, <1>3 DEF CallReturns

LEMMA JointIsPage ==
    ASSUME FetchTypeOK, [JointNext]_vars
    PROVE  [Next]_pageVars
<1>1. ASSUME NEW n \in Requests, NEW s \in Stages, CallPasses(n, s)
      PROVE  Next
  BY <1>1 DEF CallPasses, Next, Results, Decisions
<1>2. ASSUME NEW n \in Requests, CallReturns(n)
      PROVE  Next
  BY <1>2, ReturnsResult DEF Next
<1>3. ASSUME NEW n \in Requests, NEW s \in Stages, CallPauses(n, s)
      PROVE  UNCHANGED pageVars
  BY <1>3 DEF CallPauses, Pause, pageOnlyVars, pageVars
<1>4. ASSUME NEW n \in Requests, (Announce(n) \/ Receive(n) \/ SeeDone(n)) /\ UNCHANGED pageOnlyVars
      PROVE  UNCHANGED pageVars
  BY <1>4 DEF Announce, Receive, SeeDone, pageOnlyVars, pageVars
<1>5. ASSUME NEW c \in Commands, Client(c)
      PROVE  UNCHANGED pageVars
  BY <1>5 DEF Client, Command, Answer, Enable, Disable, ContinueRequest, ContinueResponse,
              FailRequest, FulfillRequest, FulfillRequestMalformed, Send, pageOnlyVars, pageVars
<1>6. CASE PageStep
  BY <1>6 DEF Next
<1>7. CASE UNCHANGED vars
  BY <1>7 DEF vars, fetchVars, pageOnlyVars, pageVars
<1> QED
  BY <1>1, <1>2, <1>3, <1>4, <1>5, <1>6, <1>7 DEF JointNext, Intercept

(* The page's own steps are for its Fetch domain contexts that are done. *)
LEMMA JointIsFetch ==
    ASSUME [JointNext]_vars
    PROVE  [FetchNext]_fetchVars
<1>1. ASSUME NEW n \in Requests, Intercept(n)
      PROVE  FetchNext
  BY <1>1 DEF Intercept, CallPasses, CallPauses, CallReturns, FetchNext, Wait
<1>2. ASSUME NEW c \in Commands, Client(c)
      PROVE  FetchNext
  BY <1>2 DEF Client, FetchNext
<1>3. CASE PageStep /\ UNCHANGED fetchOnlyVars
  <2>1. ASSUME NEW n \in Requests, MergeCancel(n) \/ CallerCancels(n)
        PROVE  FetchNext
    <3>1. ContextDone(n)
      BY <1>3, <2>1 DEF MergeCancel, CallerCancels, ContextDone, fetchOnlyVars, domainVars
    <3> QED
      BY <3>1 DEF FetchNext
  <2>2. CASE \E n \in Requests : Begin(n) \/ Proceed(n) \/ EndFetch(n)
    <3>1. UNCHANGED ctxDone
      BY <2>2 DEF Begin, Proceed, EndFetch, RequestWillBeSent, Respond, Finish, Fail, Emit,
                  HookDecides, HookPasses, NoHookLeft, StartFetch, Decode, Store
    <3> QED
      BY <1>3, <3>1 DEF fetchOnlyVars, fetchVars
  <2>3. CASE Use \/ CancelContext
    BY <1>3, <2>3 DEF Use, CancelContext, Close, SetRequestInterceptor, BeginRegister,
                      EndRegister, fetchOnlyVars, fetchVars
  <2> QED
    BY <1>3, <2>1, <2>2, <2>3 DEF PageStep
<1>4. CASE UNCHANGED vars
  BY <1>4 DEF vars
<1> QED
  BY <1>1, <1>2, <1>3, <1>4 DEF JointNext

-----------------------------------------------------------------------------
(* One navigation moves, the others stay placed as they are. *)

Outcomes(n) == <<outcome[<<n, "request">>], outcome[<<n, "response">>]>>

LEMMA MovePlaces ==
    ASSUME JointIInv, NEW n \in Requests, NEW pc, NEW got, NEW events,
           nav'[n].pc = pc,
           fetched' = [fetched EXCEPT ![n] = got],
           emitted' = [emitted EXCEPT ![n] = events],
           ~At(n, "ok"),
           shown' = shown \/ (shown' = n /\ pc = "ok"),
           call'[n].pc = "out",
           \A m \in Requests \ {n} :
              nav'[m] = nav[m] /\ call'[m] = call[m] /\ Outcomes(m)' = Outcomes(m),
           PlacedAt(pc, got, events, outcome'[<<n, "request">>], outcome'[<<n, "response">>])
    PROVE  AllPlaced'
<1>0. /\ emitted \in [Requests -> Seq(Events)]
      /\ fetched \in [Requests -> {"no", "asked", "answered"}]
  BY DEF JointIInv, PageIInv, TypeOK
<1>1. fetched'[n] = got /\ emitted'[n] = events
  BY <1>0
<1>2. Placed(n)'
  <2>1. shown # n
    BY DEF JointIInv, AllPlaced, Placed
  <2>2. (shown = n => At(n, "ok"))'
    BY <1>1, <2>1 DEF At
  <2> QED
    BY <1>1, <2>2 DEF Placed
<1>3. ASSUME NEW m \in Requests, m # n
      PROVE  Placed(m)'
  <2>1. nav'[m] = nav[m] /\ fetched'[m] = fetched[m] /\ emitted'[m] = emitted[m] /\ call'[m] = call[m]
    BY <1>0, <1>3
  <2>2. outcome'[<<m, "request">>] = outcome[<<m, "request">>]
        /\ outcome'[<<m, "response">>] = outcome[<<m, "response">>]
    BY <1>3 DEF Outcomes
  <2>3. shown' = m => shown = m
    BY <1>3
  <2>4. Placed(m)
    BY DEF JointIInv, AllPlaced
  <2> QED
    BY <2>1, <2>2, <2>3, <2>4 DEF Placed, Asks, At
<1> QED
  BY <1>2, <1>3 DEF AllPlaced

(* What Navigate does with a decision, taken by a hook (no call of         *)
(* intercept ends) or returned by intercept.                               *)
NextPC(s, result) ==
    CASE result \in {"continue", "override"} -> IF s = "request" THEN "fetch" ELSE "respond"
      [] result = "fulfill" -> "respond"
      [] result \in {"fail", "error"} -> "fail"

LEMMA ResumePlaces ==
    ASSUME NEW s \in Stages, NEW result \in Results, NEW got, NEW events,
           NEW q, NEW r, NEW q1, NEW r1,
           PlacedAt(s, got, events, q, r),
           \/ q1 = q /\ r1 = r
           \/ s = "request" /\ q1 = result /\ r1 = r
           \/ s = "response" /\ q1 = q /\ r1 = result
    PROVE  PlacedAt(NextPC(s, result), got, events, q1, r1)
<1>1. None \notin Results
  BY NoneIsNone
<1>2. CASE s = "request"
  <2>1. got = "no" /\ q = None /\ r = None
    BY <1>2 DEF PlacedAt, BeforeFetch, BeforeResult
  <2>2. CASE result \in {"continue", "override"}
    BY <1>1, <1>2, <2>1, <2>2 DEF PlacedAt, BeforeFetch, BeforeResult, NextPC, Results, Decisions
  <2>3. CASE result = "fulfill"
    BY <1>1, <1>2, <2>1, <2>3 DEF PlacedAt, BeforeFetch, BeforeResult, NextPC, Results, Decisions
  <2>4. CASE result \in {"fail", "error"}
    BY <1>1, <1>2, <2>1, <2>4 DEF PlacedAt, BeforeFetch, BeforeResult, NextPC, Results, Decisions
  <2> QED
    BY <2>2, <2>3, <2>4 DEF Results, Decisions
<1>3. CASE s = "response"
  <2>1. q \in {None, "continue", "override"} /\ r = None
    BY <1>3 DEF PlacedAt, BeforeFetch, BeforeResult
  <2>2. CASE result \in {"continue", "override"}
    BY <1>1, <1>3, <2>1, <2>2 DEF PlacedAt, BeforeFetch, BeforeResult, NextPC, Results, Decisions
  <2>3. CASE result = "fulfill"
    BY <1>1, <1>3, <2>1, <2>3 DEF PlacedAt, BeforeFetch, BeforeResult, NextPC, Results, Decisions
  <2>4. CASE result \in {"fail", "error"}
    BY <1>1, <1>3, <2>1, <2>4 DEF PlacedAt, BeforeFetch, BeforeResult, NextPC, Results, Decisions
  <2> QED
    BY <2>2, <2>3, <2>4 DEF Results, Decisions
<1> QED
  BY <1>2, <1>3 DEF Stages

(* A navigation outside intercept that gets a decision, from whomever. *)
LEMMA DecisionPlaces ==
    ASSUME JointIInv, NEW n \in Requests, NEW s \in Stages, NEW result \in Results,
           At(n, s), Resume(n, s, result), UNCHANGED <<shown, histVars>>,
           call'[n].pc = "out",
           \A m \in Requests \ {n} : call'[m] = call[m],
           UNCHANGED outcome \/ outcome' = [outcome EXCEPT ![<<n, s>>] = result]
    PROVE  AllPlaced'
<1> DEFINE pc == NextPC(s, result)
<1>1. nav \in [Requests -> [pc : PCs, chain : Seq(Hooks), rest : Seq(Hooks)]]
  BY DEF JointIInv, PageIInv, TypeOK, PCs, Hooks
<1>2. nav'[n].pc = pc /\ \A m \in Requests \ {n} : nav'[m] = nav[m]
  BY <1>1 DEF Resume, NextPC
<1>3. fetched' = [fetched EXCEPT ![n] = fetched[n]] /\ emitted' = [emitted EXCEPT ![n] = emitted[n]]
  BY DEF JointIInv, PageIInv, TypeOK, histVars
<1>4. PlacedAt(s, fetched[n], emitted[n], outcome[<<n, "request">>], outcome[<<n, "response">>])
  BY DEF At, JointIInv, AllPlaced, Placed
<1>5. outcome \in [Calls -> Results \cup {None}]
  BY DEF JointIInv, FetchTypeOK
<1>6. \A m \in Requests \ {n} : Outcomes(m)' = Outcomes(m)
  BY <1>5 DEF Outcomes, Calls, Stages
<1>7. LET q == outcome[<<n, "request">>]   q1 == outcome'[<<n, "request">>]
          r == outcome[<<n, "response">>]  r1 == outcome'[<<n, "response">>]
      IN \/ q1 = q /\ r1 = r
         \/ s = "request" /\ q1 = result /\ r1 = r
         \/ s = "response" /\ q1 = q /\ r1 = result
  BY <1>5 DEF Calls, Stages
<1>8. PlacedAt(pc, fetched[n], emitted[n], outcome'[<<n, "request">>], outcome'[<<n, "response">>])
  BY <1>2, <1>4, <1>7, ResumePlaces
<1>9. ~At(n, "ok") /\ (shown' = shown \/ (shown' = n /\ pc = "ok"))
  BY DEF At, Stages
<1>10. \A m \in Requests \ {n} : nav'[m] = nav[m] /\ call'[m] = call[m] /\ Outcomes(m)' = Outcomes(m)
  BY <1>2, <1>6
<1> HIDE DEF pc
<1> QED
  BY <1>2, <1>3, <1>8, <1>9, <1>10, MovePlaces

-----------------------------------------------------------------------------
(* The page's own steps keep everybody placed. *)

LEMMA OutOfIntercept ==
    ASSUME JointIInv, NEW n \in Requests, \A s \in Stages : ~Asks(n, s)
    PROVE  call[n].pc = "out"
<1>1. call[n] \in Paused /\ Placed(n)
  BY DEF JointIInv, FetchTypeOK, AllPlaced
<1>2. call[n].pc # "out" => call[n].stage \in Stages
  BY <1>1 DEF Paused, NoCall
<1> QED
  BY <1>1, <1>2 DEF Placed

LEMMA GotoPlaces ==
    ASSUME JointIInv, NEW n \in Requests, NEW from \in PCs \ Stages, NEW pc, NEW got, NEW events,
           At(n, from), from # "ok",
           nav'[n].pc = pc, \A m \in Requests \ {n} : nav'[m] = nav[m],
           fetched' = [fetched EXCEPT ![n] = got],
           emitted' = [emitted EXCEPT ![n] = events],
           shown' = shown \/ (shown' = n /\ pc = "ok"),
           UNCHANGED fetchOnlyVars,
           PlacedAt(from, fetched[n], emitted[n], outcome[<<n, "request">>], outcome[<<n, "response">>])
              => PlacedAt(pc, got, events, outcome[<<n, "request">>], outcome[<<n, "response">>])
    PROVE  AllPlaced'
<1>1. UNCHANGED <<call, outcome>>
  BY DEF fetchOnlyVars
<1>2. call[n].pc = "out"
  BY OutOfIntercept DEF Asks, At
<1>3. PlacedAt(from, fetched[n], emitted[n], outcome[<<n, "request">>], outcome[<<n, "response">>])
  BY DEF JointIInv, AllPlaced, Placed, At
<1>4. ~At(n, "ok")
  BY DEF At
<1>5. call'[n].pc = "out" /\ \A m \in Requests : call'[m] = call[m] /\ Outcomes(m)' = Outcomes(m)
  BY <1>1, <1>2 DEF Outcomes
<1>6. PlacedAt(pc, got, events, outcome'[<<n, "request">>], outcome'[<<n, "response">>])
  BY <1>1, <1>3
<1> QED
  BY <1>4, <1>5, <1>6, MovePlaces

LEMMA PageTypes ==
    ASSUME JointIInv
    PROVE  /\ nav \in [Requests -> [pc : PCs, chain : Seq(Hooks), rest : Seq(Hooks)]]
           /\ emitted \in [Requests -> Seq(Events)]
           /\ fetched \in [Requests -> {"no", "asked", "answered"}]
BY DEF JointIInv, PageIInv, TypeOK, PCs, Hooks, Events

LEMMA QuietPlaces ==
    ASSUME JointIInv, NEW n \in Requests, NEW from \in PCs \ Stages, NEW pc,
           At(n, from), from # "ok",
           nav'[n].pc = pc, \A m \in Requests \ {n} : nav'[m] = nav[m],
           shown' = shown \/ (shown' = n /\ pc = "ok"),
           UNCHANGED <<histVars, fetchOnlyVars>>,
           PlacedAt(from, fetched[n], emitted[n], outcome[<<n, "request">>], outcome[<<n, "response">>])
              => PlacedAt(pc, fetched[n], emitted[n], outcome[<<n, "request">>], outcome[<<n, "response">>])
    PROVE  AllPlaced'
<1>1. fetched' = [fetched EXCEPT ![n] = fetched[n]] /\ emitted' = [emitted EXCEPT ![n] = emitted[n]]
  BY PageTypes DEF histVars
<1>2. UNCHANGED fetchOnlyVars
  OBVIOUS
<1> QED
  BY <1>1, <1>2, GotoPlaces

LEMMA EmitPlaces ==
    ASSUME JointIInv, NEW n \in Requests, NEW from \in PCs \ Stages, NEW evt, NEW next,
           Emit(n, from, evt, next), from # "ok", UNCHANGED fetchOnlyVars,
           PlacedAt(from, fetched[n], emitted[n], outcome[<<n, "request">>], outcome[<<n, "response">>])
              => PlacedAt(next, fetched[n], Append(emitted[n], evt),
                          outcome[<<n, "request">>], outcome[<<n, "response">>])
    PROVE  AllPlaced'
<1>1. At(n, from) /\ shown' = shown
  BY DEF Emit
<1>2. fetched' = [fetched EXCEPT ![n] = fetched[n]]
      /\ emitted' = [emitted EXCEPT ![n] = Append(emitted[n], evt)]
  BY PageTypes DEF Emit
<1>3. nav'[n].pc = next /\ \A m \in Requests \ {n} : nav'[m] = nav[m]
  BY PageTypes DEF Emit, Goto
<1> QED
  BY <1>1, <1>2, <1>3, GotoPlaces

LEMMA FailureEvents == Append(<<"requestWillBeSent">>, "loadingFailed") = Failure
<1> DEFINE e == Append(<<"requestWillBeSent">>, "loadingFailed")
           f == <<"requestWillBeSent", "loadingFailed">>
<1>1. <<"requestWillBeSent">> \in Seq(Events) /\ "loadingFailed" \in Events
  BY DEF Events
<1>2. e \in Seq(Events) /\ Len(e) = 2 /\ e[1] = "requestWillBeSent" /\ e[2] = "loadingFailed"
  BY <1>1, AppendProperties
<1>3. f \in Seq(Events) /\ Len(f) = 2 /\ f[1] = "requestWillBeSent" /\ f[2] = "loadingFailed"
  BY DEF Events
<1> HIDE DEF e, f
<1>4. \A i \in 1 .. Len(e) : e[i] = f[i]
  BY <1>2, <1>3
<1>5. e = f
  BY <1>2, <1>3, <1>4, SeqEqual
<1> QED
  BY <1>5 DEF e, f, Failure

LEMMA EventsPlace ==
    ASSUME JointIInv, NEW n \in Requests, UNCHANGED fetchOnlyVars,
           RequestWillBeSent(n) \/ Respond(n) \/ Finish(n) \/ Fail(n)
    PROVE  AllPlaced'
<1> DEFINE request == outcome[<<n, "request">>]
           response == outcome[<<n, "response">>]
<1>0. {"announce", "respond", "finish", "fail"} \subseteq PCs \ Stages
  BY DEF PCs, Stages
<1>1. CASE RequestWillBeSent(n)
  <2>1. PlacedAt("announce", fetched[n], emitted[n], request, response)
          => PlacedAt("request", fetched[n], Append(emitted[n], "requestWillBeSent"), request, response)
    BY NoneIsNone DEF PlacedAt, BeforeFetch, BeforeResult, Results, Decisions
  <2> QED
    BY <1>0, <1>1, <2>1, EmitPlaces DEF RequestWillBeSent
<1>2. CASE Respond(n)
  <2>1. PlacedAt("respond", fetched[n], emitted[n], request, response)
          => PlacedAt("finish", fetched[n], Append(emitted[n], "responseReceived"), request, response)
    BY DEF PlacedAt, BeforeFetch, BeforeResult
  <2> QED
    BY <1>0, <1>2, <2>1, EmitPlaces DEF Respond
<1>3. CASE Finish(n)
  <2>1. PlacedAt("finish", fetched[n], emitted[n], request, response)
          => PlacedAt("store", fetched[n], Append(emitted[n], "loadingFinished"), request, response)
    BY DEF PlacedAt, BeforeFetch, BeforeResult
  <2> QED
    BY <1>0, <1>3, <2>1, EmitPlaces DEF Finish
<1>4. CASE Fail(n)
  <2>1. emitted[n] = <<"requestWillBeSent">>
    BY <1>4 DEF Fail, Emit, At, JointIInv, PageIInv, Told, ToldAt
  <2>2. Append(emitted[n], "loadingFailed") = Failure
    BY <2>1, FailureEvents
  <2>3. PlacedAt("fail", fetched[n], emitted[n], request, response)
          => PlacedAt("error", fetched[n], Append(emitted[n], "loadingFailed"), request, response)
    BY <2>2 DEF PlacedAt, BeforeFetch, BeforeResult
  <2> QED
    BY <1>0, <1>4, <2>3, EmitPlaces DEF Fail
<1> QED
  BY <1>1, <1>2, <1>3, <1>4

LEMMA FetchingPlaces ==
    ASSUME JointIInv, NEW n \in Requests, UNCHANGED fetchOnlyVars,
           Begin(n) \/ StartFetch(n) \/ EndFetch(n) \/ Decode(n) \/ Store(n)
    PROVE  AllPlaced'
<1> DEFINE request == outcome[<<n, "request">>]
           response == outcome[<<n, "response">>]
           Kept(from, pc, got) ==
               PlacedAt(from, fetched[n], emitted[n], request, response)
                  => PlacedAt(pc, got, emitted[n], request, response)
<1>0. {"idle", "fetch", "fetching", "decode", "store"} \subseteq PCs \ Stages
  BY DEF PCs, Stages
<1> USE NoneIsNone DEF PlacedAt, BeforeFetch, BeforeResult, Results, Decisions
<1>1. CASE Begin(n)
  <2>1. PICK pc \in {"error", "announce"} :
          nav'[n].pc = pc /\ \A m \in Requests \ {n} : nav'[m] = nav[m]
    <3>1. CASE Goto(n, "error")
      BY <3>1, PageTypes DEF Goto
    <3>2. CASE nav' = [nav EXCEPT ![n].pc = "announce", ![n].chain = hooks, ![n].rest = hooks]
      BY <3>2, PageTypes
    <3> QED
      BY <1>1, <3>1, <3>2 DEF Begin
  <2>2. Kept("idle", pc, fetched[n])
    BY <2>1
  <2>3. At(n, "idle") /\ shown' = shown /\ UNCHANGED histVars
    BY <1>1 DEF Begin
  <2> QED
    BY <1>0, <2>1, <2>2, <2>3, QuietPlaces
<1>2. CASE StartFetch(n)
  <2>1. At(n, "fetch") /\ shown' = shown /\ emitted' = [emitted EXCEPT ![n] = emitted[n]]
    BY <1>2, PageTypes DEF StartFetch
  <2>2. PICK pc \in {"fail", "fetching"}, got \in {fetched[n], "asked"} :
          /\ Goto(n, pc) /\ fetched' = [fetched EXCEPT ![n] = got]
          /\ got # fetched[n] => pc = "fetching"
    BY <1>2, PageTypes DEF StartFetch
  <2>3. nav'[n].pc = pc /\ \A m \in Requests \ {n} : nav'[m] = nav[m]
    BY <2>2, PageTypes DEF Goto
  <2>4. Kept("fetch", pc, got)
    BY <2>2
  <2> QED
    BY <1>0, <2>1, <2>2, <2>3, <2>4, GotoPlaces
<1>3. CASE EndFetch(n)
  <2>1. At(n, "fetching") /\ shown' = shown /\ emitted' = [emitted EXCEPT ![n] = emitted[n]]
    BY <1>3, PageTypes DEF EndFetch
  <2>2. PICK pc \in {"fail", "decode"}, got \in {fetched[n], "answered"} :
          /\ Goto(n, pc) /\ fetched' = [fetched EXCEPT ![n] = got]
          /\ pc = "decode" => got = "answered"
    BY <1>3, PageTypes DEF EndFetch
  <2>3. nav'[n].pc = pc /\ \A m \in Requests \ {n} : nav'[m] = nav[m]
    BY <2>2, PageTypes DEF Goto
  <2>4. Kept("fetching", pc, got)
    BY <2>2
  <2> QED
    BY <1>0, <2>1, <2>2, <2>3, <2>4, GotoPlaces
<1>4. CASE Decode(n)
  <2>1. At(n, "decode") /\ shown' = shown /\ UNCHANGED histVars
    BY <1>4 DEF Decode
  <2>2. PICK pc \in {"response", "error"} : Goto(n, pc)
    BY <1>4 DEF Decode
  <2>3. nav'[n].pc = pc /\ \A m \in Requests \ {n} : nav'[m] = nav[m]
    BY <2>2, PageTypes DEF Goto
  <2>4. Kept("decode", pc, fetched[n])
    BY <2>2
  <2> QED
    BY <1>0, <2>1, <2>3, <2>4, QuietPlaces
<1>5. CASE Store(n)
  <2>1. At(n, "store") /\ UNCHANGED histVars
    BY <1>5 DEF Store
  <2>2. PICK pc \in {"ok", "error"} :
          Goto(n, pc) /\ (shown' = shown \/ (shown' = n /\ pc = "ok"))
    BY <1>5 DEF Store
  <2>3. nav'[n].pc = pc /\ \A m \in Requests \ {n} : nav'[m] = nav[m]
    BY <2>2, PageTypes DEF Goto
  <2>4. Kept("store", pc, fetched[n])
    BY <2>2
  <2> QED
    BY <1>0, <2>1, <2>2, <2>3, <2>4, QuietPlaces
<1> QED
  BY <1>1, <1>2, <1>3, <1>4, <1>5

LEMMA HooksPlace ==
    ASSUME JointIInv, NEW n \in Requests, NEW s \in Stages, UNCHANGED fetchOnlyVars,
           HookDecides(n, s) \/ HookPasses(n, s) \/ NoHookLeft(n, s)
    PROVE  AllPlaced'
<1>1. At(n, s) /\ shown' = shown /\ UNCHANGED histVars
  BY DEF HookDecides, HookPasses, NoHookLeft
<1>2. call[n].pc = "out"
  <2>1. nav[n].rest = <<>> \/ Head(nav[n].rest) # "interceptor"
    BY DEF HookDecides, HookPasses, NoHookLeft
  <2> QED
    BY <2>1, OutOfIntercept DEF Asks
<1>3. UNCHANGED <<call, outcome>>
  BY DEF fetchOnlyVars
<1>4. CASE HookDecides(n, s) \/ NoHookLeft(n, s)
  <2>1. PICK result \in Results : Resume(n, s, result)
    BY <1>4 DEF HookDecides, NoHookLeft, Results, Decisions
  <2> QED
    BY <1>1, <1>2, <1>3, <2>1, DecisionPlaces
<1>5. CASE HookPasses(n, s)
  <2>1. nav'[n].pc = s /\ \A m \in Requests \ {n} : nav'[m] = nav[m]
    BY <1>1, <1>5, PageTypes DEF HookPasses, At
  <2>2. fetched' = [fetched EXCEPT ![n] = fetched[n]] /\ emitted' = [emitted EXCEPT ![n] = emitted[n]]
    BY <1>1, PageTypes DEF histVars
  <2>3. PlacedAt(s, fetched[n], emitted[n], outcome'[<<n, "request">>], outcome'[<<n, "response">>])
    BY <1>1, <1>3 DEF JointIInv, AllPlaced, Placed, At
  <2>4. ~At(n, "ok")
    BY <1>1 DEF At, Stages
  <2>5. call'[n].pc = "out" /\ \A m \in Requests : call'[m] = call[m] /\ Outcomes(m)' = Outcomes(m)
    BY <1>2, <1>3 DEF Outcomes
  <2> QED
    BY <1>1, <2>1, <2>2, <2>3, <2>4, <2>5, MovePlaces
<1> QED
  BY <1>4, <1>5

(* Nobody's navigation moves: the steps of the page's users, of its        *)
(* context, of the Fetch domain's clients, and those within intercept.     *)
LEMMA StillPlaces ==
    ASSUME JointIInv, UNCHANGED <<nav, histVars, outcome>>,
           shown' = shown \/ shown' = None,
           \A n \in Requests :
              \/ call'[n].pc = call[n].pc /\ call'[n].stage = call[n].stage
              \/ call[n].pc # "out" /\ call'[n].stage = call[n].stage
              \/ Asks(n, call'[n].stage)
    PROVE  AllPlaced'
<1> SUFFICES ASSUME NEW n \in Requests
             PROVE  Placed(n)'
  BY DEF AllPlaced
<1>1. Placed(n)
  BY DEF JointIInv, AllPlaced
<1>2. shown' = n => shown = n
  BY NoneIsNoRequest
<1>3. \A s : Asks(n, s)' = Asks(n, s)
  BY DEF Asks, At
<1>4. call'[n].pc # "out" => Asks(n, call'[n].stage)
  BY <1>1 DEF Placed
<1>5. (call[n].pc # "out" => Asks(n, call[n].stage))'
  BY <1>3, <1>4 DEF Asks, At
<1> QED
  BY <1>1, <1>2, <1>5 DEF Placed, At, histVars

LEMMA PageStepPlaces ==
    ASSUME JointIInv, PageStep, UNCHANGED fetchOnlyVars
    PROVE  AllPlaced'
<1>1. CASE Use \/ CancelContext \/ \E n \in Requests : MergeCancel(n) \/ CallerCancels(n)
  <2>1. UNCHANGED <<nav, histVars>> /\ (shown' = shown \/ shown' = None)
    BY <1>1 DEF Use, Close, SetRequestInterceptor, BeginRegister, EndRegister,
                CancelContext, MergeCancel, CallerCancels
  <2>2. UNCHANGED <<call, outcome>>
    BY DEF fetchOnlyVars
  <2> QED
    BY <2>1, <2>2, StillPlaces
<1>2. ASSUME NEW n \in Requests, Begin(n) \/ Proceed(n) \/ EndFetch(n)
      PROVE  AllPlaced'
  <2>1. CASE RequestWillBeSent(n) \/ Respond(n) \/ Finish(n) \/ Fail(n)
    BY <2>1, EventsPlace
  <2>2. CASE Begin(n) \/ StartFetch(n) \/ EndFetch(n) \/ Decode(n) \/ Store(n)
    BY <2>2, FetchingPlaces
  <2>3. ASSUME NEW s \in Stages, HookDecides(n, s) \/ HookPasses(n, s) \/ NoHookLeft(n, s)
        PROVE  AllPlaced'
    BY <2>3, HooksPlace
  <2> QED
    BY <1>2, <2>1, <2>2, <2>3 DEF Proceed, Stages
<1> QED
  BY <1>1, <1>2 DEF PageStep

LEMMA InterceptPlaces ==
    ASSUME JointIInv, NEW n \in Requests, Intercept(n)
    PROVE  AllPlaced'
<1>0. FetchTypeOK /\ call \in [Requests -> Paused] /\ call[n] \in Paused
  BY DEF JointIInv, FetchTypeOK
<1>1. ASSUME NEW s \in Stages, CallPasses(n, s)
      PROVE  AllPlaced'
  <2>1. outcome' = [outcome EXCEPT ![<<n, s>>] = "continue"] /\ UNCHANGED call /\ call[n].pc = "out"
    BY <1>1 DEF CallPasses, PassThrough
  <2>2. At(n, s) /\ Resume(n, s, "continue") /\ UNCHANGED <<shown, histVars>>
    BY <1>1 DEF CallPasses, InterceptorReturns, Asks
  <2>3. "continue" \in Results
    BY DEF Results, Decisions
  <2> QED
    BY <2>1, <2>2, <2>3, DecisionPlaces
<1>2. CASE CallReturns(n)
  <2>1. PICK s \in Stages, result \in Results :
          /\ InterceptorReturns(n, s, result)
          /\ outcome' = [outcome EXCEPT ![<<n, s>>] = result]
          /\ call' = [call EXCEPT ![n] = NoCall]
    BY <1>0, <1>2, ReturnsResult
  <2>2. At(n, s) /\ Resume(n, s, result) /\ UNCHANGED <<shown, histVars>>
    BY <2>1 DEF InterceptorReturns, Asks
  <2>3. call'[n].pc = "out" /\ \A m \in Requests \ {n} : call'[m] = call[m]
    BY <1>0, <2>1 DEF NoCall
  <2> QED
    BY <2>1, <2>2, <2>3, DecisionPlaces
<1>3. ASSUME NEW s \in Stages, CallPauses(n, s)
      PROVE  AllPlaced'
  <2>1. call' = [call EXCEPT ![n] = [pc |-> "announce", stage |-> s, decision |-> None]]
    BY <1>0, <1>3, PauseCall DEF CallPauses
  <2>2. \A m \in Requests :
          call'[m] = IF m = n THEN [pc |-> "announce", stage |-> s, decision |-> None] ELSE call[m]
    BY <1>0, <2>1
  <2>3. Asks(n, s) /\ UNCHANGED <<nav, histVars, outcome, shown>>
    BY <1>3 DEF CallPauses, Pause, pageOnlyVars, histVars
  <2> QED
    BY <2>2, <2>3, StillPlaces
<1>4. CASE (Announce(n) \/ Receive(n) \/ SeeDone(n)) /\ UNCHANGED pageOnlyVars
  <2>1. call[n].pc # "out" /\ call'[n].stage = call[n].stage
    BY <1>0, <1>4 DEF Announce, Receive, SeeDone, Paused, NoCall
  <2>2. \A m \in Requests \ {n} : call'[m] = call[m]
    BY <1>0, <1>4 DEF Announce, Receive, SeeDone
  <2>3. UNCHANGED <<nav, histVars, outcome, shown>>
    BY <1>4 DEF Announce, Receive, SeeDone, pageOnlyVars, histVars
  <2> QED
    BY <2>1, <2>2, <2>3, StillPlaces
<1> QED
  BY <1>1, <1>2, <1>3, <1>4 DEF Intercept

LEMMA ClientPlaces ==
    ASSUME JointIInv, NEW c \in Commands, Client(c)
    PROVE  AllPlaced'
<1>1. UNCHANGED <<call, outcome>>
  BY DEF Client, Command, Answer, Enable, Disable, ContinueRequest, ContinueResponse,
         FailRequest, FulfillRequest, FulfillRequestMalformed, Send
<1>2. UNCHANGED <<nav, histVars, shown>>
  BY DEF Client, pageOnlyVars, histVars
<1> QED
  BY <1>1, <1>2, StillPlaces

-----------------------------------------------------------------------------
(* The types of FetchDomain and the invariant of the page hold of every    *)
(* behavior of JointSpec: its steps are steps of theirs.                   *)

LEMMA InitJoint == JointInit => FetchTypeOK /\ PageIInv /\ AllPlaced
<1> SUFFICES ASSUME JointInit
             PROVE  FetchTypeOK /\ PageIInv /\ AllPlaced
  OBVIOUS
<1>1. FetchTypeOK
  BY InitIInv DEF JointInit, IInv
<1>2. PageIInv
  BY PageInit DEF JointInit
<1>3. AllPlaced
  <2> SUFFICES ASSUME NEW n \in Requests
               PROVE  Placed(n)
    BY DEF AllPlaced
  <2>1. call[n].pc = "out" /\ outcome[<<n, "request">>] = None /\ outcome[<<n, "response">>] = None
    BY DEF JointInit, FetchInit, NoCall, Calls, Stages
  <2>2. nav[n].pc = "idle" /\ fetched[n] = "no" /\ shown # n
    BY NoneIsNoRequest DEF JointInit, Init, NotStarted
  <2>3. PlacedAt("idle", "no", emitted[n], None, None)
    BY NoneIsNone DEF PlacedAt, BeforeFetch, BeforeResult, Results, Decisions
  <2> QED
    BY <2>1, <2>2, <2>3 DEF Placed
<1> QED
  BY <1>1, <1>2, <1>3

LEMMA StepJoint == JointIInv /\ [JointNext]_vars => JointIInv'
<1> SUFFICES ASSUME JointIInv, [JointNext]_vars
             PROVE  JointIInv'
  OBVIOUS
<1>1. FetchTypeOK'
  BY JointIsFetch, TypeStep DEF JointIInv
<1>2. PageIInv'
  BY JointIsPage, PageSteps DEF JointIInv
<1>3. AllPlaced'
  <2>1. ASSUME NEW n \in Requests, Intercept(n)
        PROVE  AllPlaced'
    BY <2>1, InterceptPlaces
  <2>2. ASSUME NEW c \in Commands, Client(c)
        PROVE  AllPlaced'
    BY <2>2, ClientPlaces
  <2>3. CASE PageStep /\ UNCHANGED fetchOnlyVars
    BY <2>3, PageStepPlaces
  <2>4. CASE UNCHANGED vars
    BY <2>4, StillPlaces DEF vars, fetchVars, pageOnlyVars, histVars
  <2> QED
    BY <2>1, <2>2, <2>3, <2>4 DEF JointNext
<1> QED
  BY <1>1, <1>2, <1>3 DEF JointIInv

LEMMA JointInvariance == JointSpec => []JointIInv
<1>1. JointInit => JointIInv
  BY InitJoint DEF JointIInv
<1> QED
  BY <1>1, StepJoint, PTL DEF JointSpec

-----------------------------------------------------------------------------
(* The Fetch domain behind a page behaves as FetchDomain lets it: whatever *)
(* Navigate, the page's hooks and Close do is a call of intercept or a     *)
(* context that is done.  The theorems above therefore hold of it.         *)
THEOREM FetchDomainIsKept == JointSpec => FetchSpec
<1>1. JointInit => FetchInit
  BY DEF JointInit
<1>2. [JointNext]_vars => [FetchNext]_fetchVars
  BY JointIsFetch
<1> QED
  BY <1>1, <1>2, PTL DEF JointSpec, FetchSpec

(* So no goroutine blocks sending to a paused request, nobody who waits is *)
(* forgotten, and the maps keep nothing behind, whatever pages do.         *)
THEOREM FetchDomainInPlace ==
    JointSpec => [](SendNeverBlocks /\ WaiterHasAnswerer /\ NoLeftovers)
BY FetchDomainIsKept, NoSendBlocks, NobodyForgotten, MapsAreExact, PTL

(* The page in front of the Fetch domain behaves as Page lets it: whatever *)
(* clients and the domain do is at most an interceptor that returns one of *)
(* its results.  This is the safety half of PageIsKept.                    *)
THEOREM PageSafetyIsKept == JointSpec => Spec
<1>1. JointInit => Init
  BY DEF JointInit
<1>2. JointIInv /\ [JointNext]_vars => [Next]_pageVars
  BY JointIsPage DEF JointIInv
<1> QED
  BY <1>1, <1>2, JointInvariance, PTL DEF JointSpec, Spec

(* intercept is called once per stage, in order and never after a decision *)
(* that ended the navigation; and what it pauses is announced, tells       *)
(* nothing more, and is asked of a server in the response stage only.      *)
THEOREM AskedWell == JointSpec => []AskedInPlace
<1>1. JointIInv => AskedInPlace
  <2> SUFFICES ASSUME JointIInv
               PROVE  AskedInPlace
    OBVIOUS
  <2>1. \A n \in Requests : Placed(n)
    BY DEF JointIInv, AllPlaced
  <2>2. ASSUME NEW n \in Requests, NEW s \in Stages, Asks(n, s), call[n].pc = "out"
        PROVE  MayCall(n, s)
    <3>1. nav[n].pc = s
      BY <2>2 DEF Asks, At
    <3>2. CASE s = "request"
      BY <2>1, <2>2, <3>1, <3>2 DEF Placed, PlacedAt, BeforeFetch, BeforeResult, MayCall
    <3>3. CASE s = "response"
      BY <2>1, <2>2, <3>1, <3>3 DEF Placed, PlacedAt, BeforeFetch, BeforeResult, MayCall
    <3> QED
      BY <3>2, <3>3 DEF Stages
  <2>3. ASSUME NEW n \in Requests, Waits(n)
        PROVE  /\ emitted[n] = <<"requestWillBeSent">>
               /\ Asks(n, call[n].stage)
               /\ call[n].stage = "request" <=> fetched[n] = "no"
    <3>1. Asks(n, call[n].stage)
      BY <2>1, <2>3 DEF Placed, Waits
    <3>2. call[n] \in Paused
      BY DEF JointIInv, FetchTypeOK
    <3>3. call[n].stage \in Stages /\ nav[n].pc = call[n].stage
      BY <2>3, <3>1, <3>2 DEF Waits, Paused, NoCall, Asks, At
    <3>4. emitted[n] = <<"requestWillBeSent">>
      BY <3>3 DEF Stages, JointIInv, PageIInv, Told, ToldAt
    <3>5. call[n].stage = "request" <=> fetched[n] = "no"
      BY <2>1, <3>3 DEF Stages, Placed, PlacedAt, BeforeFetch
    <3> QED
      BY <3>1, <3>4, <3>5
  <2> QED
    BY <2>2, <2>3 DEF AskedInPlace, CallsAreExpected, PausedInPlace
<1> QED
  BY <1>1, JointInvariance, PTL

(* Whatever happens to page, domain and context after a client has         *)
(* decided: what it failed or fulfilled in the request stage never reaches *)
(* a server, and what it failed is never shown and ends as failed.         *)
THEOREM DecisionsStand == JointSpec => []DecisionStands
<1>1. JointIInv => DecisionStands
  <2> SUFFICES ASSUME JointIInv, NEW n \in Requests
               PROVE  /\ outcome[<<n, "request">>] \in {"fail", "fulfill", "error"} => fetched[n] = "no"
                      /\ "fail" \in {outcome[<<n, s>>] : s \in Stages} =>
                            /\ shown # n
                            /\ emitted[n] \in {<<"requestWillBeSent">>, Failure}
    BY DEF DecisionStands
  <2>1. Placed(n)
    BY DEF JointIInv, AllPlaced
  <2>2. outcome[<<n, "request">>] \in {"fail", "fulfill", "error"} => fetched[n] = "no"
    BY <2>1 DEF Placed, PlacedAt
  <2>3. ASSUME "fail" \in {outcome[<<n, s>>] : s \in Stages}
        PROVE  /\ shown # n
               /\ emitted[n] \in {<<"requestWillBeSent">>, Failure}
    <3>1. "fail" \in {outcome[<<n, "request">>], outcome[<<n, "response">>]}
      BY <2>3 DEF Stages
    <3>2. nav[n].pc = "fail" \/ (nav[n].pc = "error" /\ emitted[n] = Failure)
      BY <2>1, <3>1 DEF Placed, PlacedAt
    <3>3. nav[n].pc = "fail" => emitted[n] = <<"requestWillBeSent">>
      BY DEF JointIInv, PageIInv, Told, ToldAt
    <3>4. shown # n
      BY <2>1, <3>2 DEF Placed, At
    <3> QED
      BY <3>2, <3>3, <3>4
  <2> QED
    BY <2>2, <2>3
<1> QED
  BY <1>1, JointInvariance, PTL

=============================================================================
