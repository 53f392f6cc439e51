--------------------------- MODULE FetcherProofs ---------------------------
(***************************************************************************)
(* Proofs about Fetcher, for any number of calls, of servers, of answers   *)
(* and of attempts: what requests share stays within its bounds, attempts  *)
(* are made as often as they should, and robots.txt is asked for once and  *)
(* what was read of it obeyed.                                             *)
(***************************************************************************)
EXTENDS Fetcher, SequenceTheorems, WellFoundedInduction, TLAPS

(* What the client's count of redirects lacks to be inductive: as long as  *)
(* no addition was lost, all redirects that were followed were counted.    *)
ClientIInv == ClientTypeOK /\ (~raced => followed <= redirectCount /\ followed <= MaxRedirects)

(* A call, by where it is, and how many bodies it has open. *)
Asked == {Idle.req} \cup UNION {Requests(c) : c \in Calls}
Places == {"idle", "robots", "asking", "send", "sent", "read", "solve", "done"}
CallRecords ==
    [req : Asked, at : Places, tried : Seq(Responses \cup Errors), again : BOOLEAN,
     cancelled : BOOLEAN, answer : Responses \cup {None}, result : Results]

TriesLast(q, x) == Transient(x) => Len(q.tried) = MaxRetries

Underway(q) ==
    /\ q.at # "done" => q.result = None
    /\ q.at \in {"idle", "robots", "asking"} => ~q.again
    /\ q.answer # None => q.at \in {"read", "solve", "done"} \/ q.again
    /\ Len(q.tried) <= MaxRetries /\ \A i \in DOMAIN q.tried : Transient(q.tried[i])
    /\ q.again => q.req.op = "challenge" /\ q.answer \in Responses

Reading(q) ==
    /\ q.at \in {"read", "solve"} => q.answer \in Responses /\ TriesLast(q, q.answer)
    /\ q.at = "read" => q.req.op # "challenge"
    /\ q.at = "solve" => q.req.op = "challenge" /\ ~q.again

Ended(q) ==
    q.at = "done" =>
        /\ ~(q.again /\ q.result = q.answer) => TriesLast(q, q.result)
        /\ q.req.op = "challenge" /\ q.answer # None =>
              IsResponse(q.result) \/ (q.result = "unreadable" /\ ~q.again)

Holding(q, n) ==
    CASE q.at \in {"read", "solve"} -> n = 1
      [] q.at = "done" -> n = 0 \/ (n = 1 /\ q.req.op = "challenge" /\ IsResponse(q.result))
      [] OTHER -> n = 0

Well(q, n) == q \in CallRecords /\ Underway(q) /\ Reading(q) /\ Ended(q) /\ Holding(q, n)

(* A goroutine of hints with a request under way has a hint left.          *)
HintAt(h) == hints[h] \in 0..(MaxHints + 1) /\ (doing[h].at # "none" => hints[h] > 0)

CallsIInv ==
    /\ call \in [Calls -> CallRecords] /\ open \in [Calls -> 0..1]
    /\ \A c \in Calls : Well(call[c], open[c])
HintsIInv == hints \in [HintWorkers -> 0..(MaxHints + 1)] /\ \A h \in HintWorkers : HintAt(h)

(* The holder of the lock asks; an origin that is not in the cache was not *)
(* asked unless the holder of the lock does it.                            *)
Origin(c) == call[c].req.origin
OriginOK(o) ==
    /\ asked[o] \in 0..1
    /\ rules[o] = Unknown /\ asked[o] = 1 => lock \in Calls /\ Origin(lock) = o
RobotsIInv ==
    /\ lock \in Calls \cup {None}
    /\ \A c \in Calls : lock = c <=> call[c].at = "asking"
    /\ asked \in [Origins -> 0..1]
    /\ DOMAIN rules = Origins
    /\ \A o \in Origins : OriginOK(o)

IInv == ClientIInv /\ CallsIInv /\ HintsIInv /\ RobotsIInv

-----------------------------------------------------------------------------
(* The client *)

LEMMA CappedIs ==
    ASSUME NEW n \in Nat
    PROVE  /\ Capped(n) \in 0..(MaxRedirects + 1) /\ Capped(n) <= n
           /\ n <= MaxRedirects + 1 => Capped(n) = n
           /\ n > MaxRedirects => Capped(n) = MaxRedirects + 1
BY RedirectsAssumption DEF Capped, Min

DoingRecords == [at : {"none", "sent", "redirected"}, seen : 0..(MaxRedirects + 1),
                 followed : 0..(MaxRedirects + 1)]

LEMMA AtRestIsDoing == AtRest \in DoingRecords /\ [AtRest EXCEPT !.at = "sent"] \in DoingRecords
BY RedirectsAssumption DEF AtRest, DoingRecords

LEMMA DoingRecord ==
    ASSUME NEW q \in DoingRecords, NEW at \in {"none", "sent", "redirected"},
           NEW n \in 0..(MaxRedirects + 1)
    PROVE  /\ [q EXCEPT !.at = at, !.seen = 0] \in DoingRecords
           /\ [q EXCEPT !.at = at, !.seen = 0].at = at
           /\ [q EXCEPT !.at = at, !.seen = 0, !.followed = n] \in DoingRecords
<1>1. 0 \in 0..(MaxRedirects + 1)
  BY RedirectsAssumption
<1> QED
  BY <1>1 DEF DoingRecords

(* Only the worker that does it is changed, and its request goes on or     *)
(* comes to rest.                                                          *)
LEMMA OneWorker ==
    ASSUME ClientIInv, NEW w \in Workers, NEW d \in DoingRecords,
           doing' = [doing EXCEPT ![w] = d]
    PROVE  /\ doing' \in [Workers -> DoingRecords] /\ doing'[w] = d
           /\ \A v \in Workers : v # w => doing'[v] = doing[v]
BY DEF ClientIInv, ClientTypeOK, DoingRecords

LEMMA StartsKeeps ==
    ASSUME ClientIInv, NEW w \in Workers, Starts(w)
    PROVE  /\ ClientIInv' /\ doing'[w].at = "sent"
           /\ \A v \in Workers : v # w => doing'[v] = doing[v]
<1>1. [AtRest EXCEPT !.at = "sent"].at = "sent"
  BY DEF AtRest
<1>2. /\ doing' \in [Workers -> DoingRecords] /\ doing'[w].at = "sent"
      /\ \A v \in Workers : v # w => doing'[v] = doing[v]
  BY <1>1, AtRestIsDoing, OneWorker DEF Starts, Do
<1> QED
  BY <1>2 DEF Starts, ClientIInv, ClientTypeOK, DoingRecords

LEMMA ReturnsKeeps ==
    ASSUME ClientIInv, NEW w \in Workers, Returns(w)
    PROVE  /\ ClientIInv' /\ doing[w].at = "sent" /\ doing'[w].at = "none"
           /\ \A v \in Workers : v # w => doing'[v] = doing[v]
<1>1. AtRest.at = "none"
  BY DEF AtRest
<1>2. /\ doing' \in [Workers -> DoingRecords] /\ doing'[w].at = "none"
      /\ \A v \in Workers : v # w => doing'[v] = doing[v]
  BY <1>1, AtRestIsDoing, OneWorker DEF Returns
<1> QED
  BY <1>2 DEF Returns, ClientIInv, ClientTypeOK, DoingRecords

LEMMA ReadCountKeeps ==
    ASSUME ClientIInv, NEW w \in Workers, ReadCount(w)
    PROVE  /\ ClientIInv' /\ doing[w].at = "sent"
           /\ \A v \in Workers : v # w => doing'[v] = doing[v]
<1> DEFINE d == [doing[w] EXCEPT !.at = "redirected", !.seen = redirectCount]
<1>1. doing[w] \in DoingRecords /\ redirectCount \in 0..(MaxRedirects + 1)
  BY DEF ClientIInv, ClientTypeOK, DoingRecords
<1>2. d \in DoingRecords
  BY <1>1 DEF DoingRecords
<1>3. doing' = [doing EXCEPT ![w] = d]
  BY DEF ReadCount
<1> HIDE DEF d
<1>4. /\ doing' \in [Workers -> DoingRecords]
      /\ \A v \in Workers : v # w => doing'[v] = doing[v]
  BY <1>2, <1>3, OneWorker
<1> QED
  BY <1>4 DEF ReadCount, ClientIInv, ClientTypeOK, DoingRecords

LEMMA WriteKeeps ==
    ASSUME ClientIInv, NEW w \in Workers, WriteCount(w)
    PROVE  LET n == doing[w].seen
           IN /\ n \in 0..(MaxRedirects + 1) /\ doing[w] \in DoingRecords
              /\ redirectCount' \in 0..(MaxRedirects + 1) /\ raced' \in BOOLEAN
              /\ ~raced' => /\ ~raced /\ redirectCount = n /\ n <= redirectCount'
                            /\ n <= MaxRedirects => redirectCount' = n + 1
<1> DEFINE n == doing[w].seen
<1>1. doing[w] \in DoingRecords /\ n \in 0..(MaxRedirects + 1) /\ raced \in BOOLEAN
  BY DEF ClientIInv, ClientTypeOK, DoingRecords
<1>2. redirectCount' = Capped(n + 1) /\ raced' = (raced \/ redirectCount # n)
  BY DEF WriteCount
<1> HIDE DEF n
<1>3. n \in Nat /\ n + 1 \in Nat /\ n <= MaxRedirects + 1 /\ MaxRedirects \in Nat
  BY <1>1, RedirectsAssumption
<1>4. /\ Capped(n + 1) \in 0..(MaxRedirects + 1)
      /\ n + 1 <= MaxRedirects + 1 => Capped(n + 1) = n + 1
      /\ n + 1 > MaxRedirects => Capped(n + 1) = MaxRedirects + 1
  BY <1>3, CappedIs
<1>5. n <= Capped(n + 1) /\ (n <= MaxRedirects => Capped(n + 1) = n + 1)
  BY <1>3, <1>4
<1> QED
  BY <1>1, <1>2, <1>4, <1>5 DEF n

LEMMA FollowKeeps ==
    ASSUME ClientIInv, NEW w \in Workers, Follow(w)
    PROVE  /\ ClientIInv' /\ doing[w].at = "redirected"
           /\ \A v \in Workers : v # w => doing'[v] = doing[v]
<1> DEFINE n == doing[w].seen
           d == [doing[w] EXCEPT !.at = "sent", !.seen = 0, !.followed = Capped(@ + 1)]
<1>1. /\ n \in 0..(MaxRedirects + 1) /\ doing[w] \in DoingRecords
      /\ redirectCount' \in 0..(MaxRedirects + 1) /\ raced' \in BOOLEAN
      /\ ~raced' => /\ ~raced /\ redirectCount = n /\ n <= redirectCount'
                    /\ n <= MaxRedirects => redirectCount' = n + 1
  BY WriteKeeps DEF Follow
<1>2. n + 1 <= MaxRedirects
  BY <1>1, RedirectsAssumption DEF Follow, TooMany
<1>3. doing[w].followed \in Nat /\ doing[w].followed + 1 \in Nat
  BY <1>1, RedirectsAssumption DEF DoingRecords
<1>4. Capped(doing[w].followed + 1) \in 0..(MaxRedirects + 1)
  BY <1>3, CappedIs
<1>5. d \in DoingRecords
  <2>1. d = [doing[w] EXCEPT !.at = "sent", !.seen = 0, !.followed = Capped(doing[w].followed + 1)]
    BY <1>1 DEF DoingRecords
  <2> QED
    BY <1>1, <1>4, <2>1, DoingRecord
<1>6. doing' = [doing EXCEPT ![w] = d] /\ followed' = Capped(followed + 1) /\ doing[w].at = "redirected"
  BY DEF Follow, WriteCount
<1> HIDE DEF d, n
<1>7. /\ doing' \in [Workers -> DoingRecords]
      /\ \A v \in Workers : v # w => doing'[v] = doing[v]
  BY <1>5, <1>6, OneWorker
<1>8. followed \in 0..(MaxRedirects + 1) /\ (~raced => followed <= redirectCount)
  BY DEF ClientIInv, ClientTypeOK
<1>9. followed + 1 \in Nat /\ followed' \in 0..(MaxRedirects + 1) /\ followed' <= followed + 1
  <2>1. followed + 1 \in Nat
    BY <1>8, RedirectsAssumption
  <2> QED
    BY <1>6, <2>1, CappedIs
<1>10. ~raced' => followed' <= redirectCount' /\ followed' <= MaxRedirects
  BY <1>1, <1>2, <1>8, <1>9, RedirectsAssumption
<1> QED
  BY <1>1, <1>6, <1>7, <1>9, <1>10 DEF ClientIInv, ClientTypeOK, DoingRecords

LEMMA RefuseKeeps ==
    ASSUME ClientIInv, NEW w \in Workers, Refuse(w)
    PROVE  /\ ClientIInv' /\ doing[w].at = "redirected" /\ doing'[w].at = "none"
           /\ \A v \in Workers : v # w => doing'[v] = doing[v]
<1> DEFINE n == doing[w].seen
           d == [doing[w] EXCEPT !.at = "none", !.seen = 0]
<1>1. /\ n \in 0..(MaxRedirects + 1) /\ doing[w] \in DoingRecords
      /\ redirectCount' \in 0..(MaxRedirects + 1) /\ raced' \in BOOLEAN
      /\ ~raced' => ~raced /\ redirectCount = n /\ n <= redirectCount'
  BY WriteKeeps DEF Refuse
<1>2. d \in DoingRecords /\ d.at = "none"
  BY <1>1, DoingRecord
<1>3. doing' = [doing EXCEPT ![w] = d] /\ UNCHANGED followed /\ doing[w].at = "redirected"
  BY DEF Refuse, WriteCount
<1> HIDE DEF d, n
<1>4. /\ doing' \in [Workers -> DoingRecords] /\ doing'[w].at = "none"
      /\ \A v \in Workers : v # w => doing'[v] = doing[v]
  BY <1>2, <1>3, OneWorker
<1>5. /\ followed \in 0..(MaxRedirects + 1)
      /\ ~raced => followed <= redirectCount /\ followed <= MaxRedirects
  BY DEF ClientIInv, ClientTypeOK
<1>6. ~raced' => followed' <= redirectCount' /\ followed' <= MaxRedirects
  BY <1>1, <1>3, <1>5, RedirectsAssumption
<1> QED
  BY <1>1, <1>3, <1>4, <1>5, <1>6 DEF ClientIInv, ClientTypeOK, DoingRecords

-----------------------------------------------------------------------------
(* Hints *)

LEMMA HintsStay ==
    ASSUME HintsIInv, UNCHANGED hints, NEW w \in Calls,
           \A v \in Workers : v # w => doing'[v] = doing[v]
    PROVE  HintsIInv'
<1>1. \A h \in HintWorkers : h \in Workers /\ h # w
  BY WorkersAreApart
<1> QED
  BY <1>1 DEF HintsIInv, HintAt

LEMMA HintsGoOn ==
    ASSUME HintsIInv, UNCHANGED hints, NEW h \in HintWorkers,
           doing[h].at # "none" \/ hints[h] > 0,
           \A v \in Workers : v # h => doing'[v] = doing[v]
    PROVE  HintsIInv'
<1>1. hints[h] > 0
  BY DEF HintsIInv, HintAt
<1>2. \A g \in HintWorkers : g \in Workers
  BY WorkersAreApart
<1> QED
  BY <1>1, <1>2 DEF HintsIInv, HintAt

LEMMA HintsLeft ==
    ASSUME HintsIInv, NEW c \in Calls, call[c].req.op = "navigate", call[c].req \in Asked,
           NEW n \in 0..(MaxHints + 1), UNCHANGED doing,
           hints' = [hints EXCEPT ![HintsOf(c)] = 1 + Min({n, MaxHints})]
    PROVE  HintsIInv'
<1>2. Min({n, MaxHints}) \in 0..MaxHints
  BY FetcherAssumption DEF Min
<1> DEFINE k == 1 + Min({n, MaxHints})
<1>3. k \in 0..(MaxHints + 1) /\ k > 0
  BY <1>2, FetcherAssumption
<1>4. hints' = [hints EXCEPT ![HintsOf(c)] = k]
  OBVIOUS
<1> HIDE DEF k
<1>5. hints' \in [HintWorkers -> 0..(MaxHints + 1)]
  BY <1>3, <1>4 DEF HintsIInv
<1>6. \A h \in HintWorkers : hints'[h] = hints[h] \/ hints'[h] = k
  BY <1>4 DEF HintsIInv
<1> QED
  BY <1>3, <1>5, <1>6 DEF HintsIInv, HintAt

LEMMA SendHintKeeps ==
    ASSUME IInv, NEW h \in HintWorkers, SendHint(h)
    PROVE  IInv'
<1>1. h \in Workers
  BY WorkersAreApart
<1>2. ClientIInv' /\ \A v \in Workers : v # h => doing'[v] = doing[v]
  BY <1>1, StartsKeeps DEF SendHint, IInv
<1>3. HintsIInv'
  BY <1>2, HintsGoOn DEF SendHint, IInv
<1> QED
  BY <1>2, <1>3 DEF SendHint, IInv, callVars, robotsVars, CallsIInv, RobotsIInv, OriginOK, Origin

LEMMA HintDoneKeeps ==
    ASSUME IInv, NEW h \in HintWorkers, HintDone(h)
    PROVE  IInv'
<1>1. h \in Workers /\ \A g \in HintWorkers : g \in Workers
  BY WorkersAreApart
<1>2. /\ ClientIInv' /\ doing[h].at # "none" /\ doing'[h].at = "none"
      /\ \A v \in Workers : v # h => doing'[v] = doing[v]
  BY <1>1, ReturnsKeeps, RefuseKeeps DEF HintDone, IInv
<1>3. hints[h] \in 1..(MaxHints + 1) /\ hints[h] - 1 \in 0..(MaxHints + 1)
  BY <1>2, FetcherAssumption DEF IInv, HintsIInv, HintAt
<1>4. hints' = [hints EXCEPT ![h] = hints[h] - 1]
  BY DEF HintDone
<1>5. HintsIInv'
  BY <1>1, <1>2, <1>3, <1>4 DEF IInv, HintsIInv, HintAt
<1> QED
  BY <1>2, <1>5 DEF HintDone, IInv, callVars, robotsVars, CallsIInv, RobotsIInv, OriginOK, Origin

LEMMA RedirectedKeeps ==
    ASSUME IInv, NEW w \in Calls \cup HintWorkers, Redirected(w)
    PROVE  IInv'
<1>1. w \in Workers
  BY WorkersAreApart
<1>2. /\ ClientIInv' /\ doing[w].at # "none" /\ UNCHANGED hints
      /\ \A v \in Workers : v # w => doing'[v] = doing[v]
  BY <1>1, ReadCountKeeps, FollowKeeps DEF Redirected, IInv
<1>3. HintsIInv'
  BY <1>2, HintsStay, HintsGoOn DEF IInv
<1> QED
  BY <1>2, <1>3 DEF Redirected, IInv, callVars, robotsVars, CallsIInv, RobotsIInv, OriginOK, Origin

-----------------------------------------------------------------------------
(* Calls *)

LEMMA OneCall ==
    ASSUME CallsIInv, NEW c \in Calls, NEW q, NEW n, Well(q, n),
           call' = [call EXCEPT ![c] = q], open' = [open EXCEPT ![c] = n]
    PROVE  CallsIInv' /\ call'[c] = q /\ \A d \in Calls : d # c => call'[d] = call[d]
<1>1. q \in CallRecords /\ n \in 0..1
  BY DEF Well, Holding
<1> QED
  BY <1>1 DEF CallsIInv

LEMMA NotAsking ==
    ASSUME RobotsIInv, NEW c \in Calls, UNCHANGED robotsVars,
           call[c].at # "asking", call'[c].at # "asking",
           \A d \in Calls : d # c => call'[d] = call[d]
    PROVE  RobotsIInv'
<1>1. lock # c
  BY DEF RobotsIInv
<1> QED
  BY <1>1 DEF RobotsIInv, robotsVars, OriginOK, Origin

LEMMA KindsOfRequest ==
    /\ Idle.req \in Asked /\ Idle.req.op = None
    /\ \A c \in Calls : Requests(c) \subseteq Asked
    /\ \A req \in Asked : req.op \in Ops \cup {None}
BY RequestsAreSome DEF Asked, Idle, Ops, None

(* Words that are no answer, and none that may pass. *)
LEMMA Words ==
    /\ \A x \in Errors \cup Failures \cup {None} : ~IsResponse(x)
    /\ \A x \in Failures \cup {None} : ~Transient(x)
    /\ Responses \cup Errors \cup Failures \cup {None} = Results
BY AnswersHaveNames DEF IsResponse, Transient, IsRetryable, Errors, Failures, None, Results

LEMMA GoesRecord ==
    ASSUME NEW q \in CallRecords, NEW at \in Places
    PROVE  LET r == [q EXCEPT !.at = at]
           IN /\ r \in CallRecords /\ r.at = at /\ r.req = q.req /\ r.tried = q.tried
              /\ r.again = q.again /\ r.answer = q.answer /\ r.result = q.result
BY DEF CallRecords

LEMMA EndsRecord ==
    ASSUME NEW c \in Calls, call[c] \in CallRecords, NEW x \in Results
    PROVE  LET q == call[c]
               r == Ends(c, x)
           IN /\ r \in CallRecords /\ r.at = "done" /\ r.req = q.req /\ r.tried = q.tried
              /\ r.again = q.again /\ r.answer = q.answer /\ r.result = x
BY DEF Ends, CallRecords, Places

LEMMA IdleRecord == Idle \in CallRecords
<1>1. <<>> \in Seq(Responses \cup Errors) /\ None \in Results /\ Idle.req \in Asked /\ "idle" \in Places
  BY Words DEF Asked, Places
<1> DEFINE e == [op |-> None, origin |-> None, path |-> <<>>, mayCancel |-> FALSE]
<1>2. Idle = [req |-> e, at |-> "idle", tried |-> <<>>, again |-> FALSE, cancelled |-> FALSE,
              answer |-> None, result |-> None]
  BY DEF Idle
<1> HIDE DEF e
<1>3. e \in Asked
  BY <1>1, <1>2
<1> QED
  BY <1>1, <1>2, <1>3 DEF CallRecords

LEMMA BeginsRecord ==
    ASSUME NEW req \in Asked, NEW at \in Places
    PROVE  LET r == [Idle EXCEPT !.req = req, !.at = at]
           IN /\ r \in CallRecords /\ r.at = at /\ r.req = req /\ r.tried = <<>>
              /\ ~r.again /\ r.answer = None /\ r.result = None
<1>1. Idle.tried = <<>> /\ ~Idle.again /\ Idle.answer = None /\ Idle.result = None
  BY DEF Idle
<1> QED
  BY <1>1, IdleRecord DEF CallRecords

LEMMA BeginKeeps ==
    ASSUME IInv, NEW c \in Calls, NEW req \in Requests(c), Begin(c, req)
    PROVE  IInv'
<1> DEFINE at == IF req.op = "load" /\ ObeyRobots THEN "robots" ELSE "send"
           r == [Idle EXCEPT !.req = req, !.at = at]
<1>1. req \in Asked
  BY KindsOfRequest
<1>2. /\ r.req = req /\ r.at = at /\ r.tried = <<>> /\ ~r.again /\ r.answer = None
      /\ r.result = None /\ r \in CallRecords
  <2>1. at \in Places
    BY DEF Places
  <2> HIDE DEF at
  <2> QED
    BY <1>1, <2>1, BeginsRecord, ZenonT(60)
<1>3. call' = [call EXCEPT ![c] = r] /\ UNCHANGED open /\ call[c].at = "idle"
  BY DEF Begin
<1>4. open[c] = 0
  BY <1>3 DEF IInv, CallsIInv, Well, Holding
<1> HIDE DEF r
<1>5. Well(r, 0)
  <2>1. Len(r.tried) = 0 /\ DOMAIN r.tried = {}
    BY <1>2
  <2> QED
    BY <1>2, <2>1, FetcherAssumption DEF Well, Underway, Reading, Ended, Holding
<1>6. open' = [open EXCEPT ![c] = 0]
  BY <1>3, <1>4 DEF IInv, CallsIInv
<1>7. CallsIInv' /\ call'[c] = r /\ \A d \in Calls : d # c => call'[d] = call[d]
  BY <1>3, <1>5, <1>6, OneCall DEF IInv
<1>8. RobotsIInv'
  BY <1>2, <1>3, <1>7, NotAsking DEF Begin, IInv
<1> QED
  BY <1>7, <1>8 DEF Begin, IInv, clientVars, ClientIInv, ClientTypeOK, HintsIInv, HintAt

-----------------------------------------------------------------------------
(* robots.txt *)

(* What the rules say sends the call on or ends it; it had no body open.   *)
LEMMA CheckKeeps ==
    ASSUME CallsIInv, NEW c \in Calls, NEW entry, CheckRobots(c, entry), UNCHANGED open,
           call[c].at \in {"robots", "asking"}
    PROVE  /\ CallsIInv' /\ call'[c].at # "asking"
           /\ \A d \in Calls : d # c => call'[d] = call[d]
<1> DEFINE q == call[c]
           r == IF Allowed(entry, q.req.path) THEN [q EXCEPT !.at = "send"] ELSE Ends(c, "disallowed")
<1>1. Well(q, open[c])
  BY DEF CallsIInv
<1>2. call' = [call EXCEPT ![c] = r]
  BY DEF CheckRobots, CallsIInv
<1>3. open[c] = 0 /\ open' = [open EXCEPT ![c] = 0]
  BY <1>1 DEF Well, Holding, CallsIInv
<1>4. q \in CallRecords /\ "send" \in Places /\ "disallowed" \in Results
  BY <1>1 DEF Well, Places, Results, Failures
<1>0. r = [q EXCEPT !.at = "send"] \/ r = Ends(c, "disallowed")
  OBVIOUS
<1> HIDE DEF r
<1>5. Well(r, 0) /\ r.at # "asking"
  <2>1. CASE r = [q EXCEPT !.at = "send"]
    <3>1. /\ r \in CallRecords /\ r.at = "send" /\ r.req = q.req /\ r.tried = q.tried
          /\ r.again = q.again /\ r.answer = q.answer /\ r.result = q.result
      BY <1>4, <2>1, GoesRecord, Zenon
    <3> QED
      BY <1>1, <3>1 DEF Well, Underway, Reading, Ended, Holding
  <2>2. CASE r = Ends(c, "disallowed")
    <3>1. /\ r \in CallRecords /\ r.at = "done" /\ r.req = q.req /\ r.tried = q.tried
          /\ r.again = q.again /\ r.answer = q.answer /\ r.result = "disallowed"
      BY <1>4, <2>2, EndsRecord, Zenon
    <3>2. ~Transient("disallowed")
      BY Words DEF Failures
    <3>3. q.answer = None
      BY <1>1 DEF Well, Underway
    <3> QED
      BY <1>1, <3>1, <3>2, <3>3 DEF Well, Underway, Reading, Ended, Holding, TriesLast
  <2> QED
    BY <1>0, <2>1, <2>2
<1> QED
  BY <1>2, <1>3, <1>5, OneCall

LEMMA CacheHitKeeps ==
    ASSUME IInv, NEW c \in Calls, CacheHit(c)
    PROVE  IInv'
<1>1. /\ CallsIInv' /\ call'[c].at # "asking"
      /\ \A d \in Calls : d # c => call'[d] = call[d]
  BY CheckKeeps DEF CacheHit, IInv
<1>2. RobotsIInv'
  BY <1>1, NotAsking DEF CacheHit, IInv
<1> QED
  BY <1>1, <1>2 DEF CacheHit, IInv, clientVars, ClientIInv, ClientTypeOK, HintsIInv, HintAt

LEMMA GoesKeeps ==
    ASSUME CallsIInv, NEW c \in Calls, NEW at \in {"asking", "sent"}, Goes(c, at), UNCHANGED open,
           call[c].at \in {"robots", "send"}, at = "asking" => call[c].at = "robots"
    PROVE  /\ CallsIInv' /\ call'[c].at = at /\ call'[c].req = call[c].req
           /\ \A d \in Calls : d # c => call'[d] = call[d]
<1> DEFINE q == call[c]
           r == [q EXCEPT !.at = at]
<1>1. Well(q, open[c])
  BY DEF CallsIInv
<1>2. call' = [call EXCEPT ![c] = r]
  BY DEF Goes, CallsIInv
<1>3. open[c] = 0 /\ open' = [open EXCEPT ![c] = 0]
  BY <1>1 DEF Well, Holding, CallsIInv
<1>4. q \in CallRecords /\ at \in Places
  BY <1>1 DEF Well, Places
<1>5. /\ r \in CallRecords /\ r.at = at /\ r.req = q.req /\ r.tried = q.tried
      /\ r.again = q.again /\ r.answer = q.answer /\ r.result = q.result
  BY <1>4, GoesRecord, Zenon
<1> HIDE DEF r
<1>6. Well(r, 0)
  BY <1>1, <1>5 DEF Well, Underway, Reading, Ended, Holding
<1> QED
  BY <1>2, <1>3, <1>5, <1>6, OneCall

LEMMA AskRobotsKeeps ==
    ASSUME IInv, NEW c \in Calls, AskRobots(c)
    PROVE  IInv'
<1>1. c \in Workers /\ c # None
  BY WorkersAreApart, NoneIsNoCall
<1>2. ClientIInv' /\ \A v \in Workers : v # c => doing'[v] = doing[v]
  BY <1>1, StartsKeeps DEF AskRobots, IInv
<1>3. HintsIInv'
  BY <1>2, HintsStay DEF AskRobots, IInv
<1>4. /\ CallsIInv' /\ call'[c].at = "asking" /\ call'[c].req = call[c].req
      /\ \A d \in Calls : d # c => call'[d] = call[d]
  BY GoesKeeps DEF AskRobots, IInv
<1> DEFINE o == Origin(c)
<1>5. /\ lock = None /\ lock' = c /\ rules[o] = Unknown /\ UNCHANGED rules
      /\ asked' = [asked EXCEPT ![o] = @ + 1]
  BY DEF AskRobots, Origin
<1>6. \A p \in Origins : rules[p] = Unknown => asked[p] = 0
  BY <1>5, NoneIsNoCall DEF IInv, RobotsIInv, OriginOK
<1>7. asked' \in [Origins -> 0..1] /\ \A p \in Origins : p # o => asked'[p] = asked[p]
  <2>1. asked \in [Origins -> 0..1]
    BY DEF IInv, RobotsIInv
  <2>2. \A p \in Origins : asked'[p] = IF p = o THEN 1 ELSE asked[p]
    BY <1>5, <1>6, <2>1
  <2> HIDE DEF o
  <2>3. asked' = [p \in Origins |-> asked'[p]]
    BY <1>5, <2>1
  <2> QED
    BY <2>1, <2>2, <2>3
<1>8. Origin(c)' = o
  BY <1>4 DEF Origin
<1>9. \A p \in Origins : OriginOK(p)'
  BY <1>1, <1>5, <1>6, <1>7, <1>8 DEF OriginOK
<1>10. \A d \in Calls : lock' = d <=> call'[d].at = "asking"
  BY <1>1, <1>4, <1>5, NoneIsNoCall DEF IInv, RobotsIInv
<1>11. RobotsIInv'
  BY <1>5, <1>7, <1>9, <1>10 DEF IInv, RobotsIInv
<1> QED
  BY <1>2, <1>3, <1>4, <1>11 DEF IInv

LEMMA RememberKeeps ==
    ASSUME IInv, NEW c \in Calls, call[c].at = "asking", NEW entry, entry # Unknown,
           Remember(c, entry), Returns(c) \/ Refuse(c)
    PROVE  IInv'
<1>1. c \in Workers /\ lock = c
  BY WorkersAreApart DEF IInv, RobotsIInv
<1>2. ClientIInv' /\ \A v \in Workers : v # c => doing'[v] = doing[v]
  BY <1>1, ReturnsKeeps, RefuseKeeps DEF IInv
<1>3. HintsIInv'
  BY <1>2, HintsStay DEF Remember, IInv
<1>4. /\ CallsIInv' /\ call'[c].at # "asking"
      /\ \A d \in Calls : d # c => call'[d] = call[d]
  BY CheckKeeps DEF Remember, IInv
<1> DEFINE o == Origin(c)
<1>5. /\ rules' = [rules EXCEPT ![o] = entry] /\ lock' = None /\ UNCHANGED asked
  BY DEF Remember, Origin
<1>6. DOMAIN rules' = Origins /\ \A p \in Origins : rules'[p] = Unknown => p # o /\ rules[p] = Unknown
  BY <1>5 DEF IInv, RobotsIInv
<1>7. \A p \in Origins : OriginOK(p)'
  BY <1>1, <1>5, <1>6 DEF IInv, RobotsIInv, OriginOK
<1>8. \A d \in Calls : lock' = d <=> call'[d].at = "asking"
  BY <1>1, <1>4, <1>5, NoneIsNoCall DEF IInv, RobotsIInv
<1>9. RobotsIInv'
  BY <1>5, <1>6, <1>7, <1>8 DEF IInv, RobotsIInv
<1> QED
  BY <1>2, <1>3, <1>4, <1>9 DEF IInv

LEMMA EntriesAreKnown ==
    AllowAll # Unknown /\ \A groups : Entry(groups) # Unknown
<1>1. Unknown.known = FALSE /\ AllowAll.known = TRUE /\ \A groups : Entry(groups).known = TRUE
  BY DEF Unknown, AllowAll, Entry
<1> QED
  BY <1>1

LEMMA RobotsComeKeeps ==
    ASSUME IInv, NEW c \in Calls, RobotsAnswered(c) \/ RobotsRefused(c)
    PROVE  IInv'
BY EntriesAreKnown, RememberKeeps DEF RobotsAnswered, RobotsRefused

-----------------------------------------------------------------------------
(* Attempts *)

LEMMA CancelKeeps ==
    ASSUME IInv, NEW c \in Calls, Cancel(c)
    PROVE  IInv'
<1> DEFINE q == call[c]
           r == [q EXCEPT !.cancelled = TRUE]
<1>1. Well(q, open[c]) /\ q \in CallRecords
  BY DEF IInv, CallsIInv, Well
<1>2. call' = [call EXCEPT ![c] = r] /\ UNCHANGED open
  BY DEF Cancel
<1>3. /\ r \in CallRecords /\ r.at = q.at /\ r.req = q.req /\ r.tried = q.tried
      /\ r.again = q.again /\ r.answer = q.answer /\ r.result = q.result
  BY <1>1 DEF CallRecords
<1> HIDE DEF r
<1>4. Well(r, open[c])
  BY <1>1, <1>3 DEF Well, Underway, Reading, Ended, Holding, TriesLast
<1>5. open' = [open EXCEPT ![c] = open[c]]
  BY <1>2 DEF IInv, CallsIInv
<1>6. CallsIInv' /\ call'[c] = r /\ \A d \in Calls : d # c => call'[d] = call[d]
  BY <1>2, <1>4, <1>5, OneCall DEF IInv
<1>7. RobotsIInv'
  BY <1>3, <1>6 DEF Cancel, IInv, RobotsIInv, robotsVars, OriginOK, Origin
<1> QED
  BY <1>6, <1>7 DEF Cancel, IInv, clientVars, ClientIInv, ClientTypeOK, HintsIInv, HintAt

LEMMA SendKeeps ==
    ASSUME IInv, NEW c \in Calls, Send(c)
    PROVE  IInv'
<1>1. c \in Workers
  BY WorkersAreApart
<1>2. ClientIInv' /\ \A v \in Workers : v # c => doing'[v] = doing[v]
  BY <1>1, StartsKeeps DEF Send, IInv
<1>3. HintsIInv'
  BY <1>2, HintsStay DEF Send, IInv
<1>4. /\ CallsIInv' /\ call'[c].at = "sent"
      /\ \A d \in Calls : d # c => call'[d] = call[d]
  BY GoesKeeps DEF Send, IInv
<1>5. RobotsIInv'
  BY <1>4, NotAsking DEF Send, IInv
<1> QED
  BY <1>2, <1>3, <1>4, <1>5 DEF IInv

LEMMA ReadsRecord ==
    ASSUME NEW q \in CallRecords, NEW at \in Places, NEW x \in Responses
    PROVE  LET r == [q EXCEPT !.at = at, !.answer = x]
           IN /\ r \in CallRecords /\ r.at = at /\ r.req = q.req /\ r.tried = q.tried
              /\ r.again = q.again /\ r.answer = x /\ r.result = q.result
BY DEF CallRecords

(* A fetch that ends with x, which may not pass or was tried enough.       *)
LEMMA ReturnedWell ==
    ASSUME CallsIInv, NEW c \in Calls, call[c].at \in {"send", "sent"},
           NEW x \in Responses \cup Errors \cup Failures, TriesLast(call[c], x)
    PROVE  /\ Well(Returned(c, x), IF IsResponse(x) THEN 1 ELSE 0)
           /\ Returned(c, x).at # "asking"
<1> DEFINE q == call[c]
           n == IF IsResponse(x) THEN 1 ELSE 0
<1>1. PICK r : r = Returned(c, x)
  OBVIOUS
<1>2. /\ q \in CallRecords /\ Underway(q) /\ q.result = None /\ x \in Results
      /\ "read" \in Places /\ "solve" \in Places /\ q.req.op \in Ops \cup {None}
      /\ q.req \in Asked
  BY Words, KindsOfRequest DEF CallsIInv, Well, Underway, CallRecords, Places
<1>3. q.again => q.answer \in Responses /\ q.req.op = "challenge" /\ q.answer \in Results
                   /\ IsResponse(q.answer) /\ q.answer # None
  BY <1>2, Words DEF Underway, IsResponse, Results
<1>4. ~q.again => q.answer = None
  BY <1>2 DEF Underway
<1>5. \/ ~IsResponse(x) /\ ~q.again /\ r = Ends(c, x)
      \/ ~IsResponse(x) /\ q.again /\ r = Ends(c, q.answer)
      \/ IsResponse(x) /\ q.req.op # "challenge" /\ r = [q EXCEPT !.at = "read", !.answer = x]
      \/ IsResponse(x) /\ q.req.op = "challenge" /\ ~q.again /\ r = [q EXCEPT !.at = "solve", !.answer = x]
      \/ IsResponse(x) /\ q.req.op = "challenge" /\ r = Ends(c, x)
  BY <1>1 DEF Returned
<1>6. Len(q.tried) <= MaxRetries /\ \A i \in DOMAIN q.tried : Transient(q.tried[i])
  BY <1>2 DEF Underway
<1>7. CASE r.at = "done"
  <2>1. \A y \in Results : LET e == Ends(c, y)
                           IN /\ e \in CallRecords /\ e.at = "done" /\ e.req = q.req /\ e.tried = q.tried
                              /\ e.again = q.again /\ e.answer = q.answer /\ e.result = y
    BY <1>2, EndsRecord
  <2>2. \A y \in Responses :
            LET a == [q EXCEPT !.at = "read", !.answer = y]
                b == [q EXCEPT !.at = "solve", !.answer = y] IN a.at = "read" /\ b.at = "solve"
    BY <1>2, ReadsRecord, ZenonT(60)
  <2>3. PICK y \in Results :
            /\ r = Ends(c, y)
            /\ \/ ~IsResponse(x) /\ ~q.again /\ y = x
               \/ ~IsResponse(x) /\ q.again /\ y = q.answer
               \/ IsResponse(x) /\ q.req.op = "challenge" /\ y = x
    BY <1>2, <1>3, <1>5, <1>7, <2>2 DEF IsResponse
  <2>4. /\ r \in CallRecords /\ r.at = "done" /\ r.req = q.req /\ r.tried = q.tried
        /\ r.again = q.again /\ r.answer = q.answer /\ r.result = y
    BY <2>1, <2>3
  <2>5. Ended(r)
    BY <1>3, <1>4, <2>3, <2>4 DEF Ended, TriesLast
  <2>6. Holding(r, n)
    BY <2>3, <2>4 DEF Holding
  <2>7. Underway(r)
    BY <1>2, <1>6, <2>4 DEF Underway
  <2> QED
    BY <1>1, <2>4, <2>5, <2>6, <2>7 DEF Well, Reading
<1>8. CASE r.at # "done"
  <2>1. \A y \in Results : Ends(c, y).at = "done"
    BY <1>2, EndsRecord
  <2>2. PICK at \in {"read", "solve"} :
            /\ r = [q EXCEPT !.at = at, !.answer = x] /\ x \in Responses /\ ~q.again
            /\ at = "read" <=> q.req.op # "challenge"
    BY <1>2, <1>3, <1>5, <1>8, <2>1 DEF IsResponse
  <2>3. /\ r \in CallRecords /\ r.at = at /\ r.req = q.req /\ r.tried = q.tried
        /\ r.again = q.again /\ r.answer = x /\ r.result = None
    <3>1. q \in CallRecords /\ at \in Places /\ x \in Responses /\ q.result = None
      BY <1>2, <2>2
    <3> DEFINE e == [q EXCEPT !.at = at, !.answer = x]
    <3>2. /\ e \in CallRecords /\ e.at = at /\ e.req = q.req /\ e.tried = q.tried
          /\ e.again = q.again /\ e.answer = x /\ e.result = q.result
      <4> HIDE DEF q
      <4> QED
        BY <3>1 DEF CallRecords
    <3>3. r = e
      BY <2>2
    <3> HIDE DEF e, q
    <3> QED
      BY <3>1, <3>2, <3>3
  <2>4. Underway(r)
    BY <1>2, <1>6, <2>2, <2>3 DEF Underway
  <2>5. Reading(r)
    BY <2>2, <2>3 DEF Reading, TriesLast
  <2> QED
    BY <1>1, <2>2, <2>3, <2>4, <2>5 DEF Well, Ended, Holding, IsResponse
<1> QED
  BY <1>7, <1>8

(* A call that goes on after its request came to rest, with n bodies.      *)
LEMMA RequestOver ==
    ASSUME IInv, NEW c \in Calls, NEW q, NEW n, Well(q, n), q.at # "asking", call[c].at # "asking",
           call' = [call EXCEPT ![c] = q], open' = [open EXCEPT ![c] = n],
           UNCHANGED <<robotsVars, hints>>,
           UNCHANGED clientVars \/ Returns(c) \/ Refuse(c)
    PROVE  IInv'
<1>1. c \in Workers
  BY WorkersAreApart
<1>2. ClientIInv' /\ \A v \in Workers : v # c => doing'[v] = doing[v]
  <2>1. CASE UNCHANGED clientVars
    BY <2>1 DEF IInv, clientVars, ClientIInv, ClientTypeOK
  <2> QED
    BY <1>1, <2>1, ReturnsKeeps, RefuseKeeps DEF IInv
<1>3. HintsIInv'
  BY <1>2, HintsStay DEF IInv
<1>4. CallsIInv' /\ call'[c] = q /\ \A d \in Calls : d # c => call'[d] = call[d]
  BY OneCall DEF IInv
<1>5. RobotsIInv'
  BY <1>4, NotAsking DEF IInv
<1> QED
  BY <1>2, <1>3, <1>4, <1>5 DEF IInv

LEMMA AnsweredKeeps ==
    ASSUME IInv, NEW c \in Calls, NEW x \in Responses \cup Errors, Answered(c, x)
    PROVE  IInv'
<1> DEFINE q == call[c]
<1>1. /\ Well(q, open[c]) /\ q \in CallRecords /\ q.at = "sent" /\ Underway(q) /\ open[c] = 0
  BY DEF Answered, IInv, CallsIInv, Well, Holding
<1>2. Returns(c) /\ UNCHANGED <<robotsVars, hints>>
  BY DEF Answered
<1>3. Len(q.tried) \in Nat /\ Len(q.tried) <= MaxRetries /\ \A i \in DOMAIN q.tried : Transient(q.tried[i])
  BY <1>1 DEF Underway, CallRecords
<1>4. CASE Retries(c, x)
  <2> DEFINE r == Waits(c, x)
             t == Append(q.tried, x)
  <2>1. call' = [call EXCEPT ![c] = r] /\ open' = [open EXCEPT ![c] = 0]
    BY <1>1, <1>4 DEF Answered, IInv, CallsIInv
  <2>2. t \in Seq(Responses \cup Errors) /\ Len(t) <= MaxRetries /\ \A i \in DOMAIN t : Transient(t[i])
    <3>1. Transient(x) /\ Len(q.tried) + 1 <= MaxRetries /\ q.tried \in Seq(Responses \cup Errors)
      BY <1>1, <1>3, <1>4, FetcherAssumption DEF Retries, CallRecords
    <3>2. /\ t \in Seq(Responses \cup Errors) /\ Len(t) = Len(q.tried) + 1
          /\ \A i \in 1..Len(q.tried) : t[i] = q.tried[i]
          /\ t[Len(q.tried) + 1] = x
      BY <3>1, AppendProperties
    <3> HIDE DEF t
    <3>3. \A i \in DOMAIN t : i \in 1..Len(q.tried) \/ i = Len(q.tried) + 1
      BY <1>3, <3>2
    <3> QED
      BY <1>3, <3>1, <3>2, <3>3
  <2>3. r = [q EXCEPT !.at = "send", !.tried = t]
    BY DEF Waits
  <2> HIDE DEF t, r
  <2>4. /\ r \in CallRecords /\ r.at = "send" /\ r.req = q.req /\ r.tried = t
        /\ r.again = q.again /\ r.answer = q.answer /\ r.result = q.result
    BY <1>1, <2>2, <2>3 DEF CallRecords, Places
  <2>5. Well(r, 0)
    BY <1>1, <2>2, <2>4 DEF Well, Underway, Reading, Ended, Holding
  <2> QED
    BY <1>1, <1>2, <2>1, <2>4, <2>5, RequestOver
<1>5. CASE ~Retries(c, x)
  <2>1. TriesLast(q, x)
    BY <1>3, <1>5, FetcherAssumption DEF Retries, TriesLast
  <2> DEFINE r == Returned(c, x)
             n == IF IsResponse(x) THEN 1 ELSE 0
  <2>2. Well(r, n) /\ r.at # "asking"
    BY <1>1, <2>1, ReturnedWell DEF IInv
  <2>3. call' = [call EXCEPT ![c] = r]
    BY <1>5 DEF Answered
  <2>4. open' = [open EXCEPT ![c] = n]
    BY <1>1, <1>5 DEF Answered, IInv, CallsIInv
  <2> HIDE DEF r, n
  <2> QED
    BY <1>1, <1>2, <2>2, <2>3, <2>4, RequestOver
<1> QED
  BY <1>4, <1>5

LEMMA GivenUpKeeps ==
    ASSUME IInv, NEW c \in Calls, FetchRefused(c) \/ Cancelled(c)
    PROVE  IInv'
<1>1. PICK x \in {"refused", "cancelled"} : call' = [call EXCEPT ![c] = Returned(c, x)]
  BY DEF FetchRefused, Cancelled
<1>2. /\ call[c].at \in {"send", "sent"} /\ UNCHANGED <<robotsVars, hints, open>>
      /\ UNCHANGED clientVars \/ Returns(c) \/ Refuse(c)
  BY DEF FetchRefused, Cancelled
<1>3. ~IsResponse(x) /\ ~Transient(x) /\ x \in Failures
  BY <1>1, Words DEF Failures
<1>4. Well(Returned(c, x), 0) /\ Returned(c, x).at # "asking"
  BY <1>2, <1>3, ReturnedWell DEF IInv, TriesLast
<1>5. open[c] = 0
  BY <1>2 DEF IInv, CallsIInv, Well, Holding
<1>6. open' = [open EXCEPT ![c] = 0]
  BY <1>2, <1>5 DEF IInv, CallsIInv
<1> QED
  BY <1>1, <1>2, <1>4, <1>6, RequestOver

(* What comes of an answer that was read: itself, or an error.             *)
LEMMA AnswerGone ==
    ASSUME CallsIInv, NEW c \in Calls, call[c].at \in {"read", "solve"},
           NEW x \in {call[c].answer, "unreadable"}
    PROVE  Well(Ends(c, x), 0) /\ Ends(c, x).at = "done"
<1> DEFINE q == call[c]
<1>1. /\ q \in CallRecords /\ Underway(q) /\ Reading(q) /\ q.answer \in Responses
  BY DEF CallsIInv, Well, Reading
<1>2. x \in Results /\ (x = "unreadable" => ~Transient(x) /\ ~IsResponse(x) /\ x # q.answer)
  BY <1>1, Words DEF Failures, Results, IsResponse
<1>3. PICK r : r = Ends(c, x)
  OBVIOUS
<1>4. /\ r \in CallRecords /\ r.at = "done" /\ r.req = q.req /\ r.tried = q.tried
      /\ r.again = q.again /\ r.answer = q.answer /\ r.result = x
  BY <1>1, <1>2, <1>3, EndsRecord
<1>5. Underway(r)
  BY <1>1, <1>4 DEF Underway
<1>6. Ended(r)
  BY <1>1, <1>2, <1>4 DEF Ended, TriesLast, Reading, IsResponse
<1> QED
  BY <1>3, <1>4, <1>5, <1>6 DEF Well, Reading, Holding

LEMMA ReadBodyKeeps ==
    ASSUME IInv, NEW c \in Calls, NEW n \in 0..(MaxHints + 1), ReadBody(c, n)
    PROVE  IInv'
<1> DEFINE q == call[c]
<1>1. /\ q.at = "read" /\ open[c] = 1 /\ q.req \in Asked
  BY DEF ReadBody, IInv, CallsIInv, Well, Holding, CallRecords
<1>2. open' = [open EXCEPT ![c] = 0]
  BY <1>1 DEF ReadBody, CloseBody, IInv, CallsIInv
<1>3. PICK x \in {q.answer, "unreadable"} :
        /\ call' = [call EXCEPT ![c] = Ends(c, x)]
        /\ \/ UNCHANGED hints
           \/ /\ q.req.op = "navigate"
              /\ hints' = [hints EXCEPT ![HintsOf(c)] = 1 + Min({n, MaxHints})]
  BY DEF ReadBody
<1>4. Well(Ends(c, x), 0) /\ Ends(c, x).at = "done"
  BY <1>1, AnswerGone DEF IInv
<1>5. ClientIInv' /\ UNCHANGED <<clientVars, robotsVars>>
  BY DEF ReadBody, IInv, clientVars, ClientIInv, ClientTypeOK
<1>6. CallsIInv' /\ call'[c].at # "asking" /\ \A d \in Calls : d # c => call'[d] = call[d]
  BY <1>2, <1>3, <1>4, OneCall DEF IInv
<1>7. RobotsIInv'
  BY <1>1, <1>5, <1>6, NotAsking DEF IInv
<1>8. HintsIInv'
  <2>1. UNCHANGED doing
    BY <1>5 DEF clientVars
  <2>2. CASE UNCHANGED hints
    BY <2>1, <2>2, HintsStay DEF IInv
  <2> QED
    BY <1>1, <1>3, <2>1, <2>2, HintsLeft DEF IInv
<1> QED
  BY <1>5, <1>6, <1>7, <1>8 DEF IInv

LEMMA SolveKeeps ==
    ASSUME IInv, NEW c \in Calls, Solve(c)
    PROVE  IInv'
<1> DEFINE q == call[c]
<1>1. /\ q \in CallRecords /\ Underway(q) /\ Reading(q) /\ q.at = "solve" /\ open[c] = 1
  BY DEF Solve, IInv, CallsIInv, Well, Holding
<1>2. open' = [open EXCEPT ![c] = 0] /\ UNCHANGED <<clientVars, robotsVars, hints>>
  BY <1>1 DEF Solve, CloseBody, IInv, CallsIInv
<1>3. CASE \E x \in {q.answer, "unreadable"} : call' = [call EXCEPT ![c] = Ends(c, x)]
  <2>1. PICK x \in {q.answer, "unreadable"} : call' = [call EXCEPT ![c] = Ends(c, x)]
    BY <1>3
  <2>2. Well(Ends(c, x), 0) /\ Ends(c, x).at = "done"
    BY <1>1, AnswerGone DEF IInv
  <2> QED
    BY <1>1, <1>2, <2>1, <2>2, RequestOver
<1>4. CASE call' = [call EXCEPT ![c] = [q EXCEPT !.at = "send", !.again = TRUE, !.tried = <<>>]]
  <2>1. PICK r : r = [q EXCEPT !.at = "send", !.again = TRUE, !.tried = <<>>]
    OBVIOUS
  <2>2. <<>> \in Seq(Responses \cup Errors) /\ Len(<<>>) = 0 /\ DOMAIN <<>> = {}
    OBVIOUS
  <2>3. /\ r \in CallRecords /\ r.at = "send" /\ r.req = q.req /\ r.tried = <<>>
        /\ r.again = TRUE /\ r.answer = q.answer /\ r.result = q.result
    <3> HIDE DEF q
    <3> QED
      BY <1>1, <2>1, <2>2 DEF CallRecords, Places
  <2>4. Underway(r)
    BY <1>1, <2>2, <2>3, FetcherAssumption DEF Underway, Reading
  <2>5. Well(r, 0)
    BY <2>3, <2>4 DEF Well, Reading, Ended, Holding
  <2> QED
    BY <1>1, <1>2, <1>4, <2>1, <2>3, <2>5, RequestOver
<1> QED
  BY <1>3, <1>4 DEF Solve

-----------------------------------------------------------------------------
(* All steps *)

LEMMA StutterKeeps ==
    ASSUME IInv, UNCHANGED vars
    PROVE  IInv'
<1>1. ClientIInv'
  BY DEF IInv, vars, clientVars, ClientIInv, ClientTypeOK
<1>2. CallsIInv'
  BY DEF IInv, vars, callVars, CallsIInv
<1>3. HintsIInv'
  BY DEF IInv, vars, clientVars, HintsIInv, HintAt
<1>4. RobotsIInv'
  BY DEF IInv, vars, callVars, robotsVars, RobotsIInv, OriginOK, Origin
<1> QED
  BY <1>1, <1>2, <1>3, <1>4 DEF IInv

LEMMA InitIInv == Init => IInv
<1> SUFFICES ASSUME Init PROVE IInv
  OBVIOUS
<1>1. ClientIInv
  <2>1. AtRest \in DoingRecords /\ 0 \in 0..(MaxRedirects + 1)
    BY AtRestIsDoing, RedirectsAssumption
  <2> QED
    <3>1. doing = [w \in Workers |-> AtRest] /\ redirectCount = 0 /\ followed = 0 /\ raced = FALSE
      BY DEF Init, ClientInit
    <3>2. doing \in [Workers -> DoingRecords]
      BY <2>1, <3>1
    <3>3. ClientTypeOK
      BY <2>1, <3>1, <3>2 DEF ClientTypeOK, DoingRecords
    <3>4. followed <= redirectCount /\ followed <= MaxRedirects
      BY <3>1, RedirectsAssumption
    <3> QED
      BY <3>3, <3>4 DEF ClientIInv
<1>2. CallsIInv
  <2>1. Well(Idle, 0)
    <3>1. Idle \in CallRecords
      BY IdleRecord
    <3>2. /\ Idle.at = "idle" /\ Idle.result = None /\ ~Idle.again /\ Idle.answer = None
          /\ Len(Idle.tried) = 0 /\ DOMAIN Idle.tried = {}
      BY DEF Idle
    <3> QED
      BY <3>1, <3>2, FetcherAssumption DEF Well, Underway, Reading, Ended, Holding
  <2> QED
    BY <2>1, IdleRecord DEF Init, CallsIInv
<1>3. HintsIInv
  <2>1. \A h \in HintWorkers : doing[h] = AtRest /\ AtRest.at = "none"
    BY WorkersAreApart DEF Init, ClientInit, AtRest
  <2> QED
    BY <2>1, FetcherAssumption DEF Init, HintsIInv, HintAt
<1>4. RobotsIInv
  <2>1. Idle.at # "asking"
    BY DEF Idle
  <2> QED
    BY <2>1, NoneIsNoCall DEF Init, RobotsIInv, OriginOK
<1> QED
  BY <1>1, <1>2, <1>3, <1>4 DEF IInv

LEMMA NextIInv ==
    ASSUME IInv, [Next]_vars
    PROVE  IInv'
<1>1. ASSUME NEW c \in Calls, NEW req \in Requests(c), Begin(c, req) PROVE IInv'
  BY <1>1, BeginKeeps
<1>2. ASSUME NEW c \in Calls, Cancel(c) PROVE IInv'
  BY <1>2, CancelKeeps
<1>3. ASSUME NEW c \in Calls, Progress(c) PROVE IInv'
  <2>1. ASSUME CacheHit(c) PROVE IInv'
    BY <2>1, CacheHitKeeps
  <2>2. ASSUME AskRobots(c) PROVE IInv'
    BY <2>2, AskRobotsKeeps
  <2>3. ASSUME RobotsAnswered(c) \/ RobotsRefused(c) PROVE IInv'
    BY <2>3, RobotsComeKeeps
  <2>4. ASSUME Send(c) PROVE IInv'
    BY <2>4, SendKeeps
  <2>5. ASSUME NEW x \in Responses \cup Errors, Answered(c, x) PROVE IInv'
    BY <2>5, AnsweredKeeps
  <2>6. ASSUME FetchRefused(c) \/ Cancelled(c) PROVE IInv'
    BY <2>6, GivenUpKeeps
  <2>7. ASSUME NEW n \in 0..(MaxHints + 1), ReadBody(c, n) PROVE IInv'
    BY <2>7, ReadBodyKeeps
  <2>8. ASSUME Solve(c) PROVE IInv'
    BY <2>8, SolveKeeps
  <2>9. ASSUME Redirected(c) PROVE IInv'
    BY <2>9, RedirectedKeeps
  <2> QED
    BY <1>3, <2>1, <2>2, <2>3, <2>4, <2>5, <2>6, <2>7, <2>8, <2>9 DEF Progress
<1>4. ASSUME NEW h \in HintWorkers, HintStep(h) PROVE IInv'
  BY <1>4, SendHintKeeps, HintDoneKeeps, RedirectedKeeps DEF HintStep
<1> QED
  BY <1>1, <1>2, <1>3, <1>4, StutterKeeps DEF Next

LEMMA SpecIInv == Spec => []IInv
BY InitIInv, NextIInv, PTL DEF Spec

(* The count of redirects that all requests share, however their steps     *)
(* interleave, lets no request follow more than MaxRedirects unless an     *)
(* addition was lost; and a body is open only while its call reads it or   *)
(* in the hands of a caller who has an answer to close.                    *)
THEOREM BoundedHolds == Spec => []Bounded
<1>1. IInv => Bounded
  <2> SUFFICES ASSUME IInv PROVE Bounded
    OBVIOUS
  <2>1. TypeOK
    <3>1. \A c \in Calls : call[c] \in CallRecords
      BY DEF IInv, CallsIInv
    <3> QED
      BY <3>1 DEF IInv, ClientIInv, CallsIInv, HintsIInv, RobotsIInv, TypeOK, CallRecords, Places
  <2>2. RedirectsBounded
    BY DEF IInv, ClientIInv, RedirectsBounded
  <2>3. BodiesClosed
    BY DEF IInv, CallsIInv, Well, Holding, BodiesClosed
  <2> QED
    BY <2>1, <2>2, <2>3 DEF Bounded
<1> QED
  BY <1>1, SpecIInv, PTL

(* Only what may pass is tried again, and at most MaxRetries times; a call *)
(* fails with what may pass only when it was tried that often; and who was *)
(* shown a challenge keeps its answer when the attempt to solve it fails.  *)
THEOREM TriedWellHolds == Spec => []TriedWell
<1>1. IInv => TriedWell
  <2> SUFFICES ASSUME IInv, NEW c \in Calls
               PROVE  /\ Len(call[c].tried) <= MaxRetries
                      /\ \A i \in DOMAIN call[c].tried : Transient(call[c].tried[i])
                      /\ Transient(call[c].result) /\ ~(call[c].again /\ call[c].result = call[c].answer) =>
                            Len(call[c].tried) = MaxRetries
                      /\ call[c].at = "done" /\ call[c].req.op = "challenge" /\ call[c].answer # None =>
                            IsResponse(call[c].result) \/ (call[c].result = "unreadable" /\ ~call[c].again)
    BY DEF TriedWell, TriedEnough, FirstAnswerKept
  <2>1. PICK q : q = call[c] /\ Underway(q) /\ Ended(q)
    BY DEF IInv, CallsIInv, Well
  <2>2. ~Transient(None)
    BY Words
  <2> QED
    BY <2>1, <2>2 DEF Underway, Ended, TriesLast
<1> QED
  BY <1>1, SpecIInv, PTL

-----------------------------------------------------------------------------
(* robots.txt *)

(* The library's induction, said of sets of numbers.                       *)
LEMMA Least ==
    ASSUME NEW S \in SUBSET Nat, S # {}
    PROVE  \E n \in S : \A m \in S : n <= m
<1> DEFINE R == OpToRel(<, Nat)
<1>1. \A x, y \in Nat : <<x, y>> \in R <=> x < y
  BY DEF OpToRel
<1>2. IsWellFoundedOn(R, Nat)
  BY NatLessThanWellFounded
<1> HIDE DEF R
<1>3. PICK n \in S : \A m \in S : ~(<<m, n>> \in R)
  BY <1>2, WFMin
<1>4. \A m \in S : ~(m < n) /\ m \in Nat /\ n \in Nat
  BY <1>1, <1>3, Zenon
<1> QED
  BY <1>4, SMT

LEMMA Induct ==
    ASSUME NEW P, 0 \in P, \A n \in Nat : n \in P => n + 1 \in P
    PROVE  Nat \subseteq P
<1> DEFINE S == Nat \ P
<1> SUFFICES ASSUME S # {} PROVE FALSE
  OBVIOUS
<1>1. PICK n \in S : \A m \in S : n <= m
  <2>1. S \in SUBSET Nat
    OBVIOUS
  <2> QED
    BY <2>1, Least
<1>2. n \in Nat /\ n # 0 /\ n \notin P
  BY <1>1
<1>3. n - 1 \in Nat /\ n - 1 + 1 = n /\ n - 1 < n
  BY <1>2
<1>4. n - 1 \in P
  BY <1>1, <1>3
<1> QED
  BY <1>2, <1>3, <1>4

(* What is read of the first n lines, line by line.                        *)
LEMMA ReadIs ==
    ASSUME NEW S, NEW lines \in Seq(S)
    PROVE  /\ Read(lines)[0] = Start
           /\ \A n \in 1..Len(lines) : Read(lines)[n] = AddLine(Read(lines)[n - 1], lines[n])
<1> DEFINE N == Len(lines)
           Upto(g, n) == g[0] = Start /\ \A i \in 1..n : g[i] = AddLine(g[i - 1], lines[i])
           P == {n \in Nat : \E g : Upto(g, n)}
<1>1. 0 \in P
  <2>1. Upto([i \in {0} |-> Start], 0)
    OBVIOUS
  <2> QED
    BY <2>1
<1>2. ASSUME NEW n \in Nat, n \in P PROVE n + 1 \in P
  <2>1. PICK g : Upto(g, n)
    BY <1>2
  <2> DEFINE h == [i \in 0..(n + 1) |-> IF i = n + 1 THEN AddLine(g[n], lines[n + 1]) ELSE g[i]]
  <2>2. h[0] = Start /\ h[n + 1] = AddLine(g[n], lines[n + 1]) /\ \A i \in 0..n : h[i] = g[i]
    BY <2>1
  <2> HIDE DEF h
  <2>3. ASSUME NEW i \in 1..(n + 1) PROVE h[i] = AddLine(h[i - 1], lines[i])
    <3>1. CASE i = n + 1
      <4>1. i - 1 = n /\ n \in 0..n
        BY <3>1
      <4> QED
        BY <2>2, <3>1, <4>1
    <3>2. CASE i # n + 1
      <4>1. i \in 1..n /\ i \in 0..n /\ i - 1 \in 0..n
        BY <3>2
      <4> QED
        BY <2>1, <2>2, <4>1
    <3> QED
      BY <3>1, <3>2
  <2> QED
    BY <2>2, <2>3
<1>3. PICK g : Upto(g, N)
  <2>1. N \in Nat
    OBVIOUS
  <2> HIDE DEF P
  <2>2. N \in P
    BY <1>1, <1>2, <2>1, Induct
  <2> QED
    BY <2>2 DEF P
<1> DEFINE h == [i \in 0..N |-> g[i]]
           F(f) == [n \in 0..N |-> IF n = 0 THEN Start ELSE AddLine(f[n - 1], lines[n])]
<1>4. h = F(h)
  <2>1. ASSUME NEW n \in 0..N PROVE h[n] = IF n = 0 THEN Start ELSE AddLine(h[n - 1], lines[n])
    <3>1. CASE n = 0
      BY <1>3, <3>1
    <3>2. CASE n # 0
      <4>1. n \in 1..N /\ n - 1 \in 0..N
        BY <3>2
      <4> QED
        BY <1>3, <3>2, <4>1
    <3> QED
      BY <3>1, <3>2
  <2> QED
    BY <2>1
<1>5. Read(lines) = CHOOSE f : f = F(f)
  BY DEF Read
<1>6. Read(lines) = F(Read(lines))
  <2> HIDE DEF h, F
  <2> QED
    BY <1>4, <1>5
<1>7. N \in Nat
  OBVIOUS
<1>8. ASSUME NEW n \in 0..N PROVE Read(lines)[n] = IF n = 0 THEN Start ELSE AddLine(Read(lines)[n - 1], lines[n])
  BY <1>6, Zenon
<1> QED
  BY <1>7, <1>8

-----------------------------------------------------------------------------
(* The group that the lines up to n leave open: what stands in them since  *)
(* the last blank line.                                                    *)
Clear(lines, i, n) == \A k \in i..n : lines[k].key # "blank"
AgentIn(lines, i, n) == i \in 1..n /\ lines[i].key = "agent" /\ Clear(lines, i, n)
RuleIn(lines, key, i, n) ==
    /\ i \in 1..n /\ lines[i].key = key /\ lines[i].path # <<>> /\ Clear(lines, i, n)
    /\ \E k \in 1..(i - 1) : AgentIn(lines, k, n)
RulesAt(lines, key, n) == {lines[i].path : i \in {j \in 1..n : RuleIn(lines, key, j, n)}}
AgentsAt(lines, n) == {lines[i].agent : i \in {j \in 1..n : AgentIn(lines, j, n)}}
GroupAt(lines, n) ==
    [agents |-> AgentsAt(lines, n), disallows |-> RulesAt(lines, "disallow", n),
     allows |-> RulesAt(lines, "allow", n)]
OpenAt(lines, n) == \E i \in 1..n : AgentIn(lines, i, n)

LEMMA ClearNext ==
    ASSUME NEW lines, NEW n \in Nat \ {0}, NEW i \in 1..(n - 1)
    PROVE  Clear(lines, i, n) <=> Clear(lines, i, n - 1) /\ lines[n].key # "blank"
<1>1. \A k \in i..n : k = n \/ k \in i..(n - 1)
  OBVIOUS
<1>2. n \in i..n /\ \A k \in i..(n - 1) : k \in i..n
  OBVIOUS
<1> QED
  BY <1>1, <1>2 DEF Clear

LEMMA ClearLast ==
    ASSUME NEW lines, NEW n \in Nat \ {0}
    PROVE  Clear(lines, n, n) <=> lines[n].key # "blank"
BY DEF Clear

LEMMA AgentNext ==
    ASSUME NEW lines, NEW n \in Nat \ {0}, NEW i
    PROVE  AgentIn(lines, i, n) <=>
               \/ AgentIn(lines, i, n - 1) /\ lines[n].key # "blank"
               \/ i = n /\ lines[n].key = "agent"
<1>1. i \in 1..n <=> i \in 1..(n - 1) \/ i = n
  OBVIOUS
<1>2. ~(n \in 1..(n - 1))
  OBVIOUS
<1> QED
  BY <1>1, <1>2, ClearNext, ClearLast DEF AgentIn

LEMMA RuleNext ==
    ASSUME NEW lines, NEW n \in Nat \ {0}, NEW i, NEW key, key # "blank"
    PROVE  RuleIn(lines, key, i, n) <=>
               \/ RuleIn(lines, key, i, n - 1) /\ lines[n].key # "blank"
               \/ i = n /\ lines[n].key = key /\ lines[n].path # <<>> /\ OpenAt(lines, n - 1)
<1>1. i \in 1..n <=> i \in 1..(n - 1) \/ i = n
  OBVIOUS
<1>2. ~(n \in 1..(n - 1))
  OBVIOUS
<1>3. ASSUME i \in 1..(n - 1)
      PROVE  (\E k \in 1..(i - 1) : AgentIn(lines, k, n)) <=>
                 lines[n].key # "blank" /\ \E k \in 1..(i - 1) : AgentIn(lines, k, n - 1)
  <2>1. \A k \in 1..(i - 1) : k # n /\ k \in 1..(n - 1)
    BY <1>3
  <2> QED
    BY <2>1, AgentNext
<1>4. ASSUME i = n, lines[n].key # "blank"
      PROVE  (\E k \in 1..(i - 1) : AgentIn(lines, k, n)) <=> OpenAt(lines, n - 1)
  <2>1. \A k \in 1..(n - 1) : k # n
    OBVIOUS
  <2> QED
    BY <1>4, <2>1, AgentNext DEF OpenAt
<1>5. CASE i \in 1..(n - 1)
  BY <1>1, <1>2, <1>3, <1>5, ClearNext DEF RuleIn
<1>6. CASE i = n
  BY <1>1, <1>2, <1>4, <1>6, ClearLast DEF RuleIn
<1>7. CASE i \notin 1..n
  BY <1>1, <1>7 DEF RuleIn
<1> QED
  BY <1>1, <1>5, <1>6, <1>7

LEMMA OpenNext ==
    ASSUME NEW lines, NEW n \in Nat \ {0}
    PROVE  OpenAt(lines, n) <=>
               lines[n].key = "agent" \/ (OpenAt(lines, n - 1) /\ lines[n].key # "blank")
<1>1. \A i : AgentIn(lines, i, n) => i \in 1..n
  BY DEF AgentIn
<1>2. \A i : AgentIn(lines, i, n - 1) => i \in 1..(n - 1)
  BY DEF AgentIn
<1>3. n \in 1..n
  OBVIOUS
<1> QED
  BY <1>1, <1>2, <1>3, AgentNext DEF OpenAt

LEMMA AgentsNext ==
    ASSUME NEW lines, NEW n \in Nat \ {0}
    PROVE  AgentsAt(lines, n) =
               IF lines[n].key = "blank" THEN {}
               ELSE AgentsAt(lines, n - 1) \cup (IF lines[n].key = "agent" THEN {lines[n].agent} ELSE {})
<1>1. \A x : x \in AgentsAt(lines, n) <=> \E i : AgentIn(lines, i, n) /\ x = lines[i].agent
  BY DEF AgentsAt, AgentIn
<1>2. \A x : x \in AgentsAt(lines, n - 1) <=> \E i : AgentIn(lines, i, n - 1) /\ x = lines[i].agent
  BY DEF AgentsAt, AgentIn
<1>3. \A i : AgentIn(lines, i, n) <=>
                 \/ AgentIn(lines, i, n - 1) /\ lines[n].key # "blank"
                 \/ i = n /\ lines[n].key = "agent"
  BY AgentNext
<1>4. CASE lines[n].key = "blank"
  <2>1. \A x : x \notin AgentsAt(lines, n)
    BY <1>1, <1>3, <1>4
  <2> QED
    BY <1>4, <2>1
<1>5. CASE lines[n].key # "blank"
  <2>1. \A x : x \in AgentsAt(lines, n) <=>
              x \in AgentsAt(lines, n - 1) \/ (lines[n].key = "agent" /\ x = lines[n].agent)
    BY <1>1, <1>2, <1>3, <1>5
  <2> QED
    BY <1>5, <2>1
<1> QED
  BY <1>4, <1>5

LEMMA RulesNext ==
    ASSUME NEW lines, NEW n \in Nat \ {0}, NEW key, key # "blank"
    PROVE  RulesAt(lines, key, n) =
               IF lines[n].key = "blank" THEN {}
               ELSE RulesAt(lines, key, n - 1) \cup
                    (IF lines[n].key = key /\ lines[n].path # <<>> /\ OpenAt(lines, n - 1)
                     THEN {lines[n].path} ELSE {})
<1>1. \A x : x \in RulesAt(lines, key, n) <=> \E i : RuleIn(lines, key, i, n) /\ x = lines[i].path
  BY DEF RulesAt, RuleIn
<1>2. \A x : x \in RulesAt(lines, key, n - 1) <=> \E i : RuleIn(lines, key, i, n - 1) /\ x = lines[i].path
  BY DEF RulesAt, RuleIn
<1>3. \A i : RuleIn(lines, key, i, n) <=>
               \/ RuleIn(lines, key, i, n - 1) /\ lines[n].key # "blank"
               \/ i = n /\ lines[n].key = key /\ lines[n].path # <<>> /\ OpenAt(lines, n - 1)
  BY RuleNext
<1>4. CASE lines[n].key = "blank"
  <2>1. \A x : x \notin RulesAt(lines, key, n)
    BY <1>1, <1>3, <1>4
  <2> QED
    BY <1>4, <2>1
<1>5. CASE lines[n].key # "blank"
  <2>1. \A x : x \in RulesAt(lines, key, n) <=>
              x \in RulesAt(lines, key, n - 1) \/ (lines[n].key = key /\ lines[n].path # <<>> /\ OpenAt(lines, n - 1) /\ x = lines[n].path)
    BY <1>1, <1>2, <1>3, <1>5
  <2> QED
    BY <1>5, <2>1
<1> QED
  BY <1>4, <1>5

-----------------------------------------------------------------------------
(* Where the group stands that counts for an agent: while lines are read,  *)
(* and when the last group was closed.                                     *)
Names(lines, a, i) == lines[i].key = "agent" /\ lines[i].agent = a
GroupsOf(lines) == {GroupAt(lines, n) : n \in Nat}
EndedAt(lines, gs, a, n) ==
    \E b \in 0..n :
        /\ \A i \in (b + 1)..n : Names(lines, a, i) => Clear(lines, i, n)
        /\ b = 0 => LastFor(gs, a) = {}
        /\ b # 0 => lines[b].key = "blank" /\ a \in AgentsAt(lines, b - 1)
                    /\ LastFor(gs, a) = {GroupAt(lines, b - 1)}
LastBlock(lines, gs, a, n) ==
    \E e \in 0..n :
        /\ \A i \in (e + 1)..n : ~Names(lines, a, i)
        /\ e = 0 => LastFor(gs, a) = {}
        /\ e # 0 => a \in AgentsAt(lines, e) /\ LastFor(gs, a) = {GroupAt(lines, e)}
                    /\ (e < n => lines[e + 1].key = "blank")

LEMMA AppendLast ==
    ASSUME NEW G, NEW gs \in Seq(G), NEW g \in G, NEW a
    PROVE  LastFor(Append(gs, g), a) = IF a \in g.agents THEN {g} ELSE LastFor(gs, a)
<1> DEFINE t == Append(gs, g)
           n == Len(gs)
<1>1. n \in Nat /\ DOMAIN gs = 1..n
  OBVIOUS
<1>2. DOMAIN t = 1..(n + 1) /\ t[n + 1] = g /\ \A i \in 1..n : t[i] = gs[i]
  BY AppendProperties
<1> HIDE DEF t, n
<1>3. \A i : i \in NamedIn(t, a) <=> i \in NamedIn(gs, a) \/ (i = n + 1 /\ a \in g.agents)
  <2>1. \A i : i \in 1..(n + 1) <=> i \in 1..n \/ i = n + 1
    BY <1>1
  <2>2. n + 1 \notin 1..n
    BY <1>1
  <2> QED
    BY <1>1, <1>2, <2>1, <2>2 DEF NamedIn
<1>4. \A i \in NamedIn(gs, a) : i \in 1..n
  BY <1>1 DEF NamedIn
<1>5. CASE a \in g.agents
  <2>1. n + 1 \in NamedIn(t, a) /\ \A k \in NamedIn(t, a) : k <= n + 1 /\ k \in Nat
    BY <1>1, <1>3, <1>4, <1>5
  <2>2. {j \in NamedIn(t, a) : \A k \in NamedIn(t, a) : k <= j} = {n + 1}
    BY <1>1, <2>1
  <2>3. LastFor(t, a) = {t[n + 1]}
    BY <2>2 DEF LastFor
  <2> QED
    BY <1>2, <1>5, <2>3 DEF t
<1>6. CASE a \notin g.agents
  <2>1. NamedIn(t, a) = NamedIn(gs, a) /\ \A i \in NamedIn(t, a) : t[i] = gs[i]
    BY <1>2, <1>3, <1>4, <1>6
  <2>2. LastFor(t, a) = LastFor(gs, a)
    BY <2>1 DEF LastFor
  <2> QED
    BY <1>6, <2>2 DEF t
<1> QED
  BY <1>5, <1>6

Acc(gs, isOpen, lines, n) == [groups |-> gs, open |-> isOpen, current |-> GroupAt(lines, n)]

LEMMA NothingOpen ==
    ASSUME NEW lines, NEW n \in Nat, ~OpenAt(lines, n)
    PROVE  GroupAt(lines, n) = NoGroup
<1>1. \A i \in 1..n : ~AgentIn(lines, i, n)
  BY DEF OpenAt
<1>2. \A i \in 1..n : \A key : ~RuleIn(lines, key, i, n)
  <2> SUFFICES ASSUME NEW i \in 1..n, NEW key, RuleIn(lines, key, i, n) PROVE FALSE
    OBVIOUS
  <2>1. PICK k \in 1..(i - 1) : AgentIn(lines, k, n)
    BY DEF RuleIn
  <2>2. k \in 1..n
    OBVIOUS
  <2> QED
    BY <1>1, <2>1, <2>2
<1> QED
  BY <1>1, <1>2 DEF GroupAt, AgentsAt, RulesAt, NoGroup

(* A group is closed: at a blank line, and at the end.                     *)
LEMMA CloseIs ==
    ASSUME NEW lines, NEW n \in Nat, NEW gs \in Seq(GroupsOf(lines)),
           \A a : EndedAt(lines, gs, a, n)
    PROVE  \E t \in Seq(GroupsOf(lines)) :
               /\ Close(Acc(gs, OpenAt(lines, n), lines, n)) = [groups |-> t, open |-> FALSE, current |-> NoGroup]
               /\ \A a : LastBlock(lines, t, a, n)
<1> DEFINE g == GroupAt(lines, n)
           t == IF OpenAt(lines, n) THEN Append(gs, g) ELSE gs
<1>1. g \in GroupsOf(lines)
  BY DEF GroupsOf
<1>2. t \in Seq(GroupsOf(lines))
  BY <1>1
<1>3. Close(Acc(gs, OpenAt(lines, n), lines, n)) = [groups |-> t, open |-> FALSE, current |-> NoGroup]
  <2>1. CASE OpenAt(lines, n)
    BY <2>1 DEF Close, Acc
  <2>2. CASE ~OpenAt(lines, n)
    <3>1. g = NoGroup
      BY <2>2, NothingOpen
    <3>2. OpenAt(lines, n) = FALSE
      BY <2>2, Zenon DEF OpenAt
    <3>3. Acc(gs, OpenAt(lines, n), lines, n) = [groups |-> gs, open |-> FALSE, current |-> NoGroup]
      BY <3>1, <3>2 DEF Acc
    <3> QED
      BY <2>2, <3>3 DEF Close
  <2> QED
    BY <2>1, <2>2
<1>4. ASSUME NEW a PROVE LastBlock(lines, t, a, n)
  <2>1. \A i : i \in 1..n /\ Names(lines, a, i) /\ Clear(lines, i, n) => a \in g.agents /\ OpenAt(lines, n)
    BY DEF Names, GroupAt, AgentsAt, AgentIn, OpenAt
  <2>2. a \in g.agents => OpenAt(lines, n) /\ n # 0
    BY DEF GroupAt, AgentsAt, OpenAt
  <2>3. LastFor(t, a) = IF a \in g.agents THEN {g} ELSE LastFor(gs, a)
    BY <1>1, <2>2, AppendLast
  <2> HIDE DEF t
  <2>4. CASE a \in g.agents
    <3>1. \A i \in (n + 1)..n : ~Names(lines, a, i)
      OBVIOUS
    <3>2. a \in AgentsAt(lines, n) /\ LastFor(t, a) = {GroupAt(lines, n)}
      BY <2>3, <2>4 DEF GroupAt
    <3> QED
      BY <2>2, <2>4, <3>1, <3>2 DEF LastBlock
  <2>5. CASE a \notin g.agents
    <3>1. PICK b \in 0..n :
            /\ \A i \in (b + 1)..n : Names(lines, a, i) => Clear(lines, i, n)
            /\ b = 0 => LastFor(gs, a) = {}
            /\ b # 0 => lines[b].key = "blank" /\ a \in AgentsAt(lines, b - 1)
                        /\ LastFor(gs, a) = {GroupAt(lines, b - 1)}
      BY DEF EndedAt
    <3>2. LastFor(t, a) = LastFor(gs, a)
      BY <2>3, <2>5
    <3>3. \A i \in (b + 1)..n : ~Names(lines, a, i)
      BY <2>1, <2>5, <3>1
    <3>4. CASE b = 0
      BY <3>1, <3>2, <3>3, <3>4 DEF LastBlock
    <3>5. CASE b # 0
      <4>1. b - 1 \in 0..n /\ b - 1 < n /\ b - 1 + 1 = b
        BY <3>5
      <4>2. b - 1 # 0
        BY <3>1, <3>5 DEF AgentsAt
      <4>3. \A i \in b..n : ~Names(lines, a, i)
        BY <3>1, <3>3, <3>5 DEF Names
      <4> QED
        BY <3>1, <3>2, <3>5, <4>1, <4>2, <4>3 DEF LastBlock
    <3> QED
      BY <3>4, <3>5
  <2> QED
    BY <2>4, <2>5
<1> QED
  BY <1>2, <1>3, <1>4

-----------------------------------------------------------------------------
(* What was read of the first n lines.                                     *)
ReadWell(lines, n) ==
    \E gs \in Seq(GroupsOf(lines)) :
        /\ Read(lines)[n] = Acc(gs, OpenAt(lines, n), lines, n)
        /\ \A a : EndedAt(lines, gs, a, n)

LEMMA BlankNext ==
    ASSUME NEW lines, NEW n \in Nat \ {0}, NEW gs \in Seq(GroupsOf(lines)),
           \A a : EndedAt(lines, gs, a, n - 1), lines[n].key = "blank"
    PROVE  \E t \in Seq(GroupsOf(lines)) :
               /\ AddLine(Acc(gs, OpenAt(lines, n - 1), lines, n - 1), lines[n]) = Acc(t, OpenAt(lines, n), lines, n)
               /\ \A a : EndedAt(lines, t, a, n)
<1>1. n - 1 \in Nat
  OBVIOUS
<1>2. PICK t \in Seq(GroupsOf(lines)) :
        /\ Close(Acc(gs, OpenAt(lines, n - 1), lines, n - 1)) = [groups |-> t, open |-> FALSE, current |-> NoGroup]
        /\ \A a : LastBlock(lines, t, a, n - 1)
  BY <1>1, CloseIs
<1>3. OpenAt(lines, n) = FALSE
  <2>1. ~OpenAt(lines, n)
    BY OpenNext
  <2> QED
    BY <2>1, Zenon DEF OpenAt
<1>4. GroupAt(lines, n) = NoGroup
  BY <1>3, NothingOpen
<1>5. ASSUME NEW a PROVE EndedAt(lines, t, a, n)
  <2>1. PICK e \in 0..(n - 1) :
          /\ \A i \in (e + 1)..(n - 1) : ~Names(lines, a, i)
          /\ e = 0 => LastFor(t, a) = {}
          /\ e # 0 => a \in AgentsAt(lines, e) /\ LastFor(t, a) = {GroupAt(lines, e)}
                      /\ (e < n - 1 => lines[e + 1].key = "blank")
    BY <1>2 DEF LastBlock
  <2>2. \A i \in (e + 1)..n : ~Names(lines, a, i)
    <3>1. \A i \in (e + 1)..n : i \in (e + 1)..(n - 1) \/ i = n
      OBVIOUS
    <3>2. ~Names(lines, a, n)
      BY DEF Names
    <3> QED
      BY <2>1, <3>1, <3>2
  <2>3. CASE e = 0
    <3>1. \A i \in (0 + 1)..n : ~Names(lines, a, i)
      BY <2>2, <2>3
    <3>2. 0 \in 0..n
      OBVIOUS
    <3> QED
      BY <2>1, <2>3, <3>1, <3>2 DEF EndedAt
  <2>4. CASE e # 0
    <3>1. e + 1 \in 0..n /\ e + 1 # 0 /\ e + 1 - 1 = e
      OBVIOUS
    <3>2. lines[e + 1].key = "blank"
      BY <2>1, <2>4
    <3>3. \A i \in (e + 1 + 1)..n : ~Names(lines, a, i)
      BY <2>2
    <3> QED
      BY <2>1, <2>4, <3>1, <3>2, <3>3 DEF EndedAt
  <2> QED
    BY <2>3, <2>4
<1>6. AddLine(Acc(gs, OpenAt(lines, n - 1), lines, n - 1), lines[n]) =
          Close(Acc(gs, OpenAt(lines, n - 1), lines, n - 1))
  BY DEF AddLine
<1> QED
  BY <1>2, <1>3, <1>4, <1>5, <1>6 DEF Acc

LEMMA EndedNext ==
    ASSUME NEW lines, NEW n \in Nat \ {0}, NEW gs, NEW a,
           EndedAt(lines, gs, a, n - 1), lines[n].key # "blank"
    PROVE  EndedAt(lines, gs, a, n)
<1>1. PICK b \in 0..(n - 1) :
        /\ \A i \in (b + 1)..(n - 1) : Names(lines, a, i) => Clear(lines, i, n - 1)
        /\ b = 0 => LastFor(gs, a) = {}
        /\ b # 0 => lines[b].key = "blank" /\ a \in AgentsAt(lines, b - 1)
                    /\ LastFor(gs, a) = {GroupAt(lines, b - 1)}
  BY DEF EndedAt
<1>2. \A i \in (b + 1)..n : Names(lines, a, i) => Clear(lines, i, n)
  <2>1. \A i \in (b + 1)..n : i \in (b + 1)..(n - 1) \/ i = n
    OBVIOUS
  <2>2. \A i \in (b + 1)..(n - 1) : i \in 1..(n - 1)
    OBVIOUS
  <2> QED
    BY <1>1, <2>1, <2>2, ClearNext, ClearLast
<1>3. b \in 0..n
  OBVIOUS
<1> QED
  BY <1>1, <1>2, <1>3 DEF EndedAt

LEMMA RuleLineNext ==
    ASSUME NEW lines, NEW n \in Nat \ {0}, NEW gs, lines[n].key # "blank"
    PROVE  AddLine(Acc(gs, OpenAt(lines, n - 1), lines, n - 1), lines[n]) = Acc(gs, OpenAt(lines, n), lines, n)
<1> DEFINE o == OpenAt(lines, n - 1)
           q == lines[n]
           A == AgentsAt(lines, n - 1)
           D == RulesAt(lines, "disallow", n - 1)
           W == RulesAt(lines, "allow", n - 1)
<1>1. Acc(gs, o, lines, n - 1) = [groups |-> gs, open |-> o, current |-> [agents |-> A, disallows |-> D, allows |-> W]]
  BY DEF Acc, GroupAt
<1>2. /\ AgentsAt(lines, n) = A \cup (IF q.key = "agent" THEN {q.agent} ELSE {})
      /\ RulesAt(lines, "disallow", n) = D \cup (IF q.key = "disallow" /\ q.path # <<>> /\ o THEN {q.path} ELSE {})
      /\ RulesAt(lines, "allow", n) = W \cup (IF q.key = "allow" /\ q.path # <<>> /\ o THEN {q.path} ELSE {})
  BY AgentsNext, RulesNext
<1>3. OpenAt(lines, n) = (q.key = "agent" \/ o)
  <2>1. OpenAt(lines, n) <=> (q.key = "agent" \/ o)
    BY OpenNext
  <2> QED
    BY <2>1, Zenon DEF OpenAt
<1>4. o \in BOOLEAN
  BY Zenon DEF OpenAt
<1>5. Acc(gs, OpenAt(lines, n), lines, n) =
          [groups |-> gs, open |-> (q.key = "agent" \/ o),
           current |-> [agents |-> AgentsAt(lines, n), disallows |-> RulesAt(lines, "disallow", n),
                        allows |-> RulesAt(lines, "allow", n)]]
  BY <1>3 DEF Acc, GroupAt
<1> HIDE DEF o, A, D, W, q
<1> DEFINE acc == [groups |-> gs, open |-> o, current |-> [agents |-> A, disallows |-> D, allows |-> W]]
<1>6. CASE q.key = "agent"
  <2>1. AddLine(acc, q) = [groups |-> gs, open |-> TRUE,
                           current |-> [agents |-> A \cup {q.agent}, disallows |-> D, allows |-> W]]
    BY <1>6 DEF AddLine
  <2> QED
    BY <1>1, <1>2, <1>4, <1>5, <1>6, <2>1 DEF o, q
<1>7. CASE q.key = "disallow" /\ o /\ q.path # <<>>
  <2>1. AddLine(acc, q) = [groups |-> gs, open |-> o,
                           current |-> [agents |-> A, disallows |-> D \cup {q.path}, allows |-> W]]
    BY <1>7 DEF AddLine
  <2> QED
    BY <1>1, <1>2, <1>4, <1>5, <1>7, <2>1 DEF o, q
<1>8. CASE q.key = "allow" /\ o /\ q.path # <<>>
  <2>1. AddLine(acc, q) = [groups |-> gs, open |-> o,
                           current |-> [agents |-> A, disallows |-> D, allows |-> W \cup {q.path}]]
    BY <1>8 DEF AddLine
  <2> QED
    BY <1>1, <1>2, <1>4, <1>5, <1>8, <2>1 DEF o, q
<1>9. CASE /\ q.key # "agent" /\ ~(q.key = "disallow" /\ o /\ q.path # <<>>)
           /\ ~(q.key = "allow" /\ o /\ q.path # <<>>)
  <2>1. q.key # "blank"
    BY DEF q
  <2>2. AddLine(acc, q) = acc
    BY <1>9, <2>1 DEF AddLine
  <2> QED
    BY <1>1, <1>2, <1>4, <1>5, <1>9, <2>2 DEF o, q
<1> QED
  BY <1>6, <1>7, <1>8, <1>9

LEMMA ReadsWell ==
    ASSUME NEW S, NEW lines \in Seq(S)
    PROVE  \A n \in 0..Len(lines) : ReadWell(lines, n)
<1> DEFINE N == Len(lines)
           P == {n \in Nat : n <= N => ReadWell(lines, n)}
<1>0. N \in Nat
  OBVIOUS
<1> HIDE DEF N
<1>1. 0 \in P
  <2>1. ~OpenAt(lines, 0)
    BY DEF OpenAt
  <2>2. OpenAt(lines, 0) = FALSE /\ GroupAt(lines, 0) = NoGroup
    BY <2>1, NothingOpen, Zenon DEF OpenAt
  <2>3. Read(lines)[0] = Acc(<<>>, OpenAt(lines, 0), lines, 0)
    BY <2>2, ReadIs DEF Acc, Start
  <2>4. ASSUME NEW a PROVE EndedAt(lines, <<>>, a, 0)
    <3>1. LastFor(<<>>, a) = {}
      BY DEF LastFor, NamedIn
    <3>2. 0 \in 0..0 /\ \A i \in (0 + 1)..0 : FALSE
      OBVIOUS
    <3> QED
      BY <3>1, <3>2 DEF EndedAt
  <2>5. <<>> \in Seq(GroupsOf(lines))
    OBVIOUS
  <2> QED
    BY <2>3, <2>4, <2>5 DEF ReadWell
<1>2. ASSUME NEW n \in Nat, n \in P PROVE n + 1 \in P
  <2> SUFFICES ASSUME n + 1 <= N PROVE ReadWell(lines, n + 1)
    OBVIOUS
  <2>1. PICK m \in Nat \ {0} : m = n + 1 /\ m - 1 = n /\ m \in 1..N
    BY <1>0
  <2>2. PICK gs \in Seq(GroupsOf(lines)) :
          /\ Read(lines)[m - 1] = Acc(gs, OpenAt(lines, m - 1), lines, m - 1)
          /\ \A a : EndedAt(lines, gs, a, m - 1)
    BY <1>0, <1>2, <2>1 DEF ReadWell
  <2>3. Read(lines)[m] = AddLine(Acc(gs, OpenAt(lines, m - 1), lines, m - 1), lines[m])
    BY <2>1, <2>2, ReadIs DEF N
  <2>4. CASE lines[m].key = "blank"
    <3>1. \E t \in Seq(GroupsOf(lines)) :
            /\ Read(lines)[m] = Acc(t, OpenAt(lines, m), lines, m)
            /\ \A a : EndedAt(lines, t, a, m)
      BY <2>2, <2>3, <2>4, BlankNext
    <3> QED
      BY <2>1, <3>1 DEF ReadWell
  <2>5. CASE lines[m].key # "blank"
    BY <2>1, <2>2, <2>3, <2>5, EndedNext, RuleLineNext DEF ReadWell
  <2> QED
    BY <2>4, <2>5
<1> HIDE DEF P
<1>3. Nat \subseteq P
  BY <1>1, <1>2, Induct
<1>4. \A n \in 0..N : n \in Nat /\ n <= N
  BY <1>0
<1> QED
  BY <1>3, <1>4 DEF P, N

-----------------------------------------------------------------------------
(* The lines whose rules count for an agent, from the end of its block.    *)
LEMMA RulesOfBlock ==
    ASSUME NEW S, NEW lines \in Seq(S), NEW a, NEW e \in 1..Len(lines), NEW key \in {"allow", "disallow"},
           NEW path,
           \A i \in (e + 1)..Len(lines) : ~Names(lines, a, i),
           a \in AgentsAt(lines, e), e < Len(lines) => lines[e + 1].key = "blank"
    PROVE  Rules(lines, key, a, path) # {} <=> Matches(path, RulesAt(lines, key, e))
<1> DEFINE N == Len(lines)
<1>1. N \in Nat /\ DOMAIN lines = 1..N /\ e \in 1..N
  OBVIOUS
<1>2. /\ \A i \in (e + 1)..N : ~Names(lines, a, i)
      /\ e < N => lines[e + 1].key = "blank"
  OBVIOUS
<1> HIDE DEF N
<1>3. PICK j0 \in 1..e : Names(lines, a, j0) /\ Clear(lines, j0, e)
  BY DEF AgentsAt, AgentIn, Names
<1>4. \A i : i \in Naming(lines, a) <=> i \in 1..N /\ Names(lines, a, i)
  BY <1>1 DEF Naming, Names
<1>5. \A i \in Naming(lines, a) : i \in 1..e
  BY <1>1, <1>2, <1>4
<1>6. \A i, j \in 1..N : SameBlock(lines, i, j) <=>
          \A k \in 1..N : (i < k /\ k < j) \/ (j < k /\ k < i) => lines[k].key # "blank"
  BY <1>1 DEF SameBlock
<1>7. ASSUME NEW i \in 1..N, RuleIn(lines, key, i, e), IsPrefix(lines[i].path, path)
      PROVE  i \in Rules(lines, key, a, path)
  <2>1. /\ i \in 1..e /\ lines[i].key = key /\ lines[i].path # <<>> /\ Clear(lines, i, e)
    BY <1>7 DEF RuleIn
  <2>2. PICK j \in 1..(i - 1) : lines[j].key = "agent" /\ Clear(lines, j, e)
    BY <1>7 DEF RuleIn, AgentIn
  <2>3. SameBlock(lines, j, i)
    <3>1. j \in 1..N /\ j < i
      BY <1>1, <2>1, <2>2, SMT
    <3> QED
      BY <1>1, <1>6, <2>1, <2>2, <3>1, SMTT(30) DEF Clear
  <2>4. SameBlock(lines, i, j0)
    <3>1. \A k \in 1..N : (i < k /\ k < j0) \/ (j0 < k /\ k < i) => lines[k].key # "blank"
      BY <1>1, <1>3, <2>1, SMTT(30) DEF Clear
    <3>2. i \in 1..N /\ j0 \in 1..N
      BY <1>1, <1>3, <2>1, SMT
    <3> QED
      BY <1>6, <3>1, <3>2
  <2>5. ASSUME NEW k \in Naming(lines, a) PROVE k <= j0 \/ SameBlock(lines, i, k)
    <3>1. k \in 1..e
      BY <1>5
    <3> QED
      BY <1>1, <1>3, <1>6, <2>1, <3>1 DEF Clear
  <2>6. j0 \in Naming(lines, a)
    BY <1>1, <1>3, <1>4
  <2> QED
    BY <1>1, <1>7, <2>1, <2>2, <2>3, <2>4, <2>5, <2>6 DEF Rules
<1>8. ASSUME NEW i \in Rules(lines, key, a, path)
      PROVE  RuleIn(lines, key, i, e) /\ IsPrefix(lines[i].path, path)
  <2>1. /\ i \in 1..N /\ lines[i].key = key /\ lines[i].path # <<>> /\ IsPrefix(lines[i].path, path)
    BY <1>1 DEF Rules
  <2>2. PICK k \in 1..(i - 1) : lines[k].key = "agent" /\ SameBlock(lines, k, i)
    BY DEF Rules
  <2>3. PICK j \in Naming(lines, a) : SameBlock(lines, i, j) /\ \A l \in Naming(lines, a) : l <= j \/ SameBlock(lines, i, l)
    BY DEF Rules
  <2>4. PICK m \in 1..e : Clear(lines, m, e) /\ SameBlock(lines, i, m)
    <3>1. j \in 1..e
      BY <1>5
    <3>2. CASE j0 <= j
      BY <1>3, <2>3, <3>1, <3>2 DEF Clear
    <3>3. CASE ~(j0 <= j)
      <4>1. j0 \in Naming(lines, a)
        BY <1>1, <1>3, <1>4
      <4>2. SameBlock(lines, i, j0)
        BY <2>3, <3>3, <4>1
      <4> QED
        BY <1>3, <4>2
    <3> QED
      BY <3>2, <3>3
  <2>5. lines[i].key # "blank"
    BY <2>1
  <2>6. i <= e
    <3> SUFFICES ASSUME i > e PROVE FALSE
      BY <1>1, <2>1
    <3>1. e + 1 \in 1..N /\ e < N /\ lines[e + 1].key = "blank"
      BY <1>1, <1>2, <2>1
    <3>2. i # e + 1
      BY <2>5, <3>1
    <3>3. m < e + 1 /\ e + 1 < i
      BY <1>1, <2>1, <2>4, <3>2
    <3> QED
      BY <1>1, <1>6, <2>1, <2>4, <3>1, <3>3
  <2>7. Clear(lines, i, e)
    BY <1>1, <1>6, <2>1, <2>4, <2>5, <2>6 DEF Clear
  <2>8. Clear(lines, k, e) /\ k \in 1..e
    <3>1. k \in 1..N /\ k < i
      BY <1>1, <2>1, <2>2, SMT
    <3> QED
      BY <1>1, <1>6, <2>1, <2>2, <2>6, <2>7, <3>1 DEF Clear
  <2> QED
    BY <2>1, <2>2, <2>6, <2>7, <2>8 DEF RuleIn, AgentIn
<1>9. \A x : x \in RulesAt(lines, key, e) <=> \E i \in 1..N : RuleIn(lines, key, i, e) /\ x = lines[i].path
  <2>1. \A i : RuleIn(lines, key, i, e) => i \in 1..e /\ i \in 1..N
    BY <1>1 DEF RuleIn
  <2> QED
    BY <2>1 DEF RulesAt
<1>10. \A i \in Rules(lines, key, a, path) : i \in 1..N
  BY <1>1 DEF Rules
<1> QED
  BY <1>7, <1>8, <1>9, <1>10 DEF Matches

(* parseRobotsTxt and isDisallowed forbid what the lines forbid.           *)
LEMMA ForbiddenByLines ==
    ASSUME NEW S, NEW lines \in Seq(S), NEW path
    PROVE  IsDisallowed(ParseRobotsTxt(lines), path) <=> Forbidden(lines, path)
<1> DEFINE N == Len(lines)
           groups == ParseRobotsTxt(lines)
           a == IF Naming(lines, Me) # {} THEN Me ELSE Anyone
<1>1. N \in Nat /\ DOMAIN lines = 1..N
  OBVIOUS
<1>2. \A x : LastBlock(lines, groups, x, N)
  <2>1. PICK gs \in Seq(GroupsOf(lines)) :
          /\ Read(lines)[N] = Acc(gs, OpenAt(lines, N), lines, N)
          /\ \A x : EndedAt(lines, gs, x, N)
    <3>1. N \in 0..N
      BY <1>1
    <3>2. ReadWell(lines, N)
      BY <3>1, ReadsWell
    <3> QED
      BY <3>2 DEF ReadWell
  <2>2. PICK t \in Seq(GroupsOf(lines)) :
          /\ Close(Read(lines)[N]) = [groups |-> t, open |-> FALSE, current |-> NoGroup]
          /\ \A x : LastBlock(lines, t, x, N)
    BY <1>1, <2>1, CloseIs
  <2>3. groups = t
    BY <2>2 DEF ParseRobotsTxt
  <2> QED
    BY <2>2, <2>3
<1> HIDE DEF groups, N
<1>3. ASSUME NEW x
      PROVE  \/ LastFor(groups, x) = {} /\ Naming(lines, x) = {}
             \/ /\ Naming(lines, x) # {}
                /\ \E g : /\ LastFor(groups, x) = {g}
                          /\ Rules(lines, "disallow", x, path) # {} <=> Matches(path, g.disallows)
                          /\ Rules(lines, "allow", x, path) # {} <=> Matches(path, g.allows)
  <2>1. PICK e \in 0..N :
          /\ \A i \in (e + 1)..N : ~Names(lines, x, i)
          /\ e = 0 => LastFor(groups, x) = {}
          /\ e # 0 => x \in AgentsAt(lines, e) /\ LastFor(groups, x) = {GroupAt(lines, e)}
                      /\ (e < N => lines[e + 1].key = "blank")
    BY <1>2 DEF LastBlock
  <2>2. CASE e = 0
    <3>1. \A i \in 1..N : ~Names(lines, x, i)
      BY <2>1, <2>2
    <3>2. Naming(lines, x) = {}
      BY <1>1, <3>1 DEF Naming, Names
    <3> QED
      BY <2>1, <2>2, <3>2
  <2>3. CASE e # 0
    <3>1. e \in 1..N
      BY <1>1, <2>3
    <3>2. Naming(lines, x) # {}
      <4>1. PICK i \in 1..e : lines[i].key = "agent" /\ lines[i].agent = x
        BY <2>1, <2>3 DEF AgentsAt, AgentIn
      <4>2. i \in 1..N
        BY <1>1, <3>1
      <4> QED
        BY <1>1, <4>1, <4>2 DEF Naming
    <3>3. \A key \in {"allow", "disallow"} :
              Rules(lines, key, x, path) # {} <=> Matches(path, RulesAt(lines, key, e))
      <4> SUFFICES ASSUME NEW key \in {"allow", "disallow"}
                   PROVE  Rules(lines, key, x, path) # {} <=> Matches(path, RulesAt(lines, key, e))
        OBVIOUS
      <4> QED
        BY <2>1, <2>3, <3>1, RulesOfBlock DEF N
    <3>4. PICK g : g = GroupAt(lines, e)
      OBVIOUS
    <3>5. g.disallows = RulesAt(lines, "disallow", e) /\ g.allows = RulesAt(lines, "allow", e)
      BY <3>4 DEF GroupAt
    <3> QED
      BY <2>1, <2>3, <3>2, <3>3, <3>4, <3>5
  <2> QED
    BY <2>2, <2>3
<1>4. Naming(lines, a) = {} => Rules(lines, "disallow", a, path) = {}
  BY DEF Rules
<1>5. Group(groups) = LastFor(groups, a)
  <2>1. LastFor(groups, Me) # {} <=> Naming(lines, Me) # {}
    BY <1>3
  <2> QED
    BY <2>1 DEF Group
<1>6. Forbidden(lines, path) <=> Rules(lines, "disallow", a, path) # {} /\ Rules(lines, "allow", a, path) = {}
  BY DEF Forbidden
<1>7. IsDisallowed(groups, path) <=>
          \E g \in LastFor(groups, a) : ~Matches(path, g.allows) /\ Matches(path, g.disallows)
  BY <1>5 DEF IsDisallowed
<1> HIDE DEF a
<1>8. CASE LastFor(groups, a) = {} /\ Naming(lines, a) = {}
  BY <1>4, <1>6, <1>7, <1>8 DEF groups
<1>9. CASE \E g : /\ LastFor(groups, a) = {g}
                  /\ Rules(lines, "disallow", a, path) # {} <=> Matches(path, g.disallows)
                  /\ Rules(lines, "allow", a, path) # {} <=> Matches(path, g.allows)
  BY <1>6, <1>7, <1>9 DEF groups
<1> QED
  BY <1>3, <1>8, <1>9

-----------------------------------------------------------------------------
(* What the cache holds was read of what was served, a call that asks for  *)
(* it is the first, and one that went on was let through or refused by it. *)
RespectedBy(c) ==
    call[c].req.op = "load" /\ ObeyRobots /\ call[c].at \notin {"robots", "asking"} =>
        /\ rules[Origin(c)] # Unknown
        /\ call[c].result = "disallowed" <=> ~Allowed(rules[Origin(c)], call[c].req.path)
WasRead(entry, f) == \E read \in ReadingsOf[f] : entry = Entry(GroupsIn[read])
CacheIInv ==
    /\ files \in [Origins -> RobotsFiles]
    /\ \A o \in Origins : rules[o] \in {Unknown, AllowAll} \/ WasRead(rules[o], files[o])
    /\ \A c \in Calls : call[c].at = "asking" => rules[Origin(c)] = Unknown
    /\ \A c \in Calls : call[c].at \in {"robots", "asking"} => call[c].req.op = "load"
    /\ \A c \in Calls : RespectedBy(c)

LEMMA LoadsHaveOrigins ==
    ASSUME IInv, NEW c \in Calls, call[c].req.op \in Ops
    PROVE  /\ Origin(c) \in Origins
           /\ \E d \in Calls : call[c].req \in Requests(d)
<1>1. call[c].req \in Asked
  BY DEF IInv, CallsIInv, CallRecords
<1>2. PICK d \in Calls : call[c].req \in Requests(d)
  <2>1. call[c].req # Idle.req
    BY KindsOfRequest DEF Ops, None
  <2> QED
    BY <1>1, <2>1 DEF Asked
<1> QED
  BY <1>2, RequestsAreSome DEF Origin

(* A step of a call that has nothing to do with robots.txt.                *)
LEMMA CacheStays ==
    ASSUME CacheIInv, UNCHANGED <<rules, files>>, NEW c \in Calls,
           \A d \in Calls : d # c => call'[d] = call[d],
           call'[c].req = call[c].req,
           call'[c].at \in {"robots", "asking"} => call'[c].at = call[c].at,
           call[c].at \in {"robots", "asking"} => call'[c].at \in {"robots", "asking"},
           call'[c].result = "disallowed" <=> call[c].result = "disallowed"
    PROVE  CacheIInv'
<1>1. \A d \in Calls : /\ call'[d].req = call[d].req
                       /\ call'[d].at \in {"robots", "asking"} => call'[d].at = call[d].at
  OBVIOUS
<1>2. \A d \in Calls : Origin(d)' = Origin(d)
  BY DEF Origin
<1>3. \A d \in Calls : RespectedBy(d)'
  <2> SUFFICES ASSUME NEW d \in Calls PROVE RespectedBy(d)'
    OBVIOUS
  <2>1. RespectedBy(d)
    BY DEF CacheIInv
  <2> QED
    BY <1>2, <2>1 DEF RespectedBy
<1> QED
  BY <1>1, <1>2, <1>3 DEF CacheIInv

(* What comes of a fetch is never "disallowed".                            *)
LEMMA ReturnedRecord ==
    ASSUME CallsIInv, NEW c \in Calls, call[c].at \in {"send", "sent"},
           NEW x \in Responses \cup Errors \cup {"refused", "cancelled"}
    PROVE  LET r == Returned(c, x)
           IN r.req = call[c].req /\ r.at \in {"read", "solve", "done"} /\ r.result # "disallowed"
<1> DEFINE q == call[c]
<1>1. PICK r : r = Returned(c, x)
  OBVIOUS
<1>2. /\ q \in CallRecords /\ q.result = None /\ x \in Results /\ (q.again => q.answer \in Responses)
      /\ "read" \in Places /\ "solve" \in Places
  BY Words DEF CallsIInv, Well, Underway, Places, Failures
<1>3. x # "disallowed" /\ "disallowed" \notin Responses /\ None # "disallowed"
  BY AnswersHaveNames DEF Errors, Failures, None
<1>4. \/ \E y \in Results : y # "disallowed" /\ r = Ends(c, y)
      \/ \E at \in {"read", "solve"} : x \in Responses /\ r = [q EXCEPT !.at = at, !.answer = x]
  BY <1>1, <1>2, <1>3, Words DEF Returned, IsResponse
<1>5. CASE \E y \in Results : y # "disallowed" /\ r = Ends(c, y)
  BY <1>1, <1>2, <1>5, EndsRecord
<1>6. CASE \E at \in {"read", "solve"} : x \in Responses /\ r = [q EXCEPT !.at = at, !.answer = x]
  <2>1. PICK at \in {"read", "solve"} : r = [q EXCEPT !.at = at, !.answer = x]
    BY <1>6
  <2> HIDE DEF q
  <2>2. r.req = q.req /\ r.at = at /\ r.result = q.result
    BY <1>2, <1>6, <2>1 DEF CallRecords
  <2> QED
    BY <1>1, <1>2, <1>3, <2>2 DEF q
<1> QED
  BY <1>4, <1>5, <1>6

LEMMA CacheAttempts ==
    ASSUME IInv, CacheIInv, NEW c \in Calls,
           \/ Cancel(c) \/ Send(c) \/ FetchRefused(c) \/ Cancelled(c)
           \/ \E x \in Responses \cup Errors : Answered(c, x)
    PROVE  CacheIInv'
<1> DEFINE q == call[c]
<1>1. q \in CallRecords /\ Well(q, open[c]) /\ call \in [Calls -> CallRecords]
  BY DEF IInv, CallsIInv, Well
<1>2. UNCHANGED <<rules, files>>
  BY DEF Cancel, Send, FetchRefused, Cancelled, Answered, robotsVars
<1>3. ASSUME NEW r, call' = [call EXCEPT ![c] = r], r.req = q.req, r.at \in {"robots", "asking"} => r.at = q.at,
             q.at \in {"robots", "asking"} => r.at \in {"robots", "asking"},
             r.result = "disallowed" <=> q.result = "disallowed"
      PROVE  CacheIInv'
  <2>1. call'[c] = r /\ \A d \in Calls : d # c => call'[d] = call[d]
    BY <1>1, <1>3
  <2> QED
    BY <1>2, <1>3, <2>1, CacheStays
<1>4. q.at # "done" => q.result = None /\ q.result # "disallowed"
  BY <1>1 DEF Well, Underway, None
<1>5. ASSUME NEW x \in Responses \cup Errors \cup {"refused", "cancelled"}, q.at \in {"send", "sent"},
             call' = [call EXCEPT ![c] = Returned(c, x)]
      PROVE  CacheIInv'
  <2>1. PICK r : r = Returned(c, x)
    OBVIOUS
  <2>2. r.req = q.req /\ r.at \in {"read", "solve", "done"} /\ r.result # "disallowed"
    BY <1>5, <2>1, ReturnedRecord DEF IInv
  <2> QED
    BY <1>3, <1>4, <1>5, <2>1, <2>2
<1>6. CASE Cancel(c)
  <2>1. PICK r : r = [q EXCEPT !.cancelled = TRUE]
    OBVIOUS
  <2>2. r.req = q.req /\ r.at = q.at /\ r.result = q.result
    <3> HIDE DEF q
    <3> QED
      BY <1>1, <2>1 DEF CallRecords
  <2>3. call' = [call EXCEPT ![c] = r]
    BY <1>6, <2>1 DEF Cancel
  <2> QED
    BY <1>3, <2>2, <2>3
<1>7. CASE Send(c)
  <2>1. PICK r : r = [q EXCEPT !.at = "sent"]
    OBVIOUS
  <2>2. r.req = q.req /\ r.at = "sent" /\ r.result = q.result
    <3> HIDE DEF q
    <3> QED
      BY <1>1, <2>1 DEF CallRecords
  <2>3. call' = [call EXCEPT ![c] = r] /\ q.at = "send"
    BY <1>7, <2>1 DEF Send, Goes
  <2> QED
    BY <1>3, <2>2, <2>3
<1>8. CASE FetchRefused(c) \/ Cancelled(c)
  BY <1>5, <1>8 DEF FetchRefused, Cancelled
<1>9. ASSUME NEW x \in Responses \cup Errors, Answered(c, x) PROVE CacheIInv'
  <2>1. q.at = "sent"
    BY <1>9 DEF Answered
  <2>2. CASE Retries(c, x)
    <3>1. PICK t : t = Append(q.tried, x)
      OBVIOUS
    <3>2. PICK r : r = [q EXCEPT !.at = "send", !.tried = t]
      OBVIOUS
    <3>3. r.req = q.req /\ r.at = "send" /\ r.result = q.result
      <4> HIDE DEF q
      <4> QED
        BY <1>1, <3>2 DEF CallRecords
    <3>4. call' = [call EXCEPT ![c] = r]
      BY <1>9, <2>2, <3>1, <3>2 DEF Answered, Waits
    <3> QED
      BY <1>3, <2>1, <3>3, <3>4
  <2>3. CASE ~Retries(c, x)
    <3>1. call' = [call EXCEPT ![c] = Returned(c, x)]
      BY <1>9, <2>3 DEF Answered
    <3> QED
      BY <1>5, <2>1, <3>1
  <2> QED
    BY <2>2, <2>3
<1> QED
  BY <1>6, <1>7, <1>8, <1>9

LEMMA CacheReads ==
    ASSUME IInv, CacheIInv, NEW c \in Calls,
           Solve(c) \/ \E n \in 0..(MaxHints + 1) : ReadBody(c, n)
    PROVE  CacheIInv'
<1> DEFINE q == call[c]
<1>1. /\ q \in CallRecords /\ q.at \in {"read", "solve"} /\ q.answer \in Responses /\ q.result = None
      /\ call \in [Calls -> CallRecords]
  BY DEF Solve, ReadBody, IInv, CallsIInv, Well, Reading, Underway
<1>2. UNCHANGED <<rules, files>>
  BY DEF Solve, ReadBody, robotsVars
<1>3. \A x \in {q.answer, "unreadable"} : x \in Results /\ x # "disallowed"
  BY <1>1, AnswersHaveNames DEF Results, Failures
<1>4. PICK r : /\ call' = [call EXCEPT ![c] = r]
               /\ \/ \E x \in {q.answer, "unreadable"} : r = Ends(c, x)
                  \/ r = [q EXCEPT !.at = "send", !.again = TRUE, !.tried = <<>>]
  BY DEF Solve, ReadBody
<1>5. r.req = q.req /\ r.at \in {"done", "send"} /\ r.result # "disallowed"
  <2>1. CASE \E x \in {q.answer, "unreadable"} : r = Ends(c, x)
    BY <1>1, <1>3, <2>1, EndsRecord
  <2>2. CASE r = [q EXCEPT !.at = "send", !.again = TRUE, !.tried = <<>>]
    <3>1. None # "disallowed"
      BY DEF None
    <3> HIDE DEF q
    <3> QED
      BY <1>1, <2>2, <3>1 DEF CallRecords
  <2> QED
    BY <1>4, <2>1, <2>2
<1>6. call'[c] = r /\ \A d \in Calls : d # c => call'[d] = call[d]
  BY <1>1, <1>4
<1>7. q.result # "disallowed"
  BY <1>1 DEF None
<1> QED
  BY <1>1, <1>2, <1>5, <1>6, <1>7, CacheStays

LEMMA CacheBegin ==
    ASSUME IInv, CacheIInv, NEW c \in Calls, NEW req \in Requests(c), Begin(c, req)
    PROVE  CacheIInv'
<1> DEFINE at == IF req.op = "load" /\ ObeyRobots THEN "robots" ELSE "send"
<1>1. PICK r : r = [Idle EXCEPT !.req = req, !.at = at]
  OBVIOUS
<1>2. r.req = req /\ r.at = at
  <2> HIDE DEF at
  <2>1. Idle \in CallRecords
    BY IdleRecord
  <2> QED
    BY <1>1, <2>1 DEF CallRecords
<1>3. call' = [call EXCEPT ![c] = r] /\ UNCHANGED <<rules, files>>
  BY <1>1 DEF Begin, robotsVars
<1>4. call'[c] = r /\ \A d \in Calls : d # c => call'[d] = call[d]
  BY <1>3 DEF IInv, CallsIInv
<1>5. \A d \in Calls : d # c => Origin(d)' = Origin(d)
  BY <1>4 DEF Origin
<1>6. /\ call'[c].at # "asking" /\ RespectedBy(c)'
      /\ call'[c].at = "robots" => call'[c].req.op = "load"
  BY <1>2, <1>4 DEF RespectedBy
<1>7. \A d \in Calls : d # c => RespectedBy(d)'
  BY <1>3, <1>4, <1>5 DEF RespectedBy, CacheIInv
<1> QED
  BY <1>3, <1>4, <1>5, <1>6, <1>7 DEF CacheIInv

(* A call that looks at what the cache holds, or has come to hold.         *)
LEMMA CheckRespects ==
    ASSUME IInv, NEW c \in Calls, NEW entry, CheckRobots(c, entry), call[c].at \in {"robots", "asking"},
           rules'[Origin(c)] = entry, entry # Unknown
    PROVE  /\ RespectedBy(c)' /\ call'[c].at \notin {"robots", "asking"}
           /\ \A d \in Calls : d # c => call'[d] = call[d]
<1> DEFINE q == call[c]
<1>1. /\ q \in CallRecords /\ q.result = None /\ None # "disallowed"
      /\ call \in [Calls -> CallRecords] /\ "disallowed" \in Results /\ "send" \in Places
  BY DEF IInv, CallsIInv, Well, Underway, None, Results, Failures, Places
<1>2. PICK r : r = IF Allowed(entry, q.req.path) THEN [q EXCEPT !.at = "send"] ELSE Ends(c, "disallowed")
  OBVIOUS
<1>3. call'[c] = r /\ \A d \in Calls : d # c => call'[d] = call[d]
  BY <1>1, <1>2 DEF CheckRobots
<1>4. r.req = q.req /\ r.at \in {"send", "done"} /\ (r.result = "disallowed" <=> ~Allowed(entry, q.req.path))
  <2>1. CASE Allowed(entry, q.req.path)
    <3>1. r = [q EXCEPT !.at = "send"]
      BY <1>2, <2>1
    <3>2. r.req = q.req /\ r.at = "send" /\ r.result = q.result
      <4> HIDE DEF q
      <4> QED
        BY <1>1, <3>1 DEF CallRecords
    <3> QED
      BY <1>1, <2>1, <3>2
  <2>2. CASE ~Allowed(entry, q.req.path)
    BY <1>1, <1>2, <2>2, EndsRecord
  <2> QED
    BY <2>1, <2>2
<1>5. Origin(c)' = Origin(c)
  BY <1>3, <1>4 DEF Origin
<1> QED
  BY <1>3, <1>4, <1>5 DEF RespectedBy

LEMMA CacheHitRespects ==
    ASSUME IInv, CacheIInv, NEW c \in Calls, CacheHit(c)
    PROVE  CacheIInv'
<1>1. UNCHANGED <<rules, files>> /\ call[c].at = "robots" /\ rules[Origin(c)] # Unknown
  BY DEF CacheHit, robotsVars, Origin
<1>2. /\ RespectedBy(c)' /\ call'[c].at \notin {"robots", "asking"}
      /\ \A d \in Calls : d # c => call'[d] = call[d]
  BY <1>1, CheckRespects DEF CacheHit, Origin
<1>3. \A d \in Calls : d # c => Origin(d)' = Origin(d)
  BY <1>2 DEF Origin
<1>4. \A d \in Calls : d # c => RespectedBy(d)'
  BY <1>1, <1>2, <1>3 DEF RespectedBy, CacheIInv
<1> QED
  BY <1>1, <1>2, <1>3, <1>4 DEF CacheIInv

LEMMA AskRobotsRespects ==
    ASSUME IInv, CacheIInv, NEW c \in Calls, AskRobots(c)
    PROVE  CacheIInv'
<1>1. UNCHANGED <<rules, files>> /\ call[c].at = "robots" /\ rules[Origin(c)] = Unknown
  BY DEF AskRobots, Origin
<1>2. /\ call'[c].at = "asking" /\ call'[c].req = call[c].req
      /\ \A d \in Calls : d # c => call'[d] = call[d]
  BY GoesKeeps DEF AskRobots, IInv
<1>3. \A d \in Calls : Origin(d)' = Origin(d)
  BY <1>2 DEF Origin
<1>4. \A d \in Calls : RespectedBy(d)'
  BY <1>1, <1>2, <1>3 DEF RespectedBy, CacheIInv
<1> QED
  BY <1>1, <1>2, <1>3, <1>4 DEF CacheIInv

LEMMA RememberRespects ==
    ASSUME IInv, CacheIInv, NEW c \in Calls, call[c].at = "asking",
           NEW entry, entry = AllowAll \/ WasRead(entry, files[Origin(c)]), Remember(c, entry)
    PROVE  CacheIInv'
<1> DEFINE o == Origin(c)
<1>1. rules' = [rules EXCEPT ![o] = entry] /\ UNCHANGED files /\ entry # Unknown
  BY EntriesAreKnown DEF Remember, Origin, WasRead
<1>2. o \in Origins
  <2>1. call[c].req.op \in Ops
    BY DEF CacheIInv, Ops
  <2> QED
    BY <2>1, LoadsHaveOrigins
<1>3. rules'[o] = entry /\ \A p \in Origins : p # o => rules'[p] = rules[p]
  BY <1>1, <1>2 DEF IInv, RobotsIInv
<1>4. /\ RespectedBy(c)' /\ call'[c].at \notin {"robots", "asking"}
      /\ \A d \in Calls : d # c => call'[d] = call[d]
  BY <1>1, <1>3, CheckRespects DEF Remember
<1>5. \A d \in Calls : d # c => Origin(d)' = Origin(d) /\ call[d].at # "asking"
  BY <1>4 DEF Origin, IInv, RobotsIInv
<1>6. rules[o] = Unknown
  BY DEF CacheIInv
<1>7. ASSUME NEW d \in Calls, d # c PROVE RespectedBy(d)'
  <2>1. CASE Origin(d) = o
    BY <1>4, <1>5, <1>6, <1>7, <2>1 DEF RespectedBy, CacheIInv
  <2>2. CASE Origin(d) # o
    <3> SUFFICES ASSUME call[d].req.op = "load" PROVE RespectedBy(d)'
      BY <1>4, <1>7 DEF RespectedBy
    <3>1. Origin(d) \in Origins
      BY LoadsHaveOrigins DEF Ops
    <3>2. rules'[Origin(d)] = rules[Origin(d)]
      BY <1>3, <2>2, <3>1
    <3> QED
      BY <1>4, <1>5, <1>7, <3>2 DEF RespectedBy, CacheIInv
  <2> QED
    BY <2>1, <2>2
<1>8. \A p \in Origins : rules'[p] \in {Unknown, AllowAll} \/ WasRead(rules'[p], files'[p])
  BY <1>1, <1>3 DEF CacheIInv
<1> QED
  BY <1>1, <1>4, <1>5, <1>7, <1>8 DEF CacheIInv, WasRead

LEMMA CacheNext ==
    ASSUME IInv, CacheIInv, [Next]_vars
    PROVE  CacheIInv'
<1>1. ASSUME UNCHANGED <<call, rules, files>> PROVE CacheIInv'
  <2>1. \A c \in Calls : Origin(c)' = Origin(c)
    BY <1>1 DEF Origin
  <2>2. \A c \in Calls : RespectedBy(c)'
    BY <1>1, <2>1 DEF CacheIInv, RespectedBy
  <2> QED
    BY <1>1, <2>1, <2>2 DEF CacheIInv
<1>2. ASSUME NEW c \in Calls, Progress(c) PROVE CacheIInv'
  <2>1. ASSUME RobotsAnswered(c) \/ RobotsRefused(c) PROVE CacheIInv'
    BY <2>1, RememberRespects DEF RobotsAnswered, RobotsRefused, Origin, WasRead
  <2>2. ASSUME Redirected(c) PROVE CacheIInv'
    BY <1>1, <2>2 DEF Redirected, callVars, robotsVars
  <2> QED
    BY <1>2, <2>1, <2>2, CacheHitRespects, AskRobotsRespects, CacheAttempts, CacheReads DEF Progress
<1>3. ASSUME NEW h \in HintWorkers, HintStep(h) PROVE CacheIInv'
  BY <1>1, <1>3 DEF HintStep, SendHint, HintDone, Redirected, callVars, robotsVars
<1>4. ASSUME UNCHANGED vars PROVE CacheIInv'
  BY <1>1, <1>4 DEF vars, callVars, robotsVars
<1> QED
  BY <1>2, <1>3, <1>4, CacheBegin, CacheAttempts DEF Next

LEMMA CacheInit == Init => CacheIInv
<1> SUFFICES ASSUME Init PROVE CacheIInv
  OBVIOUS
<1>1. \A c \in Calls : call[c] = Idle
  BY DEF Init
<1>2. Idle.at = "idle" /\ Idle.req.op # "load"
  BY DEF Idle, None
<1>3. \A c \in Calls : RespectedBy(c)
  BY <1>1, <1>2 DEF RespectedBy
<1> QED
  BY <1>1, <1>2, <1>3 DEF Init, CacheIInv

(* However much of a file was read, it is a sequence of lines.             *)
LEMMA ReadingsAreLines ==
    ASSUME NEW f \in RobotsFiles, NEW read \in ReadingsOf[f]
    PROVE  \E S : read \in Seq(S)
<1>1. f \in Seq(Range(f))
  BY FilesAreLines
<1>2. read \in Readings(f)
  BY DEF ReadingsOf
<1>3. \A n \in 0..Len(f) : SubSeq(f, 1, n) \in Seq(Range(f))
  BY <1>1, SubSeqProperties
<1>4. CASE \E n \in 0..Len(f) : read = SubSeq(f, 1, n)
  BY <1>3, <1>4
<1>5. CASE \E n \in DOMAIN f : \E piece \in Pieces(f[n]) : read = Append(SubSeq(f, 1, n - 1), piece)
  <2>1. PICK n \in DOMAIN f : \E piece \in Pieces(f[n]) : read = Append(SubSeq(f, 1, n - 1), piece)
    BY <1>5
  <2>2. PICK piece \in Pieces(f[n]) : read = Append(SubSeq(f, 1, n - 1), piece)
    BY <2>1
  <2> DEFINE T == Range(f) \cup {piece}
             t == SubSeq(f, 1, n - 1)
  <2>3. n - 1 \in 0..Len(f)
    BY <1>1
  <2>4. t \in Seq(Range(f))
    BY <1>3, <2>3
  <2>5. t \in Seq(T) /\ piece \in T
    BY <2>4
  <2> HIDE DEF T, t
  <2>6. Append(t, piece) \in Seq(T)
    BY <2>5
  <2> QED
    BY <2>2, <2>6 DEF t
<1> QED
  BY <1>2, <1>4, <1>5 DEF Readings

(* However many calls want the robots.txt of an origin at the same moment, *)
(* the lock and the cache have one of them ask, and what that one could    *)
(* read of the file, whatever its lines are and wherever it breaks off,    *)
(* stands for all: each call is refused just for a path that those lines   *)
(* forbid.  parseRobotsTxt and isDisallowed take them as they are meant.   *)
THEOREM RobotsKeptHolds == Spec => []RobotsKept
<1>1. IInv /\ CacheIInv => RobotsKept
  <2> SUFFICES ASSUME IInv, CacheIInv PROVE RobotsKept
    OBVIOUS
  <2>1. RobotsOnce
    BY DEF IInv, RobotsIInv, RobotsOnce
  <2>2. ASSUME NEW o \in Origins, NEW b \in Calls, AskedFor(b, o)
        PROVE  \/ /\ rules[o] = AllowAll
                  /\ \A c \in Calls : AskedFor(c, o) => call[c].result # "disallowed"
               \/ \E read \in ReadingsOf[files[o]] :
                     /\ rules[o] = Entry(GroupsIn[read])
                     /\ \A c \in Calls : AskedFor(c, o) =>
                           (call[c].result = "disallowed" <=> ForbiddenIn[read][call[c].req.path])
    <3> DEFINE f == files[o]
    <3>1. \A c \in Calls : AskedFor(c, o) =>
              /\ rules[o] # Unknown /\ call[c].req.path \in Paths
              /\ call[c].result = "disallowed" <=> ~Allowed(rules[o], call[c].req.path)
      <4> SUFFICES ASSUME NEW c \in Calls, AskedFor(c, o)
                   PROVE  /\ rules[o] # Unknown /\ call[c].req.path \in Paths
                          /\ call[c].result = "disallowed" <=> ~Allowed(rules[o], call[c].req.path)
        OBVIOUS
      <4>1. RespectedBy(c) /\ Origin(c) = o /\ call[c].req.op = "load"
        BY DEF CacheIInv, AskedFor, Origin
      <4>2. call[c].req.path \in Paths
        BY <4>1, LoadsHaveOrigins DEF Ops, Paths
      <4> QED
        BY <4>1, <4>2 DEF RespectedBy, AskedFor
    <3>2. f \in RobotsFiles
      BY DEF CacheIInv
    <3>3. CASE rules[o] = AllowAll
      <4>1. \A path : Allowed(rules[o], path)
        BY <3>3 DEF Allowed, AllowAll, Unknown
      <4> QED
        BY <3>1, <3>3, <4>1
    <3>4. CASE WasRead(rules[o], f)
      <4>1. PICK read \in ReadingsOf[f] : rules[o] = Entry(GroupsIn[read])
        BY <3>4 DEF WasRead
      <4>2. read \in DOMAIN GroupsIn
        BY <3>2, <4>1 DEF GroupsIn
      <4>3. PICK S : read \in Seq(S)
        BY <3>2, <4>1, ReadingsAreLines
      <4>4. GroupsIn[read] = ParseRobotsTxt(read)
        BY <4>2 DEF GroupsIn
      <4>5. \A path : IsDisallowed(GroupsIn[read], path) <=> Forbidden(read, path)
        BY <4>3, <4>4, ForbiddenByLines
      <4>6. \A path \in Paths : ForbiddenIn[read][path] = Forbidden(read, path)
        BY <4>2 DEF ForbiddenIn
      <4>7. \A path : Allowed(rules[o], path) <=> ~IsDisallowed(GroupsIn[read], path)
        BY <4>1 DEF Allowed, Entry
      <4>8. \A c \in Calls : AskedFor(c, o) =>
                (call[c].result = "disallowed" <=> ForbiddenIn[read][call[c].req.path])
        BY <3>1, <4>5, <4>6, <4>7
      <4> QED
        BY <4>1, <4>8
    <3> QED
      BY <3>1, <3>3, <3>4, <2>2 DEF CacheIInv
  <2>3. RobotsRespected
    BY <2>2 DEF RobotsRespected
  <2> QED
    BY <2>1, <2>3 DEF RobotsKept
<1> QED
  BY <1>1, SpecIInv, CacheInit, CacheNext, PTL DEF Spec

=============================================================================
