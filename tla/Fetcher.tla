------------------------------ MODULE Fetcher ------------------------------
(***************************************************************************)
(* A Fetcher (src/internal/network): attempts with delays, robots.txt      *)
(* (robots.go), the second fetch after a Cloudflare challenge              *)
(* (cloudflare_challenge.go), documents (loader.go), and the hints that a  *)
(* navigation leaves to a goroutine nobody waits for (resource_hints.go).  *)
(* Calls of any kind run concurrently.  Left out: headers, the bytes of    *)
(* bodies, TLS, and time, of which only the outcomes remain.               *)
(***************************************************************************)
EXTENDS HttpClient, Robots

CONSTANTS
    Calls, Requests(_),  \* calls that callers make; what a call may be
                         \* ([op, origin, path, mayCancel: its context may end])
    HintWorkers, HintsOf(_),  \* the goroutine of a call that navigates
    Origins,
    RobotsFiles,    \* what the robots.txt of an origin may say
    Answer,         \* answers of servers, by name: [status, ray, mitigated, cloudflare]
    MaxRetries,
    MaxHints,       \* maxResourceHints
    ObeyRobots

VARIABLES
    call,           \* for each call, what it does and where it is
    open,           \* for each call, response bodies that are open
    lock,           \* robots.mu: who holds it
    rules,          \* robots.rules
    files, asked,   \* what each origin serves; history: how often it was asked
    hints           \* for each goroutine, requests it has left

callVars == <<call, open>>
robotsVars == <<lock, rules, files, asked>>
vars == <<clientVars, callVars, robotsVars, hints>>

ASSUME FetcherAssumption == MaxRetries \in Nat /\ MaxHints \in Nat /\ ObeyRobots \in BOOLEAN
ASSUME WorkersAreApart ==
    /\ Calls \cup HintWorkers \subseteq Workers /\ Calls \cap HintWorkers = {}
    /\ \A c \in Calls : \A req \in Requests(c) :
          req.op = "navigate" => HintsOf(c) \in HintWorkers

ASSUME FilesAreLines == \A f \in RobotsFiles : f \in Seq(Range(f))

None == "none"
ASSUME NoneIsNoCall == None \notin Calls

(* An entry of the cache: none yet, nil when robots.txt was not to be had,  *)
(* or the groups.                                                          *)
Unknown == [known |-> FALSE, had |-> FALSE, groups |-> <<>>]
AllowAll == [Unknown EXCEPT !.known = TRUE]
Entry(groups) == [known |-> TRUE, had |-> TRUE, groups |-> groups]
Responses == DOMAIN Answer
Errors == {"reset", "deadline"}      \* one that may pass, one that ends the fetch
IsResponse(r) == r \in Responses
Failures == {"refused", "cancelled", "unreadable", "disallowed"}
ASSUME AnswersHaveNames == Responses \cap (Errors \cup Failures \cup {None}) = {}

(* A call: the attempts it gave up (tried), the answer that is being read, *)
(* whether it is the fetch after a challenge.                              *)
Idle == [req |-> [op |-> None, origin |-> None, path |-> <<>>, mayCancel |-> FALSE], at |-> "idle", tried |-> <<>>,
         again |-> FALSE, cancelled |-> FALSE, answer |-> None, result |-> None]

Ops == {"load", "navigate", "challenge"}
ASSUME RequestsAreSome ==
    \A c \in Calls : \A req \in Requests(c) : req.op \in Ops /\ req.origin \in Origins

Init ==
    /\ ClientInit
    /\ call = [c \in Calls |-> Idle] /\ open = [c \in Calls |-> 0]
    /\ lock = None /\ rules = [o \in Origins |-> Unknown]
    /\ files \in [Origins -> RobotsFiles] /\ asked = [o \in Origins |-> 0]
    /\ hints = [h \in HintWorkers |-> 0]

-----------------------------------------------------------------------------
(* Where a call goes next. *)
Goes(c, at) == call' = [call EXCEPT ![c].at = at]
Ends(c, result) == [call[c] EXCEPT !.at = "done", !.cancelled = FALSE, !.result = result]

(* robots.go.  Navigate and the challenge do not ask. *)
Begin(c, req) ==
    /\ call[c].at = "idle"
    /\ call' = [call EXCEPT ![c] = [Idle EXCEPT !.req = req,
                                       !.at = IF req.op = "load" /\ ObeyRobots THEN "robots" ELSE "send"]]
    /\ UNCHANGED <<clientVars, open, robotsVars, hints>>

Allowed(entry, path) == ~entry.had \/ ~IsDisallowed(entry.groups, path)
CheckRobots(c, entry) ==
    call' = [call EXCEPT ![c] = IF Allowed(entry, call[c].req.path) THEN [@ EXCEPT !.at = "send"]
                                                                 ELSE Ends(c, "disallowed")]

CacheHit(c) ==
    /\ call[c].at = "robots" /\ lock = None
    /\ rules[call[c].req.origin] # Unknown
    /\ CheckRobots(c, rules[call[c].req.origin])
    /\ UNCHANGED <<clientVars, open, robotsVars, hints>>

AskRobots(c) ==
    /\ call[c].at = "robots" /\ lock = None
    /\ rules[call[c].req.origin] = Unknown
    /\ lock' = c
    /\ asked' = [asked EXCEPT ![call[c].req.origin] = @ + 1]
    /\ Starts(c)
    /\ Goes(c, "asking")
    /\ UNCHANGED <<open, rules, files, hints>>

(* What may be read of a file, and the groups in it. *)
ReadingsOf == [f \in RobotsFiles |-> Readings(f)]
GroupsIn == [read \in UNION {ReadingsOf[f] : f \in RobotsFiles} |-> ParseRobotsTxt(read)]

(* Bug: the lock is not released when robots.txt is not to be had. *)
Remember_Holds(c, entry) ==
    /\ rules' = [rules EXCEPT ![call[c].req.origin] = entry]
    /\ lock' = IF entry.had THEN None ELSE lock
    /\ CheckRobots(c, entry)
    /\ UNCHANGED <<open, files, asked, hints>>

Remember(c, entry) ==
    /\ rules' = [rules EXCEPT ![call[c].req.origin] = entry]
    /\ lock' = None
    /\ CheckRobots(c, entry)
    /\ UNCHANGED <<open, files, asked, hints>>

RobotsAnswered(c) ==
    /\ call[c].at = "asking"
    /\ Returns(c)
    /\ \/ \E read \in ReadingsOf[files[call[c].req.origin]] : Remember(c, Entry(GroupsIn[read]))
       \/ Remember(c, AllowAll)      \* an error, or a status other than 200

RobotsRefused(c) == call[c].at = "asking" /\ Refuse(c) /\ Remember(c, AllowAll)

-----------------------------------------------------------------------------
(* fetcher.go *)

(* A caller's context ends.  A request that is not under way is not sent,  *)
(* be it that the delay ends first: Do looks at the context.  One whose    *)
(* body is read fails as any reading may.                                  *)
Cancel(c) ==
    /\ call[c].at \notin {"idle", "read", "done"}
    /\ call[c].req.mayCancel /\ ~call[c].cancelled
    /\ call' = [call EXCEPT ![c].cancelled = TRUE]
    /\ UNCHANGED <<clientVars, open, robotsVars, hints>>

Send(c) ==
    /\ call[c].at = "send" /\ ~call[c].cancelled
    /\ Starts(c)
    /\ Goes(c, "sent")
    /\ UNCHANGED <<open, robotsVars, hints>>

DetectCloudflareFromHeaders(r) ==
    LET has == Answer[r]
    IN has.mitigated \/ (has.ray /\ has.status = 403) \/ (has.ray /\ has.status = 503 /\ has.cloudflare)

(* What a fetch that returns x does for its caller.                        *)
(* Bug: the second fetch's error takes the place of the first answer. *)
Returned_Error(c, x) ==
    LET now == call[c] IN
    CASE ~IsResponse(x) -> Ends(c, x)
      [] IsResponse(x) /\ now.req.op # "challenge" -> [now EXCEPT !.at = "read", !.answer = x]
      [] IsResponse(x) /\ now.req.op = "challenge" /\ ~now.again /\ DetectCloudflareFromHeaders(x) ->
            [now EXCEPT !.at = "solve", !.answer = x]
      [] OTHER -> Ends(c, x)

Returned(c, x) ==
    LET now == call[c] IN
    CASE ~IsResponse(x) -> Ends(c, IF now.again THEN now.answer ELSE x)
      [] IsResponse(x) /\ now.req.op # "challenge" -> [now EXCEPT !.at = "read", !.answer = x]
      [] IsResponse(x) /\ now.req.op = "challenge" /\ ~now.again /\ DetectCloudflareFromHeaders(x) ->
            [now EXCEPT !.at = "solve", !.answer = x]
      [] OTHER -> Ends(c, x)

IsRetryable(x) == x = "reset"
IsBusy(r) == Answer[r].status \in {503, 429}
Transient(x) == IF IsResponse(x) THEN IsBusy(x) ELSE IsRetryable(x)

Retries(c, x) == Len(call[c].tried) < MaxRetries /\ Transient(x)
Waits(c, x) == [call[c] EXCEPT !.at = "send", !.tried = Append(@, x)]

(* Bug: the body of an answer that is tried again stays open. *)
Answered_Open(c, x) ==
    /\ call[c].at = "sent"
    /\ Returns(c)
    /\ call' = [call EXCEPT ![c] = IF Retries(c, x) THEN Waits(c, x) ELSE Returned(c, x)]
    /\ open' = [open EXCEPT ![c] = IF IsResponse(x) THEN @ + 1 ELSE @]
    /\ UNCHANGED <<robotsVars, hints>>

(* Do returns a response or an error.  The timeout of the client is a      *)
(* context.DeadlineExceeded too, and so ends the fetch.                    *)
Answered(c, x) ==
    /\ call[c].at = "sent"
    /\ Returns(c)
    /\ call' = [call EXCEPT ![c] = IF Retries(c, x) THEN Waits(c, x) ELSE Returned(c, x)]
    /\ open' = [open EXCEPT ![c] = IF IsResponse(x) /\ ~Retries(c, x) THEN @ + 1 ELSE @]
    /\ UNCHANGED <<robotsVars, hints>>

FetchRefused(c) ==
    /\ call[c].at = "sent"
    /\ Refuse(c)
    /\ call' = [call EXCEPT ![c] = Returned(c, "refused")]
    /\ UNCHANGED <<open, robotsVars, hints>>

Cancelled(c) ==
    /\ call[c].cancelled
    /\ \/ call[c].at = "send" /\ UNCHANGED clientVars
       \/ call[c].at = "sent" /\ Returns(c)
    /\ call' = [call EXCEPT ![c] = Returned(c, "cancelled")]
    /\ UNCHANGED <<open, robotsVars, hints>>

-----------------------------------------------------------------------------
(* What is done with the answer. *)
CloseBody(c) == open' = [open EXCEPT ![c] = @ - 1]

(* The document is read, decompressed, decoded and parsed; any of them may *)
(* fail.  Once a navigation has its document, the hints go their way: the  *)
(* favicon and the resources it names, at most MaxHints.                   *)
ReadBody(c, n) ==
    /\ call[c].at = "read"
    /\ CloseBody(c)
    /\ \/ /\ call' = [call EXCEPT ![c] = Ends(c, @.answer)]
          /\ hints' = IF call[c].req.op = "navigate" THEN [hints EXCEPT ![HintsOf(c)] = 1 + Min({n, MaxHints})]
                                                 ELSE hints
       \/ call' = [call EXCEPT ![c] = Ends(c, "unreadable")] /\ UNCHANGED hints
    /\ UNCHANGED <<clientVars, robotsVars>>

(* SolveChallenge: the page's scripts may set cookies or not.              *)
Solve(c) ==
    /\ call[c].at = "solve"
    /\ CloseBody(c)
    /\ \/ call' = [call EXCEPT ![c] = Ends(c, "unreadable")]
       \/ call' = [call EXCEPT ![c] = Ends(c, @.answer)]
       \/ call' = [call EXCEPT ![c] = [@ EXCEPT !.at = "send", !.again = TRUE, !.tried = <<>>]]
    /\ UNCHANGED <<clientVars, robotsVars, hints>>

SendHint(h) ==
    /\ hints[h] > 0 /\ doing[h].at = "none"
    /\ Starts(h)
    /\ UNCHANGED <<callVars, robotsVars, hints>>

(* Whatever comes of a hint, the next one is sent.                         *)
HintDone(h) ==
    /\ h \in HintWorkers
    /\ Returns(h) \/ Refuse(h)
    /\ hints' = [hints EXCEPT ![h] = @ - 1]
    /\ UNCHANGED <<callVars, robotsVars>>

(* A server answers with a redirect.                                       *)
Redirected(w) ==
    /\ ReadCount(w) \/ Follow(w)
    /\ UNCHANGED <<callVars, robotsVars, hints>>

Progress(c) ==
    \/ CacheHit(c) \/ AskRobots(c) \/ RobotsAnswered(c) \/ RobotsRefused(c) \/ Send(c)
    \/ \E x \in Responses \cup Errors : Answered(c, x)
    \/ FetchRefused(c) \/ Cancelled(c) \/ \E n \in 0..(MaxHints + 1) : ReadBody(c, n)
    \/ Solve(c) \/ Redirected(c)
HintStep(h) == SendHint(h) \/ HintDone(h) \/ Redirected(h)

Next ==
    \/ \E c \in Calls :
          \/ \E req \in Requests(c) : Begin(c, req)
          \/ Cancel(c) \/ Progress(c)
    \/ \E h \in HintWorkers : HintStep(h)

Spec == Init /\ [][Next]_vars

(* Every goroutine runs on, and the client's timeout ends each request.    *)
FairSpec ==
    /\ Spec
    /\ \A c \in Calls : WF_vars(Progress(c))
    /\ \A h \in HintWorkers : WF_vars(HintStep(h))

-----------------------------------------------------------------------------
Results == Responses \cup Errors \cup Failures \cup {None}

(* Types of the variables. *)
TypeOK ==
    /\ ClientTypeOK
    /\ \A c \in Calls :
          /\ call[c].at \in {"idle", "robots", "asking", "send", "sent", "read", "solve", "done"}
          /\ call[c].result \in Results
    /\ open \in [Calls -> 0..1] /\ hints \in [HintWorkers -> 0..(MaxHints + 1)]
    /\ lock \in Calls \cup {None}

(* A body is open only while its call reads it, or in the hands of the     *)
(* caller of FetchWithChallengeRetry, who has an answer to close: attempts *)
(* that were given up, errors and challenges leave none behind.            *)
BodiesClosed ==
    \A c \in Calls : open[c] > 0 =>
        /\ call[c].at \in {"read", "solve", "done"}
        /\ call[c].at = "done" => call[c].req.op = "challenge" /\ IsResponse(call[c].result)

(* Only what may pass is tried again, at most MaxRetries times, and a call *)
(* ends with something that may pass only when it was tried that often.    *)
TriedEnough ==
    \A c \in Calls :
        LET tried == call[c].tried IN
        /\ Len(tried) <= MaxRetries /\ \A i \in DOMAIN tried : Transient(tried[i])
        /\ Transient(call[c].result) /\ ~(call[c].again /\ call[c].result = call[c].answer) =>
              Len(tried) = MaxRetries

(* A caller who was shown a challenge never loses it to the attempt to     *)
(* solve it: the call ends with that answer or with a later one.           *)
FirstAnswerKept ==
    \A c \in Calls : call[c].at = "done" /\ call[c].req.op = "challenge" /\ call[c].answer # None =>
        IsResponse(call[c].result) \/ (call[c].result = "unreadable" /\ ~call[c].again)

(* robots.txt of an origin is asked for once, however many calls want it   *)
(* at the same moment.                                                     *)
RobotsOnce == \A o \in Origins : asked[o] <= 1

Paths == UNION {{req.path : req \in Requests(c)} : c \in Calls}
ForbiddenIn == [read \in DOMAIN GroupsIn |-> [p \in Paths |-> Forbidden(read, p)]]

AskedFor(c, o) ==
    /\ call[c].req.op = "load" /\ ObeyRobots /\ call[c].req.origin = o
    /\ call[c].at \notin {"robots", "asking"}

(* Once robots.txt of an origin was asked for, one reading of it stands:   *)
(* all of it, or as much as came.  A call, the first or a later one, that  *)
(* overlaps others or not, is refused just for a path that those lines     *)
(* forbid, and none is refused when robots.txt was not to be had.          *)
RobotsRespected ==
    \A o \in Origins :
        LET loads == {c \in Calls : AskedFor(c, o)}
            Refused(c) == call[c].result = "disallowed"
        IN loads # {} =>
            \/ rules[o] = AllowAll /\ \A c \in loads : ~Refused(c)
            \/ \E read \in ReadingsOf[files[o]] :
                  /\ rules[o] = Entry(GroupsIn[read])
                  /\ \A c \in loads : Refused(c) <=> ForbiddenIn[read][call[c].req.path]

(* Every call ends, and every goroutine of hints, whatever redirects and   *)
(* failures it meets and whoever holds the lock of the cache.              *)
CallsEnd == \A c \in Calls : (call[c].at # "idle") ~> (call[c].at = "done")
HintsEnd == \A h \in HintWorkers : []<>(hints[h] = 0)

(* fetcher.go:33: "MaxRedirects is the maximum number of redirects to      *)
(* follow."  A call may be refused its first.                              *)
RefusedOnlyAfterMax ==
    \A c \in Calls : call[c].result = "refused" => doing[c].followed >= MaxRedirects

(* page/navigate_helpers.go:16: "It performs: robots check -> fetch -> ..." *)
NavigateAsksRobots ==
    \A c \in Calls : ObeyRobots /\ call[c].req.op = "navigate" /\ call[c].at = "sent" =>
        rules[call[c].req.origin] # Unknown

(* What requests of one fetcher share and hold stays within its bounds:    *)
(* the count of redirects, the bodies that are open.                       *)
Bounded == TypeOK /\ RedirectsBounded /\ BodiesClosed

(* Attempts are made as often as they should, and the answer of an earlier *)
(* one is not lost to a later one.                                         *)
TriedWell == TriedEnough /\ FirstAnswerKept

(* robots.txt is asked for once, and what was read of it is obeyed.        *)
RobotsKept == RobotsOnce /\ RobotsRespected

(* Nothing that was begun with the fetcher goes on for ever.               *)
AllEnd == CallsEnd /\ HintsEnd

=============================================================================
