---------------------------- MODULE PageRequests ----------------------------
(***************************************************************************)
(* What a page and its interceptor share: the requests of navigations,     *)
(* each with the context that Navigate merges for it, the two stages at    *)
(* which the interceptor is asked, and what it may decide.                 *)
(***************************************************************************)
CONSTANTS
    Requests,   \* calls of Navigate, each with its own requestId
    None        \* no request, no registration, no call, no decision

ASSUME NoneIsNoRequest == None \notin Requests

VARIABLE ctxDone    \* requests whose navigation context is done

Stages == {"request", "response"}

(* A decision without overrides becomes a nil result, which the page       *)
(* treats as a plain continue.                                             *)
Decisions == {"continue", "override", "fail", "fulfill"}
Results == Decisions \cup {"error"}

=============================================================================
