---------------------------- MODULE HttpClient -----------------------------
(***************************************************************************)
(* The http.Client of a Fetcher (src/internal/network/fetcher.go).  Many   *)
(* goroutines use it at once.  The count of redirects is a variable of     *)
(* NewFetcher that all of them add to, without a lock, and that nothing    *)
(* sets back: adding reads it, and writes and compares what it read and    *)
(* one more.  Above MaxRedirects its exact value makes no difference.      *)
(***************************************************************************)
EXTENDS Naturals, FiniteSets, FiniteSetsExt

CONSTANTS
    Workers,        \* whoever may have a request under way
    MaxRedirects

ASSUME RedirectsAssumption == MaxRedirects \in Nat

VARIABLES
    redirectCount,
    doing,      \* for each worker, where its request is
    followed,   \* history: redirects that were followed, in all
    raced       \* history: a write put an addition of another worker away

clientVars == <<redirectCount, doing, followed, raced>>

Capped(n) == Min({n, MaxRedirects + 1})
AtRest == [at |-> "none", seen |-> 0, followed |-> 0]

ClientInit ==
    /\ redirectCount = 0 /\ followed = 0 /\ raced = FALSE
    /\ doing = [w \in Workers |-> AtRest]

(* client.Do is called, and returns. *)
Do(w) == doing' = [doing EXCEPT ![w] = [AtRest EXCEPT !.at = "sent"]]
Starts(w) == Do(w) /\ UNCHANGED <<redirectCount, followed, raced>>
Returns(w) ==
    /\ doing[w].at = "sent"
    /\ doing' = [doing EXCEPT ![w] = AtRest]
    /\ UNCHANGED <<redirectCount, followed, raced>>

(* The answer is a redirect: CheckRedirect reads the count, *)
ReadCount(w) ==
    /\ doing[w].at = "sent"
    /\ doing' = [doing EXCEPT ![w].at = "redirected", ![w].seen = redirectCount]
    /\ UNCHANGED <<redirectCount, followed, raced>>

TooMany(n) == n > MaxRedirects

(* and writes it. *)
WriteCount(w) ==
    /\ doing[w].at = "redirected"
    /\ redirectCount' = Capped(doing[w].seen + 1)
    /\ raced' = (raced \/ redirectCount # doing[w].seen)

(* The redirect is followed. *)
Follow(w) ==
    /\ WriteCount(w) /\ ~TooMany(doing[w].seen + 1)
    /\ doing' = [doing EXCEPT ![w].at = "sent", ![w].seen = 0, ![w].followed = Capped(@ + 1)]
    /\ followed' = Capped(followed + 1)

(* It is refused: Do returns the error. *)
Refuse(w) ==
    /\ WriteCount(w) /\ TooMany(doing[w].seen + 1)
    /\ doing' = [doing EXCEPT ![w].at = "none", ![w].seen = 0]
    /\ UNCHANGED followed

ClientTypeOK ==
    /\ redirectCount \in 0..(MaxRedirects + 1) /\ followed \in 0..(MaxRedirects + 1)
    /\ raced \in BOOLEAN
    /\ doing \in [Workers -> [at : {"none", "sent", "redirected"}, seen : 0..(MaxRedirects + 1),
                              followed : 0..(MaxRedirects + 1)]]

(* Whatever the servers answer, the requests of one fetcher follow no more *)
(* than MaxRedirects redirects in all, those aside whose counting was lost *)
(* between the read and the write of another.                              *)
RedirectsBounded == ~raced => followed <= MaxRedirects

=============================================================================
