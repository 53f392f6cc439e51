-------------------------- MODULE RequestLifecycle --------------------------
(***************************************************************************)
(* What a page promises about its navigations: the network events of a     *)
(* request come in order and end at most once, and the document shown is   *)
(* that of a request that has finished.                                    *)
(***************************************************************************)
CONSTANTS
    Requests,   \* identities of the requests
    None        \* no request; not one of Requests

VARIABLES
    phase,      \* the last network event of each request
    shown       \* the request whose document is shown

lifecycleVars == <<phase, shown>>

Init ==
    /\ phase = [r \in Requests |-> "new"]
    /\ shown = None

Advance(r, from, to) ==
    /\ phase[r] = from
    /\ phase' = [phase EXCEPT ![r] = to]
    /\ UNCHANGED shown

Show(r) ==
    /\ phase[r] = "finished"
    /\ shown' = r
    /\ UNCHANGED phase

(* The page is closed. *)
Clear ==
    /\ shown' = None
    /\ UNCHANGED phase

Next ==
    \/ \E r \in Requests :
          \/ Advance(r, "new", "sent")
          \/ Advance(r, "sent", "received")
          \/ Advance(r, "received", "finished")
          \/ Advance(r, "sent", "failed")
          \/ Show(r)
    \/ Clear

Spec == Init /\ [][Next]_lifecycleVars

=============================================================================
