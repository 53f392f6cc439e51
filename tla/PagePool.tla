------------------------------ MODULE PagePool ------------------------------
(***************************************************************************)
(* What the browser promises about its page limit                          *)
(* (src/internal/browser/browser.go, Options.MaxPages): a page takes a     *)
(* permit when it is created and gives it back once, when it is closed,    *)
(* and no more than MaxPages permits are out at any time, whatever the     *)
(* contexts the pages belong to.  Browser.tla implements this module.      *)
(***************************************************************************)
EXTENDS Naturals, FiniteSets

CONSTANTS
    Pages,      \* identities of the pages ever created
    MaxPages    \* most permits out at one time; a natural, 0 means no limit

VARIABLES
    held,       \* pages whose permit is out
    spent       \* pages whose permit was given back

poolVars == <<held, spent>>

Init == held = {} /\ spent = {}

HasRoom == MaxPages = 0 \/ Cardinality(held) < MaxPages

(* A page that never held a permit takes one, if the limit allows. *)
Acquire(p) ==
    /\ p \notin held \cup spent
    /\ HasRoom
    /\ held' = held \cup {p}
    /\ UNCHANGED spent

(* A page gives its permit back; it will never hold another. *)
Release(p) ==
    /\ p \in held
    /\ held' = held \ {p}
    /\ spent' = spent \cup {p}

Next == \E p \in Pages : Acquire(p) \/ Release(p)

Spec == Init /\ [][Next]_poolVars

=============================================================================
