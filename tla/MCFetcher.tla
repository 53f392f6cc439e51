----------------------------- MODULE MCFetcher -----------------------------
(* Two calls that run at the same time, one of which may leave hints.      *)
EXTENDS Fetcher

CONSTANTS c1, c2

MCCalls == {c1, c2}
(* c1 has a context that never ends. *)
Req(op, path, mayCancel) == [op |-> op, origin |-> "o", path |-> path, mayCancel |-> mayCancel]
MCRequests(c) ==
    IF c = c1 THEN {Req("load", <<"a">>, FALSE), Req("challenge", <<"a">>, FALSE)}
              ELSE {Req("load", <<"a", "b">>, TRUE), Req("navigate", <<"a">>, TRUE)}
MCHintsOf(c) == <<c>>
MCHintWorkers == {<<c2>>}
MCWorkers == MCCalls \cup MCHintWorkers

Agent(a) == [key |-> "agent", agent |-> a, path |-> <<>>]
Rule(key, path) == [key |-> key, agent |-> None, path |-> path]
Blank == [key |-> "blank", agent |-> None, path |-> <<>>]

(* Anyone is kept from all, the agent from all but a/b, while a rule       *)
(* stands outside of every group.                                          *)
MCRobotsFiles == {
    <<Agent(Anyone), Rule("disallow", <<"a">>), Blank, Rule("disallow", <<"a", "b">>),
      Agent(Me), Rule("disallow", <<"a">>), Rule("allow", <<"a", "b">>)>>}
MCShortened(name) == IF name = Me THEN {"m"} ELSE {}

Headers(status, ray) == [status |-> status, ray |-> ray, mitigated |-> FALSE, cloudflare |-> ray]
MCAnswer == [ok |-> Headers(200, FALSE), waiting |-> Headers(503, TRUE)]

=============================================================================
