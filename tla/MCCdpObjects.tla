---------------------------- MODULE MCCdpObjects ----------------------------
(* Two documents: d1 with an element b and a text t, d2 with an element e. *)
(* x is an element of d1 not yet made.                                     *)
EXTENDS CdpObjects

CONSTANTS c1, c2, c3, d1, d2, b, t, e, x

MCNodes == {d1, d2, b, t, e, x}
MCElements == {b, e, x}
MCDocOf == [n \in MCNodes |-> IF n \in {d2, e} THEN d2 ELSE d1]
MCFirstKids == [n \in MCNodes |-> CASE n = d1 -> <<b, t>>
                                    [] n = d2 -> <<e>>
                                    [] OTHER -> <<>>]
MCShows == <<d1, d2>>
MCOps == [c \in {c1, c2, c3} |->
            CASE c = c1 -> {"runtime"}
              [] c = c2 -> {"dom", "runtime"}
              [] OTHER -> {"getDocument"}]

(* Of the three commands at most two run at the same time. *)
Busy(c) == cmd[c].pc \notin {"idle", "done"} \/ c \in UnderWay
AtMostTwo == Cardinality({c \in Cmds : Busy(c)}) <= 2

MCDepths == {1, 2}
MCGiven == {<<0, 1>>, <<1, 2>>}

=============================================================================
