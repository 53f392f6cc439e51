------------------------------ MODULE Sublists ------------------------------
(* What a loop leaves of a list that appends some of its elements to a     *)
(* new one: those that stand at the positions S.                           *)
EXTENDS Naturals, Sequences

SublistUpTo(list, S) ==
    LET upTo[n \in 0..Len(list)] ==
          IF n = 0 THEN <<>>
          ELSE IF n \in S THEN Append(upTo[n - 1], list[n]) ELSE upTo[n - 1]
    IN upTo

Sublist(list, S) == SublistUpTo(list, S)[Len(list)]

=============================================================================
