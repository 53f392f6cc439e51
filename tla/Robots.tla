------------------------------- MODULE Robots -------------------------------
(***************************************************************************)
(* robots.txt (src/internal/network/robots.go): how its lines make groups, *)
(* and what the groups forbid.  A line is a key and a value: the name of   *)
(* an agent, or a path as the sequence of its parts.  A line with a key    *)
(* that is not known is left out; a comment counts as a blank line.        *)
(***************************************************************************)
EXTENDS Naturals, Sequences, SequencesExt

CONSTANTS
    Me,     \* the agent: what the fetcher's user agent has before the "/"
    Anyone, \* "*"
    Shortened(_)    \* what may be left of the name of an agent whose end is lost

NoGroup == [agents |-> {}, disallows |-> {}, allows |-> {}]

(* parseRobotsTxt: a blank line ends a group, a rule outside one is        *)
(* dropped, and so is one with an empty path.                              *)
Close(acc) ==
    IF acc.open THEN [groups |-> Append(acc.groups, acc.current), open |-> FALSE, current |-> NoGroup]
                ELSE acc

(* Bug: a rule outside of every group is kept for the next one. *)
AddLine_Outside(acc, line) ==
    CASE line.key = "blank" -> Close(acc)
      [] line.key = "agent" -> [acc EXCEPT !.open = TRUE, !.current.agents = @ \cup {line.agent}]
      [] line.key = "disallow" /\ line.path # <<>> ->
            [acc EXCEPT !.current.disallows = @ \cup {line.path}]
      [] line.key = "allow" /\ line.path # <<>> ->
            [acc EXCEPT !.current.allows = @ \cup {line.path}]
      [] OTHER -> acc

AddLine(acc, line) ==
    CASE line.key = "blank" -> Close(acc)
      [] line.key = "agent" -> [acc EXCEPT !.open = TRUE, !.current.agents = @ \cup {line.agent}]
      [] line.key = "disallow" /\ acc.open /\ line.path # <<>> ->
            [acc EXCEPT !.current.disallows = @ \cup {line.path}]
      [] line.key = "allow" /\ acc.open /\ line.path # <<>> ->
            [acc EXCEPT !.current.allows = @ \cup {line.path}]
      [] OTHER -> acc

Start == [groups |-> <<>>, open |-> FALSE, current |-> NoGroup]
Read(lines) ==
    LET read[n \in 0..Len(lines)] == IF n = 0 THEN Start ELSE AddLine(read[n - 1], lines[n])
    IN read
ParseRobotsTxt(lines) == Close(Read(lines)[Len(lines)]).groups

(* The scanner stops where the body breaks off or a line is too long, and  *)
(* nobody asks it why: what it read by then counts, also the piece of a    *)
(* line that had come.  Without its ":", a piece is no line at all.        *)
Pieces(line) ==
    CASE line.key = "agent" -> {[line EXCEPT !.agent = a] : a \in Shortened(line.agent)}
      [] line.key \in {"allow", "disallow"} ->
            {[line EXCEPT !.path = SubSeq(line.path, 1, k)] : k \in 0..Len(line.path)}
      [] OTHER -> {}

Readings(lines) ==
    {SubSeq(lines, 1, n) : n \in 0..Len(lines)} \cup
    UNION {{Append(SubSeq(lines, 1, n - 1), piece) : piece \in Pieces(lines[n])} : n \in DOMAIN lines}

(* isDisallowed: the last group that names the agent, or else the last     *)
(* that is for anyone; any allowed prefix of the path wins.                *)
NamedIn(groups, agent) == {i \in DOMAIN groups : agent \in groups[i].agents}
LastFor(groups, agent) ==
    {groups[i] : i \in {j \in NamedIn(groups, agent) : \A k \in NamedIn(groups, agent) : k <= j}}

Group(groups) == IF LastFor(groups, Me) # {} THEN LastFor(groups, Me) ELSE LastFor(groups, Anyone)

Matches(path, prefixes) == \E p \in prefixes : IsPrefix(p, path)

IsDisallowed(groups, path) ==
    \E g \in Group(groups) : ~Matches(path, g.allows) /\ Matches(path, g.disallows)

-----------------------------------------------------------------------------
(* The same, said of the lines: a block is what stands between two blank   *)
(* lines; the last one that names the agent counts, and in it the rules    *)
(* after the first agent.                                                  *)
SameBlock(lines, i, j) ==
    \A k \in DOMAIN lines : (i < k /\ k < j) \/ (j < k /\ k < i) => lines[k].key # "blank"

Naming(lines, agent) == {i \in DOMAIN lines : lines[i].key = "agent" /\ lines[i].agent = agent}

Rules(lines, key, agent, path) ==
    {i \in DOMAIN lines :
        /\ lines[i].key = key /\ lines[i].path # <<>> /\ IsPrefix(lines[i].path, path)
        /\ \E j \in 1..(i - 1) : lines[j].key = "agent" /\ SameBlock(lines, j, i)
        /\ \E j \in Naming(lines, agent) :
              SameBlock(lines, i, j) /\ \A k \in Naming(lines, agent) : k <= j \/ SameBlock(lines, i, k)}

Forbidden(lines, path) ==
    LET agent == IF Naming(lines, Me) # {} THEN Me ELSE Anyone
    IN Rules(lines, "disallow", agent, path) # {} /\ Rules(lines, "allow", agent, path) = {}

=============================================================================
