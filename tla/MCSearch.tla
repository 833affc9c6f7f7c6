------------------------------ MODULE MCSearch ------------------------------
(* Three candidates with a resume each, one of them still in the queue, one   *)
(* who edits the profile and one who leaves; batches of two, pages of one.    *)
EXTENDS CandidateSearch

MCOwnerOf == <<1, 2, 3>>
MCTextOf == <<{"Node.js", "go"}, {"node"}, {"Node.js", "++"}>>
MCSplitWord == [w \in {"Node.js", "node", "go", "++"} |->
                  CASE w = "Node.js" -> {"node", "js"}
                    [] w = "++" -> {}
                    [] OTHER -> {w}]

Seg(op, words) == [op |-> op, words |-> words]

\* "Node.js AND ++ OR node", of which a segment is dropped, and "go OR ++ AND
\* node" with the structured filters.
MCSearches ==
    {[q |-> <<Seg("&", {"Node.js"}), Seg("&", {"++"}), Seg("|", {"node"})>>,
      skills |-> {}, years |-> NULL, score |-> NULL],
     [q |-> <<Seg("&", {"go"}), Seg("|", {"++"}), Seg("&", {"node"})>>,
      skills |-> {"s"}, years |-> 2, score |-> 50]}

MCScoresOf == <<{60}, {40, 70}, {80}>>
MCYearsOf == <<2, 1, 3>>
MCSkillsOf == <<{"s"}, {"s", "t"}, {"s"}>>

\* Positions with tied sort values.
MCPositions == {<<v, id>> : v \in 1..2, id \in 1..2}
=============================================================================
