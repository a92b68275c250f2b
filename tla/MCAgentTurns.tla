--------------------------- MODULE MCAgentTurns ----------------------------
EXTENDS AgentTurns, TLC

CONSTANTS x, y, sx, sy

\* One session each.
MCSessionOf == [t \in Turns |-> IF t = x THEN sx ELSE sy]

\* The turns may be swapped together with their sessions.
Twins == {f \in Permutations({x, y, sx, sy}) : f[x] \in {x, y} /\ f[MCSessionOf[x]] = MCSessionOf[f[x]]}

\* Both turns in one session.
OneSession == [t \in Turns |-> sx]
============================================================================
