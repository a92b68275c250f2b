---------------------------- MODULE MCGameSession ----------------------------
EXTENDS GameSession, TLC

CONSTANTS first, second, plan

\* Two attempts at one plan, of one clip each.
MCItemCount == [j \in Jobs |-> 1]
MCPlanOf == [j \in Jobs |-> plan]

\* The attempts may be swapped.
Twins == Permutations({first, second})
=============================================================================
