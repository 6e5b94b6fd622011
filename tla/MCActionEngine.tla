--------------------------- MODULE MCActionEngine ---------------------------
(* ActionEngine.tla on every list of up to three actions of the kinds and  *)
(* orders below, for TLC.                                                  *)
EXTENDS ActionEngine

Plain(kind, o) == [order |-> o, kind |-> kind, yes |-> NoJump, no |-> NoJump]

\* Order 3 is jumped to and need not be in the list; the two orders of a list
\* of three make ties.
MCOrders  == 1..3
MCJumps   == {<<1, NoJump>>, <<3, NoJump>>, <<2, 1>>}
MCActions ==
  {Plain("send", 1), Plain("send", 2), Plain("forward", 2), Plain("delay", 1)}
    \cup {[order |-> o, kind |-> "condition", yes |-> j[1], no |-> j[2]] :
            o \in 1..2, j \in MCJumps}
MCLists   == UNION {[1..n -> MCActions] : n \in 0..3}
=============================================================================
