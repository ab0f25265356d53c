--------------------------- MODULE MCBlockchain ----------------------------
(* A small block tree for TLC: two competing blocks at height 1 (a1, b1), *)
(* a child of each at height 2, a height-2 block linked to genesis (x2),  *)
(* a height-3 block, a height-0 block linked to a1 (z0), and a correctly  *)
(* linked block that fails signature/validator checks (bad1), and a      *)
(* height-1 block linked to a1 (y1), which claims the height of its own  *)
(* parent and must fail the height check on top of a1.                   *)
EXTENDS Blockchain

CONSTANTS G, a1, b1, a2, b2, x2, a3, z0, bad1, y1

MCBlocks == {a1, b1, a2, b2, x2, a3, z0, bad1, y1}

MCHeight == [b \in MCBlocks |->
               CASE b \in {a1, b1, bad1, y1} -> 1
                 [] b \in {a2, b2, x2}   -> 2
                 [] b = a3               -> 3
                 [] b = z0               -> 0]

MCPrev == [b \in MCBlocks |->
             CASE b \in {a1, b1, bad1, x2} -> G
               [] b = a2                   -> a1
               [] b = b2                   -> b1
               [] b = a3                   -> a2
               [] b \in {z0, y1}           -> a1]

MCInvalid == {bad1}
=============================================================================
