---------------------------- MODULE MCPhysics3D ----------------------------
(* A floor of two tiles, a wall, a trigger beside the player's path, and    *)
(* one in the wall.                                                         *)
EXTENDS Physics3D

Body(id, x, y, hx, hy) == [id |-> id, x |-> x, y |-> y, hx |-> hx, hy |-> hy, isTrigger |-> id \in {"goal", "lever"}]

MCBodies == <<Body("floor", 0, -2, 2, 2), Body("floor2", 6, -2, 4, 2),
              Body("wall", 6, 2, 2, 4), Body("goal", 3, 3, 2, 1), Body("lever", 6, 2, 2, 1)>>
MCSize == [hx |-> 1, hy |-> 1]
MCStart == [x |-> 0, y |-> 2]
=============================================================================
