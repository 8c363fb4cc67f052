------------------------------ MODULE Physics3D ------------------------------
(***************************************************************************)
(* A running 3D scene: the physics world of lib/physics3d.ts, the          *)
(* character controller of lib/character3d.ts and the frame loop of        *)
(* components/runtime/viewport-3d.tsx that drives both with fixed steps.   *)
(*                                                                         *)
(* Lengths are whole numbers and time is counted in fixed steps; the depth *)
(* axis is left out (every body overlaps every other along it).  There is  *)
(* one dynamic body, the controlled one, so that a correction is never     *)
(* shared between two masses; the other bodies are static solids and       *)
(* triggers.                                                               *)
(***************************************************************************)
EXTENDS Integers, Sequences, SequencesExt, FiniteSets

CONSTANTS StaticBodies,   \* sequence of [id, x, y, hx, hy, isTrigger]
          PlayerSize,     \* authored half extents [hx, hy] of the player's box
          PlayerScale,    \* its world scale
          PlayerStart,    \* [x, y] of its centre
          MoveKeys,       \* keys bound to the movement slots
          JumpKeys,       \* keys bound to the jump slot
          JumpForce,
          MaxFrames,      \* bound: frames of a behaviour
          MaxFrameSteps   \* bound: fixed steps of a frame (maxCatchUpSteps is 4)

ASSUME PhysicsAssumption ==
  /\ PlayerScale \in Nat \ {0} /\ JumpForce \in Nat
  /\ {MaxFrames, MaxFrameSteps} \subseteq Nat
  /\ \A b \in ToSet(StaticBodies) : b.id # "player"

VARIABLES player,        \* centre, velocity and grounded of the dynamic body
          triggerPairs,  \* pairs <<body, trigger>> that overlapped last step
          told,          \* pairs entered and not left, as the app was told
          keysPressed, jumpQueued,
          frames         \* frames so far (bookkeeping of the bound)

physicsVars == <<player, triggerPairs, told, keysPressed, jumpQueued, frames>>

-----------------------------------------------------------------------------
(* The world *)

Magnitude(n) == IF n < 0 THEN -n ELSE n
Direction(n) == IF n < 0 THEN -1 ELSE 1

\* How two boxes overlap: the push that takes a out of b along the axis of
\* least penetration; none when they do not overlap.
NoHit == [nx |-> 0, ny |-> 0, depth |-> 0]
OverlapBetween(a, b) ==
  LET dx == a.x - b.x  dy == a.y - b.y
      px == a.hx + b.hx - Magnitude(dx)
      py == a.hy + b.hy - Magnitude(dy) IN
  IF px <= 0 \/ py <= 0 THEN NoHit
  ELSE IF px <= py THEN [nx |-> Direction(dx), ny |-> 0, depth |-> px]
  ELSE [nx |-> 0, ny |-> Direction(dy), depth |-> py]

\* The player's box where p is, at a scale.
Collider(p, scale) == [x |-> p.x, y |-> p.y, hx |-> PlayerSize.hx * scale, hy |-> PlayerSize.hy * scale]

Integrate(p) ==
  LET vy == p.vy - 1 IN
  [p EXCEPT !.vy = vy, !.x = @ + p.vx, !.y = @ + vy, !.grounded = FALSE]

\* The player is pushed out of one solid, by how deep its box was in it when
\* the step began to resolve.
PushOut(box, p, other) ==
  LET hit == OverlapBetween(box, other)
      into == p.vx * hit.nx + p.vy * hit.ny
      stop == IF into < 0 THEN into ELSE 0 IN
  [x |-> p.x + hit.nx * hit.depth, y |-> p.y + hit.ny * hit.depth,
   vx |-> p.vx - hit.nx * stop, vy |-> p.vy - hit.ny * stop,
   grounded |-> p.grounded \/ hit.ny > 0]

Solids == {b \in ToSet(StaticBodies) : ~b.isTrigger}
Triggers == {b \in ToSet(StaticBodies) : b.isTrigger}

\* The solids push one after another, in the order of the bodies.
Resolve(p) ==
  LET box == Collider(p, PlayerScale) IN
  FoldLeft(LAMBDA q, other : IF other.isTrigger THEN q ELSE PushOut(box, q, other), p, StaticBodies)

\* Mutant of Resolved: the collider is not made again after the pushes.
ResolvedBefore(p) == Collider(p, PlayerScale)

\* The collider that triggers are tested with: made again, at scale one, when
\* the player was pushed.
Resolved(p) ==
  LET hit == \E other \in Solids : OverlapBetween(Collider(p, PlayerScale), other) # NoHit IN
  Collider(Resolve(p), IF hit THEN 1 ELSE PlayerScale)

Touching(box) == {t \in Triggers : OverlapBetween(box, t) # NoHit}

\* The pairs that overlap.
ActivePairs(box) ==
  {<<"player", t.id>> : t \in Touching(box)}
    \cup UNION {{<<b.id, t.id>> : t \in Touching(b)} : b \in Solids}

-----------------------------------------------------------------------------
(* The controller *)

\* Left and right, of the keys held.
InputVector(keys) ==
  (IF "right" \in keys THEN 1 ELSE 0) - (IF "left" \in keys THEN 1 ELSE 0)

\* The jump edge is spent by the first step that finds the player on ground.
Control(w) ==
  LET moved == [w.p EXCEPT !.vx = InputVector(keysPressed)]
      jumps == w.edge /\ w.p.grounded /\ JumpForce > 0 IN
  [w EXCEPT !.p = IF jumps THEN [moved EXCEPT !.vy = JumpForce] ELSE moved,
            !.edge = @ /\ ~jumps]

\* One fixed step: control, integrate, resolve, and tell who entered and left
\* which trigger.
Step(w) ==
  LET c == Control(w)
      fallen == Integrate(c.p)
      active == ActivePairs(Resolved(fallen)) IN
  [c EXCEPT !.p = Resolve(fallen), !.pairs = active,
            !.told = (@ \cup (active \ c.pairs)) \ (c.pairs \ active)]

-----------------------------------------------------------------------------
PhysicsInit ==
  /\ player = [x |-> PlayerStart.x, y |-> PlayerStart.y, vx |-> 0, vy |-> 0, grounded |-> FALSE]
  /\ triggerPairs = {} /\ told = {}
  /\ keysPressed = {} /\ jumpQueued = FALSE
  /\ frames = 0

\* Any key not held already queues a jump edge, unless it is a repeat (the key
\* was held before the page had the focus).
PressKey(k, repeated) ==
  /\ k \notin keysPressed /\ frames < MaxFrames
  /\ keysPressed' = keysPressed \cup {k}
  /\ jumpQueued' = (jumpQueued \/ ~repeated)
  /\ UNCHANGED <<player, triggerPairs, told, frames>>

LiftKey(k) ==
  /\ k \in keysPressed /\ frames < MaxFrames
  /\ keysPressed' = keysPressed \ {k}
  /\ UNCHANGED <<player, triggerPairs, told, jumpQueued, frames>>

Blur ==
  /\ keysPressed # {} /\ frames < MaxFrames
  /\ keysPressed' = {}
  /\ UNCHANGED <<player, triggerPairs, told, jumpQueued, frames>>

\* A frame runs the fixed steps that are due; an edge left over expires.
Frame3D(steps) ==
  LET world[i \in 0..steps] ==
        IF i = 0 THEN [p |-> player, edge |-> jumpQueued, pairs |-> triggerPairs, told |-> told]
        ELSE Step(world[i - 1])
      w == world[steps] IN
  /\ frames < MaxFrames
  /\ frames' = frames + 1
  /\ player' = w.p /\ triggerPairs' = w.pairs /\ told' = w.told
  /\ jumpQueued' = FALSE
  /\ UNCHANGED keysPressed

PhysicsNext ==
  \/ \E k \in MoveKeys \cup JumpKeys, repeated \in BOOLEAN : PressKey(k, repeated)
  \/ \E k \in MoveKeys \cup JumpKeys : LiftKey(k)
  \/ Blur
  \/ \E steps \in 0..MaxFrameSteps : Frame3D(steps)

PhysicsSpec == PhysicsInit /\ [][PhysicsNext]_physicsVars

-----------------------------------------------------------------------------
(* Properties *)

\* What the app was told of a trigger is where the player is: it was told of
\* an entry and of no exit exactly while the player's box, at its size in the
\* world, overlaps the trigger (trigger events and collider dimensions).
TriggersTellTheTruth ==
  frames > 0 =>
    {t.id : t \in Touching(Collider(player, PlayerScale))}
      = {pair[2] : pair \in {q \in told : q[1] = "player"}}
=============================================================================
