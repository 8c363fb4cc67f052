---------------------------- MODULE EditorsProofs ----------------------------
(***************************************************************************)
(* What the document, the blocks of a screen and a running 3D scene        *)
(* promise for every bound.                                                *)
(***************************************************************************)
EXTENDS Physics3D, ProjectDocument, BlockDocument, ListsProofs

-----------------------------------------------------------------------------
(* The triggers of a running 3D scene (Physics3D).                         *)

\* A world between two fixed steps: what was told is what overlapped.
WorldIsTold(w) ==
  /\ w = [p |-> w.p, edge |-> w.edge, pairs |-> w.pairs, told |-> w.told]
  /\ w.told = w.pairs

\* What overlapped is where the player is.
WorldIsSeen(w) == WorldIsTold(w) /\ w.pairs = ActivePairs(Collider(w.p, 1))

PhysicsInv ==
  /\ told = triggerPairs
  /\ frames \in Nat
  /\ frames > 0 => \/ triggerPairs = ActivePairs(Collider(player, 1))
                   \/ triggerPairs = {} /\ Touching(Collider(player, 1)) = {}
  /\ frames = 0 => triggerPairs = {} /\ Touching(Collider(player, 1)) = {}

\* A fixed step tells who entered and who left.
LEMMA StepIsSeen ==
  ASSUME PlayerScale = 1, NEW w, WorldIsTold(w)
  PROVE  WorldIsSeen(Step(w))
<1>1. PICK c : c = Control(w)
  OBVIOUS
<1>2. c = [p |-> c.p, edge |-> c.edge, pairs |-> w.pairs, told |-> w.pairs]
  BY <1>1 DEF Control, WorldIsTold
<1>3. PICK fallen : fallen = Integrate(c.p)
  OBVIOUS
<1>4. PICK active_ : active_ = ActivePairs(Resolved(fallen))
  OBVIOUS
<1>5. Resolved(fallen) = Collider(Resolve(fallen), 1)
  BY DEF Resolved
<1>6. PICK r : r = Step(w)
  OBVIOUS
<1>7. r = [c EXCEPT !.p = Resolve(fallen), !.pairs = active_,
                    !.told = (c.told \cup (active_ \ c.pairs)) \ (c.pairs \ active_)]
  BY <1>1, <1>3, <1>4, <1>6 DEF Step
<1>8. (w.pairs \cup (active_ \ w.pairs)) \ (w.pairs \ active_) = active_
  OBVIOUS
<1>9. r = [p |-> r.p, edge |-> r.edge, pairs |-> r.pairs, told |-> r.told]
  BY <1>2, <1>7
<1>10. r.p = Resolve(fallen) /\ r.pairs = active_ /\ r.told = active_
  BY <1>2, <1>7, <1>8
<1>11. QED
  BY <1>4, <1>5, <1>6, <1>9, <1>10 DEF WorldIsSeen, WorldIsTold

\* The steps of a frame, one after another.
Runs(world, n, w) ==
  world = [i \in 0..n |-> IF i = 0 THEN w ELSE Step(world[i - 1])]

\* A frame's worlds, one per fixed step, exist.
LEMMA FrameRuns == ASSUME NEW n \in Nat, NEW w PROVE \E world : Runs(world, n, w)
<1>1. PICK T : T = {m \in Nat : \E world : Runs(world, m, w)}
  OBVIOUS
<1>2. 0 \in T
  <2>1. PICK world : world = [i \in 0..0 |-> w]
    OBVIOUS
  <2>2. 0..0 = {0}
    OBVIOUS
  <2>3. world = [i \in 0..0 |-> IF i = 0 THEN w ELSE Step(world[i - 1])]
    BY <2>1, <2>2
  <2>4. QED
    BY <1>1, <2>3 DEF Runs
<1>3. ASSUME NEW m \in Nat, m \in T PROVE m + 1 \in T
  <2>1. PICK old : Runs(old, m, w)
    BY <1>1, <1>3
  <2>2. PICK new : new = [i \in 0..m + 1 |-> IF i = m + 1 THEN Step(old[m]) ELSE old[i]]
    OBVIOUS
  <2>3. \A i \in 0..m : new[i] = old[i] /\ old[i] = IF i = 0 THEN w ELSE Step(old[i - 1])
    BY <2>1, <2>2 DEF Runs
  <2>4. ASSUME NEW i \in 0..m + 1 PROVE new[i] = IF i = 0 THEN w ELSE Step(new[i - 1])
    <3>1. CASE i = m + 1
      <4>1. m \in 0..m /\ i - 1 = m /\ i # 0
        BY <3>1
      <4>2. new[i] = Step(old[m]) /\ new[m] = old[m]
        BY <2>2, <2>3, <3>1, <4>1
      <4>3. QED
        BY <4>1, <4>2
    <3>2. CASE i # m + 1
      <4>1. i \in 0..m /\ (i # 0 => i - 1 \in 0..m)
        BY <3>2
      <4>2. QED
        BY <2>3, <4>1
    <3>3. QED
      BY <3>1, <3>2
  <2>5. Runs(new, m + 1, w)
    BY <2>2, <2>4 DEF Runs
  <2>6. m + 1 \in Nat
    OBVIOUS
  <2>7. QED
    BY <1>1, <2>5, <2>6
<1>4. n \in T
  BY <1>2, <1>3, OverNaturals
<1>5. QED
  BY <1>1, <1>4

\* After a frame, what was told is what overlaps; a frame of no step changes nothing.
LEMMA FrameIsSeen ==
  ASSUME PlayerScale = 1, told = triggerPairs, NEW steps \in Nat, Frame3D(steps)
  PROVE  /\ told' = triggerPairs'
         /\ steps = 0 => player' = player /\ triggerPairs' = triggerPairs
         /\ steps # 0 => triggerPairs' = ActivePairs(Collider(player', 1))
<1>1. PICK w0 : w0 = [p |-> player, edge |-> jumpQueued, pairs |-> triggerPairs, told |-> told]
  OBVIOUS
<1>2. PICK world : world = CHOOSE f : Runs(f, steps, w0)
  OBVIOUS
<1>3. Runs(world, steps, w0)
  BY <1>2, FrameRuns
<1>4. player' = world[steps].p /\ triggerPairs' = world[steps].pairs /\ told' = world[steps].told
  BY <1>1, <1>2 DEF Frame3D, Runs
<1>5. world[0] = w0 /\ \A i \in 1..steps : world[i] = Step(world[i - 1])
  BY <1>3 DEF Runs
<1>6. WorldIsTold(w0)
  BY <1>1 DEF WorldIsTold
<1>7. PICK T : T = {i \in Nat : i \in 1..steps => WorldIsSeen(world[i])}
  OBVIOUS
<1>8. 0 \in T
  BY <1>7
<1>9. ASSUME NEW i \in Nat, i \in T PROVE i + 1 \in T
  <2>1. SUFFICES ASSUME i + 1 \in 1..steps PROVE WorldIsSeen(world[i + 1])
    BY <1>7
  <2>2. world[i + 1] = Step(world[i])
    BY <1>5, <2>1
  <2>3. WorldIsTold(world[i])
    BY <1>5, <1>6, <1>7, <1>9, <2>1 DEF WorldIsSeen
  <2>4. QED
    BY <2>2, <2>3, StepIsSeen
<1>10. steps \in T
  BY <1>8, <1>9, OverNaturals
<1>11. CASE steps = 0
  BY <1>1, <1>4, <1>5, <1>11
<1>12. CASE steps # 0
  <2>1. WorldIsSeen(world[steps])
    BY <1>7, <1>10, <1>12
  <2>2. QED
    BY <1>4, <1>12, <2>1 DEF WorldIsSeen, WorldIsTold
<1>13. QED
  BY <1>11, <1>12

\* At scale one, and from a place outside every trigger, the app has been told
\* of the entries and exits of the player that leave it where the player is.
THEOREM TriggersAreTold ==
  PlayerScale = 1 /\ Touching(Collider(PlayerStart, 1)) = {} =>
    (PhysicsSpec => []TriggersTellTheTruth)
<1> SUFFICES ASSUME PlayerScale = 1, Touching(Collider(PlayerStart, 1)) = {}
             PROVE  PhysicsSpec => []TriggersTellTheTruth
  OBVIOUS
<1>1. PhysicsInit => PhysicsInv
  BY DEF PhysicsInit, PhysicsInv, Collider
<1>2. PhysicsInv /\ [PhysicsNext]_physicsVars => PhysicsInv'
  <2>1. SUFFICES ASSUME PhysicsInv, [PhysicsNext]_physicsVars PROVE PhysicsInv'
    OBVIOUS
  <2>2. ASSUME UNCHANGED <<player, triggerPairs, told, frames>> PROVE PhysicsInv'
    BY <2>1, <2>2 DEF PhysicsInv, Touching, ActivePairs, Collider, Solids, Triggers
  <2>3. ASSUME NEW steps \in 0..MaxFrameSteps, Frame3D(steps) PROVE PhysicsInv'
    <3>1. steps \in Nat
      BY PhysicsAssumption
    <3>2. /\ told' = triggerPairs'
          /\ steps = 0 => player' = player /\ triggerPairs' = triggerPairs
          /\ steps # 0 => triggerPairs' = ActivePairs(Collider(player', 1))
      BY <2>1, <2>3, <3>1, FrameIsSeen DEF PhysicsInv
    <3>3. frames' = frames + 1 /\ frames \in Nat
      BY <2>1, <2>3 DEF Frame3D, PhysicsInv
    <3>4. CASE steps = 0
      BY <2>1, <3>2, <3>3, <3>4 DEF PhysicsInv, Touching, ActivePairs, Collider, Solids, Triggers
    <3>5. CASE steps # 0
      BY <3>2, <3>3, <3>5 DEF PhysicsInv, Touching, ActivePairs, Collider, Solids, Triggers
    <3>6. QED
      BY <3>4, <3>5
  <2>4. QED
    BY <2>1, <2>2, <2>3 DEF PhysicsNext, physicsVars, PressKey, LiftKey, Blur
<1>3. PhysicsInv => TriggersTellTheTruth
  <2>1. SUFFICES ASSUME PhysicsInv, frames > 0
                 PROVE  {t.id : t \in Touching(Collider(player, 1))}
                          = {pair[2] : pair \in {q \in told : q[1] = "player"}}
    BY DEF TriggersTellTheTruth
  <2>2. PICK box : box = Collider(player, 1)
    OBVIOUS
  <2>3. \A b \in Solids : b.id # "player"
    BY PhysicsAssumption DEF Solids
  <2>4. CASE triggerPairs = ActivePairs(box)
    <3>1. \A pair \in told : pair[1] = "player" => \E t \in Touching(box) : pair = <<"player", t.id>>
      BY <2>1, <2>3, <2>4 DEF PhysicsInv, ActivePairs
    <3>2. \A t \in Touching(box) : <<"player", t.id>> \in told
      BY <2>1, <2>4 DEF PhysicsInv, ActivePairs
    <3>3. ASSUME NEW t \in Touching(box)
          PROVE  t.id \in {pair[2] : pair \in {q \in told : q[1] = "player"}}
      <4>1. PICK pair : pair = <<"player", t.id>>
        OBVIOUS
      <4>2. pair \in told /\ pair[1] = "player" /\ pair[2] = t.id
        BY <3>2, <4>1
      <4>3. QED
        BY <4>2
    <3>4. ASSUME NEW pair \in told, pair[1] = "player"
          PROVE  pair[2] \in {t.id : t \in Touching(box)}
      BY <3>1, <3>4
    <3>5. QED
      BY <2>2, <3>3, <3>4
  <2>5. CASE triggerPairs = {} /\ Touching(box) = {}
    BY <2>1, <2>2, <2>5 DEF PhysicsInv
  <2>6. QED
    BY <2>1, <2>2, <2>4, <2>5 DEF PhysicsInv
<1>4. QED
  BY <1>1, <1>2, <1>3, PTL DEF PhysicsSpec

-----------------------------------------------------------------------------
(* The hierarchy of a screen (ProjectDocument): which component holds      *)
(* which, for every list the components it has.                            *)

Places == Comps \cup {Root}
Under(h) == UNION {h[p] : p \in Places}

\* Every component hangs in one list, of the root or of a container that
\* hangs itself, and no set of them holds itself up.
Hangs(h) ==
  /\ h \in [Places -> SUBSET Comps]
  /\ \A p, q \in Places : p # q => h[p] \cap h[q] = {}
  /\ \A p \in Places : h[p] # {} => p \in {Root} \cup (Containers \cap Under(h))
  /\ \A X \in SUBSET Under(h) : X # {} => \E p \in Places : p \notin X /\ h[p] \cap X # {}

\* What a place holds lies under the tree.
LEMMA HeldUnder ==
  ASSUME NEW h, NEW p \in Places, NEW c \in h[p]
  PROVE  c \in Under(h)
BY DEF Under

\* Taking components out, with all they hold.
LEMMA HangsPruned ==
  ASSUME NEW h, Hangs(h), NEW G,
         \A p \in Places \cap G : h[p] \subseteq G,
         NEW g \in [Places -> SUBSET Comps],
         \A p \in Places : g[p] = IF p \in G THEN {} ELSE h[p] \ G
  PROVE  Hangs(g) /\ Under(g) = Under(h) \ G
<1>1. \A p \in Places : g[p] = h[p] \ G
  OBVIOUS
<1>2. Under(g) = Under(h) \ G
  BY <1>1 DEF Under
<1>3. \A p, q \in Places : p # q => g[p] \cap g[q] = {}
  BY <1>1 DEF Hangs
<1>4. ASSUME NEW p \in Places, g[p] # {} PROVE p \in {Root} \cup (Containers \cap Under(g))
  <2>1. h[p] # {} /\ p \notin G
    BY <1>4
  <2>2. QED
    BY <1>2, <2>1 DEF Hangs
<1>5. ASSUME NEW X \in SUBSET Under(g), X # {}
      PROVE  \E p \in Places : p \notin X /\ g[p] \cap X # {}
  <2>1. X \in SUBSET Under(h) /\ X \cap G = {}
    BY <1>2
  <2>2. PICK p \in Places : p \notin X /\ h[p] \cap X # {}
    BY <1>5, <2>1 DEF Hangs
  <2>3. g[p] \cap X # {}
    BY <1>1, <2>1, <2>2
  <2>4. QED
    BY <2>2, <2>3
<1>6. QED
  BY <1>2, <1>3, <1>4, <1>5 DEF Hangs

\* Putting new components N into one list, of q.
GrownBy(h, N, q, g) ==
  /\ Hangs(h) /\ N \in SUBSET Comps /\ N \cap Under(h) = {}
  /\ q \in {Root} \cup (Containers \cap Under(h))
  /\ g \in [Places -> SUBSET Comps]
  /\ \A p \in Places : g[p] = h[p] \cup (IF p = q THEN N ELSE {})

\* New components put into one list keep a tree a tree.
LEMMA HangsGrown ==
  ASSUME NEW h, NEW N, NEW q, NEW g, GrownBy(h, N, q, g)
  PROVE  Hangs(g) /\ Under(g) = Under(h) \cup N
<1> USE DEF GrownBy
<1>1. q \in Places /\ q \notin N
  BY DocumentAssumption DEF Places, Comps
<1>2. Under(g) = Under(h) \cup N
  BY <1>1 DEF Under
<1>3. ASSUME NEW p1 \in Places, NEW p2 \in Places, p1 # p2 PROVE g[p1] \cap g[p2] = {}
  <2>1. h[p1] \cap h[p2] = {}
    BY <1>3 DEF Hangs
  <2>2. h[p1] \subseteq Under(h) /\ h[p2] \subseteq Under(h)
    BY DEF Under
  <2>3. QED
    BY <1>3, <2>1, <2>2
<1>4. ASSUME NEW p \in Places, g[p] # {} PROVE p \in {Root} \cup (Containers \cap Under(g))
  <2>1. h[p] # {} \/ p = q
    BY <1>4
  <2>2. QED
    BY <1>2, <2>1 DEF Hangs
<1>5. ASSUME NEW X \in SUBSET Under(g), X # {}
      PROVE  \E p \in Places : p \notin X /\ g[p] \cap X # {}
  <2>1. CASE X \cap Under(h) # {}
    <3>1. PICK p \in Places : p \notin X \cap Under(h) /\ h[p] \cap (X \cap Under(h)) # {}
      BY <2>1 DEF Hangs
    <3>2. p \in {Root} \cup Under(h)
      BY <3>1 DEF Hangs
    <3>3. Root \notin X
      BY DocumentAssumption DEF Under, Hangs, Comps
    <3>4. p \notin X /\ g[p] \cap X # {}
      BY <3>1, <3>2, <3>3
    <3>5. QED
      BY <3>4
  <2>2. CASE X \cap Under(h) = {}
    <3>1. X \subseteq N
      BY <1>2, <2>2
    <3>2. q \notin X /\ g[q] \cap X # {}
      BY <1>1, <1>5, <3>1
    <3>3. QED
      BY <1>1, <3>2
  <2>3. QED
    BY <2>1, <2>2
<1>6. QED
  BY <1>2, <1>3, <1>4, <1>5 DEF Hangs

\* Hanging a component, with all it holds, elsewhere but below itself.
LEMMA HangsMoved ==
  ASSUME NEW h, Hangs(h), NEW c \in Under(h), NEW G, c \in G,
         \A p \in Places \cap G : h[p] \subseteq G,
         NEW q \in {Root} \cup (Containers \cap Under(h)), q \notin G,
         NEW g \in [Places -> SUBSET Comps],
         \A p \in Places : g[p] = (h[p] \ {c}) \cup (IF p = q THEN {c} ELSE {})
  PROVE  Hangs(g) /\ Under(g) = Under(h)
<1>1. q \in Places /\ c \in Comps /\ Under(h) \subseteq Comps /\ Root \notin Comps
  BY DocumentAssumption DEF Places, Comps, Under, Hangs
<1>2. Under(g) = Under(h)
  <2>1. ASSUME NEW x \in Under(g) PROVE x \in Under(h)
    BY DEF Under
  <2>2. ASSUME NEW x \in Under(h) PROVE x \in Under(g)
    <3>1. PICK p \in Places : x \in h[p]
      BY DEF Under
    <3>2. x \in g[p] \/ x \in g[q]
      BY <1>1, <3>1
    <3>3. QED
      BY <1>1, <3>2 DEF Under
  <2>3. QED
    BY <2>1, <2>2
<1>3. \A p1, p2 \in Places : p1 # p2 => g[p1] \cap g[p2] = {}
  BY DEF Hangs
<1>4. ASSUME NEW p \in Places, g[p] # {} PROVE p \in {Root} \cup (Containers \cap Under(g))
  <2>1. h[p] # {} \/ p = q
    BY <1>4
  <2>2. QED
    BY <1>2, <2>1 DEF Hangs
<1>5. ASSUME NEW X \in SUBSET Under(g), X # {},
             \A p \in Places : p \notin X => g[p] \cap X = {}
      PROVE  FALSE
  <2>1. CASE c \notin X
    <3>1. PICK p \in Places : p \notin X /\ h[p] \cap X # {}
      BY <1>2, <1>5 DEF Hangs
    <3>2. g[p] \cap X # {}
      BY <2>1, <3>1
    <3>3. QED
      BY <1>5, <3>1, <3>2
  <2>2. CASE c \in X
    <3>1. q \in X
      <4>1. c \in g[q]
        BY <1>1
      <4>2. QED
        BY <1>1, <1>5, <2>2, <4>1
    <3>2. PICK Y : Y = X \ G
      OBVIOUS
    <3>3. Y # {} /\ Y \in SUBSET Under(h)
      BY <1>2, <3>1, <3>2
    <3>4. PICK p \in Places, d \in Y : p \notin Y /\ d \in h[p]
      BY <3>3 DEF Hangs
    <3>5. d # c /\ d \in g[p] /\ d \in X
      BY <3>2, <3>4
    <3>6. p \in X
      BY <1>5, <3>4, <3>5
    <3>7. p \in G
      BY <3>2, <3>4, <3>6
    <3>8. d \in G
      BY <3>4, <3>7
    <3>9. QED
      BY <3>2, <3>4, <3>8
  <2>3. QED
    BY <2>1, <2>2
<1>6. QED
  BY <1>2, <1>3, <1>4, <1>5 DEF Hangs

\* Copying a component c and all it holds, G, under the new ids of f, into the
\* same list q.
HangCopy(h, G, c, q, f, g) ==
  /\ Hangs(h) /\ G \in SUBSET Under(h) /\ c \in G
  /\ \A p \in G : h[p] \subseteq G
  /\ \A x \in G \ {c} : \E y \in G : x \in h[y]
  /\ q \in Places /\ c \in h[q]
  /\ f \in [G -> Comps]
  /\ \A x \in G : f[x] \notin Under(h)
  /\ \A x, y \in G : f[x] = f[y] => x = y
  /\ \A x \in G : x \in Containers => f[x] \in Containers
  /\ g \in [Places -> SUBSET Comps]
  /\ \A x \in G : g[f[x]] = {f[y] : y \in h[x]}
  /\ \A p \in Places : (\A x \in G : p # f[x]) =>
       g[p] = h[p] \cup (IF p = q THEN {f[c]} ELSE {})

\* A tree stays a tree when a part of it is copied under new names.
LEMMA HangsCopied ==
  ASSUME NEW h, NEW G, NEW c, NEW q, NEW f, NEW g, HangCopy(h, G, c, q, f, g)
  PROVE  Hangs(g) /\ Under(g) = Under(h) \cup {f[x] : x \in G}
<1> USE DEF HangCopy
<1> DEFINE Born == {f[x] : x \in G}
<1>1. /\ Under(h) \subseteq Comps /\ Root \notin Comps /\ Born \subseteq Comps /\ Born \cap Under(h) = {}
      /\ Comps \subseteq Places
  BY DocumentAssumption DEF Places, Comps, Under, Hangs
<1>2. q \notin Born /\ q \in {Root} \cup (Containers \cap Under(h))
  BY <1>1 DEF Hangs
<1>3. \A p \in Places : p \notin Born => g[p] = h[p] \cup (IF p = q THEN {f[c]} ELSE {})
  OBVIOUS
<1>4. \A x \in G : f[x] \in Born /\ f[x] \in Places /\ g[f[x]] = {f[y] : y \in h[x]}
  BY <1>1
<1>5. \A z \in Born : \E x \in G : z = f[x]
  OBVIOUS
<1>6. \A p \in Places : h[p] \subseteq Under(h)
  BY DEF Under
<1>7. \A x \in G : x \in Places
  BY <1>1
<1> HIDE DEF Born
<1>8. \A p \in Born : g[p] \subseteq Born
  <2> SUFFICES ASSUME NEW p \in Born PROVE g[p] \subseteq Born
    OBVIOUS
  <2>1. PICK x \in G : p = f[x]
    BY <1>5
  <2>2. QED
    BY <1>4, <2>1
<1>9. Under(g) = Under(h) \cup Born
  <2>1. ASSUME NEW z \in Under(g) PROVE z \in Under(h) \cup Born
    <3>1. PICK p \in Places : z \in g[p]
      BY DEF Under
    <3>2. CASE p \in Born
      BY <1>8, <3>1, <3>2
    <3>3. CASE p \notin Born
      BY <1>3, <1>4, <1>6, <3>1, <3>3
    <3>4. QED
      BY <3>2, <3>3
  <2>2. ASSUME NEW z \in Under(h) PROVE z \in Under(g)
    <3>1. PICK p \in Places : z \in h[p]
      BY DEF Under
    <3>2. p \notin Born
      BY <1>1, <3>1 DEF Hangs
    <3>3. z \in g[p]
      BY <1>3, <3>1, <3>2
    <3>4. QED
      BY <3>3 DEF Under
  <2>3. ASSUME NEW z \in Born PROVE z \in Under(g)
    <3>1. PICK x \in G : z = f[x]
      BY <1>5
    <3>2. CASE x = c
      <4>1. z \in g[q]
        BY <1>2, <1>3, <3>1, <3>2
      <4>2. QED
        BY <4>1 DEF Under
    <3>3. CASE x # c
      <4>1. PICK y \in G : x \in h[y]
        BY <3>3
      <4>2. z \in g[f[y]] /\ f[y] \in Places
        BY <1>4, <3>1, <4>1
      <4>3. QED
        BY <4>2 DEF Under
    <3>4. QED
      BY <3>2, <3>3
  <2>4. QED
    BY <2>1, <2>2, <2>3
<1>10. q \notin G
  <2>1. PICK p \in Places, x \in G : p \notin G /\ x \in h[p]
    BY DEF Hangs
  <2>2. x = c
    BY <1>7, <2>1 DEF Hangs
  <2>3. QED
    BY <2>1, <2>2 DEF Hangs
<1>11. ASSUME NEW p1 \in Places, NEW p2 \in Places, p1 # p2, NEW z \in g[p1] \cap g[p2] PROVE FALSE
  <2>1. CASE p1 \in Born /\ p2 \in Born
    <3>1. PICK x1 \in G, x2 \in G : p1 = f[x1] /\ p2 = f[x2]
      BY <1>5, <2>1
    <3>2. PICK y1 \in h[x1], y2 \in h[x2] : z = f[y1] /\ z = f[y2]
      BY <1>4, <1>11, <3>1
    <3>3. y1 = y2
      BY <3>1, <3>2
    <3>4. x1 = x2
      BY <1>7, <3>1, <3>2, <3>3 DEF Hangs
    <3>5. QED
      BY <1>11, <3>1, <3>4
  <2>2. ASSUME NEW a \in Places, NEW b \in Places, a \in Born, b \notin Born, z \in g[a], z \in g[b]
        PROVE  FALSE
    <3>1. PICK x \in G : a = f[x]
      BY <1>5, <2>2
    <3>2. PICK y \in h[x] : z = f[y]
      BY <1>4, <2>2, <3>1
    <3>3. y \in G /\ z \in Born
      BY <1>4, <3>1, <3>2
    <3>4. z \notin h[b]
      BY <1>1, <1>6, <3>3
    <3>5. b = q /\ z = f[c]
      BY <1>3, <2>2, <3>4
    <3>6. y = c
      BY <3>2, <3>3, <3>5
    <3>7. x = q
      BY <1>7, <3>2, <3>6 DEF Hangs
    <3>8. q \in Under(h) /\ c \in h[q] /\ q \in G
      BY <3>1, <3>7
    <3>9. QED
      BY <1>10, <3>8
  <2>3. CASE p1 \notin Born /\ p2 \notin Born
    <3>1. /\ z \in h[p1] \cup (IF p1 = q THEN {f[c]} ELSE {})
          /\ z \in h[p2] \cup (IF p2 = q THEN {f[c]} ELSE {})
      BY <1>3, <1>11, <2>3
    <3>2. f[c] \notin h[p1] /\ f[c] \notin h[p2]
      BY <1>6
    <3>3. QED
      BY <1>11, <3>1, <3>2 DEF Hangs
  <2>4. QED
    BY <1>11, <2>1, <2>2, <2>3
<1>12. ASSUME NEW p \in Places, g[p] # {} PROVE p \in {Root} \cup (Containers \cap Under(g))
  <2>1. CASE p \in Born
    <3>1. PICK x \in G : p = f[x]
      BY <1>5, <2>1
    <3>2. h[x] # {}
      BY <1>4, <1>12, <3>1
    <3>3. x \in Containers
      BY <1>1, <1>7, <3>2 DEF Hangs
    <3>4. QED
      BY <1>9, <2>1, <3>1, <3>3
  <2>2. CASE p \notin Born
    <3>1. h[p] # {} \/ p = q
      BY <1>3, <1>12, <2>2
    <3>2. QED
      BY <1>2, <1>9, <3>1 DEF Hangs
  <2>3. QED
    BY <2>1, <2>2
<1>13. ASSUME NEW X \in SUBSET Under(g), X # {}
       PROVE  \E p \in Places : p \notin X /\ g[p] \cap X # {}
  <2>1. CASE X \cap Under(h) # {}
    <3>1. PICK p \in Places : p \notin X \cap Under(h) /\ h[p] \cap (X \cap Under(h)) # {}
      BY <2>1 DEF Hangs
    <3>2. p \in {Root} \cup Under(h)
      BY <3>1 DEF Hangs
    <3>3. Root \notin X
      BY <1>1, <1>9
    <3>4. p \notin Born
      BY <1>1, <3>2
    <3>5. p \notin X /\ g[p] \cap X # {}
      BY <1>3, <3>1, <3>2, <3>3, <3>4
    <3>6. QED
      BY <3>5
  <2>2. CASE X \cap Under(h) = {}
    <3>1. X \subseteq Born
      BY <1>9, <2>2
    <3>2. PICK Y : Y = {x \in G : f[x] \in X}
      OBVIOUS
    <3>3. Y # {} /\ Y \in SUBSET Under(h)
      BY <1>5, <1>13, <3>1, <3>2
    <3>4. PICK p \in Places, x \in Y : p \notin Y /\ x \in h[p]
      BY <3>3 DEF Hangs
    <3>5. CASE x = c
      <4>1. p = q
        BY <3>4, <3>5 DEF Hangs
      <4>2. f[c] \in g[q] /\ f[c] \in X
        BY <1>2, <1>3, <3>2, <3>4, <3>5
      <4>3. q \notin X
        BY <1>2, <3>1
      <4>4. QED
        BY <4>2, <4>3
    <3>6. CASE x # c
      <4>1. PICK y \in G : x \in h[y]
        BY <3>2, <3>4, <3>6
      <4>2. y = p
        BY <1>7, <3>4, <4>1 DEF Hangs
      <4>3. f[x] \in g[f[p]] /\ f[x] \in X /\ f[p] \in Places
        BY <1>4, <3>2, <3>4, <4>1, <4>2
      <4>4. f[p] \notin X
        BY <3>2, <3>4, <4>1, <4>2
      <4>5. QED
        BY <4>3, <4>4
    <3>7. QED
      BY <3>5, <3>6
  <2>3. QED
    BY <2>1, <2>2
<1>14. QED
  <2>1. Hangs(g)
    BY <1>11, <1>12, <1>13 DEF Hangs
  <2>2. QED
    BY <1>9, <2>1 DEF Born

\* A component with all it holds: what its list, and theirs, lead to.
TreeOf(h, c) == Walk(c, [p \in Comps |-> h[p]], Cardinality(Containers))

\* A component's subtree: closed, reached from it, and held by nothing outside.
LEMMA TreeOfHangs ==
  ASSUME NEW h, Hangs(h), NEW c \in Under(h)
  PROVE  /\ c \in TreeOf(h, c) /\ TreeOf(h, c) \in SUBSET Under(h)
         /\ \A p \in Places \cap TreeOf(h, c) : h[p] \subseteq TreeOf(h, c)
         /\ \A x \in TreeOf(h, c) \ {c} : \E y \in TreeOf(h, c) : x \in h[y]
         /\ \A p \in Places : p \notin TreeOf(h, c) => h[p] \cap TreeOf(h, c) \subseteq {c}
         /\ \A p \in Places : c \in h[p] => p \notin TreeOf(h, c)
         /\ h[c] = {} => TreeOf(h, c) = {c}
<1>1. /\ Under(h) \subseteq Comps /\ Root \notin Comps /\ Comps \subseteq Places
      /\ Places = Comps \cup {Root}
  BY DocumentAssumption DEF Places, Comps, Under, Hangs
<1>2. PICK next : next = [p \in Comps |-> h[p]]
  OBVIOUS
<1>3. next \in [Comps -> SUBSET Comps] /\ \A p \in Comps : next[p] = h[p]
  BY <1>1, <1>2 DEF Hangs
<1>4. IsFiniteSet(Containers)
  <2>1. Containers \in SUBSET Comps
    BY DEF Comps
  <2>2. QED
    BY <2>1, DocumentAssumption, FS_Subset
<1>5. \A p \in Comps \ Containers : next[p] = {}
  BY <1>1, <1>3 DEF Hangs
<1>6. PICK W : W = TreeOf(h, c)
  OBVIOUS
<1>7. PICK n \in Nat : n = Cardinality(Containers)
  BY <1>4, FS_CardinalityType
<1>8. W = Walk(c, next, n)
  BY <1>2, <1>6, <1>7 DEF TreeOf
<1>9. c \in Comps
  BY <1>1
<1>10. /\ c \in W /\ W \in SUBSET Comps
       /\ \A S : c \in S /\ (\A x \in S \cap Comps : next[x] \subseteq S) => W \subseteq S
       /\ \A x \in W \ {c} : \E y \in W : x \in next[y]
  BY <1>3, <1>8, <1>9, WalkReaches
<1>11. \A x \in W : next[x] \subseteq W
  BY <1>3, <1>4, <1>5, <1>7, <1>8, <1>9, WalkEnds
<1>12. W \subseteq Under(h)
  <2>1. \A x \in Under(h) \cap Comps : next[x] \subseteq Under(h)
    BY <1>1, <1>3 DEF Under
  <2>2. QED
    BY <1>10, <2>1
<1>13. \A p \in Places \cap W : h[p] \subseteq W
  BY <1>3, <1>10, <1>11
<1>14. \A x \in W \ {c} : \E y \in W : x \in h[y]
  BY <1>3, <1>10
<1>15. h[c] = {} => W = {c}
  <2>1. ASSUME h[c] = {} PROVE W \subseteq {c}
    <3>1. \A x \in {c} \cap Comps : next[x] \subseteq {c}
      BY <1>3, <1>9, <2>1
    <3>2. QED
      BY <1>10, <3>1
  <2>2. QED
    BY <1>10, <2>1
<1>16. \A p \in Places : p \notin W => h[p] \cap W \subseteq {c}
  <2> SUFFICES ASSUME NEW p \in Places, p \notin W, NEW x \in h[p] \cap W, x # c PROVE FALSE
    OBVIOUS
  <2>1. PICK y \in W : x \in h[y]
    BY <1>14
  <2>2. y \in Places
    BY <1>1, <1>10
  <2>3. QED
    BY <2>1, <2>2 DEF Hangs
<1>17. \A p \in Places : c \in h[p] => p \notin W
  <2>1. W # {} /\ W \in SUBSET Under(h)
    BY <1>10, <1>12
  <2>2. PICK p \in Places : p \notin W /\ h[p] \cap W # {}
    BY <2>1 DEF Hangs
  <2>3. c \in h[p]
    BY <1>16, <2>2
  <2>4. QED
    BY <2>2, <2>3 DEF Hangs
<1>18. QED
  BY <1>6, <1>10, <1>12, <1>13, <1>14, <1>15, <1>16, <1>17
-----------------------------------------------------------------------------
(* The document (ProjectDocument), a screen at a time.                     *)

Held(k) == [p \in Places |-> ToSet(k[p])]
On(k) == Under(Held(k))
Nodes == [Comps -> [up : Entities \cup {None}, look : BOOLEAN]]

\* No set of entities links only to itself; a link leads to another entity.
LinksEnd(S, n) == \A X \in SUBSET S : X # {} => \E d \in X : n[d].up \notin X
LinksStay(S, n) == \A e \in S : n[e].up \in S \cup {None}
Linked(S, n, happened) ==
  "ai" \notin happened => LinksEnd(S, n) /\ ("cut" \notin happened => LinksStay(S, n))

\* A screen: its lists and its components.
Page(k, n, happened) ==
  /\ k \in [Places -> Seq(Comps)] /\ \A p \in Places : IsInjective(k[p])
  /\ Hangs(Held(k))
  /\ n \in Nodes /\ \A c \in Comps \ On(k) : n[c].up = None
  /\ Linked(On(k) \cap Entities, n, happened)

\* A document is of one kind, 3D or not.
Kinds == {Entities, Comps \ Entities}
OfKind(m, K) == \A s \in Screens : On(m.kids[s]) \subseteq K

\* A document no copied screen shares ids in.
Clean(m, happened) ==
  /\ m.kids \in [Screens -> [Places -> Seq(Comps)]] /\ m.node \in [Screens -> Nodes]
  /\ \A s \in Screens : Page(m.kids[s], m.node[s], happened)
  /\ \A s \in Screens : s \notin ToSet(m.tabs) => On(m.kids[s]) = {}
  /\ \A s, t \in Screens : s # t => On(m.kids[s]) \cap On(m.kids[t]) = {}
  /\ \E K \in Kinds : OfKind(m, K)

Framed(m) ==
  /\ m = [tabs |-> m.tabs, start |-> m.start, kids |-> m.kids, node |-> m.node]
  /\ m.tabs \in Seq(Screens) /\ IsInjective(m.tabs) /\ m.start \in ToSet(m.tabs)

\* A document with one of its screens changed.
WithPage(m, s, k, n) ==
  [tabs |-> m.tabs, start |-> m.start,
   kids |-> [m.kids EXCEPT ![s] = k], node |-> [m.node EXCEPT ![s] = n]]

\* The ids of a screen are what its lists hold.
LEMMA IdsAreOn == \A m, s : IdsOf(m, s) = On(m.kids[s])
BY DEF IdsOf, On, Under, Held, Places

\* Every tab shows a screen.
LEMMA TabsAreScreens ==
  ASSUME NEW m, Framed(m)
  PROVE  ToSet(m.tabs) \subseteq Screens
<1>1. \A i \in DOMAIN m.tabs : m.tabs[i] \in Screens
  BY LenProperties, ElementOfSeq DEF Framed
<1>2. QED
  BY <1>1 DEF ToSet

\* Rewriting one screen's page soundly keeps the whole model clean.
LEMMA PageChanged ==
  ASSUME NEW m, NEW happened, NEW later, Framed(m), Clean(m, happened),
         happened \subseteq later, NEW s \in ToSet(m.tabs),
         NEW k, NEW n, Page(k, n, later),
         \E K \in Kinds : OfKind(m, K) /\ On(k) \subseteq K,
         \A t \in Screens : t # s => On(k) \cap On(m.kids[t]) = {}
  PROVE  Clean(WithPage(m, s, k, n), later)
<1>1. PICK r : r = WithPage(m, s, k, n)
  OBVIOUS
<1>2. /\ r.tabs = m.tabs /\ r.kids = [m.kids EXCEPT ![s] = k] /\ r.node = [m.node EXCEPT ![s] = n]
  BY <1>1 DEF WithPage
<1>3. s \in Screens
  BY TabsAreScreens
<1>4. r.kids[s] = k /\ r.node[s] = n
  BY <1>2, <1>3 DEF Clean
<1>5. \A t \in Screens : t # s => r.kids[t] = m.kids[t] /\ r.node[t] = m.node[t]
  BY <1>2 DEF Clean
<1>6. r.kids \in [Screens -> [Places -> Seq(Comps)]] /\ r.node \in [Screens -> Nodes]
  BY <1>2, <1>3 DEF Clean, Page
<1>7. ASSUME NEW t \in Screens PROVE Page(r.kids[t], r.node[t], later)
  <2>1. CASE t = s
    BY <1>4, <2>1
  <2>2. CASE t # s
    BY ZenonT(40), <1>5, <2>2 DEF Clean, Page, Linked
  <2>3. QED
    BY <2>1, <2>2
<1>8. \A t \in Screens : t \notin ToSet(r.tabs) => On(r.kids[t]) = {}
  BY <1>2, <1>5 DEF Clean
<1>9. \A t, u \in Screens : t # u => On(r.kids[t]) \cap On(r.kids[u]) = {}
  BY <1>4, <1>5 DEF Clean
<1>10. \E K \in Kinds : OfKind(r, K)
  BY <1>4, <1>5 DEF OfKind
<1>11. QED
  BY <1>1, <1>6, <1>7, <1>8, <1>9, <1>10 DEF Clean

\* An id that only one screen has is found there.
LEMMA HomeOn ==
  ASSUME NEW m, Framed(m), NEW s \in ToSet(m.tabs), NEW c \in On(m.kids[s]),
         \A t \in Screens : c \in On(m.kids[t]) => t = s
  PROVE  HomeOf(m, c) = s
<1> DEFINE First(i) == /\ c \in IdsOf(m, m.tabs[i])
                       /\ \A j \in 1..(i - 1) : c \notin IdsOf(m, m.tabs[j])
<1>1. ToSet(m.tabs) \subseteq Screens
  BY TabsAreScreens
<1>2. /\ DOMAIN m.tabs = 1..Len(m.tabs) /\ Len(m.tabs) \in Nat
      /\ \A i \in DOMAIN m.tabs : m.tabs[i] \in ToSet(m.tabs)
      /\ \A t \in ToSet(m.tabs) : \E i \in DOMAIN m.tabs : m.tabs[i] = t
  BY LenProperties DEF Framed, ToSet
<1>3. PICK i \in DOMAIN m.tabs : m.tabs[i] = s
  BY <1>2
<1>4. ASSUME NEW j \in DOMAIN m.tabs, c \in IdsOf(m, m.tabs[j]) PROVE j = i
  <2>1. m.tabs[j] \in Screens /\ s \in Screens /\ c \in On(m.kids[m.tabs[j]])
    BY <1>1, <1>2, <1>4, IdsAreOn
  <2>2. m.tabs[j] = s
    BY <2>1
  <2>3. QED
    BY <1>3, <2>2 DEF Framed, IsInjective
<1>5. First(i)
  <2>1. \A j \in 1..(i - 1) : j \in DOMAIN m.tabs /\ j # i
    BY <1>2, <1>3
  <2>2. QED
    BY <1>3, <1>4, <2>1, IdsAreOn
<1>6. \A j \in DOMAIN m.tabs : First(j) => j = i
  BY <1>4
<1>7. c \in Used(m)
  BY IdsAreOn DEF Used
<1>8. HomeOf(m, c) = m.tabs[CHOOSE j \in DOMAIN m.tabs : First(j)]
  BY <1>7 DEF HomeOf
<1> HIDE DEF First
<1>9. (CHOOSE j \in DOMAIN m.tabs : First(j)) = i
  BY <1>3, <1>5, <1>6
<1>10. QED
  BY <1>3, <1>8, <1>9

\* An id has one home, and hangs in one list there.
LEMMA HomeIs ==
  ASSUME NEW m, NEW happened, Framed(m), Clean(m, happened)
  PROVE  /\ \A s \in Screens : \A c \in On(m.kids[s]) :
              s \in ToSet(m.tabs) /\ c \in Used(m) /\ HomeOf(m, c) = s
         /\ \A c : HomeOf(m, c) # None => HomeOf(m, c) \in ToSet(m.tabs) /\ c \in On(m.kids[HomeOf(m, c)])
         /\ \A c : c \in Used(m) <=> \E s \in Screens : c \in On(m.kids[s])
<1>1. \A s \in Screens : \A c \in On(m.kids[s]) : s \in ToSet(m.tabs)
  BY DEF Clean
<1>2. \A c : c \in Used(m) <=> \E s \in ToSet(m.tabs) : c \in On(m.kids[s])
  BY IdsAreOn DEF Used
<1>3. ToSet(m.tabs) \subseteq Screens
  BY TabsAreScreens
<1>5. ASSUME NEW s \in ToSet(m.tabs), NEW c \in On(m.kids[s]) PROVE HomeOf(m, c) = s
  <2>1. s \in Screens
    BY <1>3
  <2>2. \A t \in Screens : c \in On(m.kids[t]) => t = s
    BY <2>1 DEF Clean
  <2>3. QED
    BY <2>2, HomeOn
<1>6. ASSUME NEW c, HomeOf(m, c) # None
      PROVE  HomeOf(m, c) \in ToSet(m.tabs) /\ c \in On(m.kids[HomeOf(m, c)])
  <2>1. c \in Used(m)
    BY <1>6 DEF HomeOf
  <2>2. PICK s \in ToSet(m.tabs) : c \in On(m.kids[s])
    BY <1>2, <2>1
  <2>3. QED
    BY <1>5, <2>2
<1>7. QED
  BY <1>1, <1>2, <1>3, <1>5, <1>6

\* locateNode finds the one list that holds a component.
LEMMA LocateIs ==
  ASSUME NEW m, NEW happened, Framed(m), Clean(m, happened), NEW s \in Screens, NEW c \in On(m.kids[s])
  PROVE  LET l == Locate(m, c) IN
         /\ l.screen = s /\ l.parent \in Places /\ c \in ToSet(m.kids[s][l.parent])
         /\ l.index \in 1..Len(m.kids[s][l.parent])
         /\ \A p \in Places : c \in ToSet(m.kids[s][p]) => p = l.parent
<1>1. HomeOf(m, c) = s
  BY HomeIs
<1>2. PICK p : p = ParentOf(m, s, c)
  OBVIOUS
<1>3. \E q \in Places : c \in ToSet(m.kids[s][q])
  BY DEF On, Under, Held
<1>4. p \in Places /\ c \in ToSet(m.kids[s][p])
  BY <1>2, <1>3 DEF ParentOf, Places
<1>5. \A q \in Places : c \in ToSet(m.kids[s][q]) => q = p
  <2>1. Hangs(Held(m.kids[s]))
    BY DEF Clean, Page
  <2>2. \A q \in Places : Held(m.kids[s])[q] = ToSet(m.kids[s][q])
    BY DEF Held
  <2>3. QED
    BY <1>4, <2>1, <2>2 DEF Hangs
<1>6. m.kids[s][p] \in Seq(Comps)
  BY <1>4 DEF Clean
<1>7. DOMAIN m.kids[s][p] = 1..Len(m.kids[s][p])
  BY <1>6, LenProperties
<1>8. PICK i : i = CHOOSE j \in DOMAIN m.kids[s][p] : m.kids[s][p][j] = c
  OBVIOUS
<1>9. i \in 1..Len(m.kids[s][p])
  BY <1>4, <1>7, <1>8 DEF ToSet
<1>10. PICK l : l = Locate(m, c)
  OBVIOUS
<1>11. l.screen = s /\ l.parent = p /\ l.index = i
  BY <1>1, <1>2, <1>8, <1>10 DEF Locate
<1>12. QED
  BY <1>4, <1>5, <1>9, <1>10, <1>11
\* Operations on components leave the list of screens alone.
Redrawn(m, r) == \E K, N : r = [tabs |-> m.tabs, start |-> m.start, kids |-> K, node |-> N]

\* A model redrawn keeps its tabs and its start screen.
LEMMA RedrawnIsFramed ==
  ASSUME NEW m, Framed(m), NEW r, Redrawn(m, r)
  PROVE  Framed(r) /\ r.tabs = m.tabs /\ r.start = m.start
BY DEF Framed, Redrawn

\* Writing lists and nodes leaves the tabs and the start screen.
LEMMA BothWritten ==
  ASSUME NEW m, Framed(m), NEW K, NEW N
  PROVE  [m EXCEPT !.kids = K, !.node = N] = [tabs |-> m.tabs, start |-> m.start, kids |-> K, node |-> N]
<1>1. m = [tabs |-> m.tabs, start |-> m.start, kids |-> m.kids, node |-> m.node]
  BY DEF Framed
<1>2. PICK r : r = [m EXCEPT !.kids = K, !.node = N]
  OBVIOUS
<1>3. r = [tabs |-> r.tabs, start |-> r.start, kids |-> r.kids, node |-> r.node]
  BY <1>1, <1>2
<1>4. r.tabs = m.tabs /\ r.start = m.start /\ r.kids = K /\ r.node = N
  BY <1>1, <1>2
<1>5. QED
  BY <1>2, <1>3, <1>4

\* Redrawing twice is redrawing.
LEMMA RedrawnOn ==
  ASSUME NEW m, Framed(m)
  PROVE  Redrawn(m, m) /\ \A r : Redrawn(m, r) => \A q : Redrawn(r, q) => Redrawn(m, q)
BY DEF Framed, Redrawn

\* Writing lists only redraws.
LEMMA ListsAreRedrawn ==
  ASSUME NEW m, Framed(m), NEW K, NEW r, r = [m EXCEPT !.kids = K]
  PROVE  Redrawn(m, r)
<1>1. m = [tabs |-> m.tabs, start |-> m.start, kids |-> m.kids, node |-> m.node]
  BY DEF Framed
<1>2. r = [tabs |-> m.tabs, start |-> m.start, kids |-> K, node |-> m.node]
  BY <1>1
<1>3. QED
  BY <1>2 DEF Redrawn

\* Writing nodes only redraws.
LEMMA NodesAreRedrawn ==
  ASSUME NEW m, Framed(m), NEW N, NEW r, r = [m EXCEPT !.node = N]
  PROVE  Redrawn(m, r)
<1>1. m = [tabs |-> m.tabs, start |-> m.start, kids |-> m.kids, node |-> m.node]
  BY DEF Framed
<1>2. r = [tabs |-> m.tabs, start |-> m.start, kids |-> m.kids, node |-> N]
  BY <1>1
<1>3. QED
  BY <1>2 DEF Redrawn

\* Writing lists and nodes only redraws.
LEMMA BothAreRedrawn ==
  ASSUME NEW m, Framed(m), NEW K, NEW N, NEW r, r = [m EXCEPT !.kids = K, !.node = N]
  PROVE  Redrawn(m, r)
<1>1. r = [tabs |-> m.tabs, start |-> m.start, kids |-> K, node |-> N]
  BY BothWritten
<1>2. QED
  BY <1>1 DEF Redrawn

\* Inserting a component only redraws.
LEMMA InsertRedraws ==
  ASSUME NEW m, Framed(m), NEW s, NEW p, NEW i, NEW c
  PROVE  Redrawn(m, Insert(m, s, p, i, c))
<1>1. PICK at : at = ListOf(m, s, p)
  OBVIOUS
<1>2. PICK list : list = InsertAt(m.kids[at][p], Min2(i, Len(m.kids[at][p])) + 1, c)
  OBVIOUS
<1>3. PICK K : K = [m.kids EXCEPT ![at] = [m.kids[at] EXCEPT ![p] = list]]
  OBVIOUS
<1>4. PICK r : r = [m EXCEPT !.kids = K]
  OBVIOUS
<1>5. Insert(m, s, p, i, c) = IF at = None THEN m ELSE r
  BY <1>1, <1>2, <1>3, <1>4 DEF Insert
<1>6. QED
  BY <1>4, <1>5, RedrawnOn, ListsAreRedrawn

\* Removing a component only redraws.
LEMMA RemoveRedraws ==
  ASSUME NEW m, Framed(m), NEW c
  PROVE  Redrawn(m, RemoveNode(m, c))
<1>1. PICK l : l = Locate(m, c)
  OBVIOUS
<1>2. PICK gone : gone = Subtree(m, l.screen, c)
  OBVIOUS
<1>3. PICK k : k = [p \in Comps \cup {Root} |->
                     IF p \in gone THEN <<>> ELSE Omit(m.kids[l.screen][p], {c})]
  OBVIOUS
<1>4. PICK n : n = [d \in Comps |-> IF d \in gone THEN Blank ELSE m.node[l.screen][d]]
  OBVIOUS
<1>5. PICK K, N : K = [m.kids EXCEPT ![l.screen] = k] /\ N = [m.node EXCEPT ![l.screen] = n]
  OBVIOUS
<1>6. PICK r : r = [m EXCEPT !.kids = K, !.node = N]
  OBVIOUS
<1>7. RemoveNode(m, c) = IF HomeOf(m, c) = None THEN m ELSE r
  BY <1>1, <1>2, <1>3, <1>4, <1>5, <1>6 DEF RemoveNode
<1>8. QED
  BY <1>6, <1>7, RedrawnOn, BothAreRedrawn

\* A changed screen in a framed document is the document with that page.
Rewritten(m, s, k, n) ==
  [m EXCEPT !.kids = [m.kids EXCEPT ![s] = k], !.node = [m.node EXCEPT ![s] = n]]

\* Rewriting one screen is setting its page.
LEMMA PageWritten ==
  ASSUME NEW m, Framed(m)
  PROVE  \A s, k, n : Rewritten(m, s, k, n) = WithPage(m, s, k, n)
<1> SUFFICES ASSUME NEW s, NEW k, NEW n PROVE Rewritten(m, s, k, n) = WithPage(m, s, k, n)
  OBVIOUS
<1>1. PICK K, N : K = [m.kids EXCEPT ![s] = k] /\ N = [m.node EXCEPT ![s] = n]
  OBVIOUS
<1>2. [m EXCEPT !.kids = K, !.node = N] = [tabs |-> m.tabs, start |-> m.start, kids |-> K, node |-> N]
  BY BothWritten
<1>3. QED
  BY <1>1, <1>2 DEF WithPage, Rewritten

\* Rewriting one screen only redraws.
LEMMA RewrittenIsRedrawn ==
  ASSUME NEW m, Framed(m), NEW s, NEW k, NEW n
  PROVE  Redrawn(m, Rewritten(m, s, k, n))
<1>1. Rewritten(m, s, k, n) = WithPage(m, s, k, n)
  BY PageWritten
<1>2. QED
  BY <1>1 DEF WithPage, Redrawn

\* Updating a component only redraws.
LEMMA UpdateRedraws ==
  ASSUME NEW m, Framed(m), NEW c
  PROVE  Redrawn(m, Update(m, c))
<1>1. PICK s : s = HomeOf(m, c)
  OBVIOUS
<1>2. PICK N : N = [m.node EXCEPT ![s][c].look = ~@]
  OBVIOUS
<1>3. PICK r : r = [m EXCEPT !.node = N]
  OBVIOUS
<1>4. Update(m, c) = IF s = None THEN m ELSE r
  BY <1>1, <1>2, <1>3 DEF Update
<1>5. QED
  BY <1>3, <1>4, RedrawnOn, NodesAreRedrawn

\* Linking an entity to a parent only redraws.
LEMMA LinkRedraws ==
  ASSUME NEW m, Framed(m), NEW s, NEW e, NEW p, NEW r, r = [m EXCEPT !.node[s][e].up = p]
  PROVE  Redrawn(m, r)
<1>1. PICK N : N = [m.node EXCEPT ![s][e].up = p]
  OBVIOUS
<1>2. r = [m EXCEPT !.node = N]
  BY <1>1
<1>3. QED
  BY <1>2, NodesAreRedrawn

\* Removing an entity only redraws.
LEMMA RemoveEntityRedraws ==
  ASSUME NEW m, Framed(m), NEW s, NEW e
  PROVE  Redrawn(m, RemoveEntity(m, s, e))
<1>1. PICK k, n : /\ k = [m.kids[s] EXCEPT ![Root] = Omit(@, {e})]
                  /\ n = [d \in Comps |->
                            IF d = e THEN Blank
                            ELSE IF m.node[s][d].up = e THEN [m.node[s][d] EXCEPT !.up = m.node[s][e].up]
                            ELSE m.node[s][d]]
  OBVIOUS
<1>2. RemoveEntity(m, s, e) = IF e \notin EntitiesOn(m, s) THEN m ELSE Rewritten(m, s, k, n)
  BY <1>1 DEF RemoveEntity, Rewritten
<1>3. QED
  BY <1>2, RedrawnOn, RewrittenIsRedrawn

\* Duplicating a component or a family only redraws.
LEMMA DuplicatesRedraw ==
  ASSUME NEW m, Framed(m), NEW s, NEW c, NEW f
  PROVE  Redrawn(m, Duplicate(m, c, f)) /\ Redrawn(m, DuplicateFamily(m, s, c, f))
<1> DEFINE from(d) == CHOOSE o \in DOMAIN f : f[o] = d
           fresh == {f[o] : o \in DOMAIN f}
           l == Locate(m, c)
           copied == [p \in Comps \cup {Root} |->
                        IF p \in fresh
                        THEN [j \in DOMAIN m.kids[l.screen][from(p)] |-> f[m.kids[l.screen][from(p)][j]]]
                        ELSE m.kids[l.screen][p]]
           k == [copied EXCEPT ![l.parent] = InsertAt(m.kids[l.screen][l.parent], l.index + 1, f[c])]
           n == [d \in Comps |-> IF d \in fresh THEN m.node[l.screen][from(d)] ELSE m.node[l.screen][d]]
           linkOf(d) == LET up == m.node[s][from(d)].up IN IF up \in DOMAIN f THEN f[up] ELSE None
           order == Omit(m.kids[s][Root], Comps \ DOMAIN f)
           kf == [m.kids[s] EXCEPT ![Root] = @ \o [j \in DOMAIN order |-> f[order[j]]]]
           nf == [d \in Comps |->
                    IF d \in fresh THEN [m.node[s][from(d)] EXCEPT !.up = linkOf(d)] ELSE m.node[s][d]]
<1>1. Duplicate(m, c, f) = Rewritten(m, l.screen, k, n)
  BY DEF Duplicate, Rewritten
<1>2. DuplicateFamily(m, s, c, f) = Rewritten(m, s, kf, nf)
  BY DEF DuplicateFamily, Rewritten
<1> HIDE DEF k, n, kf, nf, l
<1>3. QED
  BY <1>1, <1>2, RewrittenIsRedrawn

\* Writing the lists of one screen sets its page.
LEMMA ListsWritten ==
  ASSUME NEW m, Framed(m), m.node \in [Screens -> Nodes], NEW s \in Screens, NEW k
  PROVE  [m EXCEPT !.kids = [m.kids EXCEPT ![s] = k]] = WithPage(m, s, k, m.node[s])
<1>1. m = [tabs |-> m.tabs, start |-> m.start, kids |-> m.kids, node |-> m.node]
  BY DEF Framed
<1>2. \A K : [m EXCEPT !.kids = K] = [tabs |-> m.tabs, start |-> m.start, kids |-> K, node |-> m.node]
  BY <1>1
<1>3. m.node = [m.node EXCEPT ![s] = m.node[s]]
  OBVIOUS
<1>4. QED
  BY <1>2, <1>3 DEF WithPage

\* Writing the nodes of one screen sets its page.
LEMMA NodesWritten ==
  ASSUME NEW m, NEW happened, Framed(m), Clean(m, happened), NEW s \in Screens, NEW n
  PROVE  [m EXCEPT !.node = [m.node EXCEPT ![s] = n]] = WithPage(m, s, m.kids[s], n)
<1>1. m = [tabs |-> m.tabs, start |-> m.start, kids |-> m.kids, node |-> m.node]
  BY DEF Framed
<1>2. \A N : [m EXCEPT !.node = N] = [tabs |-> m.tabs, start |-> m.start, kids |-> m.kids, node |-> N]
  BY <1>1
<1>3. m.kids = [m.kids EXCEPT ![s] = m.kids[s]]
  BY DEF Clean
<1>4. QED
  BY <1>2, <1>3 DEF WithPage

\* A new component, of the document's kind, with no link to it.
LEMMA InsertKeeps ==
  ASSUME NEW m, NEW happened, Framed(m), Clean(m, happened), NEW s \in Screens,
         NEW p \in Places, NEW i \in Nat, NEW c \in Comps, c \notin Used(m),
         NEW K \in Kinds, OfKind(m, K), c \in K,
         "ai" \notin happened => \A t \in Screens, e \in Entities : m.node[t][e].up # c
  PROVE  Clean(Insert(m, s, p, i, c), happened)
<1>1. PICK at : at = ListOf(m, s, p)
  OBVIOUS
<1>2. CASE at = None
  BY <1>1, <1>2 DEF Insert
<1>3. CASE at # None
  <2>1. at \in ToSet(m.tabs) /\ p \in {Root} \cup (Containers \cap On(m.kids[at]))
    BY <1>1, <1>3, HomeIs DEF ListOf
  <2>2. at \in Screens
    BY <2>1, TabsAreScreens
  <2>3. PICK k0, n : k0 = m.kids[at] /\ n = m.node[at]
    OBVIOUS
  <2>4. Page(k0, n, happened)
    BY <2>2, <2>3 DEF Clean
  <2>5. PICK list : list = InsertAt(k0[p], Min2(i, Len(k0[p])) + 1, c)
    OBVIOUS
  <2>6. PICK k : k = [k0 EXCEPT ![p] = list]
    OBVIOUS
  <2>7. Insert(m, s, p, i, c) = WithPage(m, at, k, n)
    <3>1. Insert(m, s, p, i, c) = [m EXCEPT !.kids = [m.kids EXCEPT ![at] = k]]
      BY <1>1, <1>3, <2>3, <2>5, <2>6 DEF Insert
    <3>2. m.node \in [Screens -> Nodes]
      BY DEF Clean
    <3>3. QED
      BY <2>2, <2>3, <3>1, <3>2, ListsWritten
  <2>8. \A t \in Screens : c \notin On(m.kids[t])
    BY HomeIs
  <2>9. c \notin On(k0)
    BY <2>2, <2>3, <2>8
  <2>10. k0[p] \in Seq(Comps) /\ IsInjective(k0[p]) /\ c \notin ToSet(k0[p])
    BY <2>4, <2>9 DEF Page, On, Under, Held
  <2>11. Min2(i, Len(k0[p])) + 1 \in 1..Len(k0[p]) + 1
    <3>1. Len(k0[p]) \in Nat
      BY <2>10, LenProperties
    <3>2. QED
      BY <3>1 DEF Min2
  <2>12. list \in Seq(Comps) /\ ToSet(list) = ToSet(k0[p]) \cup {c} /\ IsInjective(list)
    BY <2>5, <2>10, <2>11, InsertedEntries
  <2>13. /\ k \in [Places -> Seq(Comps)] /\ \A q \in Places : IsInjective(k[q])
         /\ \A q \in Places : ToSet(k[q]) = ToSet(k0[q]) \cup (IF q = p THEN {c} ELSE {})
    BY <2>4, <2>6, <2>12 DEF Page
  <2>14. Hangs(Held(k)) /\ On(k) = On(k0) \cup {c}
    <3>1. PICK h, g : h = Held(k0) /\ g = Held(k)
      OBVIOUS
    <3>2. Hangs(h) /\ On(k0) = Under(h) /\ On(k) = Under(g)
      BY <2>4, <3>1 DEF Page, On
    <3>3. /\ \A q \in Places : h[q] = ToSet(k0[q]) /\ g[q] = ToSet(k[q])
          /\ g = [q \in Places |-> g[q]]
      BY <3>1 DEF Held
    <3>4. \A q \in Places : g[q] = h[q] \cup (IF q = p THEN {c} ELSE {})
      BY <2>13, <3>3
    <3>5. g \in [Places -> SUBSET Comps]
      BY <3>2, <3>3, <3>4 DEF Hangs
    <3>6. PICK N \in SUBSET Comps : N = {c}
      OBVIOUS
    <3>7. N \cap Under(h) = {} /\ p \in {Root} \cup (Containers \cap Under(h))
          /\ \A q \in Places : g[q] = h[q] \cup (IF q = p THEN N ELSE {})
      BY <2>1, <2>3, <2>9, <3>2, <3>4, <3>6
    <3>8. Hangs(g) /\ Under(g) = Under(h) \cup N
      BY <3>2, <3>5, <3>7, HangsGrown DEF GrownBy
    <3>9. QED
      BY <3>1, <3>2, <3>6, <3>8
  <2>15. Linked(On(k) \cap Entities, n, happened)
    <3>1. PICK S, T : S = On(k0) \cap Entities /\ T = On(k) \cap Entities
      OBVIOUS
    <3>2. S \subseteq T /\ T \subseteq S \cup {c} /\ c \notin S /\ n[c].up = None
      BY <2>4, <2>9, <2>14, <3>1 DEF Page
    <3>3. SUFFICES ASSUME "ai" \notin happened
                   PROVE  LinksEnd(T, n) /\ ("cut" \notin happened => LinksStay(T, n))
      BY <3>1 DEF Linked
    <3>4. LinksEnd(S, n) /\ ("cut" \notin happened => LinksStay(S, n))
      BY <2>4, <3>1, <3>3 DEF Page, Linked
    <3>5. \A e \in T : e \in Entities /\ n[e].up # c
      BY <2>2, <2>3, <3>1, <3>3
    <3>6. c # None
      BY DocumentAssumption
    <3>7. ASSUME NEW X \in SUBSET T, X # {} PROVE \E d \in X : n[d].up \notin X
      <4>1. CASE X \cap S = {}
        BY <3>2, <3>6, <3>7, <4>1
      <4>2. CASE X \cap S # {}
        <5>1. PICK d \in X \cap S : n[d].up \notin X \cap S
          BY <3>4, <4>2 DEF LinksEnd
        <5>2. n[d].up \notin X
          BY <3>2, <3>5, <5>1
        <5>3. QED
          BY <5>2
      <4>3. QED
        BY <4>1, <4>2
    <3>8. LinksStay(S, n) => LinksStay(T, n)
      BY <3>2 DEF LinksStay
    <3>9. QED
      BY <3>4, <3>7, <3>8 DEF LinksEnd
  <2>16. Page(k, n, happened)
    BY <2>4, <2>13, <2>14, <2>15 DEF Page
  <2>17. \A t \in Screens : t # at => On(k) \cap On(m.kids[t]) = {}
    BY ZenonT(40), <2>2, <2>3, <2>8, <2>14 DEF Clean
  <2>18. OfKind(m, K) /\ On(k) \subseteq K
    BY <2>2, <2>3, <2>14 DEF OfKind
  <2>19. QED
    BY <2>1, <2>7, <2>16, <2>17, <2>18, PageChanged
<1>4. QED
  BY <1>2, <1>3

\* What a promise survives, it survives when more has happened.
LEMMA CleanLater ==
  ASSUME NEW m, NEW happened, NEW later, Clean(m, happened), happened \subseteq later
  PROVE  Clean(m, later)
BY DEF Clean, Page, Linked

\* A document whose list of screens alone changed.
LEMMA TabsChanged ==
  ASSUME NEW m, NEW happened, Clean(m, happened), NEW r,
         r.kids = m.kids, r.node = m.node,
         \A s \in Screens : s \notin ToSet(r.tabs) => On(m.kids[s]) = {}
  PROVE  Clean(r, happened)
BY DEF Clean, OfKind

\* A screen whose lists stay as they are.
LEMMA NodesChanged ==
  ASSUME NEW m, NEW happened, NEW later, Framed(m), Clean(m, happened),
         happened \subseteq later, NEW s \in ToSet(m.tabs), NEW n \in Nodes,
         \A c \in Comps \ On(m.kids[s]) : n[c].up = None,
         Linked(On(m.kids[s]) \cap Entities, n, later)
  PROVE  Clean(WithPage(m, s, m.kids[s], n), later)
<1>1. s \in Screens
  BY TabsAreScreens
<1>2. PICK k : k = m.kids[s]
  OBVIOUS
<1>3. Page(k, n, later)
  BY <1>1, <1>2 DEF Clean, Page
<1>4. \E K \in Kinds : OfKind(m, K) /\ On(k) \subseteq K
  BY <1>1, <1>2 DEF Clean, OfKind
<1>5. \A t \in Screens : t # s => On(k) \cap On(m.kids[t]) = {}
  BY <1>1, <1>2 DEF Clean
<1>6. QED
  BY <1>2, <1>3, <1>4, <1>5, PageChanged

\* What hangs from a component on a page, read off its lists.
LEMMA SubtreeIs ==
  ASSUME NEW m, NEW happened, Clean(m, happened), NEW s \in Screens, NEW c
  PROVE  Subtree(m, s, c) = TreeOf(Held(m.kids[s]), c)
<1>1. PICK h : h = Held(m.kids[s])
  OBVIOUS
<1>2. \A p \in Comps : h[p] = ToSet(m.kids[s][p])
  BY <1>1 DEF Held, Places
<1>3. [p \in Comps |-> ToSet(m.kids[s][p])] = [p \in Comps |-> h[p]]
  BY <1>2
<1>4. QED
  BY <1>1, <1>3 DEF Subtree, TreeOf

\* An entity holds nothing, and a screen of entities is one list.
LEMMA EntitiesHangFlat ==
  ASSUME NEW h, Hangs(h)
  PROVE  /\ \A e \in Entities : h[e] = {}
         /\ Under(h) \subseteq Entities => \A p \in Places : p # Root => h[p] = {}
BY DocumentAssumption DEF Hangs, Places, Comps

\* Of two pages set for one screen the second stands.
LEMMA PageTwice ==
  ASSUME NEW m, NEW s, NEW k, NEW n, NEW k2, NEW n2
  PROVE  WithPage(WithPage(m, s, k, n), s, k2, n2) = WithPage(m, s, k2, n2)
BY DEF WithPage

\* A page without a component and all it holds.
Pruned(k, c) == [p \in Places |-> IF p \in TreeOf(Held(k), c) THEN <<>> ELSE Omit(k[p], {c})]
Blanked(k, n, c) == [d \in Comps |-> IF d \in TreeOf(Held(k), c) THEN Blank ELSE n[d]]

\* removeNode prunes the lists of one screen and blanks what it pruned.
LEMMA RemovedIs ==
  ASSUME NEW m, NEW happened, Framed(m), Clean(m, happened), NEW s \in Screens, NEW c \in On(m.kids[s])
  PROVE  RemoveNode(m, c) = WithPage(m, s, Pruned(m.kids[s], c), Blanked(m.kids[s], m.node[s], c))
<1>1. HomeOf(m, c) = s /\ s # None /\ Locate(m, c).screen = s
  BY HomeIs, DocumentAssumption DEF Locate
<1>2. PICK G : G = TreeOf(Held(m.kids[s]), c)
  OBVIOUS
<1>3. Subtree(m, s, c) = G
  BY <1>2, SubtreeIs
<1>4. PICK k, n : k = Pruned(m.kids[s], c) /\ n = Blanked(m.kids[s], m.node[s], c)
  OBVIOUS
<1>5. k = [p \in Comps \cup {Root} |-> IF p \in G THEN <<>> ELSE Omit(m.kids[s][p], {c})]
  BY <1>2, <1>4 DEF Pruned, Places
<1>6. n = [d \in Comps |-> IF d \in G THEN Blank ELSE m.node[s][d]]
  BY <1>2, <1>4 DEF Blanked
<1>7. RemoveNode(m, c) = Rewritten(m, s, k, n)
  BY <1>1, <1>3, <1>5, <1>6 DEF RemoveNode, Rewritten
<1>8. QED
  BY <1>4, <1>7, PageWritten

\* What is left when a component goes with all it holds.
LEMMA RemoveKeeps ==
  ASSUME NEW m, NEW happened, NEW later, Framed(m), Clean(m, happened), happened \subseteq later,
         NEW c, HomeOf(m, c) # None =>
           {"ai", "cut"} \cap later # {} \/ \A e \in Entities : m.node[HomeOf(m, c)][e].up # c
  PROVE  /\ Clean(RemoveNode(m, c), later)
         /\ \A s \in Screens : c \in On(m.kids[s]) =>
              On(RemoveNode(m, c).kids[s]) = On(m.kids[s]) \ TreeOf(Held(m.kids[s]), c)
<1>1. CASE HomeOf(m, c) = None
  <2>1. RemoveNode(m, c) = m
    BY <1>1 DEF RemoveNode
  <2>2. \A s \in Screens : c \notin On(m.kids[s])
    <3>1. \A s \in Screens : c \in On(m.kids[s]) => HomeOf(m, c) = s /\ s \in ToSet(m.tabs)
      BY HomeIs
    <3>2. None \notin Screens
      BY DocumentAssumption
    <3>3. QED
      BY <1>1, <3>1, <3>2
  <2>3. Clean(m, later)
    BY CleanLater
  <2>4. QED
    BY <2>1, <2>2, <2>3
<1>2. CASE HomeOf(m, c) # None
  <2>1. PICK s : s = HomeOf(m, c)
    OBVIOUS
  <2>2. s \in ToSet(m.tabs) /\ c \in On(m.kids[s])
    BY <1>2, <2>1, HomeIs
  <2>3. s \in Screens
    BY <2>2, TabsAreScreens
  <2>4. PICK k0, n0 : k0 = m.kids[s] /\ n0 = m.node[s]
    OBVIOUS
  <2>5. Page(k0, n0, happened)
    BY <2>3, <2>4 DEF Clean
  <2>6. PICK h : h = Held(k0)
    OBVIOUS
  <2>7. Hangs(h) /\ On(k0) = Under(h) /\ c \in Under(h)
    BY <2>2, <2>4, <2>5, <2>6 DEF Page, On
  <2>8. PICK G : G = TreeOf(h, c)
    OBVIOUS
  <2>9. /\ c \in G /\ G \in SUBSET Under(h)
        /\ \A p \in Places \cap G : h[p] \subseteq G
        /\ \A p \in Places : p \notin G => h[p] \cap G \subseteq {c}
        /\ h[c] = {} => G = {c}
    BY <2>7, <2>8, TreeOfHangs
  <2>10. PICK k, n : k = Pruned(k0, c) /\ n = Blanked(k0, n0, c)
    OBVIOUS
  <2>11. k = [p \in Places |-> IF p \in G THEN <<>> ELSE Omit(k0[p], {c})]
    BY <2>6, <2>8, <2>10 DEF Pruned
  <2>12. n = [d \in Comps |-> IF d \in G THEN Blank ELSE n0[d]]
    BY <2>6, <2>8, <2>10 DEF Blanked
  <2>13. RemoveNode(m, c) = WithPage(m, s, k, n)
    BY <2>2, <2>3, <2>4, <2>10, RemovedIs
  <2>14. ASSUME NEW p \in Places
         PROVE  k[p] \in Seq(Comps) /\ IsInjective(k[p]) /\ ToSet(k[p]) = IF p \in G THEN {} ELSE h[p] \ G
    <3>1. k0[p] \in Seq(Comps) /\ IsInjective(k0[p]) /\ h[p] = ToSet(k0[p])
      BY <2>5, <2>6 DEF Page, Held
    <3>2. CASE p \in G
      <4>1. k[p] = <<>>
        BY <2>11, <3>2 DEF Places
      <4>2. QED
        BY <3>2, <4>1 DEF ToSet, IsInjective
    <3>3. CASE p \notin G
      <4>1. k[p] = Omit(k0[p], {c})
        BY <2>11, <3>3 DEF Places
      <4>2. PICK gone : gone = {c}
        OBVIOUS
      <4>3. k[p] \in Seq(Comps) /\ IsInjective(k[p]) /\ ToSet(k[p]) = ToSet(k0[p]) \ gone
        BY <3>1, <4>1, <4>2, OmitEntries
      <4>4. h[p] \ gone = h[p] \ G
        BY <2>9, <3>3, <4>2
      <4>5. QED
        BY <3>1, <3>3, <4>3, <4>4
    <3>4. QED
      BY <3>2, <3>3
  <2>15. k \in [Places -> Seq(Comps)]
    BY <2>11, <2>14 DEF Places
  <2>16. Hangs(Held(k)) /\ On(k) = On(k0) \ G
    <3>1. PICK g : g = Held(k)
      OBVIOUS
    <3>2. g = [p \in Places |-> g[p]] /\ \A p \in Places : g[p] = ToSet(k[p])
      BY <3>1 DEF Held
    <3>3. \A p \in Places : g[p] = IF p \in G THEN {} ELSE h[p] \ G
      BY <2>14, <3>2
    <3>4. g \in [Places -> SUBSET Comps]
      BY <2>7, <3>2, <3>3 DEF Hangs
    <3>5. \A p \in Places \cap G : h[p] \subseteq G
      BY <2>9
    <3>6. Hangs(g) /\ Under(g) = Under(h) \ G
      BY <2>7, <3>3, <3>4, <3>5, HangsPruned
    <3>7. QED
      BY <2>7, <3>1, <3>6 DEF On
  <2>17. n \in Nodes /\ (\A d \in Comps : n[d].up = IF d \in G THEN None ELSE n0[d].up)
    <3>1. Blank \in [up : Entities \cup {None}, look : BOOLEAN] /\ Blank.up = None
      BY DEF Blank
    <3>2. n0 \in Nodes
      BY <2>5 DEF Page
    <3>3. QED
      BY <2>12, <3>1, <3>2 DEF Nodes
  <2>18. \A d \in Comps \ On(k) : n[d].up = None
    BY <2>5, <2>16, <2>17 DEF Page
  <2>19. Linked(On(k) \cap Entities, n, later)
    <3>1. SUFFICES ASSUME "ai" \notin later
                   PROVE  /\ LinksEnd(On(k) \cap Entities, n)
                          /\ "cut" \notin later => LinksStay(On(k) \cap Entities, n)
      BY DEF Linked
    <3>2. "ai" \notin happened /\ ("cut" \notin later => "cut" \notin happened)
      BY <3>1
    <3>3. PICK S, T : S = On(k0) \cap Entities /\ T = On(k) \cap Entities
      OBVIOUS
    <3>4. LinksEnd(S, n0) /\ ("cut" \notin later => LinksStay(S, n0))
      BY <2>5, <3>2, <3>3 DEF Page, Linked
    <3>5. T = S \ G /\ \A d \in T : n[d].up = n0[d].up
      BY <2>16, <2>17, <3>3 DEF Comps
    <3>6. LinksEnd(T, n)
      BY <3>4, <3>5 DEF LinksEnd
    <3>7. ASSUME "cut" \notin later PROVE LinksStay(T, n)
      <4>1. \A e \in Entities : n0[e].up # c
        BY <1>2, <2>1, <2>4, <3>1, <3>7
      <4>2. PICK K \in Kinds : OfKind(m, K)
        BY DEF Clean
      <4>3. On(k0) \subseteq K
        BY <2>3, <2>4, <4>2 DEF OfKind
      <4>4. CASE K = Entities
        <5>1. h[c] = {}
          BY <2>7, <4>3, <4>4, EntitiesHangFlat
        <5>2. G = {c}
          BY <2>9, <5>1
        <5>3. T \subseteq S /\ \A e \in T : n[e].up = n0[e].up /\ n0[e].up \in S \cup {None} /\ n0[e].up # c
          BY <3>3, <3>4, <3>5, <3>7, <4>1 DEF LinksStay
        <5>4. QED
          BY <3>5, <5>2, <5>3 DEF LinksStay
      <4>5. CASE K = Comps \ Entities
        BY <3>3, <3>5, <4>3, <4>5 DEF LinksStay
      <4>6. QED
        BY <4>2, <4>4, <4>5 DEF Kinds
    <3>8. QED
      BY <3>3, <3>6, <3>7
  <2>20. Page(k, n, later)
    BY <2>14, <2>15, <2>16, <2>17, <2>18, <2>19 DEF Page
  <2>21. \A t \in Screens : t # s => On(k) \cap On(m.kids[t]) = {}
    BY <2>3, <2>4, <2>16 DEF Clean
  <2>22. \E K \in Kinds : OfKind(m, K) /\ On(k) \subseteq K
    <3>1. PICK K \in Kinds : OfKind(m, K)
      BY DEF Clean
    <3>2. On(k) \subseteq K
      BY <2>3, <2>4, <2>16, <3>1 DEF OfKind
    <3>3. QED
      BY <3>1, <3>2
  <2>23. Clean(WithPage(m, s, k, n), later)
    BY <2>2, <2>20, <2>21, <2>22, PageChanged
  <2>24. ASSUME NEW t \in Screens, c \in On(m.kids[t])
         PROVE  On(RemoveNode(m, c).kids[t]) = On(m.kids[t]) \ TreeOf(Held(m.kids[t]), c)
    <3>1. t = s
      BY <2>1, <2>24, HomeIs
    <3>2. WithPage(m, s, k, n).kids[s] = k
      BY <2>3 DEF WithPage, Clean
    <3>3. QED
      BY <2>4, <2>6, <2>8, <2>13, <2>16, <3>1, <3>2
  <2>25. QED
    BY <2>13, <2>23, <2>24
<1>3. QED
  BY <1>1, <1>2

\* A change of a component's look.
LEMMA UpdateKeeps ==
  ASSUME NEW m, NEW happened, Framed(m), Clean(m, happened), NEW c
  PROVE  Clean(Update(m, c), happened)
<1>1. CASE HomeOf(m, c) = None
  <2>1. Update(m, c) = m
    BY <1>1 DEF Update
  <2>2. QED
    BY <2>1
<1>2. CASE HomeOf(m, c) # None
  <2>1. PICK s : s = HomeOf(m, c)
    OBVIOUS
  <2>2. s \in ToSet(m.tabs) /\ c \in On(m.kids[s])
    BY <1>2, <2>1, HomeIs
  <2>3. s \in Screens
    BY <2>2, TabsAreScreens
  <2>4. PICK n0 : n0 = m.node[s]
    OBVIOUS
  <2>5. Page(m.kids[s], n0, happened)
    BY <2>3, <2>4 DEF Clean
  <2>6. PICK n : n = [n0 EXCEPT ![c].look = ~@]
    OBVIOUS
  <2>7. PICK r : r = [m EXCEPT !.node = [m.node EXCEPT ![s] = n]]
    OBVIOUS
  <2>8. Update(m, c) = r
    BY <1>2, <2>1, <2>4, <2>6, <2>7 DEF Update
  <2>9. r = WithPage(m, s, m.kids[s], n)
    BY <2>3, <2>7, NodesWritten
  <2>10. n \in Nodes /\ \A d \in Comps : n[d].up = n0[d].up
    <3>1. n0 \in Nodes
      BY <2>5 DEF Page
    <3>2. QED
      BY <2>6, <3>1 DEF Nodes
  <2>11. \A d \in Comps \ On(m.kids[s]) : n[d].up = None
    BY <2>5, <2>10 DEF Page
  <2>12. Linked(On(m.kids[s]) \cap Entities, n, happened)
    <3>1. PICK S : S = On(m.kids[s]) \cap Entities
      OBVIOUS
    <3>2. \A e \in S : n[e].up = n0[e].up
      BY <2>10, <3>1 DEF Comps
    <3>3. Linked(S, n0, happened)
      BY <2>5, <3>1 DEF Page
    <3>4. Linked(S, n, happened)
      BY <3>2, <3>3 DEF Linked, LinksEnd, LinksStay
    <3>5. QED
      BY <3>1, <3>4
  <2>13. Clean(r, happened)
    BY <2>2, <2>9, <2>10, <2>11, <2>12, NodesChanged
  <2>14. QED
    BY <2>8, <2>13
<1>3. QED
  BY <1>1, <1>2

\* A parent link written, by the author or by a changeset.
LEMMA LinkKeeps ==
  ASSUME NEW m, NEW happened, NEW later, Framed(m), Clean(m, happened), happened \subseteq later,
         NEW s, NEW e \in Entities, s = HomeOf(m, e), s # None, NEW p \in Entities \cup {None},
         "ai" \notin later =>
           /\ p \in On(m.kids[s]) \cup {None}
           /\ p # None => e \notin Chain(m, s, p),
         NEW r, r = [m EXCEPT !.node[s][e].up = p]
  PROVE  Clean(r, later)
<1>1. s \in ToSet(m.tabs) /\ e \in On(m.kids[s])
  BY HomeIs
<1>2. s \in Screens
  BY <1>1, TabsAreScreens
<1>3. PICK n0 : n0 = m.node[s]
  OBVIOUS
<1>4. Page(m.kids[s], n0, happened)
  BY <1>2, <1>3 DEF Clean
<1>5. PICK n : n = [n0 EXCEPT ![e].up = p]
  OBVIOUS
<1>6. r = [m EXCEPT !.node = [m.node EXCEPT ![s] = n]]
  BY <1>3, <1>5
<1>7. r = WithPage(m, s, m.kids[s], n)
  BY <1>2, <1>6, NodesWritten
<1>8. n \in Nodes /\ \A d \in Comps : n[d].up = IF d = e THEN p ELSE n0[d].up
  <2>1. n0 \in Nodes
    BY <1>4 DEF Page
  <2>2. QED
    BY <1>5, <2>1 DEF Nodes, Comps
<1>9. \A d \in Comps \ On(m.kids[s]) : n[d].up = None
  BY <1>1, <1>4, <1>8 DEF Page
<1>10. Linked(On(m.kids[s]) \cap Entities, n, later)
  <2>1. SUFFICES ASSUME "ai" \notin later
                 PROVE  /\ LinksEnd(On(m.kids[s]) \cap Entities, n)
                        /\ "cut" \notin later => LinksStay(On(m.kids[s]) \cap Entities, n)
    BY DEF Linked
  <2>2. PICK S : S = On(m.kids[s]) \cap Entities
    OBVIOUS
  <2>3. LinksEnd(S, n0) /\ ("cut" \notin later => LinksStay(S, n0))
    BY <1>4, <2>1, <2>2 DEF Page, Linked
  <2>4. e \in S /\ p \in S \cup {None} /\ \A d \in S : n[d].up = IF d = e THEN p ELSE n0[d].up
    BY <1>1, <1>8, <2>1, <2>2 DEF Comps
  <2>5. LinksStay(S, n0) => LinksStay(S, n)
    BY <2>4 DEF LinksStay
  <2>6. ASSUME NEW X \in SUBSET S, X # {}, \A d \in X : n[d].up \in X PROVE FALSE
    <3>1. CASE e \notin X
      BY <2>3, <2>4, <2>6, <3>1 DEF LinksEnd
    <3>2. CASE e \in X
      <4>1. p \in X /\ p # None /\ p \in Comps
        BY <2>2, <2>4, <2>6, <3>2, DocumentAssumption DEF Comps
      <4>2. PICK next : next = [d \in Comps |-> {n0[d].up} \ {None}]
        OBVIOUS
      <4>3. next \in [Comps -> SUBSET Comps] /\ \A d \in Comps : next[d] = {n0[d].up} \ {None}
        BY <1>4, <4>2 DEF Page, Nodes, Comps
      <4>4. IsFiniteSet(Entities)
        <5>1. Entities \in SUBSET Comps
          BY DEF Comps
        <5>2. QED
          BY <5>1, DocumentAssumption, FS_Subset
      <4>5. \A d \in Comps \ Entities : next[d] = {}
        <5>1. PICK K \in Kinds : OfKind(m, K)
          BY DEF Clean
        <5>2. On(m.kids[s]) \subseteq Entities
          BY <1>1, <1>2, <5>1 DEF OfKind, Kinds
        <5>3. \A d \in Comps \ Entities : n0[d].up = None
          BY <1>4, <5>2 DEF Page
        <5>4. QED
          BY <4>3, <5>3
      <4>6. PICK W : W = Walk(p, next, Cardinality(Entities))
        OBVIOUS
      <4>7. W = Chain(m, s, p)
        BY <1>3, <4>2, <4>6 DEF Chain
      <4>8. \A d \in W : next[d] \subseteq W
        BY <4>1, <4>3, <4>4, <4>5, <4>6, WalkEnds
      <4>9. Cardinality(Entities) \in Nat
        BY <4>4, FS_CardinalityType
      <4>10. p \in W /\ W \in SUBSET Comps
        BY <4>1, <4>3, <4>6, <4>9, WalkReaches
      <4>11. PICK d \in X \cap W : n0[d].up \notin X \cap W
        BY <2>3, <4>1, <4>10 DEF LinksEnd
      <4>12. d # e
        BY <2>1, <4>1, <4>7, <4>11
      <4>13. n0[d].up \in X /\ n0[d].up # None
        BY <2>2, <2>4, <2>6, <4>11, <4>12, DocumentAssumption DEF Comps
      <4>14. n0[d].up \in W
        BY <4>3, <4>8, <4>10, <4>11, <4>13
      <4>15. QED
        BY <4>11, <4>13, <4>14
    <3>3. QED
      BY <3>1, <3>2
  <2>7. LinksEnd(S, n)
    BY <2>6 DEF LinksEnd
  <2>8. QED
    BY <2>2, <2>3, <2>5, <2>7
<1>11. Clean(r, later)
  <2>1. n \in Nodes /\ s \in ToSet(m.tabs)
    BY <1>1, <1>8
  <2>2. Clean(WithPage(m, s, m.kids[s], n), later)
    BY <1>9, <1>10, <2>1, NodesChanged
  <2>3. QED
    BY <1>7, <2>2
<1>12. QED
  BY <1>11

\* An entity goes, and its children move up.
LEMMA RemoveEntityKeeps ==
  ASSUME NEW m, NEW happened, Framed(m), Clean(m, happened), NEW s \in Screens, NEW e
  PROVE  Clean(RemoveEntity(m, s, e), happened)
<1>1. CASE e \notin EntitiesOn(m, s)
  <2>1. RemoveEntity(m, s, e) = m
    BY <1>1 DEF RemoveEntity
  <2>2. QED
    BY <2>1
<1>2. CASE e \in EntitiesOn(m, s)
  <2>1. s \in ToSet(m.tabs) /\ e \in On(m.kids[s]) /\ e \in Entities
    BY <1>2, IdsAreOn DEF EntitiesOn
  <2>2. PICK k0, n0 : k0 = m.kids[s] /\ n0 = m.node[s]
    OBVIOUS
  <2>3. Page(k0, n0, happened)
    BY <2>2 DEF Clean
  <2>4. PICK gone \in SUBSET Comps : gone = {e}
    BY <2>1 DEF Comps
  <2>5. PICK list : list = Omit(k0[Root], gone)
    OBVIOUS
  <2>6. PICK k : k = [k0 EXCEPT ![Root] = list]
    OBVIOUS
  <2>7. PICK n : n = [d \in Comps |-> IF d = e THEN Blank
                                      ELSE IF n0[d].up = e THEN [n0[d] EXCEPT !.up = n0[e].up]
                                      ELSE n0[d]]
    OBVIOUS
  <2>8. RemoveEntity(m, s, e) = Rewritten(m, s, k, n)
    BY <1>2, <2>2, <2>4, <2>5, <2>6, <2>7 DEF RemoveEntity, Rewritten
  <2>9. RemoveEntity(m, s, e) = WithPage(m, s, k, n)
    BY <2>8, PageWritten
  <2>10. PICK h : h = Held(k0)
    OBVIOUS
  <2>11. Hangs(h) /\ On(k0) = Under(h) /\ \A p \in Places : h[p] = ToSet(k0[p])
    BY <2>3, <2>10 DEF Page, On, Held
  <2>12. PICK K \in Kinds : OfKind(m, K)
    BY DEF Clean
  <2>13. Under(h) \subseteq Entities /\ K = Entities
    BY <2>1, <2>2, <2>11, <2>12 DEF OfKind, Kinds
  <2>14. \A p \in Places : p # Root => h[p] = {}
    BY <2>11, <2>13, EntitiesHangFlat
  <2>15. Root \in Places /\ e # Root
    BY <2>1, DocumentAssumption DEF Places, Comps
  <2>16. list \in Seq(Comps) /\ IsInjective(list) /\ ToSet(list) = h[Root] \ gone
    <3>1. k0[Root] \in Seq(Comps) /\ IsInjective(k0[Root])
      BY <2>3, <2>15 DEF Page
    <3>2. QED
      BY <2>5, <2>11, <2>15, <3>1, OmitEntries
  <2>17. /\ k \in [Places -> Seq(Comps)] /\ \A p \in Places : IsInjective(k[p])
         /\ \A p \in Places : ToSet(k[p]) = h[p] \ gone
    <3>1. \A p \in Places : k[p] = IF p = Root THEN list ELSE k0[p]
      BY <2>3, <2>6 DEF Page
    <3>2. \A p \in Places : p # Root => ToSet(k[p]) = h[p] \ gone
      BY <2>11, <2>14, <3>1
    <3>3. QED
      BY <2>3, <2>6, <2>16, <3>1, <3>2 DEF Page
  <2>18. Hangs(Held(k)) /\ On(k) = On(k0) \ gone
    <3>1. PICK g : g = Held(k)
      OBVIOUS
    <3>2. g = [p \in Places |-> g[p]] /\ \A p \in Places : g[p] = ToSet(k[p])
      BY <3>1 DEF Held
    <3>3. \A p \in Places : g[p] = IF p \in gone THEN {} ELSE h[p] \ gone
      BY <2>4, <2>14, <2>15, <2>17, <3>2
    <3>4. g \in [Places -> SUBSET Comps]
      BY <2>11, <2>17, <3>2 DEF Hangs
    <3>5. \A p \in Places \cap gone : h[p] \subseteq gone
      BY <2>4, <2>14, <2>15
    <3>6. Hangs(g) /\ Under(g) = Under(h) \ gone
      BY <2>11, <3>3, <3>4, <3>5, HangsPruned
    <3>7. QED
      BY <2>11, <3>1, <3>6 DEF On
  <2>19. /\ n \in Nodes
         /\ \A d \in Comps : n[d].up = IF d = e THEN None
                                       ELSE IF n0[d].up = e THEN n0[e].up ELSE n0[d].up
    <3>1. Blank \in [up : Entities \cup {None}, look : BOOLEAN] /\ Blank.up = None
      BY DEF Blank
    <3>2. n0 \in Nodes /\ e \in Comps
      BY <2>1, <2>3 DEF Page, Comps
    <3>3. QED
      BY <2>7, <3>1, <3>2 DEF Nodes
  <2>20. \A d \in Comps \ On(k) : n[d].up = None
    <3>1. \A d \in Comps \ On(k0) : n0[d].up = None
      BY <2>3 DEF Page
    <3>2. e # None
      BY <2>1, DocumentAssumption DEF Comps
    <3>3. QED
      BY <2>4, <2>18, <2>19, <3>1, <3>2
  <2>21. Linked(On(k) \cap Entities, n, happened)
    <3>1. SUFFICES ASSUME "ai" \notin happened
                   PROVE  /\ LinksEnd(On(k) \cap Entities, n)
                          /\ "cut" \notin happened => LinksStay(On(k) \cap Entities, n)
      BY DEF Linked
    <3>2. PICK S, T : S = On(k0) \cap Entities /\ T = On(k) \cap Entities
      OBVIOUS
    <3>3. LinksEnd(S, n0) /\ ("cut" \notin happened => LinksStay(S, n0))
      BY <2>3, <3>1, <3>2 DEF Page, Linked
    <3>4. /\ e \in S /\ T = S \ {e} /\ S \subseteq Comps
          /\ \A d \in T : n[d].up = IF n0[d].up = e THEN n0[e].up ELSE n0[d].up
      BY <2>1, <2>2, <2>4, <2>18, <2>19, <3>2 DEF Comps
    <3>5. ASSUME NEW X \in SUBSET T, X # {}, \A d \in X : n[d].up \in X PROVE FALSE
      <4>1. PICK Y : Y = X \cup {e}
        OBVIOUS
      <4>2. Y \in SUBSET S /\ Y # {} /\ X \in SUBSET S /\ e \notin X
        BY <3>4, <4>1
      <4>3. PICK d \in Y : n0[d].up \notin Y
        BY <3>3, <4>2 DEF LinksEnd
      <4>4. d = e
        BY <3>4, <3>5, <4>1, <4>3
      <4>5. PICK b \in X : n0[b].up \notin X
        BY <3>3, <3>5, <4>2 DEF LinksEnd
      <4>6. QED
        BY <3>4, <3>5, <4>1, <4>3, <4>4, <4>5
    <3>6. ASSUME LinksStay(S, n0) PROVE LinksStay(T, n)
      <4>1. PICK one : one = {e}
        OBVIOUS
      <4>2. one \in SUBSET S /\ one # {}
        BY <3>4, <4>1
      <4>3. n0[e].up # e
        BY <3>3, <4>1, <4>2 DEF LinksEnd
      <4>4. \A d \in S : n0[d].up \in S \cup {None}
        BY <3>6 DEF LinksStay
      <4>5. QED
        BY <3>4, <4>3, <4>4 DEF LinksStay
    <3>7. LinksEnd(T, n)
      BY <3>5 DEF LinksEnd
    <3>8. QED
      BY <3>2, <3>3, <3>6, <3>7
  <2>22. Page(k, n, happened)
    BY <2>17, <2>18, <2>19, <2>20, <2>21 DEF Page
  <2>23. \A t \in Screens : t # s => On(k) \cap On(m.kids[t]) = {}
    BY <2>2, <2>18 DEF Clean
  <2>24. OfKind(m, K) /\ On(k) \subseteq K
    BY <2>11, <2>12, <2>13, <2>18
  <2>25. Clean(WithPage(m, s, k, n), happened)
    BY <2>1, <2>12, <2>22, <2>23, <2>24, PageChanged
  <2>26. QED
    BY <2>9, <2>25
<1>3. QED
  BY <1>1, <1>2

\* Copies of entities with their links: fresh ids, of entities, none linked to.
LEMMA DuplicateFamilyKeeps ==
  ASSUME NEW m, NEW happened, Framed(m), Clean(m, happened), NEW s \in Screens, NEW e,
         NEW F \in SUBSET EntitiesOn(m, s), F # {}, NEW f \in [F -> Entities],
         \A x \in F : f[x] \notin Used(m),
         \A x, y \in F : f[x] = f[y] => x = y,
         \A x \in F : \A d \in Entities : m.node[s][d].up # f[x]
  PROVE  Clean(DuplicateFamily(m, s, e, f), happened)
<1>1. F \subseteq On(m.kids[s]) \cap Entities /\ s \in ToSet(m.tabs)
  BY IdsAreOn DEF EntitiesOn
<1>2. PICK k0, n0 : k0 = m.kids[s] /\ n0 = m.node[s]
  OBVIOUS
<1>3. Page(k0, n0, happened)
  BY <1>2 DEF Clean
<1>4. PICK N : N = {f[x] : x \in F}
  OBVIOUS
<1>5. PICK from : from = [d \in N |-> CHOOSE o \in F : f[o] = d]
  OBVIOUS
<1>6. \A x \in F : f[x] \in N /\ from[f[x]] = x
  BY <1>4, <1>5
<1>7. \A d \in N : from[d] \in F /\ f[from[d]] = d
  BY <1>4, <1>6
<1>8. PICK rest : rest = Comps \ F
  OBVIOUS
<1>9. PICK order : order = Omit(k0[Root], rest)
  OBVIOUS
<1>10. PICK copies : copies = [i \in DOMAIN order |-> f[order[i]]]
  OBVIOUS
<1>11. PICK list : list = k0[Root] \o copies
  OBVIOUS
<1>12. PICK k : k = [k0 EXCEPT ![Root] = list]
  OBVIOUS
<1>13. PICK link : link = [d \in N |-> IF n0[from[d]].up \in F THEN f[n0[from[d]].up] ELSE None]
  OBVIOUS
<1>14. PICK n : n = [d \in Comps |-> IF d \in N THEN [n0[from[d]] EXCEPT !.up = link[d]] ELSE n0[d]]
  OBVIOUS
<1>15. DuplicateFamily(m, s, e, f) = Rewritten(m, s, k, n)
  <2>1. DOMAIN f = F
    OBVIOUS
  <2>2. \A d \in N : (CHOOSE o \in DOMAIN f : f[o] = d) = from[d]
    BY <1>5, <2>1
  <2>3. N = {f[o] : o \in DOMAIN f}
    BY <1>4, <2>1
  <2>4. n = [d \in Comps |->
               IF d \in {f[o] : o \in DOMAIN f}
               THEN [m.node[s][CHOOSE o \in DOMAIN f : f[o] = d] EXCEPT !.up =
                       IF m.node[s][CHOOSE o \in DOMAIN f : f[o] = d].up \in DOMAIN f
                       THEN f[m.node[s][CHOOSE o \in DOMAIN f : f[o] = d].up] ELSE None]
               ELSE m.node[s][d]]
    <3>1. ASSUME NEW d \in Comps
          PROVE  n[d] = IF d \in N
                        THEN [n0[CHOOSE o \in DOMAIN f : f[o] = d] EXCEPT !.up =
                                IF n0[CHOOSE o \in DOMAIN f : f[o] = d].up \in DOMAIN f
                                THEN f[n0[CHOOSE o \in DOMAIN f : f[o] = d].up] ELSE None]
                        ELSE n0[d]
      <4>1. CASE d \in N
        <5>1. PICK o : o = CHOOSE x \in DOMAIN f : f[x] = d
          OBVIOUS
        <5>2. o = from[d]
          BY <2>2, <4>1, <5>1
        <5>3. n[d] = [n0[o] EXCEPT !.up = IF n0[o].up \in DOMAIN f THEN f[n0[o].up] ELSE None]
          BY <1>13, <1>14, <2>1, <4>1, <5>2
        <5>4. QED
          BY <4>1, <5>1, <5>3
      <4>2. CASE d \notin N
        BY <1>14, <4>2
      <4>3. QED
        BY <4>1, <4>2
    <3>2. n = [d \in Comps |-> n[d]]
      BY <1>14
    <3>3. QED
      BY <1>2, <2>3, <3>1, <3>2
  <2>5. order = Omit(m.kids[s][Root], Comps \ DOMAIN f)
    BY <1>2, <1>8, <1>9, <2>1
  <2>6. k = [m.kids[s] EXCEPT ![Root] =
               @ \o [i \in DOMAIN Omit(m.kids[s][Root], Comps \ DOMAIN f) |->
                       f[Omit(m.kids[s][Root], Comps \ DOMAIN f)[i]]]]
    BY <1>2, <1>10, <1>11, <1>12, <2>5
  <2>7. QED
    BY <2>4, <2>6 DEF DuplicateFamily, Rewritten
<1>16. DuplicateFamily(m, s, e, f) = WithPage(m, s, k, n)
  BY <1>15, PageWritten
<1>17. PICK h : h = Held(k0)
  OBVIOUS
<1>18. Hangs(h) /\ On(k0) = Under(h) /\ \A p \in Places : h[p] = ToSet(k0[p])
  BY <1>3, <1>17 DEF Page, On, Held
<1>19. PICK K \in Kinds : OfKind(m, K)
  BY DEF Clean
<1>20. Under(h) \subseteq Entities /\ K = Entities
  BY <1>1, <1>2, <1>18, <1>19 DEF OfKind, Kinds
<1>21. \A p \in Places : p # Root => h[p] = {}
  BY <1>18, <1>20, EntitiesHangFlat
<1>22. Root \in Places /\ F \in SUBSET Comps /\ N \in SUBSET Entities /\ Entities \subseteq Comps
  BY <1>4 DEF Places, Comps, EntitiesOn
<1>23. N \cap Under(h) = {}
  <2>1. \A x \in F : f[x] \notin On(m.kids[s])
    BY HomeIs
  <2>2. QED
    BY <1>2, <1>4, <1>18, <2>1
<1>24. F \subseteq h[Root]
  <2>1. \A x \in F : \E p \in Places : x \in h[p]
    BY <1>1, <1>2, <1>18 DEF Under
  <2>2. QED
    BY <1>21, <2>1
<1>25. k0[Root] \in Seq(Comps) /\ IsInjective(k0[Root])
  BY <1>3, <1>22 DEF Page
<1>26. order \in Seq(Comps) /\ IsInjective(order) /\ ToSet(order) = F
  <2>1. order \in Seq(Comps) /\ IsInjective(order) /\ ToSet(order) = ToSet(k0[Root]) \ rest
    BY <1>9, <1>25, OmitEntries
  <2>2. h[Root] \in SUBSET Comps
    BY <1>18, <1>22 DEF Hangs
  <2>3. QED
    BY <1>8, <1>18, <1>22, <1>24, <2>1, <2>2
<1>27. copies \in Seq(Comps) /\ IsInjective(copies) /\ ToSet(copies) = N
  <2>1. /\ \A x \in ToSet(order) : f[x] \in Comps
        /\ \A x, y \in ToSet(order) : f[x] = f[y] => x = y
    BY <1>22, <1>26
  <2>2. copies = Renamed(order, f)
    BY <1>10 DEF Renamed
  <2>3. copies \in Seq(Comps) /\ IsInjective(copies) /\ ToSet(copies) = {f[x] : x \in ToSet(order)}
    BY <1>26, <2>1, <2>2, RenamedEntries
  <2>4. QED
    BY <1>4, <1>26, <2>3
<1>28. list \in Seq(Comps) /\ IsInjective(list) /\ ToSet(list) = h[Root] \cup N
  <2>1. ToSet(k0[Root]) \cap ToSet(copies) = {}
    BY <1>18, <1>22, <1>23, <1>27 DEF Under
  <2>2. QED
    BY <1>11, <1>18, <1>22, <1>25, <1>27, <2>1, JoinedEntries
<1>29. /\ k \in [Places -> Seq(Comps)] /\ \A p \in Places : IsInjective(k[p])
       /\ \A p \in Places : ToSet(k[p]) = h[p] \cup (IF p = Root THEN N ELSE {})
  <2>1. \A p \in Places : k[p] = IF p = Root THEN list ELSE k0[p]
    BY <1>3, <1>12 DEF Page
  <2>2. k \in [Places -> Seq(Comps)]
    BY <1>3, <1>12, <1>28 DEF Page
  <2>3. QED
    BY <1>3, <1>18, <1>28, <2>1, <2>2 DEF Page
<1>30. Hangs(Held(k)) /\ On(k) = On(k0) \cup N
  <2>1. PICK g : g = Held(k)
    OBVIOUS
  <2>2. g = [p \in Places |-> g[p]] /\ \A p \in Places : g[p] = ToSet(k[p])
    BY <2>1 DEF Held
  <2>3. PICK q \in {Root} \cup (Containers \cap Under(h)) : q = Root
    OBVIOUS
  <2>4. \A p \in Places : g[p] = h[p] \cup (IF p = q THEN N ELSE {})
    BY <1>29, <2>2, <2>3
  <2>5. g \in [Places -> SUBSET Comps] /\ N \in SUBSET Comps
    BY <1>18, <1>22, <2>2, <2>4 DEF Hangs
  <2>6. GrownBy(h, N, q, g)
    BY <1>18, <1>23, <2>4, <2>5 DEF GrownBy
  <2>7. Hangs(g) /\ Under(g) = Under(h) \cup N
    BY <2>6, HangsGrown
  <2>8. QED
    BY <1>18, <2>1, <2>7 DEF On
<1>31. n0 \in Nodes /\ \A d \in N : from[d] \in Comps
  BY <1>3, <1>7, <1>22 DEF Page
<1>32. \A d \in N : link[d] = IF n0[from[d]].up \in F THEN f[n0[from[d]].up] ELSE None
  BY <1>13
<1>33. n \in Nodes /\ \A d \in Comps : n[d].up = IF d \in N THEN link[d] ELSE n0[d].up
  <2>1. \A d \in N : link[d] \in Entities \cup {None}
    BY <1>32
  <2>2. QED
    BY <1>14, <1>31, <2>1 DEF Nodes
<1>34. \A d \in Comps \ On(k) : n[d].up = None
  BY <1>3, <1>30, <1>33 DEF Page
<1>35. Linked(On(k) \cap Entities, n, happened)
  <2>1. SUFFICES ASSUME "ai" \notin happened
                 PROVE  /\ LinksEnd(On(k) \cap Entities, n)
                        /\ "cut" \notin happened => LinksStay(On(k) \cap Entities, n)
    BY DEF Linked
  <2>2. PICK S, T : S = On(k0) \cap Entities /\ T = On(k) \cap Entities
    OBVIOUS
  <2>3. LinksEnd(S, n0) /\ ("cut" \notin happened => LinksStay(S, n0))
    BY <1>3, <2>1, <2>2 DEF Page, Linked
  <2>4. T = S \cup N /\ S \cap N = {} /\ F \subseteq S /\ S \subseteq Entities /\ T \subseteq Comps
    BY <1>1, <1>2, <1>18, <1>22, <1>23, <1>30, <2>2
  <2>5. \A d \in S : n[d].up = n0[d].up /\ n0[d].up \notin N
    <3>1. \A d \in Entities : n0[d].up \notin N
      BY <1>2, <1>4
    <3>2. QED
      BY <1>33, <2>4, <3>1
  <2>6. \A x \in F : n[f[x]].up = IF n0[x].up \in F THEN f[n0[x].up] ELSE None
    BY <1>6, <1>22, <1>32, <1>33
  <2>7. ASSUME NEW X \in SUBSET T, X # {}, \A d \in X : n[d].up \in X PROVE FALSE
    <3>1. CASE X \cap S # {}
      <4>1. PICK d \in X \cap S : n0[d].up \notin X \cap S
        BY <2>3, <3>1 DEF LinksEnd
      <4>2. QED
        BY <2>4, <2>5, <2>7, <4>1
    <3>2. CASE X \cap S = {}
      <4>1. PICK Y : Y = {x \in F : f[x] \in X}
        OBVIOUS
      <4>2. X \subseteq N /\ Y \in SUBSET S /\ None \notin X
        BY <1>22, <2>4, <2>7, <3>2, <4>1, DocumentAssumption
      <4>3. Y # {}
        BY <1>4, <2>7, <4>1, <4>2
      <4>4. PICK x \in Y : n0[x].up \notin Y
        BY <2>3, <4>2, <4>3 DEF LinksEnd
      <4>5. n[f[x]].up \in X
        BY <2>7, <4>1, <4>4
      <4>6. QED
        BY <2>6, <4>1, <4>2, <4>4, <4>5
    <3>3. QED
      BY <3>1, <3>2
  <2>8. ASSUME LinksStay(S, n0) PROVE LinksStay(T, n)
    <3>1. \A d \in S : n[d].up \in T \cup {None}
      BY <2>4, <2>5, <2>8 DEF LinksStay
    <3>2. \A d \in N : n[d].up \in T \cup {None}
      BY <1>4, <1>6, <2>4, <2>6
    <3>3. QED
      BY <2>4, <3>1, <3>2 DEF LinksStay
  <2>9. LinksEnd(T, n)
    BY <2>7 DEF LinksEnd
  <2>10. QED
    BY <2>2, <2>3, <2>8, <2>9
<1>36. Page(k, n, happened)
  BY <1>29, <1>30, <1>33, <1>34, <1>35 DEF Page
<1>37. \A t \in Screens : t # s => On(k) \cap On(m.kids[t]) = {}
  <2>1. \A t \in Screens : N \cap On(m.kids[t]) = {}
    <3>1. \A t \in Screens : \A x \in F : f[x] \notin On(m.kids[t])
      BY HomeIs
    <3>2. QED
      BY <1>4, <3>1
  <2>2. QED
    BY <1>2, <1>30, <2>1 DEF Clean
<1>38. OfKind(m, K) /\ On(k) \subseteq K
  BY <1>18, <1>19, <1>20, <1>22, <1>30
<1>39. Clean(WithPage(m, s, k, n), happened)
  BY <1>1, <1>19, <1>36, <1>37, <1>38, PageChanged
<1>40. QED
  BY <1>16, <1>39

\* Moving a component only redraws.
LEMMA MoveRedraws ==
  ASSUME NEW m, Framed(m), NEW c, NEW s, NEW p, NEW i
  PROVE  Redrawn(m, Move(m, c, s, p, i))
<1>1. PICK l, removed : l = Locate(m, c) /\ removed = RemoveNode(m, c)
  OBVIOUS
<1>2. PICK at, whole : at = ListOf(removed, s, p) /\ whole = Subtree(m, l.screen, c)
  OBVIOUS
<1>3. PICK k, n : /\ k = [q \in Comps \cup {Root} |->
                           IF q \in whole THEN m.kids[l.screen][q] ELSE removed.kids[at][q]]
                  /\ n = [d \in Comps |->
                           IF d \in whole THEN m.node[l.screen][d] ELSE removed.node[at][d]]
  OBVIOUS
<1>4. PICK grown : grown = Rewritten(removed, at, k, n)
  OBVIOUS
<1>5. PICK place : place = IF l.screen = s /\ l.parent = p /\ l.index - 1 < i THEN i - 1 ELSE i
  OBVIOUS
<1>6. Move(m, c, s, p, i) = IF ~MayMove(m, c, p) THEN m
                            ELSE IF at = None THEN removed ELSE Insert(grown, s, p, place, c)
  BY <1>1, <1>2, <1>3, <1>4, <1>5 DEF Move, Rewritten
<1>7. Redrawn(m, removed) /\ Framed(removed)
  BY <1>1, RemoveRedraws, RedrawnIsFramed
<1>8. Redrawn(removed, grown)
  <2>1. grown = WithPage(removed, at, k, n)
    BY <1>4, <1>7, PageWritten
  <2>2. QED
    BY <2>1 DEF WithPage, Redrawn
<1>9. Redrawn(m, grown)
  BY <1>7, <1>8, RedrawnOn
<1>10. Framed(grown)
  BY <1>7, <1>8, RedrawnIsFramed
<1>11. Redrawn(grown, Insert(grown, s, p, place, c))
  BY <1>10, InsertRedraws
<1>12. Redrawn(m, Insert(grown, s, p, place, c))
  BY <1>9, <1>11, RedrawnOn
<1>13. QED
  BY <1>6, <1>7, <1>12, RedrawnOn

\* A component moves, with all it holds, to a list of its screen.
LEMMA MoveKeeps ==
  ASSUME NEW m, NEW happened, Framed(m), Clean(m, happened), NEW s \in Screens,
         NEW c \in On(m.kids[s]), NEW p \in {Root} \cup (Containers \cap On(m.kids[s])), NEW i \in Nat
  PROVE  Clean(Move(m, c, s, p, i), happened)
<1>1. CASE ~MayMove(m, c, p)
  BY <1>1 DEF Move
<1>2. CASE MayMove(m, c, p)
  <2>1. PICK l, removed : l = Locate(m, c) /\ removed = RemoveNode(m, c)
    OBVIOUS
  <2>2. /\ l.screen = s /\ s = HomeOf(m, c) /\ s \in ToSet(m.tabs)
        /\ l.index \in 1..Len(m.kids[s][l.parent])
    BY <2>1, LocateIs, HomeIs DEF Locate
  <2>3. PICK k0, n0 : k0 = m.kids[s] /\ n0 = m.node[s]
    OBVIOUS
  <2>4. Page(k0, n0, happened)
    BY <2>3 DEF Clean
  <2>5. PICK h : h = Held(k0)
    OBVIOUS
  <2>6. Hangs(h) /\ On(k0) = Under(h) /\ c \in Under(h) /\ \A q \in Places : h[q] = ToSet(k0[q])
    BY <2>3, <2>4, <2>5 DEF Page, On, Held
  <2>7. PICK G : G = TreeOf(h, c)
    OBVIOUS
  <2>8. /\ c \in G /\ G \in SUBSET Under(h)
        /\ \A q \in Places \cap G : h[q] \subseteq G
        /\ \A q \in Places : c \in h[q] => q \notin G
    BY <2>6, <2>7, TreeOfHangs
  <2>9. Subtree(m, s, c) = G
    BY <2>3, <2>5, <2>7, SubtreeIs
  <2>10. /\ p \in Places /\ p \notin G /\ c \in Comps /\ Places = Comps \cup {Root}
         /\ p # Root => p \in Comps \cap On(k0)
    <3>1. Under(h) \subseteq Comps /\ Root \notin Comps
      BY <2>6, DocumentAssumption DEF Under, Hangs, Comps
    <3>2. QED
      BY <1>2, <2>2, <2>3, <2>6, <2>8, <2>9, <3>1 DEF MayMove, Places
  <2>11. /\ Clean(removed, happened \cup {"cut"})
         /\ On(removed.kids[s]) = On(k0) \ G
         /\ Redrawn(m, removed) /\ Framed(removed) /\ removed.tabs = m.tabs
    <3>1. PICK later : later = happened \cup {"cut"}
      OBVIOUS
    <3>2. happened \subseteq later /\ {"ai", "cut"} \cap later # {}
      BY <3>1
    <3>3. /\ Clean(removed, later)
          /\ \A t \in Screens : c \in On(m.kids[t]) =>
               On(removed.kids[t]) = On(m.kids[t]) \ TreeOf(Held(m.kids[t]), c)
      BY <2>1, <3>2, RemoveKeeps
    <3>4. QED
      BY <2>1, <2>3, <2>5, <2>7, <3>1, <3>3, RemoveRedraws, RedrawnIsFramed
  <2>12. ListOf(removed, s, p) = s
    <3>1. p # Root => p \in Containers /\ p \in On(removed.kids[s])
      BY <2>6, <2>10, <2>11
    <3>2. p # Root => HomeOf(removed, p) = s
      BY <2>11, <3>1, HomeIs
    <3>3. QED
      BY <2>2, <2>11, <3>1, <3>2 DEF ListOf
  <2>13. PICK kr, nr : kr = Pruned(k0, c) /\ nr = Blanked(k0, n0, c)
    OBVIOUS
  <2>14. removed = WithPage(m, s, kr, nr)
    BY <2>1, <2>3, <2>13, RemovedIs
  <2>15. removed.kids[s] = kr /\ removed.node[s] = nr
    BY <2>14 DEF WithPage, Clean
  <2>16. PICK k1, n1 : /\ k1 = [q \in Comps \cup {Root} |-> IF q \in G THEN k0[q] ELSE kr[q]]
                       /\ n1 = [d \in Comps |-> IF d \in G THEN n0[d] ELSE nr[d]]
    OBVIOUS
  <2>17. n1 = n0
    <3>1. n0 = [d \in Comps |-> n0[d]]
      BY <2>4 DEF Page, Nodes
    <3>2. \A d \in Comps : n1[d] = n0[d]
      BY <2>5, <2>7, <2>13, <2>16 DEF Blanked
    <3>3. QED
      BY <2>16, <3>1, <3>2
  <2>18. k1 = [q \in Places |-> k1[q]] /\ \A q \in Places : k1[q] = IF q \in G THEN k0[q] ELSE Omit(k0[q], {c})
    BY <2>5, <2>7, <2>10, <2>13, <2>16 DEF Pruned
  <2>19. PICK grown : grown = Rewritten(removed, s, k1, n1)
    OBVIOUS
  <2>20. grown = WithPage(m, s, k1, n0)
    BY <2>11, <2>14, <2>17, <2>19, PageWritten, PageTwice
  <2>21. PICK place : place = IF l.screen = s /\ l.parent = p /\ l.index - 1 < i THEN i - 1 ELSE i
    OBVIOUS
  <2>22. place \in Nat
    <3>1. l.index \in Nat /\ l.index >= 1
      BY <2>2
    <3>2. QED
      BY <2>21, <3>1
  <2>23. Move(m, c, s, p, i) = Insert(grown, s, p, place, c)
    <3>1. s # None
      BY DocumentAssumption
    <3>2. QED
      BY <1>2, <2>1, <2>2, <2>3, <2>9, <2>12, <2>15, <2>16, <2>19, <2>21, <3>1 DEF Move, Rewritten
  <2>24. /\ grown.tabs = m.tabs /\ Framed(grown)
         /\ grown.kids[s] = k1 /\ grown.node[s] = n0 /\ grown.node \in [Screens -> Nodes]
         /\ \A t \in Screens : t # s => grown.kids[t] = m.kids[t]
    <3>1. n0 \in Nodes
      BY <2>4 DEF Page
    <3>2. QED
      BY <2>20, <3>1 DEF WithPage, Clean, Framed
  <2>25. \A q \in Places : k1[q] \in Seq(Comps) /\ IsInjective(k1[q]) /\ ToSet(k1[q]) = h[q] \ {c}
    <3> SUFFICES ASSUME NEW q \in Places
                 PROVE  k1[q] \in Seq(Comps) /\ IsInjective(k1[q]) /\ ToSet(k1[q]) = h[q] \ {c}
      OBVIOUS
    <3>1. k0[q] \in Seq(Comps) /\ IsInjective(k0[q]) /\ h[q] = ToSet(k0[q])
      BY <2>4, <2>6 DEF Page
    <3>2. PICK gone : gone = {c}
      OBVIOUS
    <3>3. CASE q \in G
      <4>1. k1[q] = k0[q] /\ c \notin h[q]
        BY <2>8, <2>18, <3>3
      <4>2. QED
        BY <3>1, <4>1
    <3>4. CASE q \notin G
      <4>1. k1[q] = Omit(k0[q], gone)
        BY <2>18, <3>2, <3>4
      <4>2. k1[q] \in Seq(Comps) /\ IsInjective(k1[q]) /\ ToSet(k1[q]) = ToSet(k0[q]) \ gone
        BY <3>1, <4>1, OmitEntries
      <4>3. QED
        BY <3>1, <3>2, <4>2
    <3>5. QED
      BY <3>3, <3>4
  <2>26. ListOf(grown, s, p) = s
    <3>1. ASSUME p # Root PROVE HomeOf(grown, p) = s
      <4>1. p # c
        BY <2>8, <2>10
      <4>2. PICK q \in Places : p \in h[q]
        BY <2>6, <2>10, <3>1 DEF Under
      <4>3. p \in On(k1)
        BY <2>25, <4>1, <4>2 DEF On, Under, Held
      <4>4. \A t \in Screens : p \in On(grown.kids[t]) => t = s
        BY <2>3, <2>10, <2>24, <3>1 DEF Clean
      <4>5. QED
        BY <2>2, <2>24, <4>3, <4>4, HomeOn
    <3>2. QED
      BY <2>2, <2>24, <3>1 DEF ListOf
  <2>27. PICK list : list = InsertAt(k1[p], Min2(place, Len(k1[p])) + 1, c)
    OBVIOUS
  <2>28. PICK k : k = [k1 EXCEPT ![p] = list]
    OBVIOUS
  <2>29. Insert(grown, s, p, place, c) = WithPage(m, s, k, n0)
    <3>1. Insert(grown, s, p, place, c) = [grown EXCEPT !.kids = [grown.kids EXCEPT ![s] = k]]
      BY <2>24, <2>26, <2>27, <2>28, DocumentAssumption DEF Insert
    <3>2. Insert(grown, s, p, place, c) = WithPage(grown, s, k, n0)
      BY <2>24, <3>1, ListsWritten
    <3>3. QED
      BY <2>20, <3>2, PageTwice
  <2>30. list \in Seq(Comps) /\ ToSet(list) = (h[p] \ {c}) \cup {c} /\ IsInjective(list)
    <3>1. PICK a : a = k1[p]
      OBVIOUS
    <3>2. a \in Seq(Comps) /\ IsInjective(a) /\ ToSet(a) = h[p] \ {c} /\ c \notin ToSet(a)
      BY <2>10, <2>25, <3>1
    <3>3. Min2(place, Len(a)) + 1 \in 1..Len(a) + 1
      <4>1. Len(a) \in Nat
        BY <3>2, LenProperties
      <4>2. QED
        BY <2>22, <4>1 DEF Min2
    <3>4. list \in Seq(Comps) /\ ToSet(list) = ToSet(a) \cup {c} /\ IsInjective(list)
      BY <2>10, <2>27, <3>1, <3>2, <3>3, InsertedEntries
    <3>5. QED
      BY <3>2, <3>4
  <2>31. /\ k \in [Places -> Seq(Comps)] /\ \A q \in Places : IsInjective(k[q])
         /\ \A q \in Places : ToSet(k[q]) = (h[q] \ {c}) \cup (IF q = p THEN {c} ELSE {})
    <3>1. k = [q \in Places |-> k[q]] /\ \A q \in Places : k[q] = IF q = p THEN list ELSE k1[q]
      BY <2>18, <2>28
    <3>2. QED
      BY <2>25, <2>30, <3>1
  <2>32. Hangs(Held(k)) /\ On(k) = On(k0)
    <3>1. PICK g : g = Held(k)
      OBVIOUS
    <3>2. g = [q \in Places |-> g[q]] /\ \A q \in Places : g[q] = ToSet(k[q])
      BY <3>1 DEF Held
    <3>3. \A q \in Places : g[q] = (h[q] \ {c}) \cup (IF q = p THEN {c} ELSE {})
      BY <2>31, <3>2
    <3>4. g \in [Places -> SUBSET Comps]
      <4>1. \A q \in Places : h[q] \in SUBSET Comps
        BY <2>6 DEF Hangs
      <4>2. \A q \in Places : g[q] \in SUBSET Comps
        BY <2>10, <3>3, <4>1
      <4>3. QED
        BY <3>2, <4>2
    <3>5. p \in {Root} \cup (Containers \cap Under(h)) /\ p \notin G
      BY <2>3, <2>6, <2>10
    <3>6. c \in Under(h) /\ c \in G /\ Hangs(h)
      BY <2>6, <2>8
    <3>7. \A q \in Places \cap G : h[q] \subseteq G
      BY <2>8
    <3>8. Hangs(g) /\ Under(g) = Under(h)
      BY <3>3, <3>4, <3>5, <3>6, <3>7, HangsMoved
    <3>9. QED
      BY <2>6, <3>1, <3>8 DEF On
  <2>33. Page(k, n0, happened)
    BY <2>4, <2>31, <2>32 DEF Page
  <2>34. \A t \in Screens : t # s => On(k) \cap On(m.kids[t]) = {}
    BY <2>3, <2>32 DEF Clean
  <2>35. \E K \in Kinds : OfKind(m, K) /\ On(k) \subseteq K
    BY <2>3, <2>32 DEF Clean, OfKind
  <2>36. Clean(WithPage(m, s, k, n0), happened)
    BY <2>2, <2>33, <2>34, <2>35, PageChanged
  <2>37. QED
    BY <2>23, <2>29, <2>36
<1>3. QED
  BY <1>1, <1>2

\* A copy of a component with all it holds, beside it, under fresh ids.
LEMMA DuplicateKeeps ==
  ASSUME NEW m, NEW happened, Framed(m), Clean(m, happened), NEW s \in Screens,
         NEW c \in On(m.kids[s]), NEW f \in [Subtree(m, s, c) -> Comps],
         \A x \in Subtree(m, s, c) : f[x] \notin Used(m),
         \A x, y \in Subtree(m, s, c) : f[x] = f[y] => x = y,
         \A x \in Subtree(m, s, c) : (x \in Containers => f[x] \in Containers)
                                     /\ (x \in Entities <=> f[x] \in Entities),
         \A x \in Subtree(m, s, c) : \A d \in Entities : m.node[s][d].up # f[x]
  PROVE  Clean(Duplicate(m, c, f), happened)
<1>1. PICK l : l = Locate(m, c)
  OBVIOUS
<1>2. PICK q : q = l.parent
  OBVIOUS
<1>3. PICK i : i = l.index
  OBVIOUS
<1>4. PICK k0, n0 : k0 = m.kids[s] /\ n0 = m.node[s]
  OBVIOUS
<1>5. l.screen = s /\ q \in Places /\ c \in ToSet(k0[q]) /\ i \in 1..Len(k0[q]) /\ s \in ToSet(m.tabs)
  BY <1>1, <1>2, <1>3, <1>4, LocateIs, HomeIs
<1>6. Page(k0, n0, happened)
  BY <1>4 DEF Clean
<1>7. PICK h : h = Held(k0)
  OBVIOUS
<1>8. Hangs(h) /\ On(k0) = Under(h) /\ c \in Under(h) /\ \A p \in Places : h[p] = ToSet(k0[p])
  BY <1>4, <1>6, <1>7 DEF Page, On, Held
<1>9. PICK G : G = Subtree(m, s, c)
  OBVIOUS
<1>10. G = TreeOf(h, c)
  BY <1>4, <1>7, <1>9, SubtreeIs
<1>11. /\ c \in G /\ G \in SUBSET Under(h)
       /\ \A p \in Places \cap G : h[p] \subseteq G
       /\ \A x \in G \ {c} : \E y \in G : x \in h[y]
       /\ h[c] = {} => G = {c}
  BY <1>8, <1>10, TreeOfHangs
<1>12. Places = Comps \cup {Root} /\ Under(h) \subseteq Comps /\ Root \notin Comps /\ G \subseteq Places
  BY <1>8, <1>11, DocumentAssumption DEF Places, Comps, Under, Hangs
<1>13. f \in [G -> Comps] /\ DOMAIN f = G
  BY <1>9
<1>14. PICK N : N = {f[x] : x \in G}
  OBVIOUS
<1>15. PICK from : from = [d \in N |-> CHOOSE o \in G : f[o] = d]
  OBVIOUS
<1>16. \A x \in G : f[x] \in N /\ from[f[x]] = x
  BY <1>9, <1>14, <1>15
<1>17. \A d \in N : from[d] \in G /\ f[from[d]] = d
  BY <1>14, <1>16
<1>18. \A t \in Screens : N \cap On(m.kids[t]) = {}
  <2>1. \A t \in Screens : \A x \in G : f[x] \notin On(m.kids[t])
    BY <1>9, HomeIs
  <2>2. QED
    BY <1>14, <2>1
<1>19. N \cap Under(h) = {} /\ N \subseteq Comps /\ q \notin N
  <2>1. N \cap Under(h) = {} /\ N \subseteq Comps
    BY <1>4, <1>8, <1>13, <1>14, <1>18
  <2>2. q \in {Root} \cup Under(h)
    BY <1>5, <1>8 DEF Hangs
  <2>3. QED
    BY <1>12, <2>1, <2>2
<1>20. PICK list : list = InsertAt(k0[q], i + 1, f[c])
  OBVIOUS
<1>21. PICK copied : copied = [p \in Places |-> IF p \in N THEN Renamed(k0[from[p]], f) ELSE k0[p]]
  OBVIOUS
<1>22. PICK k : k = [copied EXCEPT ![q] = list]
  OBVIOUS
<1>23. PICK n : n = [d \in Comps |-> IF d \in N THEN n0[from[d]] ELSE n0[d]]
  OBVIOUS
<1>24. Duplicate(m, c, f) = Rewritten(m, s, k, n)
  <2>1. N = {f[o] : o \in DOMAIN f}
    BY <1>13, <1>14
  <2>2. \A d \in N : (CHOOSE o \in DOMAIN f : f[o] = d) = from[d]
    BY <1>13, <1>15
  <2>3. copied = [p \in Comps \cup {Root} |->
                    IF p \in {f[o] : o \in DOMAIN f}
                    THEN [j \in DOMAIN m.kids[s][CHOOSE o \in DOMAIN f : f[o] = p] |->
                            f[m.kids[s][CHOOSE o \in DOMAIN f : f[o] = p][j]]]
                    ELSE m.kids[s][p]]
    <3>1. ASSUME NEW p \in Places
          PROVE  copied[p] = IF p \in {f[o] : o \in DOMAIN f}
                    THEN [j \in DOMAIN m.kids[s][CHOOSE o \in DOMAIN f : f[o] = p] |->
                            f[m.kids[s][CHOOSE o \in DOMAIN f : f[o] = p][j]]]
                    ELSE m.kids[s][p]
      <4>1. CASE p \in N
        <5>1. PICK o : o = CHOOSE x \in DOMAIN f : f[x] = p
          OBVIOUS
        <5>2. o = from[p]
          BY <2>2, <4>1, <5>1
        <5>3. copied[p] = [j \in DOMAIN m.kids[s][o] |-> f[m.kids[s][o][j]]]
          BY <1>4, <1>21, <4>1, <5>2 DEF Renamed
        <5>4. p \in {f[x] : x \in DOMAIN f}
          BY <2>1, <4>1
        <5>5. QED
          BY <5>1, <5>3, <5>4
      <4>2. CASE p \notin N
        <5>1. p \notin {f[x] : x \in DOMAIN f} /\ copied[p] = m.kids[s][p]
          BY <1>4, <1>21, <2>1, <4>2
        <5>2. QED
          BY <5>1
      <4>3. QED
        BY <4>1, <4>2
    <3>2. copied = [p \in Places |-> copied[p]]
      BY <1>21
    <3>3. QED
      BY <1>12, <3>1, <3>2
  <2>4. n = [d \in Comps |->
               IF d \in {f[o] : o \in DOMAIN f}
               THEN m.node[s][CHOOSE o \in DOMAIN f : f[o] = d] ELSE m.node[s][d]]
    <3>1. ASSUME NEW d \in Comps
          PROVE  n[d] = IF d \in N THEN n0[CHOOSE o \in DOMAIN f : f[o] = d] ELSE n0[d]
      <4>1. CASE d \in N
        BY <1>23, <2>2, <4>1
      <4>2. CASE d \notin N
        BY <1>23, <4>2
      <4>3. QED
        BY <4>1, <4>2
    <3>2. n = [d \in Comps |-> n[d]]
      BY <1>23
    <3>3. QED
      BY <1>4, <2>1, <3>1, <3>2
  <2>5. list = InsertAt(m.kids[l.screen][l.parent], l.index + 1, f[c]) /\ l.screen = s /\ l.parent = q
    BY <1>2, <1>3, <1>4, <1>5, <1>20
  <2>6. QED
    BY <1>1, <1>22, <2>3, <2>4, <2>5 DEF Duplicate, Rewritten
<1>25. Duplicate(m, c, f) = WithPage(m, s, k, n)
  BY <1>24, PageWritten
<1>26. \A p \in Places : k0[p] \in Seq(Comps) /\ IsInjective(k0[p])
  BY <1>6 DEF Page
<1>27. \A x \in G : /\ k[f[x]] \in Seq(Comps) /\ IsInjective(k[f[x]])
                    /\ ToSet(k[f[x]]) = {f[y] : y \in h[x]}
  <2> SUFFICES ASSUME NEW x \in G
               PROVE  /\ k[f[x]] \in Seq(Comps) /\ IsInjective(k[f[x]])
                      /\ ToSet(k[f[x]]) = {f[y] : y \in h[x]}
    OBVIOUS
  <2>1. f[x] \in N /\ f[x] \in Places /\ f[x] # q /\ from[f[x]] = x /\ x \in Places
    BY <1>12, <1>16, <1>19
  <2>2. PICK old : old = k0[x]
    OBVIOUS
  <2>3. k[f[x]] = Renamed(old, f)
    BY <1>21, <1>22, <2>1, <2>2
  <2>4. old \in Seq(Comps) /\ IsInjective(old) /\ ToSet(old) = h[x] /\ h[x] \subseteq G
    BY <1>8, <1>11, <1>26, <2>1, <2>2
  <2>5. /\ \A y \in ToSet(old) : f[y] \in Comps
        /\ \A y, z \in ToSet(old) : f[y] = f[z] => y = z
    BY <1>9, <1>13, <2>4
  <2>6. /\ Renamed(old, f) \in Seq(Comps) /\ IsInjective(Renamed(old, f))
        /\ ToSet(Renamed(old, f)) = {f[y] : y \in ToSet(old)}
    BY <2>4, <2>5, RenamedEntries
  <2>7. QED
    BY <2>3, <2>4, <2>6
<1>28. list \in Seq(Comps) /\ IsInjective(list) /\ ToSet(list) = h[q] \cup {f[c]}
  <2>1. PICK a, b : a = k0[q] /\ b = f[c]
    OBVIOUS
  <2>2. a \in Seq(Comps) /\ IsInjective(a) /\ ToSet(a) = h[q] /\ b \in Comps /\ b \notin ToSet(a)
    BY <1>5, <1>8, <1>11, <1>13, <1>16, <1>19, <1>26, <2>1 DEF Under
  <2>3. i + 1 \in 1..Len(a) + 1
    <3>1. Len(a) \in Nat
      BY <2>2, LenProperties
    <3>2. QED
      BY <1>5, <2>1, <3>1
  <2>4. list \in Seq(Comps) /\ ToSet(list) = ToSet(a) \cup {b} /\ IsInjective(list)
    BY <1>20, <2>1, <2>2, <2>3, InsertedEntries
  <2>5. QED
    BY <2>1, <2>2, <2>4
<1>29. \A p \in Places : p \notin N =>
         /\ k[p] \in Seq(Comps) /\ IsInjective(k[p])
         /\ ToSet(k[p]) = h[p] \cup (IF p = q THEN {f[c]} ELSE {})
  <2>1. \A p \in Places : p \notin N => k[p] = IF p = q THEN list ELSE k0[p]
    BY <1>21, <1>22
  <2>2. QED
    BY <1>8, <1>26, <1>28, <2>1
<1>30. k \in [Places -> Seq(Comps)] /\ \A p \in Places : IsInjective(k[p])
  <2>1. k = [p \in Places |-> k[p]]
    BY <1>21, <1>22
  <2>2. \A p \in N : k[p] \in Seq(Comps) /\ IsInjective(k[p])
    BY <1>17, <1>27
  <2>3. QED
    BY <1>29, <2>1, <2>2
<1>31. Hangs(Held(k)) /\ On(k) = On(k0) \cup N
  <2>1. PICK g : g = Held(k)
    OBVIOUS
  <2>2. g = [p \in Places |-> g[p]] /\ \A p \in Places : g[p] = ToSet(k[p])
    BY <2>1 DEF Held
  <2>3. \A p \in Places : g[p] \in SUBSET Comps
    <3>1. \A p \in Places : DOMAIN k[p] = 1..Len(k[p]) /\ \A j \in 1..Len(k[p]) : k[p][j] \in Comps
      BY <1>30, LenProperties, ElementOfSeq
    <3>2. QED
      BY <2>2, <3>1 DEF ToSet
  <2>4. g \in [Places -> SUBSET Comps]
    BY <2>2, <2>3
  <2>5. \A x \in G : g[f[x]] = {f[y] : y \in h[x]}
    BY <1>12, <1>13, <1>27, <2>2
  <2>6. \A p \in Places : (\A x \in G : p # f[x]) => g[p] = h[p] \cup (IF p = q THEN {f[c]} ELSE {})
    BY <1>14, <1>29, <2>2
  <2>7. /\ \A x \in G : h[x] \subseteq G
        /\ \A x \in G \ {c} : \E y \in G : x \in h[y]
        /\ c \in h[q]
    BY <1>5, <1>8, <1>11, <1>12
  <2>8. /\ \A x \in G : f[x] \notin Under(h)
        /\ \A x, y \in G : f[x] = f[y] => x = y
        /\ \A x \in G : x \in Containers => f[x] \in Containers
    BY <1>9, <1>16, <1>19
  <2>9. HangCopy(h, G, c, q, f, g)
    BY <1>5, <1>8, <1>11, <1>13, <2>4, <2>5, <2>6, <2>7, <2>8 DEF HangCopy
  <2>10. Hangs(g) /\ Under(g) = Under(h) \cup {f[x] : x \in G}
    BY <2>9, HangsCopied
  <2>11. QED
    BY <1>8, <1>14, <2>1, <2>10 DEF On
<1>32. n \in Nodes /\ \A d \in Comps : n[d].up = IF d \in N THEN n0[from[d]].up ELSE n0[d].up
  <2>1. n0 \in Nodes /\ \A d \in N : from[d] \in Comps
    BY <1>6, <1>11, <1>12, <1>17 DEF Page
  <2>2. QED
    BY <1>23, <2>1 DEF Nodes
<1>33. \A d \in Comps \ On(k) : n[d].up = None
  BY <1>6, <1>31, <1>32 DEF Page
<1>34. PICK K \in Kinds : OfKind(m, K)
  BY DEF Clean
<1>35. Under(h) \subseteq K /\ N \subseteq K
  <2>1. Under(h) \subseteq K
    BY <1>4, <1>8, <1>34 DEF OfKind
  <2>2. \A x \in G : f[x] \in K
    BY <1>9, <1>11, <1>13, <1>34, <2>1 DEF Kinds
  <2>3. QED
    BY <1>14, <2>1, <2>2
<1>36. Linked(On(k) \cap Entities, n, happened)
  <2>1. CASE K = Entities
    <3>1. G = {c} /\ N = {f[c]}
      <4>1. c \in Entities
        BY <1>8, <1>35, <2>1
      <4>2. h[c] = {}
        BY <1>8, <4>1, EntitiesHangFlat
      <4>3. G = {c}
        BY <1>11, <4>2
      <4>4. QED
        BY <1>14, <4>3
    <3>2. PICK S, T, b : S = On(k0) \cap Entities /\ T = On(k) \cap Entities /\ b = f[c]
      OBVIOUS
    <3>3. T = S \cup {b} /\ b \notin S /\ c \in S /\ S \subseteq Comps /\ b \in N /\ b \in Comps /\ from[b] = c
      BY <1>8, <1>11, <1>12, <1>13, <1>16, <1>19, <1>31, <1>35, <2>1, <3>1, <3>2
    <3>4. (\A d \in S : n[d].up = n0[d].up /\ n0[d].up # b) /\ n[b].up = n0[c].up /\ n0[c].up # b
      <4>1. \A d \in Entities : n0[d].up # b
        BY <1>4, <1>9, <1>11, <3>2
      <4>2. QED
        BY <1>32, <3>1, <3>2, <3>3, <4>1
    <3>5. SUFFICES ASSUME "ai" \notin happened
                   PROVE  LinksEnd(T, n) /\ ("cut" \notin happened => LinksStay(T, n))
      BY <3>2 DEF Linked
    <3>6. LinksEnd(S, n0) /\ ("cut" \notin happened => LinksStay(S, n0))
      BY <1>6, <3>2, <3>5 DEF Page, Linked
    <3>7. ASSUME NEW X \in SUBSET T, X # {}, \A d \in X : n[d].up \in X PROVE FALSE
      <4>1. CASE X \cap S # {}
        <5>1. PICK d \in X \cap S : n0[d].up \notin X \cap S
          BY <3>6, <4>1 DEF LinksEnd
        <5>2. QED
          BY <3>3, <3>4, <3>7, <5>1
      <4>2. CASE X \cap S = {}
        BY <3>3, <3>4, <3>7, <4>2
      <4>3. QED
        BY <4>1, <4>2
    <3>8. LinksEnd(T, n)
      BY <3>7 DEF LinksEnd
    <3>9. LinksStay(S, n0) => LinksStay(T, n)
      BY <3>3, <3>4 DEF LinksStay
    <3>10. QED
      BY <3>6, <3>8, <3>9
  <2>2. CASE K = Comps \ Entities
    <3>1. On(k) \cap Entities = {}
      BY <1>8, <1>31, <1>35, <2>2
    <3>2. QED
      BY <3>1 DEF Linked, LinksEnd, LinksStay
  <2>3. QED
    BY <1>34, <2>1, <2>2 DEF Kinds
<1>37. Page(k, n, happened)
  BY <1>30, <1>31, <1>32, <1>33, <1>36 DEF Page
<1>38. \A t \in Screens : t # s => On(k) \cap On(m.kids[t]) = {}
  BY <1>4, <1>18, <1>31 DEF Clean
<1>39. OfKind(m, K) /\ On(k) \subseteq K
  BY <1>8, <1>31, <1>34, <1>35
<1>40. Clean(WithPage(m, s, k, n), happened)
  BY <1>5, <1>34, <1>37, <1>38, <1>39, PageChanged
<1>41. QED
  BY <1>25, <1>40

-----------------------------------------------------------------------------
(* The list of screens.                                                    *)

\* addScreen keeps the frame and adds one tab.
LEMMA AddKeeps ==
  ASSUME NEW m, NEW happened, Framed(m), NEW s \in Screens, s \notin ToSet(m.tabs)
  PROVE  /\ Framed(AddScreen(m, s)) /\ ToSet(AddScreen(m, s).tabs) = ToSet(m.tabs) \cup {s}
         /\ AddScreen(m, s).kids = m.kids /\ AddScreen(m, s).node = m.node
         /\ Clean(m, happened) => Clean(AddScreen(m, s), happened)
<1>1. PICK tabs, r : tabs = Append(m.tabs, s) /\ r = AddScreen(m, s)
  OBVIOUS
<1>2. PICK old : old = m.tabs
  OBVIOUS
<1>3. old \in Seq(Screens) /\ IsInjective(old) /\ Len(old) \in Nat /\ DOMAIN old = 1..Len(old)
  BY <1>2, LenProperties DEF Framed
<1>4. /\ tabs \in Seq(Screens) /\ Len(tabs) = Len(old) + 1
      /\ \A i \in 1..Len(old) : tabs[i] = old[i]
      /\ tabs[Len(old) + 1] = s
  BY <1>1, <1>2, <1>3, AppendProperties
<1>5. DOMAIN tabs = 1..Len(old) + 1
  BY <1>4, LenProperties
<1>6. ToSet(tabs) = ToSet(old) \cup {s}
  <2>1. \A i \in 1..Len(old) + 1 : i \in 1..Len(old) \/ i = Len(old) + 1
    BY <1>3
  <2>2. Len(old) + 1 \in 1..Len(old) + 1 /\ 1..Len(old) \subseteq 1..Len(old) + 1
    BY <1>3
  <2>3. QED
    BY <1>3, <1>4, <1>5, <2>1, <2>2 DEF ToSet
<1>7. IsInjective(tabs)
  <2>1. \A i \in 1..Len(old) : old[i] # s
    BY <1>2, <1>3 DEF ToSet
  <2>2. \A i \in 1..Len(old) + 1 : i \in 1..Len(old) \/ i = Len(old) + 1
    BY <1>3
  <2>3. QED
    BY <1>3, <1>4, <1>5, <2>1, <2>2 DEF IsInjective
<1>8. r = [m EXCEPT !.tabs = tabs]
  BY <1>1 DEF AddScreen
<1>9. /\ r = [tabs |-> r.tabs, start |-> r.start, kids |-> r.kids, node |-> r.node]
      /\ r.tabs = tabs /\ r.start = m.start /\ r.kids = m.kids /\ r.node = m.node
  BY <1>8 DEF Framed
<1>10. Framed(r)
  BY <1>2, <1>4, <1>6, <1>7, <1>9 DEF Framed
<1>11. ASSUME Clean(m, happened) PROVE Clean(r, happened)
  <2>1. \A t \in Screens : t \notin ToSet(r.tabs) => On(m.kids[t]) = {}
    BY <1>2, <1>6, <1>9, <1>11 DEF Clean
  <2>2. QED
    BY <1>9, <1>11, <2>1, TabsChanged
<1>12. QED
  BY <1>1, <1>2, <1>6, <1>9, <1>10, <1>11

\* duplicateScreen keeps the frame and shows the copy.
LEMMA CopyFrames ==
  ASSUME NEW m, Framed(m), NEW s \in ToSet(m.tabs), NEW t \in Screens, t \notin ToSet(m.tabs)
  PROVE  Framed(DuplicateScreen(m, s, t)) /\ t \in ToSet(DuplicateScreen(m, s, t).tabs)
<1>1. PICK r, at : r = DuplicateScreen(m, s, t) /\ at = CHOOSE i \in DOMAIN m.tabs : m.tabs[i] = s
  OBVIOUS
<1>2. PICK old : old = m.tabs
  OBVIOUS
<1>3. old \in Seq(Screens) /\ IsInjective(old) /\ Len(old) \in Nat /\ DOMAIN old = 1..Len(old)
  BY <1>2, LenProperties DEF Framed
<1>4. at \in 1..Len(old)
  BY <1>1, <1>2, <1>3 DEF ToSet
<1>5. PICK tabs : tabs = InsertAt(old, at + 1, t)
  OBVIOUS
<1>6. tabs \in Seq(Screens) /\ IsInjective(tabs) /\ ToSet(tabs) = ToSet(old) \cup {t}
  <2>1. at + 1 \in 1..Len(old) + 1
    BY <1>3, <1>4
  <2>2. QED
    BY <1>2, <1>3, <1>5, <2>1, InsertedEntries
<1>7. PICK K, N : K = [m.kids EXCEPT ![t] = m.kids[s]] /\ N = [m.node EXCEPT ![t] = m.node[s]]
  OBVIOUS
<1>8. r = [m EXCEPT !.tabs = tabs, !.kids = K, !.node = N]
  BY <1>1, <1>2, <1>5, <1>7 DEF DuplicateScreen
<1>9. m = [tabs |-> m.tabs, start |-> m.start, kids |-> m.kids, node |-> m.node]
  BY DEF Framed
<1>10. /\ r = [tabs |-> r.tabs, start |-> r.start, kids |-> r.kids, node |-> r.node]
       /\ r.tabs = tabs /\ r.start = m.start
  BY <1>8, <1>9
<1>11. QED
  BY <1>1, <1>2, <1>6, <1>10 DEF Framed

\* setStartScreen keeps the frame and the tabs.
LEMMA StartKeeps ==
  ASSUME NEW m, NEW happened, Framed(m), NEW s
  PROVE  /\ Framed(SetStart(m, s)) /\ SetStart(m, s).tabs = m.tabs
         /\ Clean(m, happened) => Clean(SetStart(m, s), happened)
<1>1. CASE s \notin ToSet(m.tabs)
  BY <1>1 DEF SetStart
<1>2. CASE s \in ToSet(m.tabs)
  <2>1. PICK r : r = SetStart(m, s)
    OBVIOUS
  <2>2. /\ r = [tabs |-> r.tabs, start |-> r.start, kids |-> r.kids, node |-> r.node]
        /\ r.tabs = m.tabs /\ r.start = s /\ r.kids = m.kids /\ r.node = m.node
    BY <1>2, <2>1 DEF SetStart, Framed
  <2>3. Framed(r)
    BY <1>2, <2>2 DEF Framed
  <2>4. ASSUME Clean(m, happened) PROVE Clean(r, happened)
    <3>1. \A t \in Screens : t \notin ToSet(r.tabs) => On(m.kids[t]) = {}
      BY <2>2, <2>4 DEF Clean
    <3>2. QED
      BY <2>2, <2>4, <3>1, TabsChanged
  <2>5. QED
    BY <2>1, <2>2, <2>3, <2>4
<1>3. QED
  BY <1>1, <1>2

\* Reordering the tabs keeps the frame and the tabs.
LEMMA ShiftKeeps ==
  ASSUME NEW m, NEW happened, Framed(m), NEW i \in DOMAIN m.tabs, NEW j
  PROVE  /\ Framed(MoveScreen(m, i, j)) /\ ToSet(MoveScreen(m, i, j).tabs) = ToSet(m.tabs)
         /\ Clean(m, happened) => Clean(MoveScreen(m, i, j), happened)
<1>1. CASE j \notin DOMAIN m.tabs
  BY <1>1 DEF MoveScreen
<1>2. CASE j \in DOMAIN m.tabs
  <2>1. PICK old : old = m.tabs
    OBVIOUS
  <2>2. /\ old \in Seq(Screens) /\ IsInjective(old) /\ Len(old) \in Nat /\ DOMAIN old = 1..Len(old)
        /\ \A x \in 1..Len(old) : old[x] \in Screens
    BY <2>1, LenProperties, ElementOfSeq DEF Framed
  <2>3. i \in 1..Len(old) /\ j \in 1..Len(old)
    BY <1>2, <2>1, <2>2
  <2>4. PICK tabs : tabs = [old EXCEPT ![i] = old[j], ![j] = old[i]]
    OBVIOUS
  <2>5. PICK r : r = MoveScreen(m, i, j)
    OBVIOUS
  <2>6. r = [m EXCEPT !.tabs = tabs]
    BY <1>2, <2>1, <2>4, <2>5 DEF MoveScreen
  <2>7. /\ r = [tabs |-> r.tabs, start |-> r.start, kids |-> r.kids, node |-> r.node]
        /\ r.tabs = tabs /\ r.start = m.start /\ r.kids = m.kids /\ r.node = m.node
    BY <2>6 DEF Framed
  <2>8. PICK n \in Nat : n = Len(old)
    BY <2>2
  <2>9. old = [x \in 1..n |-> old[x]]
    BY <2>2, <2>8
  <2>10. /\ tabs = [x \in 1..n |-> tabs[x]]
         /\ \A x \in 1..n : tabs[x] = IF x = j THEN old[i] ELSE IF x = i THEN old[j] ELSE old[x]
    BY <2>3, <2>4, <2>8, <2>9
  <2>11. tabs \in [1..n -> Screens]
    BY <2>2, <2>3, <2>8, <2>10
  <2>12. tabs \in Seq(Screens) /\ DOMAIN tabs = 1..n
    BY <2>11, FunctionIsSeq
  <2>13. IsInjective(tabs)
    BY <2>2, <2>3, <2>8, <2>10, <2>12 DEF IsInjective
  <2>14. ToSet(tabs) = ToSet(old)
    <3>1. ASSUME NEW x \in 1..n PROVE tabs[x] \in ToSet(old)
      BY <2>2, <2>3, <2>8, <2>10 DEF ToSet
    <3>2. ASSUME NEW x \in 1..n PROVE old[x] \in ToSet(tabs)
      <4>1. \E y \in 1..n : tabs[y] = old[x]
        BY <2>3, <2>8, <2>10
      <4>2. QED
        BY <2>12, <4>1 DEF ToSet
    <3>3. QED
      BY <2>2, <2>8, <2>12, <3>1, <3>2 DEF ToSet
  <2>15. Framed(r)
    BY <2>1, <2>7, <2>12, <2>13, <2>14 DEF Framed
  <2>16. ASSUME Clean(m, happened) PROVE Clean(r, happened)
    <3>1. \A t \in Screens : t \notin ToSet(r.tabs) => On(m.kids[t]) = {}
      BY <2>1, <2>7, <2>14, <2>16 DEF Clean
    <3>2. QED
      BY <2>7, <2>16, <3>1, TabsChanged
  <2>17. QED
    BY <2>1, <2>5, <2>7, <2>14, <2>15, <2>16
<1>3. QED
  BY <1>1, <1>2

\* A screen with nothing on it.
LEMMA BlankPage ==
  ASSUME NEW happened
  PROVE  Page(Empty.kids, Empty.node, happened) /\ On(Empty.kids) = {} /\ Hangs(Held(Empty.kids))
<1>1. PICK k, n : k = [p \in Places |-> <<>>] /\ n = [c \in Comps |-> Blank]
  OBVIOUS
<1>2. Empty.kids = k /\ Empty.node = n
  BY <1>1 DEF Empty, Places
<1>3. PICK h : h = Held(k)
  OBVIOUS
<1>4. h = [p \in Places |-> {}]
  BY <1>1, <1>3 DEF Held, ToSet
<1>5. Under(h) = {}
  BY <1>4 DEF Under
<1>6. Hangs(h)
  BY <1>4, <1>5 DEF Hangs
<1>7. On(k) = {}
  BY <1>3, <1>5 DEF On
<1>8. k \in [Places -> Seq(Comps)] /\ \A p \in Places : IsInjective(k[p])
  BY <1>1 DEF IsInjective
<1>9. n \in Nodes /\ \A c \in Comps : n[c].up = None
  BY <1>1 DEF Nodes, Blank
<1>10. Linked(On(k) \cap Entities, n, happened)
  BY <1>7 DEF Linked, LinksEnd, LinksStay
<1>11. QED
  BY <1>2, <1>3, <1>6, <1>7, <1>8, <1>9, <1>10 DEF Page

\* deleteScreen keeps the frame and closes one tab.
LEMMA DeleteKeeps ==
  ASSUME NEW m, NEW happened, Framed(m), NEW s \in ToSet(m.tabs)
  PROVE  /\ Framed(DeleteScreen(m, s))
         /\ DeleteScreen(m, s) # m =>
              /\ ToSet(DeleteScreen(m, s).tabs) = ToSet(m.tabs) \ {s}
              /\ DeleteScreen(m, s).tabs[1] \in ToSet(DeleteScreen(m, s).tabs)
         /\ Clean(m, happened) => Clean(DeleteScreen(m, s), happened)
<1>1. CASE Len(m.tabs) <= 1
  <2>1. DeleteScreen(m, s) = m
    BY <1>1 DEF DeleteScreen
  <2>2. QED
    BY <2>1
<1>2. CASE ~(Len(m.tabs) <= 1)
  <2>1. PICK old, gone : old = m.tabs /\ gone = {s}
    OBVIOUS
  <2>2. old \in Seq(Screens) /\ IsInjective(old) /\ Len(old) \in Nat /\ DOMAIN old = 1..Len(old)
    BY <2>1, LenProperties DEF Framed
  <2>3. PICK left : left = Omit(old, gone)
    OBVIOUS
  <2>4. left \in Seq(Screens) /\ IsInjective(left) /\ ToSet(left) = ToSet(old) \ gone
    BY <2>2, <2>3, OmitEntries
  <2>5. left[1] \in ToSet(left)
    <3>1. 1 \in DOMAIN old /\ 2 \in DOMAIN old
      BY <1>2, <2>1, <2>2
    <3>2. old[1] # old[2] /\ old[1] \in ToSet(old) /\ old[2] \in ToSet(old)
      BY <2>2, <3>1 DEF IsInjective, ToSet
    <3>3. ToSet(left) # {}
      BY <2>1, <2>4, <3>2
    <3>4. Len(left) \in Nat /\ DOMAIN left = 1..Len(left) /\ DOMAIN left # {}
      BY <2>4, <3>3, LenProperties DEF ToSet
    <3>5. 1 \in DOMAIN left
      BY <3>4
    <3>6. QED
      BY <3>5 DEF ToSet
  <2>6. PICK K, N : K = [m.kids EXCEPT ![s] = Empty.kids] /\ N = [m.node EXCEPT ![s] = Empty.node]
    OBVIOUS
  <2>7. PICK first : first = IF m.start = s THEN left[1] ELSE m.start
    OBVIOUS
  <2>8. PICK r : r = DeleteScreen(m, s)
    OBVIOUS
  <2>9. r = [m EXCEPT !.tabs = left, !.start = first, !.kids = K, !.node = N]
    BY <1>2, <2>1, <2>3, <2>6, <2>7, <2>8 DEF DeleteScreen
  <2>10. m = [tabs |-> m.tabs, start |-> m.start, kids |-> m.kids, node |-> m.node]
    BY DEF Framed
  <2>11. /\ r = [tabs |-> r.tabs, start |-> r.start, kids |-> r.kids, node |-> r.node]
         /\ r.tabs = left /\ r.start = first /\ r.kids = K /\ r.node = N
    BY <2>9, <2>10
  <2>12. Framed(r)
    BY <2>1, <2>4, <2>5, <2>7, <2>11 DEF Framed
  <2>13. ASSUME Clean(m, happened) PROVE Clean(r, happened)
    <3>1. PICK w : w = WithPage(m, s, Empty.kids, Empty.node)
      OBVIOUS
    <3>2. \E L \in Kinds : OfKind(m, L) /\ On(Empty.kids) \subseteq L
      BY <2>13, BlankPage DEF Clean
    <3>3. Clean(w, happened)
      BY <2>13, <3>1, <3>2, BlankPage, PageChanged
    <3>4. w.kids = K /\ w.node = N /\ w.tabs = m.tabs
      BY <2>6, <3>1 DEF WithPage
    <3>5. s \in Screens
      BY TabsAreScreens
    <3>6. On(K[s]) = {}
      BY <2>6, <2>13, <3>5, BlankPage DEF Clean
    <3>7. \A t \in Screens : t \notin ToSet(r.tabs) => On(w.kids[t]) = {}
      BY <2>1, <2>4, <2>11, <3>3, <3>4, <3>6 DEF Clean
    <3>8. QED
      BY <2>11, <3>3, <3>4, <3>7, TabsChanged
  <2>14. QED
    BY <2>1, <2>4, <2>5, <2>8, <2>11, <2>12, <2>13
<1>3. QED
  BY <1>1, <1>2

-----------------------------------------------------------------------------
(* The builder keeps its document sound.                                   *)

DocInv ==
  /\ Framed(doc) /\ Framed(before)
  /\ "copied" \notin odd => Clean(doc, odd) /\ Clean(before, odd)
  /\ "undone" \notin odd => active \in ToSet(doc.tabs)

\* The screen shown is one of the tabs.
LEMMA ShownIs == Framed(doc) => Shown \in ToSet(doc.tabs) /\ Shown \in Screens
<1> SUFFICES ASSUME Framed(doc) PROVE Shown \in ToSet(doc.tabs) /\ Shown \in Screens
  OBVIOUS
<1>1. Shown \in ToSet(doc.tabs)
  BY DEF Shown, Framed
<1>2. QED
  BY <1>1, TabsAreScreens

\* A project as it is opened is framed and clean.
LEMMA StartIsSound ==
  ASSUME NEW s \in Screens, NEW a \in Comps, NEW b \in Comps, a # b,
         NEW kids \in Seq(Comps), IsInjective(kids), ToSet(kids) \cap {a, b} = {},
         ToSet(kids) # {} => a \in Containers,
         NEW up, up = None \/ (up = b /\ {a, b} \subseteq Entities),
         NEW K \in Kinds, {a, b} \cup ToSet(kids) \subseteq K, NEW happened
  PROVE  Framed(Start(s, <<a, b>>, kids, up)) /\ Clean(Start(s, <<a, b>>, kids, up), happened)
<1>1. PICK m : m = Start(s, <<a, b>>, kids, up)
  OBVIOUS
<1>2. PICK list, tabs : list = <<a, b>> /\ tabs = <<s>>
  OBVIOUS
<1>3. list \in Seq(Comps) /\ ToSet(list) = {a, b} /\ IsInjective(list) /\ list[1] = a
  BY <1>2 DEF ToSet, IsInjective
<1>4. tabs \in Seq(Screens) /\ ToSet(tabs) = {s} /\ IsInjective(tabs)
  BY <1>2 DEF ToSet, IsInjective
<1>5. /\ m = [tabs |-> m.tabs, start |-> m.start, kids |-> m.kids, node |-> m.node]
      /\ m.tabs = tabs /\ m.start = s
      /\ m.kids = [t \in Screens |-> [p \in Places |->
           IF t # s THEN <<>> ELSE IF p = Root THEN list ELSE IF p = a THEN kids ELSE <<>>]]
      /\ m.node = [t \in Screens |-> [c \in Comps |->
           IF t = s /\ c = a THEN [Blank EXCEPT !.up = up] ELSE Blank]]
  BY <1>1, <1>2, <1>3 DEF Start, Places
<1>6. Framed(m)
  BY <1>4, <1>5 DEF Framed
<1>7. PICK k, n : k = m.kids[s] /\ n = m.node[s]
  OBVIOUS
<1>8. /\ k = [p \in Places |-> IF p = Root THEN list ELSE IF p = a THEN kids ELSE <<>>]
      /\ n = [c \in Comps |-> IF c = a THEN [Blank EXCEPT !.up = up] ELSE Blank]
  BY <1>5, <1>7
<1>9. k \in [Places -> Seq(Comps)] /\ \A p \in Places : IsInjective(k[p])
  BY <1>3, <1>8 DEF IsInjective
<1>10. n \in Nodes /\ \A c \in Comps : n[c].up = IF c = a THEN up ELSE None
  <2>1. Blank = [up |-> None, look |-> FALSE]
    BY DEF Blank
  <2>2. up \in Entities \cup {None}
    OBVIOUS
  <2>3. QED
    BY <1>8, <2>1, <2>2 DEF Nodes
<1>11. Hangs(Held(k)) /\ On(k) = {a, b} \cup ToSet(kids)
  <2>1. PICK N \in SUBSET Comps, H \in SUBSET Comps : N = {a, b} /\ H = ToSet(kids)
    <3>1. DOMAIN kids = 1..Len(kids) /\ \A i \in 1..Len(kids) : kids[i] \in Comps
      BY LenProperties, ElementOfSeq
    <3>2. QED
      BY <3>1 DEF ToSet
  <2>2. a # Root /\ a \in Places /\ Root \in Places
    BY DocumentAssumption DEF Places, Comps
  <2>3. PICK none, h1, h : /\ none = [p \in Places |-> {}]
                           /\ h1 = [p \in Places |-> IF p = Root THEN N ELSE {}]
                           /\ h = [p \in Places |-> IF p = Root THEN N ELSE IF p = a THEN H ELSE {}]
    OBVIOUS
  <2>4. Hangs(none) /\ Under(none) = {}
    <3>1. Under(none) = {}
      BY <2>3 DEF Under
    <3>2. QED
      BY <2>3, <3>1 DEF Hangs
  <2>5. Hangs(h1) /\ Under(h1) = N
    <3>1. PICK q \in {Root} \cup (Containers \cap Under(none)) : q = Root
      OBVIOUS
    <3>2. h1 \in [Places -> SUBSET Comps] /\ N \cap Under(none) = {}
      BY <2>3, <2>4
    <3>3. \A p \in Places : h1[p] = none[p] \cup (IF p = q THEN N ELSE {})
      BY <2>3, <3>1
    <3>4. GrownBy(none, N, q, h1)
      BY <2>4, <3>2, <3>3 DEF GrownBy
    <3>5. Hangs(h1) /\ Under(h1) = Under(none) \cup N
      BY <3>4, HangsGrown
    <3>6. QED
      BY <2>4, <3>5
  <2>6. Hangs(h) /\ Under(h) = N \cup H
    <3>1. CASE H = {}
      <4>1. h = h1
        BY <2>3, <3>1
      <4>2. QED
        BY <2>5, <3>1, <4>1
    <3>2. CASE H # {}
      <4>1. PICK q \in {Root} \cup (Containers \cap Under(h1)) : q = a
        BY <2>1, <2>5, <3>2
      <4>2. h \in [Places -> SUBSET Comps] /\ H \cap Under(h1) = {}
        BY <2>1, <2>3, <2>5
      <4>3. \A p \in Places : h[p] = h1[p] \cup (IF p = q THEN H ELSE {})
        BY <2>2, <2>3, <4>1
      <4>4. GrownBy(h1, H, q, h)
        BY <2>5, <4>2, <4>3 DEF GrownBy
      <4>5. Hangs(h) /\ Under(h) = Under(h1) \cup H
        BY <4>4, HangsGrown
      <4>6. QED
        BY <2>5, <4>5
    <3>3. QED
      BY <3>1, <3>2
  <2>7. Held(k) = h
    <3>1. \A p \in Places : ToSet(k[p]) = h[p]
      <4>1. ToSet(<<>>) = {}
        BY DEF ToSet
      <4>2. QED
        BY <1>3, <1>8, <2>1, <2>3, <4>1
    <3>2. QED
      BY <2>3, <3>1 DEF Held
  <2>8. QED
    BY <2>1, <2>6, <2>7 DEF On
<1>12. \A c \in Comps \ On(k) : n[c].up = None
  BY <1>10, <1>11
<1>13. Linked(On(k) \cap Entities, n, happened)
  <2>1. PICK S : S = On(k) \cap Entities
    OBVIOUS
  <2>2. None \notin Comps /\ S \subseteq Comps
    BY <2>1, DocumentAssumption DEF Comps
  <2>3. LinksEnd(S, n)
    <3>1. ASSUME NEW X \in SUBSET S, X # {} PROVE \E d \in X : n[d].up \notin X
      <4>1. CASE X \subseteq {a}
        <5>1. a \in X /\ n[a].up = up /\ up \notin X
          BY <1>10, <2>2, <3>1, <4>1
        <5>2. QED
          BY <5>1
      <4>2. CASE ~(X \subseteq {a})
        BY <1>10, <2>2, <3>1, <4>2
      <4>3. QED
        BY <4>1, <4>2
    <3>2. QED
      BY <3>1 DEF LinksEnd
  <2>4. LinksStay(S, n)
    BY <1>10, <1>11, <2>1, <2>2 DEF LinksStay
  <2>5. QED
    BY <2>1, <2>3, <2>4 DEF Linked
<1>14. Page(k, n, happened)
  BY <1>9, <1>10, <1>11, <1>12, <1>13 DEF Page
<1>15. ASSUME NEW t \in Screens, t # s
       PROVE  Page(m.kids[t], m.node[t], happened) /\ On(m.kids[t]) = {}
  <2>1. m.kids[t] = Empty.kids /\ m.node[t] = Empty.node
    BY <1>5, <1>15 DEF Empty, Places
  <2>2. QED
    BY <2>1, BlankPage
<1>16. \A t \in Screens : Page(m.kids[t], m.node[t], happened) /\ (t # s => On(m.kids[t]) = {})
  BY <1>7, <1>14, <1>15
<1>17. m.kids \in [Screens -> [Places -> Seq(Comps)]] /\ m.node \in [Screens -> Nodes]
  <2>1. \A t \in Screens : m.kids[t] \in [Places -> Seq(Comps)] /\ m.node[t] \in Nodes
    BY <1>16 DEF Page
  <2>2. QED
    BY <1>5, <2>1
<1>18. OfKind(m, K)
  BY <1>7, <1>11, <1>16 DEF OfKind
<1>19. Clean(m, happened)
  BY <1>4, <1>5, <1>16, <1>17, <1>18 DEF Clean
<1>20. QED
  BY <1>1, <1>6, <1>19

\* The document starts sound.
LEMMA InitIsSound == Init => DocInv
<1> SUFFICES ASSUME Init PROVE DocInv
  OBVIOUS
<1>1. PICK s : s = CHOOSE t \in Screens : TRUE
  OBVIOUS
<1>2. s \in Screens
  BY <1>1, DocumentAssumption
<1>3. PICK a, b, kids, up : /\ doc = Start(s, <<a, b>>, kids, up)
                            /\ a \in Comps /\ b \in Comps /\ a # b
                            /\ kids \in Seq(Comps) /\ IsInjective(kids) /\ ToSet(kids) \cap {a, b} = {}
                            /\ ToSet(kids) # {} => a \in Containers
                            /\ up = None \/ (up = b /\ {a, b} \subseteq Entities)
                            /\ \E K \in Kinds : {a, b} \cup ToSet(kids) \subseteq K
  <2>1. PICK k, a1, b1 : /\ k = CHOOSE c \in Containers : TRUE
                         /\ a1 = CHOOSE c \in Leaves : TRUE
                         /\ b1 = CHOOSE c \in Leaves : c # a1
    OBVIOUS
  <2>2. PICK e, d : e = (CHOOSE x \in Entities : TRUE) /\ d = (CHOOSE x \in Entities : x # e)
    OBVIOUS
  <2>3. PICK one, none : one = <<b1>> /\ none = <<>>
    OBVIOUS
  <2>4. doc = Start(s, <<k, a1>>, one, None) \/ doc = Start(s, <<e, d>>, none, d)
    BY <1>1, <2>1, <2>2, <2>3 DEF Init
  <2>5. k \in Containers
    BY <2>1, DocumentAssumption
  <2>6. a1 \in Leaves /\ b1 \in Leaves /\ b1 # a1
    <3>1. \E x, y \in Leaves : x # y
      BY DocumentAssumption
    <3>2. a1 \in Leaves
      BY <2>1, <3>1
    <3>3. \E x \in Leaves : x # a1
      BY <3>1
    <3>4. QED
      BY <2>1, <3>2, <3>3
  <2>7. e \in Entities /\ d \in Entities /\ e # d
    <3>1. \E x, y \in Entities : x # y
      BY DocumentAssumption
    <3>2. e \in Entities
      BY <2>2, <3>1
    <3>3. \E x \in Entities : x # e
      BY <3>1
    <3>4. QED
      BY <2>2, <3>2, <3>3
  <2>8. CASE doc = Start(s, <<k, a1>>, one, None)
    <3>1. k \in Comps /\ a1 \in Comps /\ b1 \in Comps /\ {k, a1, b1} \cap Entities = {} /\ k # a1 /\ k # b1
      BY <2>5, <2>6, DocumentAssumption DEF Comps
    <3>2. one \in Seq(Comps) /\ IsInjective(one) /\ ToSet(one) = {b1}
      BY <2>3, <3>1 DEF IsInjective, ToSet
    <3>3. PICK K \in Kinds : K = Comps \ Entities
      BY DEF Kinds
    <3>4. {k, a1} \cup ToSet(one) \subseteq K /\ ToSet(one) \cap {k, a1} = {}
      BY <2>6, <3>1, <3>2, <3>3
    <3>5. QED
      BY <2>5, <2>8, <3>1, <3>2, <3>3, <3>4
  <2>9. CASE doc = Start(s, <<e, d>>, none, d)
    <3>1. none \in Seq(Comps) /\ IsInjective(none) /\ ToSet(none) = {}
      BY <2>3 DEF IsInjective, ToSet
    <3>2. PICK K \in Kinds : K = Entities
      BY DEF Kinds
    <3>3. {e, d} \cup ToSet(none) \subseteq K /\ ToSet(none) \cap {e, d} = {} /\ {e, d} \subseteq Entities
      BY <2>7, <3>1, <3>2
    <3>4. e \in Comps /\ d \in Comps /\ e # d
      BY <2>7 DEF Comps
    <3>5. QED
      BY <2>9, <3>1, <3>2, <3>3, <3>4
  <2>10. QED
    BY <2>4, <2>8, <2>9
<1>4. PICK K \in Kinds : {a, b} \cup ToSet(kids) \subseteq K
  BY <1>3
<1>5. Framed(doc) /\ Clean(doc, {})
  BY <1>2, <1>3, <1>4, StartIsSound
<1>6. s \in ToSet(doc.tabs)
  <2>1. doc.tabs = <<s>>
    BY <1>3 DEF Start
  <2>2. QED
    BY <2>1 DEF ToSet
<1>7. before = doc /\ odd = {} /\ active = s
  BY <1>1 DEF Init
<1>8. QED
  BY <1>5, <1>6, <1>7 DEF DocInv

\* What a recorded change must show.
LEMMA RecordKeeps ==
  ASSUME DocInv, odd \subseteq odd', NEW m, Record(m), Framed(m),
         "copied" \notin odd' => Clean(m, odd'),
         "undone" \notin odd' => active' \in ToSet(m.tabs)
  PROVE  DocInv'
<1>1. doc' = m /\ before' = doc
  BY DEF Record
<1>2. "copied" \notin odd' => Clean(doc, odd')
  <2>1. ASSUME "copied" \notin odd' PROVE Clean(doc, odd')
    <3>1. Clean(doc, odd)
      BY <2>1 DEF DocInv
    <3>2. QED
      BY <3>1, CleanLater
  <2>2. QED
    BY <2>1
<1>3. Framed(doc) /\ Framed(before')
  BY <1>1 DEF DocInv
<1>4. QED
  BY <1>1, <1>2, <1>3 DEF DocInv

\* A change that leaves the list of screens and the screen shown alone.
LEMMA EditKeeps ==
  ASSUME DocInv, odd \subseteq odd', UNCHANGED active, NEW m, Redrawn(doc, m), Record(m),
         "copied" \notin odd' => Clean(m, odd')
  PROVE  DocInv'
<1>1. Framed(m) /\ m.tabs = doc.tabs
  BY RedrawnIsFramed DEF DocInv
<1>2. "undone" \notin odd' => active' \in ToSet(m.tabs)
  BY <1>1 DEF DocInv
<1>3. QED
  BY <1>1, <1>2, RecordKeeps

\* Fresh ids are used nowhere, linked from nowhere, and of the kind they stand for.
LEMMA FreshOnes ==
  ASSUME NEW S, NEW f \in FreshIds(S)
  PROVE  /\ f \in [S -> Comps]
         /\ \A x \in S : f[x] \notin Used(doc)
         /\ \A x, y \in S : f[x] = f[y] => x = y
         /\ \A x \in S : (x \in Containers => f[x] \in Containers)
                         /\ (x \in Entities <=> f[x] \in Entities)
         /\ \A x \in S : \A s \in Screens : \A d \in Entities : doc.node[s][d].up # f[x]
<1>1. PICK free : free = Comps \ Taken
  OBVIOUS
<1>2. /\ f \in [S -> free]
      /\ \A c \in S : \A K \in {Containers, Leaves, Entities} : (c \in K) = (f[c] \in K)
      /\ \A c, d \in S : f[c] = f[d] => c = d
  BY <1>1 DEF FreshIds
<1>3. \A x \in S : f[x] \in Comps /\ f[x] \notin Taken
  BY <1>1, <1>2
<1>4. \A x \in S : (x \in Containers => f[x] \in Containers) /\ (x \in Entities <=> f[x] \in Entities)
  BY <1>2
<1>5. f \in [S -> Comps]
  BY <1>1, <1>2
<1>6. \A x \in S : f[x] \notin Used(doc) /\ \A s \in Screens : \A d \in Entities : doc.node[s][d].up # f[x]
  BY <1>3 DEF Taken
<1>7. QED
  BY <1>2, <1>4, <1>5, <1>6

\* The kind of the components the palettes offer is the document's.
LEMMA OfferedKind ==
  ASSUME NEW happened, Clean(doc, happened)
  PROVE  \E K \in Kinds : OfKind(doc, K) /\ (IF Is3D THEN Entities ELSE Containers \cup Leaves) \subseteq K
<1>1. PICK K \in Kinds : OfKind(doc, K)
  BY DEF Clean
<1>2. \A s \in Screens : IdsOf(doc, s) = On(doc.kids[s])
  BY IdsAreOn
<1>3. CASE Is3D
  <2>1. K = Entities
    BY <1>1, <1>2, <1>3 DEF Is3D, OfKind, Kinds
  <2>2. QED
    BY <1>1, <1>3, <2>1
<1>4. CASE ~Is3D
  <2>1. PICK L \in Kinds : L = Comps \ Entities
    BY DEF Kinds
  <2>2. OfKind(doc, L)
    <3>1. \A s \in Screens : On(doc.kids[s]) \subseteq Comps
      <4>1. \A s \in Screens : Hangs(Held(doc.kids[s]))
        BY DEF Clean, Page
      <4>2. \A h : Hangs(h) => Under(h) \subseteq Comps
        BY DEF Hangs, Under
      <4>3. QED
        BY <4>1, <4>2 DEF On
    <3>2. \A s \in Screens : On(doc.kids[s]) \cap Entities = {}
      BY <1>2, <1>4 DEF Is3D
    <3>3. QED
      BY <2>1, <3>1, <3>2 DEF OfKind
  <2>3. Containers \cup Leaves \subseteq L
    BY <2>1, DocumentAssumption DEF Comps
  <2>4. QED
    BY <1>4, <2>2, <2>3
<1>5. QED
  BY <1>3, <1>4

\* A new component of the offered kind.
LEMMA InsertedKeeps ==
  ASSUME DocInv, odd \subseteq odd', UNCHANGED active, NEW c \in Comps, c \notin Taken,
         c \in IF Is3D THEN Entities ELSE Containers \cup Leaves,
         NEW s \in Screens, NEW p \in Places, NEW i,
         "copied" \notin odd => i \in Nat, Record(Insert(doc, s, p, i, c))
  PROVE  DocInv'
<1>1. PICK m : m = Insert(doc, s, p, i, c)
  OBVIOUS
<1>2. Framed(doc)
  BY DEF DocInv
<1>3. Redrawn(doc, m)
  BY <1>1, <1>2, InsertRedraws
<1>4. ASSUME "copied" \notin odd' PROVE Clean(m, odd')
  <2>1. Clean(doc, odd) /\ i \in Nat
    BY <1>4 DEF DocInv
  <2>2. PICK K \in Kinds : OfKind(doc, K) /\ c \in K
    <3>1. PICK K \in Kinds : OfKind(doc, K) /\ (IF Is3D THEN Entities ELSE Containers \cup Leaves) \subseteq K
      BY <2>1, OfferedKind
    <3>2. QED
      BY <3>1
  <2>3. c \notin Used(doc) /\ \A t \in Screens, e \in Entities : doc.node[t][e].up # c
    BY DEF Taken
  <2>4. Clean(m, odd)
    BY <1>1, <1>2, <2>1, <2>2, <2>3, InsertKeeps
  <2>5. QED
    BY <2>4, CleanLater
<1>5. QED
  BY <1>1, <1>3, <1>4, EditKeeps

\* A component of the screen shown moves to a place on it.
LEMMA MovedKeeps ==
  ASSUME DocInv, UNCHANGED <<active, odd>>, NEW c \in IdsOf(doc, Shown), NEW s, NEW p, NEW i,
         "copied" \notin odd =>
           s = Shown /\ p \in {Root} \cup (Containers \cap On(doc.kids[Shown])) /\ i \in Nat,
         Record(Move(doc, c, s, p, i))
  PROVE  DocInv'
<1>1. PICK m : m = Move(doc, c, s, p, i)
  OBVIOUS
<1>2. Framed(doc)
  BY DEF DocInv
<1>3. Redrawn(doc, m)
  BY <1>1, <1>2, MoveRedraws
<1>4. ASSUME "copied" \notin odd' PROVE Clean(m, odd')
  <2>1. /\ Clean(doc, odd) /\ s \in Screens /\ i \in Nat
        /\ p \in {Root} \cup (Containers \cap On(doc.kids[s]))
    BY <1>2, <1>4, ShownIs DEF DocInv
  <2>2. c \in On(doc.kids[s])
    BY <1>4, IdsAreOn
  <2>3. Clean(m, odd)
    BY <1>1, <1>2, <2>1, <2>2, MoveKeeps
  <2>4. QED
    BY <2>3
<1>5. QED
  BY <1>1, <1>3, <1>4, EditKeeps

\* Removing a selection keeps the document sound.
LEMMA RemovedManyKeeps ==
  ASSUME DocInv, UNCHANGED <<active, odd>>, NEW c, NEW d, {c, d} \cap Entities = {},
         {c, d} \subseteq Comps, Record(RemoveMany(doc, c, d))
  PROVE  DocInv'
<1>1. PICK r, m : r = RemoveNode(doc, c) /\ m = RemoveNode(r, d)
  OBVIOUS
<1>2. Framed(doc)
  BY DEF DocInv
<1>3. Redrawn(doc, r) /\ Framed(r)
  BY <1>1, <1>2, RemoveRedraws, RedrawnIsFramed
<1>4. Redrawn(doc, m)
  <2>1. Redrawn(r, m)
    BY <1>1, <1>3, RemoveRedraws
  <2>2. QED
    BY <1>2, <1>3, <2>1, RedrawnOn
<1>5. ASSUME NEW q, Framed(q), NEW happened, Clean(q, happened), NEW x \in Comps, x \notin Entities
      PROVE  Clean(RemoveNode(q, x), happened)
  <2>1. HomeOf(q, x) # None => HomeOf(q, x) \in Screens
    BY <1>5, HomeIs, TabsAreScreens
  <2>2. x # None
    BY DocumentAssumption
  <2>3. HomeOf(q, x) # None => \A e \in Entities : q.node[HomeOf(q, x)][e].up # x
    BY <1>5, <2>1, <2>2 DEF Clean, Nodes, Comps
  <2>4. QED
    BY <1>5, <2>3, RemoveKeeps
<1>6. ASSUME "copied" \notin odd' PROVE Clean(m, odd')
  <2>1. Clean(doc, odd)
    BY <1>6 DEF DocInv
  <2>2. Clean(r, odd)
    BY <1>1, <1>2, <1>5, <2>1
  <2>3. Clean(m, odd)
    BY <1>1, <1>3, <1>5, <2>2
  <2>4. QED
    BY <2>3
<1>7. Record(m)
  BY <1>1 DEF RemoveMany
<1>8. QED
  BY <1>4, <1>6, <1>7, EditKeeps

\* Updating a selection keeps the document sound.
LEMMA UpdatedManyKeeps ==
  ASSUME DocInv, UNCHANGED <<active, odd>>, NEW c, NEW d, Record(UpdateMany(doc, c, d))
  PROVE  DocInv'
<1>1. PICK r, m : r = Update(doc, c) /\ m = Update(r, d)
  OBVIOUS
<1>2. Framed(doc)
  BY DEF DocInv
<1>3. Redrawn(doc, r) /\ Framed(r)
  BY <1>1, <1>2, UpdateRedraws, RedrawnIsFramed
<1>4. Redrawn(doc, m)
  <2>1. Redrawn(r, m)
    BY <1>1, <1>3, UpdateRedraws
  <2>2. QED
    BY <1>2, <1>3, <2>1, RedrawnOn
<1>5. ASSUME "copied" \notin odd' PROVE Clean(m, odd')
  <2>1. Clean(doc, odd)
    BY <1>5 DEF DocInv
  <2>2. Clean(r, odd)
    BY <1>1, <1>2, <2>1, UpdateKeeps
  <2>3. Clean(m, odd)
    BY <1>1, <1>3, <2>2, UpdateKeeps
  <2>4. QED
    BY <2>3
<1>6. Record(m)
  BY <1>1 DEF UpdateMany
<1>7. QED
  BY <1>4, <1>5, <1>6, EditKeeps

\* The entities of a screen, gone from it.
LEMMA RemovedEntitiesKeeps ==
  ASSUME DocInv, UNCHANGED <<active, odd>>, NEW s \in Screens, NEW c, NEW d,
         Record(RemoveEntities(doc, s, c, d))
  PROVE  DocInv'
<1>1. PICK r, m : r = RemoveEntity(doc, s, c) /\ m = RemoveEntity(r, s, d)
  OBVIOUS
<1>2. Framed(doc)
  BY DEF DocInv
<1>3. Redrawn(doc, r) /\ Framed(r)
  BY <1>1, <1>2, RemoveEntityRedraws, RedrawnIsFramed
<1>4. Redrawn(doc, m)
  <2>1. Redrawn(r, m)
    BY <1>1, <1>3, RemoveEntityRedraws
  <2>2. QED
    BY <1>2, <1>3, <2>1, RedrawnOn
<1>5. ASSUME "copied" \notin odd' PROVE Clean(m, odd')
  <2>1. Clean(doc, odd)
    BY <1>5 DEF DocInv
  <2>2. Clean(r, odd)
    BY <1>1, <1>2, <2>1, RemoveEntityKeeps
  <2>3. Clean(m, odd)
    BY <1>1, <1>3, <2>2, RemoveEntityKeeps
  <2>4. QED
    BY <2>3
<1>6. Record(m)
  BY <1>1 DEF RemoveEntities
<1>7. QED
  BY <1>4, <1>5, <1>6, EditKeeps

\* Duplicating a component keeps the document sound.
LEMMA DuplicatedKeeps ==
  ASSUME DocInv, NEW c, DuplicateOne(c)
  PROVE  DocInv'
<1>1. PICK f \in FreshIds(Subtree(doc, HomeOf(doc, c), c)) : Record(Duplicate(doc, c, f))
  BY DEF DuplicateOne, Commit
<1>2. UNCHANGED <<active, odd>> /\ c \in IdsOf(doc, Shown)
  BY DEF DuplicateOne, Keep
<1>3. PICK m : m = Duplicate(doc, c, f)
  OBVIOUS
<1>4. Framed(doc)
  BY DEF DocInv
<1>5. Redrawn(doc, m)
  BY <1>3, <1>4, DuplicatesRedraw
<1>6. ASSUME "copied" \notin odd' PROVE Clean(m, odd')
  <2>1. Clean(doc, odd)
    BY <1>2, <1>6 DEF DocInv
  <2>2. PICK s \in Screens : s = Shown
    BY <1>4, ShownIs
  <2>3. c \in On(doc.kids[s]) /\ HomeOf(doc, c) = s
    BY <1>2, <1>4, <2>1, <2>2, IdsAreOn, HomeIs
  <2>4. PICK G : G = Subtree(doc, s, c)
    OBVIOUS
  <2>5. f \in FreshIds(G)
    BY <1>1, <2>3, <2>4
  <2>6. /\ f \in [G -> Comps]
        /\ \A x \in G : f[x] \notin Used(doc)
        /\ \A x, y \in G : f[x] = f[y] => x = y
        /\ \A x \in G : (x \in Containers => f[x] \in Containers) /\ (x \in Entities <=> f[x] \in Entities)
        /\ \A x \in G : \A d \in Entities : doc.node[s][d].up # f[x]
    BY <2>5, FreshOnes
  <2>7. Clean(m, odd)
    BY <1>3, <1>4, <2>1, <2>3, <2>4, <2>6, DuplicateKeeps
  <2>8. QED
    BY <1>2, <2>7
<1>7. QED
  BY <1>1, <1>2, <1>3, <1>5, <1>6, EditKeeps

\* Deleting a component keeps the document sound, but for entities linked to it.
LEMMA DeletedKeeps ==
  ASSUME DocInv, NEW c, NEW later, odd' = later, odd \subseteq later, UNCHANGED active,
         Record(RemoveNode(doc, c)),
         HomeOf(doc, c) # None =>
           {"ai", "cut"} \cap later # {} \/ \A e \in Entities : doc.node[HomeOf(doc, c)][e].up # c
  PROVE  DocInv'
<1>1. PICK m : m = RemoveNode(doc, c)
  OBVIOUS
<1>2. Framed(doc)
  BY DEF DocInv
<1>3. Redrawn(doc, m)
  BY <1>1, <1>2, RemoveRedraws
<1>4. ASSUME "copied" \notin odd' PROVE Clean(m, odd')
  <2>1. Clean(doc, odd)
    BY <1>4 DEF DocInv
  <2>2. Clean(m, later)
    BY <1>1, <1>2, <2>1, RemoveKeeps
  <2>3. QED
    BY <2>2
<1>5. QED
  BY <1>1, <1>3, <1>4, EditKeeps

\* No action on components breaks the document.
LEMMA ComponentStep ==
  ASSUME DocInv, ComponentActions
  PROVE  DocInv'
<1>1. Framed(doc) /\ Shown \in Screens /\ (\A s : IdsOf(doc, s) = On(doc.kids[s])) /\ Places = Comps \cup {Root}
      /\ Containers \subseteq Comps
  BY ShownIs, IdsAreOn DEF DocInv, Places, Comps
<1>2. "copied" \notin odd => Clean(doc, odd)
  BY DEF DocInv
<1>3. ASSUME NEW c \in IF Is3D THEN Entities ELSE Containers \cup Leaves PROVE c \in Comps
  BY DEF Comps
<1>4. \A spot \in Spots : /\ spot[1] \in {Root} \cup (Containers \cap On(doc.kids[Shown]))
                          /\ spot[2] \in Nat
  BY <1>1 DEF Spots
<1>5. ASSUME NEW c \in IF Is3D THEN Entities ELSE Containers \cup Leaves, NEW spot \in Spots,
             InsertNew(c, spot[1], spot[2])
      PROVE  DocInv'
  <2>1. PICK p, i : p = spot[1] /\ i = spot[2]
    OBVIOUS
  <2>2. p \in Places /\ i \in Nat
    BY <1>1, <1>4, <2>1
  <2>3. Record(Insert(doc, Shown, p, i, c)) /\ c \notin Taken /\ UNCHANGED <<active, odd>>
    BY <1>5, <2>1 DEF InsertNew, Commit, Keep
  <2>4. QED
    BY <1>1, <1>3, <2>2, <2>3, InsertedKeeps
<1>6. ASSUME NEW c \in IF Is3D THEN Entities ELSE Containers \cup Leaves, PaletteAdd(c)
      PROVE  DocInv'
  <2>1. PICK inside : inside = (selected \in Containers /\ HomeOf(doc, selected) # None)
    OBVIOUS
  <2>2. PICK p, s : /\ p = IF inside THEN selected ELSE Root
                    /\ s = IF inside THEN HomeOf(doc, selected) ELSE Shown
    OBVIOUS
  <2>3. PICK i : i = Len(doc.kids[s][p])
    OBVIOUS
  <2>4. p \in Places
    BY <1>1, <2>1, <2>2
  <2>5. ASSUME "copied" \notin odd PROVE i \in Nat
    <3>1. Clean(doc, odd)
      BY <1>2, <2>5
    <3>2. s \in Screens
      BY <1>1, <2>1, <2>2, <3>1, HomeIs, TabsAreScreens
    <3>3. doc.kids[s][p] \in Seq(Comps)
      BY <2>4, <3>1, <3>2 DEF Clean
    <3>4. QED
      BY <2>3, <3>3, LenProperties
  <2>6. Record(Insert(doc, Shown, p, i, c)) /\ c \notin Taken /\ UNCHANGED <<active, odd>>
    BY <1>6, <2>1, <2>2, <2>3 DEF PaletteAdd, Commit, Keep
  <2>7. QED
    BY <1>1, <1>3, <2>4, <2>5, <2>6, InsertedKeeps
<1>7. ASSUME NEW c, NEW spot \in Spots, Drop(c, spot[1], spot[2]) PROVE DocInv'
  <2>1. PICK p, i : p = spot[1] /\ i = spot[2]
    OBVIOUS
  <2>2. p \in {Root} \cup (Containers \cap On(doc.kids[Shown])) /\ i \in Nat
    BY <1>4, <2>1
  <2>3. Record(Move(doc, c, Shown, p, i)) /\ c \in IdsOf(doc, Shown) /\ UNCHANGED <<active, odd>>
    BY <1>7, <2>1 DEF Drop, Keep
  <2>4. QED
    BY <2>2, <2>3, MovedKeeps
<1>8. ASSUME NEW c \in IdsOf(doc, Shown), Clean(doc, odd)
      PROVE  LET l == Locate(doc, c) IN
             /\ l.screen = Shown /\ l.parent \in {Root} \cup (Containers \cap On(doc.kids[Shown]))
             /\ Len(doc.kids[l.screen][l.parent]) \in Nat /\ l.index \in Nat
  <2>1. PICK l : l = Locate(doc, c)
    OBVIOUS
  <2>2. PICK s \in Screens : s = Shown
    BY <1>1
  <2>3. c \in On(doc.kids[s])
    BY <1>1, <2>2
  <2>4. l.screen = s /\ l.parent \in Places /\ c \in ToSet(doc.kids[s][l.parent])
        /\ l.index \in 1..Len(doc.kids[s][l.parent])
    BY <1>1, <1>8, <2>1, <2>3, LocateIs
  <2>5. Hangs(Held(doc.kids[s])) /\ doc.kids[s][l.parent] \in Seq(Comps)
    BY <1>8, <2>4 DEF Clean, Page
  <2>6. Held(doc.kids[s])[l.parent] # {}
    BY <2>4 DEF Held
  <2>7. l.parent \in {Root} \cup (Containers \cap On(doc.kids[s]))
    BY <2>4, <2>5, <2>6 DEF Hangs, On
  <2>8. Len(doc.kids[s][l.parent]) \in Nat
    BY <2>5, LenProperties
  <2>9. QED
    BY <2>1, <2>2, <2>4, <2>7, <2>8
<1>9. ASSUME NEW c, NEW by \in {-1, 1}, Reorder(c, by) PROVE DocInv'
  <2>1. PICK l : l = Locate(doc, c)
    OBVIOUS
  <2>2. PICK i : i = l.index - 1 + by
    OBVIOUS
  <2>3. /\ Record(Move(doc, c, l.screen, l.parent, i)) /\ c \in IdsOf(doc, Shown)
        /\ UNCHANGED <<active, odd>> /\ i >= 0
    BY <1>9, <2>1, <2>2 DEF Reorder, Keep
  <2>4. ASSUME "copied" \notin odd
        PROVE  /\ l.screen = Shown /\ i \in Nat
               /\ l.parent \in {Root} \cup (Containers \cap On(doc.kids[Shown]))
    BY <1>2, <1>8, <2>1, <2>2, <2>3, <2>4
  <2>5. QED
    BY <2>3, <2>4, MovedKeeps
<1>10. ASSUME NEW c, NEW end \in {"front", "back"}, ReorderTo(c, end) PROVE DocInv'
  <2>1. PICK l : l = Locate(doc, c)
    OBVIOUS
  <2>2. PICK i : i = IF end = "front" THEN 0 ELSE Len(doc.kids[l.screen][l.parent])
    OBVIOUS
  <2>3. /\ Record(Move(doc, c, l.screen, l.parent, i)) /\ c \in IdsOf(doc, Shown)
        /\ UNCHANGED <<active, odd>>
    BY <1>10, <2>1, <2>2 DEF ReorderTo, Keep
  <2>4. ASSUME "copied" \notin odd
        PROVE  /\ l.screen = Shown /\ i \in Nat
               /\ l.parent \in {Root} \cup (Containers \cap On(doc.kids[Shown]))
    BY <1>2, <1>8, <2>1, <2>2, <2>3, <2>4
  <2>5. QED
    BY <2>3, <2>4, MovedKeeps
<1>11. ASSUME NEW c, Delete(c) PROVE DocInv'
  <2>1. PICK later : later = odd'
    OBVIOUS
  <2>2. /\ Record(RemoveNode(doc, c)) /\ UNCHANGED active
        /\ later = IF \E e \in Entities : doc.node[HomeOf(doc, c)][e].up = c
                   THEN odd \cup {"cut"} ELSE odd
    BY <1>11, <2>1 DEF Delete, Commit
  <2>3. odd \subseteq later
    BY <2>2
  <2>4. {"ai", "cut"} \cap later # {} \/ \A e \in Entities : doc.node[HomeOf(doc, c)][e].up # c
    BY <2>2
  <2>5. QED
    BY <2>1, <2>2, <2>3, <2>4, DeletedKeeps
<1>12. ASSUME NEW c, Edit(c) PROVE DocInv'
  <2>1. PICK m : m = Update(doc, c)
    OBVIOUS
  <2>2. Record(m) /\ UNCHANGED <<active, odd>>
    BY <1>12, <2>1 DEF Edit, Commit, Keep
  <2>3. Redrawn(doc, m)
    BY <1>1, <2>1, UpdateRedraws
  <2>4. "copied" \notin odd => Clean(m, odd)
    BY <1>1, <1>2, <2>1, UpdateKeeps
  <2>5. QED
    BY <2>2, <2>3, <2>4, EditKeeps
<1>13. ASSUME NEW c \in Comps, NEW d \in Comps, EditGroup(c, d) PROVE DocInv'
  <2>1. CASE Commit(UpdateMany(doc, c, d)) /\ UNCHANGED <<selected, odd>>
    BY <1>13, <2>1, UpdatedManyKeeps DEF EditGroup, Commit
  <2>2. CASE /\ {c, d} \cap Entities = {}
             /\ Commit(RemoveMany(doc, c, d)) /\ selected' = None
             /\ UNCHANGED odd
    <3>1. {c, d} \subseteq Comps /\ UNCHANGED <<active, odd>> /\ Record(RemoveMany(doc, c, d))
      BY <1>13, <2>2 DEF EditGroup, Commit
    <3>2. QED
      BY <2>2, <3>1, RemovedManyKeeps
  <2>3. CASE /\ {c, d} \subseteq Entities
             /\ Commit(RemoveEntities(doc, Shown, c, d))
             /\ UNCHANGED <<selected, odd>>
    BY <1>1, <1>13, <2>3, RemovedEntitiesKeeps DEF EditGroup, Commit
  <2>4. QED
    BY <1>13, <2>1, <2>2, <2>3 DEF EditGroup
<1>14. ASSUME NEW c, AIDeletes(c) PROVE DocInv'
  <2>1. PICK later : later = odd'
    OBVIOUS
  <2>2. Record(RemoveNode(doc, c)) /\ UNCHANGED active /\ later = odd \cup {"ai"}
    BY <1>14, <2>1 DEF AIDeletes, ApplyChangeset, Commit
  <2>3. odd \subseteq later /\ {"ai", "cut"} \cap later # {}
    BY <2>2
  <2>4. QED
    BY <2>1, <2>2, <2>3, DeletedKeeps
<1>15. QED
  BY <1>5, <1>6, <1>7, <1>9, <1>10, <1>11, <1>12, <1>13, <1>14, DuplicatedKeeps DEF ComponentActions

\* No action on entities breaks the document.
LEMMA EntityStep ==
  ASSUME DocInv, EntityActions
  PROVE  DocInv'
<1>1. Framed(doc) /\ Shown \in Screens /\ Shown \in ToSet(doc.tabs)
  BY ShownIs DEF DocInv
<1>2. "copied" \notin odd => Clean(doc, odd)
  BY DEF DocInv
<1>3. PICK s \in Screens : s = Shown
  BY <1>1
<1>4. EntitiesOn(doc, s) = On(doc.kids[s]) \cap Entities
  BY <1>1, <1>3, IdsAreOn DEF EntitiesOn
<1>5. ASSUME NEW e \in Entities, NEW p \in Entities \cup {None}, Reparent(e, p) PROVE DocInv'
  <2>1. PICK m : m = SetParent(doc, s, e, p)
    OBVIOUS
  <2>2. Record(m) /\ UNCHANGED <<active, odd>> /\ e \in EntitiesOn(doc, s)
    BY <1>3, <1>5, <2>1 DEF Reparent, Commit, Keep
  <2>3. PICK r : r = [doc EXCEPT !.node[HomeOf(doc, e)][e].up = p]
    OBVIOUS
  <2>4. m = doc \/ /\ m = r
                   /\ p # None => p \in EntitiesOn(doc, s) /\ e \notin Chain(doc, s, p)
    BY <2>1, <2>3 DEF SetParent
  <2>5. Redrawn(doc, m)
    BY <1>1, <2>3, <2>4, LinkRedraws, RedrawnOn
  <2>6. ASSUME "copied" \notin odd PROVE Clean(m, odd)
    <3>1. Clean(doc, odd)
      BY <1>2, <2>6
    <3>2. e \in On(doc.kids[s])
      BY <1>4, <2>2
    <3>3. HomeOf(doc, e) = s /\ s # None
      BY <1>1, <3>1, <3>2, HomeIs, DocumentAssumption
    <3>4. CASE m = doc
      BY <3>1, <3>4
    <3>5. CASE m # doc
      <4>1. r = [doc EXCEPT !.node[s][e].up = p]
        BY <2>3, <3>3
      <4>2. p \in On(doc.kids[s]) \cup {None} /\ (p # None => e \notin Chain(doc, s, p)) /\ m = r
        BY <1>4, <2>4, <3>5
      <4>3. PICK later : later = odd
        OBVIOUS
      <4>4. odd \subseteq later /\ s = HomeOf(doc, e)
        BY <3>3, <4>3
      <4>5. Clean(r, later)
        BY <1>1, <3>1, <3>3, <4>1, <4>2, <4>4, LinkKeeps
      <4>6. QED
        BY <4>2, <4>3, <4>5
    <3>6. QED
      BY <3>4, <3>5
  <2>7. QED
    BY <2>2, <2>5, <2>6, EditKeeps
<1>6. ASSUME NEW e \in Entities, NEW p \in Entities \cup {None}, AILinks(e, p) PROVE DocInv'
  <2>1. PICK r, h : h = HomeOf(doc, e) /\ r = [doc EXCEPT !.node[h][e].up = p]
    OBVIOUS
  <2>2. PICK later : later = odd'
    OBVIOUS
  <2>3. Record(r) /\ UNCHANGED active /\ later = odd \cup {"ai"} /\ h # None
    BY <1>6, <2>1, <2>2 DEF AILinks, ApplyChangeset, Commit
  <2>4. Redrawn(doc, r)
    BY <1>1, <2>1, LinkRedraws
  <2>5. ASSUME "copied" \notin odd' PROVE Clean(r, odd')
    <3>1. Clean(doc, odd) /\ odd \subseteq later /\ "ai" \in later
      BY <1>2, <2>2, <2>3, <2>5
    <3>2. Clean(r, later)
      BY <1>1, <2>1, <2>3, <3>1, LinkKeeps
    <3>3. QED
      BY <2>2, <3>2
  <2>6. odd \subseteq odd'
    BY <2>2, <2>3
  <2>7. QED
    BY <2>3, <2>4, <2>5, <2>6, EditKeeps
<1>7. ASSUME NEW e \in Entities, DuplicateEntity(e) PROVE DocInv'
  <2>1. PICK F : F = Family(doc, s, e)
    OBVIOUS
  <2>2. PICK f \in FreshIds(F) : Record(DuplicateFamily(doc, s, e, f))
    BY <1>3, <1>7, <2>1 DEF DuplicateEntity, Commit
  <2>3. UNCHANGED <<active, odd>> /\ e \in EntitiesOn(doc, s)
    BY <1>3, <1>7 DEF DuplicateEntity, Keep
  <2>4. PICK m : m = DuplicateFamily(doc, s, e, f)
    OBVIOUS
  <2>5. Redrawn(doc, m)
    BY <1>1, <2>4, DuplicatesRedraw
  <2>6. ASSUME "copied" \notin odd PROVE Clean(m, odd)
    <3>1. Clean(doc, odd)
      BY <1>2, <2>6
    <3>2. /\ f \in [F -> Comps]
          /\ \A x \in F : f[x] \notin Used(doc)
          /\ \A x, y \in F : f[x] = f[y] => x = y
          /\ \A x \in F : x \in Entities <=> f[x] \in Entities
          /\ \A x \in F : \A d \in Entities : doc.node[s][d].up # f[x]
      BY <2>2, FreshOnes
    <3>3. F \in SUBSET EntitiesOn(doc, s) /\ F \subseteq Entities
      BY <1>4, <2>1 DEF Family
    <3>4. f \in [F -> Entities]
      BY <3>2, <3>3
    <3>5. F # {}
      <4>1. PICK next : next = [d \in Comps |-> {doc.node[s][d].up} \ {None}]
        OBVIOUS
      <4>2. next \in [Comps -> SUBSET Comps]
        <5>1. \A d \in Comps : doc.node[s][d].up \in Comps \cup {None}
          BY <3>1 DEF Clean, Nodes, Comps
        <5>2. QED
          BY <4>1, <5>1
      <4>3. IsFiniteSet(Entities)
        <5>1. Entities \in SUBSET Comps
          BY DEF Comps
        <5>2. QED
          BY <5>1, DocumentAssumption, FS_Subset
      <4>4. e \in Comps /\ Cardinality(Entities) \in Nat
        BY <4>3, FS_CardinalityType DEF Comps
      <4>5. e \in Walk(e, next, Cardinality(Entities))
        BY <4>2, <4>4, WalkReaches
      <4>6. e \in Chain(doc, s, e)
        BY <4>1, <4>5 DEF Chain
      <4>7. QED
        BY <2>1, <2>3, <4>6 DEF Family
    <3>6. Clean(m, odd)
      BY <1>1, <2>4, <3>1, <3>2, <3>3, <3>4, <3>5, DuplicateFamilyKeeps
    <3>7. QED
      BY <3>6
  <2>7. QED
    BY <2>2, <2>3, <2>4, <2>5, <2>6, EditKeeps
<1>8. ASSUME NEW e \in Entities, DeleteEntity(e) PROVE DocInv'
  <2>1. PICK m : m = RemoveEntity(doc, s, e)
    OBVIOUS
  <2>2. Record(m) /\ UNCHANGED <<active, odd>>
    BY <1>3, <1>8, <2>1 DEF DeleteEntity, Commit, Keep
  <2>3. Redrawn(doc, m)
    BY <1>1, <2>1, RemoveEntityRedraws
  <2>4. "copied" \notin odd => Clean(m, odd)
    BY <1>1, <1>2, <2>1, RemoveEntityKeeps
  <2>5. QED
    BY <2>2, <2>3, <2>4, EditKeeps
<1>9. QED
  BY <1>5, <1>6, <1>7, <1>8 DEF EntityActions

\* No action on screens breaks the document.
LEMMA ScreenStep ==
  ASSUME DocInv, ScreenActions
  PROVE  DocInv'
<1>1. Framed(doc) /\ ToSet(doc.tabs) \subseteq Screens
  BY TabsAreScreens DEF DocInv
<1>2. /\ "copied" \notin odd => Clean(doc, odd)
      /\ "undone" \notin odd => active \in ToSet(doc.tabs)
  BY DEF DocInv
<1>3. ASSUME NEW s \in Screens, NewScreen(s) PROVE DocInv'
  <2>1. PICK m : m = AddScreen(doc, s)
    OBVIOUS
  <2>2. Record(m) /\ active' = s /\ odd' = odd /\ s \notin ToSet(doc.tabs)
    BY <1>3, <2>1 DEF NewScreen, Commit
  <2>3. Framed(m) /\ s \in ToSet(m.tabs) /\ ("copied" \notin odd => Clean(m, odd))
    BY <1>1, <1>2, <2>1, <2>2, AddKeeps
  <2>4. QED
    BY <2>2, <2>3, RecordKeeps
<1>4. ASSUME NEW s \in Screens, DropScreen(s) PROVE DocInv'
  <2>1. PICK m : m = DeleteScreen(doc, s)
    OBVIOUS
  <2>2. /\ Record(m) /\ odd' = odd /\ s \in ToSet(doc.tabs) /\ m # doc
        /\ active' = IF active = s THEN m.tabs[1] ELSE active
    BY <1>4, <2>1 DEF DropScreen, Commit, Record
  <2>3. /\ Framed(m) /\ ToSet(m.tabs) = ToSet(doc.tabs) \ {s} /\ m.tabs[1] \in ToSet(m.tabs)
        /\ "copied" \notin odd => Clean(m, odd)
    BY <1>1, <1>2, <2>1, <2>2, DeleteKeeps
  <2>4. "undone" \notin odd => active' \in ToSet(m.tabs)
    BY <1>2, <2>2, <2>3
  <2>5. QED
    BY <2>2, <2>3, <2>4, RecordKeeps
<1>5. ASSUME NEW s \in Screens, StartHere(s) PROVE DocInv'
  <2>1. PICK m : m = SetStart(doc, s)
    OBVIOUS
  <2>2. Record(m) /\ UNCHANGED <<active, odd>>
    BY <1>5, <2>1 DEF StartHere, Commit, Keep
  <2>3. Framed(m) /\ m.tabs = doc.tabs /\ ("copied" \notin odd => Clean(m, odd))
    BY <1>1, <1>2, <2>1, StartKeeps
  <2>4. QED
    BY <1>2, <2>2, <2>3, RecordKeeps
<1>6. ASSUME NEW s \in Screens, NEW t \in Screens, CopyScreen(s, t) PROVE DocInv'
  <2>1. PICK m : m = DuplicateScreen(doc, s, t)
    OBVIOUS
  <2>2. /\ Record(m) /\ active' = t /\ odd' = odd \cup {"copied"}
        /\ s \in ToSet(doc.tabs) /\ t \notin ToSet(doc.tabs)
    BY <1>6, <2>1 DEF CopyScreen, Commit
  <2>3. Framed(m) /\ t \in ToSet(m.tabs)
    BY <1>1, <2>1, <2>2, CopyFrames
  <2>4. odd \subseteq odd' /\ "copied" \in odd'
    BY <2>2
  <2>5. QED
    BY <2>2, <2>3, <2>4, RecordKeeps
<1>7. ASSUME NEW s \in Screens, AIStarts(s) PROVE DocInv'
  <2>1. PICK m : m = SetStart(doc, s)
    OBVIOUS
  <2>2. Record(m) /\ UNCHANGED active /\ odd' = odd \cup {"ai"}
    BY <1>7, <2>1 DEF AIStarts, ApplyChangeset, Commit
  <2>3. PICK later : later = odd'
    OBVIOUS
  <2>4. odd \subseteq later /\ later = odd \cup {"ai"}
    BY <2>2, <2>3
  <2>5. ASSUME "copied" \notin later PROVE Clean(doc, later)
    BY <1>2, <2>4, <2>5, CleanLater
  <2>6. Framed(m) /\ m.tabs = doc.tabs /\ ("copied" \notin later => Clean(m, later))
    BY <1>1, <2>1, <2>5, StartKeeps
  <2>7. QED
    BY <1>2, <2>2, <2>3, <2>4, <2>6, RecordKeeps
<1>8. ASSUME NEW s \in Screens, NEW p \in {Root} \cup Containers, NEW c \in (Containers \cup Leaves) \ Taken,
             ~Is3D, NEW m, Framed(m), m.kids = doc.kids, m.node = doc.node,
             ToSet(doc.tabs) \subseteq ToSet(m.tabs), UNCHANGED active, odd' = odd \cup {"ai"},
             \A happened : Clean(doc, happened) => Clean(m, happened),
             Record(Insert(m, s, p, 0, c))
      PROVE  DocInv'
  <2>1. PICK r, later : r = Insert(m, s, p, 0, c) /\ later = odd'
    OBVIOUS
  <2>2. odd \subseteq later /\ later = odd \cup {"ai"}
    BY <1>8, <2>1
  <2>3. Framed(r) /\ r.tabs = m.tabs
    BY <1>8, <2>1, InsertRedraws, RedrawnIsFramed
  <2>4. ASSUME "copied" \notin later PROVE Clean(r, later)
    <3>1. Clean(doc, later)
      BY <1>2, <2>2, <2>4, CleanLater
    <3>2. Clean(m, later)
      BY <1>8, <3>1
    <3>3. PICK K \in Kinds : OfKind(doc, K) /\ Containers \cup Leaves \subseteq K
      BY <1>8, <3>1, OfferedKind
    <3>4. OfKind(m, K) /\ c \in K /\ c \in Comps /\ p \in Places
      BY <1>8, <3>3 DEF OfKind, Places, Comps
    <3>5. c \notin Used(m)
      <4>1. c \notin Used(doc)
        BY <1>8 DEF Taken
      <4>2. \A t \in Screens : c \notin On(m.kids[t])
        BY <1>1, <1>8, <3>1, <4>1, HomeIs
      <4>3. QED
        BY <1>8, <3>2, <4>2, HomeIs
    <3>6. "ai" \in later
      BY <2>2
    <3>7. QED
      BY <1>8, <2>1, <3>2, <3>4, <3>5, <3>6, InsertKeeps
  <2>5. "undone" \notin odd' => active' \in ToSet(r.tabs)
    BY <1>2, <1>8, <2>1, <2>2, <2>3
  <2>6. QED
    BY <1>8, <2>1, <2>2, <2>3, <2>4, <2>5, RecordKeeps
<1>9. ASSUME NEW s \in Screens, NEW c, ~Is3D, AINewScreen(s, c) PROVE DocInv'
  <2>1. PICK m : m = AddScreen(doc, s)
    OBVIOUS
  <2>2. /\ Record(Insert(m, s, Root, 0, c)) /\ UNCHANGED active /\ odd' = odd \cup {"ai"}
        /\ s \notin ToSet(doc.tabs) /\ c \in (Containers \cup Leaves) \ Taken
    BY <1>9, <2>1 DEF AINewScreen, ApplyChangeset, Commit
  <2>3. /\ Framed(m) /\ m.kids = doc.kids /\ m.node = doc.node /\ ToSet(doc.tabs) \subseteq ToSet(m.tabs)
        /\ \A happened : Clean(doc, happened) => Clean(m, happened)
    BY <1>1, <2>1, <2>2, AddKeeps
  <2>4. QED
    BY <1>8, <1>9, <2>2, <2>3
<1>10. ASSUME NEW s \in Screens, NEW c, NEW p \in Containers \cup {Root}, ~Is3D, AICreates(s, p, c) PROVE DocInv'
  <2>1. /\ Record(Insert(doc, s, p, 0, c)) /\ UNCHANGED active /\ odd' = odd \cup {"ai"}
        /\ c \in (Containers \cup Leaves) \ Taken
    BY <1>10 DEF AICreates, ApplyChangeset, Commit
  <2>2. QED
    BY <1>1, <1>8, <1>10, <2>1
<1>11. ASSUME NEW i \in DOMAIN doc.tabs, ShiftScreen(i, 1) PROVE DocInv'
  <2>1. PICK m : m = MoveScreen(doc, i, i + 1)
    OBVIOUS
  <2>2. Record(m) /\ UNCHANGED <<active, odd>>
    BY <1>11, <2>1 DEF ShiftScreen, Commit, Keep
  <2>3. Framed(m) /\ ToSet(m.tabs) = ToSet(doc.tabs) /\ ("copied" \notin odd => Clean(m, odd))
    BY <1>1, <1>2, <2>1, ShiftKeeps
  <2>4. QED
    BY <1>2, <2>2, <2>3, RecordKeeps
<1>12. QED
  BY <1>3, <1>4, <1>5, <1>6, <1>7, <1>9, <1>10, <1>11 DEF ScreenActions

\* No step breaks the document.
LEMMA DocStep == DocInv /\ [Next]_vars => DocInv'
<1> SUFFICES ASSUME DocInv, [Next]_vars PROVE DocInv'
  OBVIOUS
<1>1. CASE ComponentActions
  BY <1>1, ComponentStep
<1>2. CASE EntityActions
  BY <1>2, EntityStep
<1>3. CASE ScreenActions
  BY <1>3, ScreenStep
<1>4. ASSUME NEW s \in Screens, SelectScreen(s) PROVE DocInv'
  <2>1. active' \in ToSet(doc.tabs) /\ UNCHANGED <<doc, before, odd>>
    BY <1>4 DEF SelectScreen
  <2>2. QED
    BY <2>1 DEF DocInv
<1>5. ASSUME NEW c \in Comps \cup {None}, Select(c) PROVE DocInv'
  BY <1>5 DEF Select, DocInv
<1>6. CASE Undo
  <2>1. doc' = before /\ before' = doc /\ odd' = odd \cup {"undone"}
    BY <1>6 DEF Undo
  <2>2. PICK later : later = odd'
    OBVIOUS
  <2>3. "copied" \notin later => Clean(doc, odd) /\ Clean(before, odd) /\ odd \subseteq later
    BY <2>1, <2>2 DEF DocInv
  <2>4. "copied" \notin later => Clean(doc, later) /\ Clean(before, later)
    BY <2>3, CleanLater
  <2>5. QED
    BY <2>1, <2>2, <2>4 DEF DocInv
<1>7. CASE UNCHANGED vars
  BY <1>7 DEF DocInv, vars
<1>8. QED
  BY <1>1, <1>2, <1>3, <1>4, <1>5, <1>6, <1>7 DEF Next, Look

\* Every component of a page hangs below the root: those that did not would
\* hold one another up.
LEMMA PageIsTree ==
  ASSUME NEW m, NEW happened, Clean(m, happened), NEW s \in Screens
  PROVE  Tree(m, s)
<1>1. PICK h : h = Held(m.kids[s])
  OBVIOUS
<1>2. Hangs(h) /\ m.kids[s] \in [Places -> Seq(Comps)] /\ \A p \in Places : IsInjective(m.kids[s][p])
  BY <1>1 DEF Clean, Page
<1>3. \A p \in Places : h[p] = ToSet(m.kids[s][p])
  BY <1>1 DEF Held
<1>4. Places = Comps \cup {Root} /\ Root \in Places
  BY DEF Places
<1>5. PICK U : U = UNION {TreeOf(h, c) : c \in h[Root]}
  OBVIOUS
<1>6. \A c \in h[Root] : c \in Under(h)
  BY <1>4, HeldUnder
<1>7. U \subseteq Under(h)
  BY <1>2, <1>5, <1>6, TreeOfHangs
<1>8. Under(h) \subseteq U
  <2> SUFFICES ASSUME Under(h) \ U # {} PROVE FALSE
    OBVIOUS
  <2>1. PICK p \in Places : p \notin Under(h) \ U /\ h[p] \cap (Under(h) \ U) # {}
    BY <1>2 DEF Hangs
  <2>2. PICK x \in h[p] : x \notin U
    BY <2>1
  <2>3. p # Root
    <3>1. ASSUME p = Root PROVE FALSE
      <4>1. x \in TreeOf(h, x)
        BY <1>2, <1>6, <2>2, <3>1, TreeOfHangs
      <4>2. QED
        BY <1>5, <2>2, <3>1, <4>1
    <3>2. QED
      BY <3>1
  <2>4. p \in U
    BY <1>2, <2>1, <2>2, <2>3 DEF Hangs
  <2>5. PICK c \in h[Root] : p \in TreeOf(h, c)
    BY <1>5, <2>4
  <2>6. x \in TreeOf(h, c)
    BY <1>2, <1>6, <2>2, <2>5, TreeOfHangs
  <2>7. QED
    BY <1>5, <2>2, <2>5, <2>6
<1>9. IdsOf(m, s) = UNION {Subtree(m, s, c) : c \in ToSet(m.kids[s][Root])}
  <2>1. IdsOf(m, s) = Under(h)
    BY <1>1, IdsAreOn DEF On
  <2>2. \A c : Subtree(m, s, c) = TreeOf(h, c)
    BY <1>1, SubtreeIs
  <2>3. h[Root] = ToSet(m.kids[s][Root])
    BY <1>3, <1>4
  <2>4. QED
    BY <1>5, <1>7, <1>8, <2>1, <2>2, <2>3
<1>10. ASSUME NEW p \in Places, m.kids[s][p] # <<>> PROVE p \in Containers \cup {Root}
  <2>1. PICK q : q = m.kids[s][p]
    OBVIOUS
  <2>2. q \in Seq(Comps) /\ q # <<>>
    BY <1>2, <1>10, <2>1
  <2>3. q[1] \in ToSet(q)
    BY <2>2, LenProperties, EmptySeq DEF ToSet
  <2>4. h[p] # {}
    BY <1>3, <2>1, <2>3
  <2>5. QED
    BY <1>2, <2>4 DEF Hangs
<1>11. \A p, q \in Places : p # q => ToSet(m.kids[s][p]) \cap ToSet(m.kids[s][q]) = {}
  BY <1>2, <1>3 DEF Hangs
<1>12. QED
  BY <1>2, <1>4, <1>9, <1>10, <1>11 DEF Tree

\* Links do not lead back: the entities a link leads back from would link
\* only to one another.
LEMMA LinksLeadAway ==
  ASSUME NEW m, NEW happened, Clean(m, happened), "ai" \notin happened, NEW s \in Screens,
         NEW e \in On(m.kids[s]) \cap Entities, m.node[s][e].up # None
  PROVE  e \notin Chain(m, s, m.node[s][e].up)
<1>1. PICK n, S : n = m.node[s] /\ S = On(m.kids[s]) \cap Entities
  OBVIOUS
<1>2. n \in Nodes /\ (\A c \in Comps \ On(m.kids[s]) : n[c].up = None) /\ LinksEnd(S, n)
  BY <1>1 DEF Clean, Page, Linked
<1>3. On(m.kids[s]) \subseteq Entities
  <2>1. PICK K \in Kinds : OfKind(m, K)
    BY DEF Clean
  <2>2. QED
    BY <2>1 DEF OfKind, Kinds
<1>4. PICK next : next = [d \in Comps |-> {n[d].up} \ {None}]
  OBVIOUS
<1>5. next \in [Comps -> SUBSET Comps] /\ \A d \in Comps : next[d] = {n[d].up} \ {None}
  BY <1>2, <1>4 DEF Nodes, Comps
<1>6. PICK most : most = Cardinality(Entities)
  OBVIOUS
<1>7. most \in Nat
  <2>1. Entities \in SUBSET Comps
    BY DEF Comps
  <2>2. IsFiniteSet(Entities)
    BY <2>1, DocumentAssumption, FS_Subset
  <2>3. QED
    BY <1>6, <2>2, FS_CardinalityType
<1>8. \A d : Chain(m, s, d) = Walk(d, next, most)
  BY <1>1, <1>4, <1>6 DEF Chain
<1>9. ASSUME NEW d \in Comps, e \in Walk(d, next, most), d # e
      PROVE  d \in S /\ n[d].up \in Comps /\ e \in Walk(n[d].up, next, most)
  <2>1. next[d] # {}
    <3>1. ASSUME next[d] = {} PROVE FALSE
      <4>1. PICK T : T = {d}
        OBVIOUS
      <4>2. Walk(d, next, most) \subseteq T
        <5>1. d \in T /\ \A x \in T \cap Comps : next[x] \subseteq T
          BY <3>1, <4>1
        <5>2. QED
          BY <1>5, <1>7, <5>1, WalkReaches
      <4>3. QED
        BY <1>9, <4>1, <4>2
    <3>2. QED
      BY <3>1
  <2>2. n[d].up # None /\ next[d] = {n[d].up} /\ n[d].up \in Comps
    BY <1>5, <2>1
  <2>3. Walk(d, next, most) \subseteq {d} \cup Walk(n[d].up, next, most)
    BY <1>5, <1>7, <2>2, WalkGoesOn
  <2>4. d \in S
    BY <1>1, <1>2, <1>3, <2>2
  <2>5. QED
    BY <1>9, <2>2, <2>3, <2>4
<1>10. SUFFICES ASSUME e \in Walk(n[e].up, next, most) PROVE FALSE
  BY <1>1, <1>8
<1>11. PICK X : X = {d \in S : e \in Walk(d, next, most)}
  OBVIOUS
<1>12. e \in S /\ e \in Comps /\ n[e].up \in Comps
  BY <1>1, <1>2 DEF Nodes, Comps
<1>13. \A d \in Comps : e \in Walk(d, next, most) => d \in X
  BY <1>9, <1>11, <1>12
<1>14. e \in X
  BY <1>5, <1>7, <1>12, <1>13, WalkReaches
<1>15. PICK d \in X : n[d].up \notin X
  BY <1>2, <1>11, <1>14 DEF LinksEnd
<1>16. d \in Comps /\ e \in Walk(d, next, most)
  BY <1>1, <1>11 DEF Comps
<1>17. n[d].up \in Comps /\ e \in Walk(n[d].up, next, most)
  BY <1>9, <1>10, <1>12, <1>16
<1>18. QED
  BY <1>13, <1>15, <1>17

\* The inductive invariant of the document says all that is promised.
LEMMA DocInvIsSound == DocInv => DocumentIsSound
<1> SUFFICES ASSUME DocInv PROVE DocumentIsSound
  OBVIOUS
<1>1. ToSet(doc.tabs) \subseteq Screens
  BY TabsAreScreens DEF DocInv
<1>2. /\ "undone" \notin odd => Shown = active
      /\ doc.start \in ToSet(doc.tabs) /\ IsInjective(doc.tabs)
  BY DEF DocInv, Framed, Shown
<1>3. ASSUME "copied" \notin odd PROVE NoSharedIds(doc) /\ \A s \in ToSet(doc.tabs) : Tree(doc, s)
  <2>1. Clean(doc, odd)
    BY <1>3 DEF DocInv
  <2>2. NoSharedIds(doc)
    BY <1>1, <2>1, IdsAreOn DEF NoSharedIds, Clean
  <2>3. QED
    BY <1>1, <2>1, <2>2, PageIsTree
<1>4. WellFormed
  BY <1>2, <1>3 DEF WellFormed
<1>5. ASSUME odd \cap {"copied", "ai"} = {}, NEW s \in ToSet(doc.tabs), NEW e \in EntitiesOn(doc, s)
      PROVE  /\ doc.node[s][e].up # None => e \notin Chain(doc, s, doc.node[s][e].up)
             /\ "cut" \notin odd => doc.node[s][e].up \in EntitiesOn(doc, s) \cup {None}
  <2>1. Clean(doc, odd) /\ "ai" \notin odd /\ s \in Screens
    BY <1>1, <1>5 DEF DocInv
  <2>2. EntitiesOn(doc, s) = On(doc.kids[s]) \cap Entities
    BY IdsAreOn DEF EntitiesOn
  <2>3. "cut" \notin odd => LinksStay(EntitiesOn(doc, s), doc.node[s])
    BY <2>1, <2>2 DEF Clean, Page, Linked
  <2>4. QED
    BY <1>5, <2>1, <2>2, <2>3, LinksLeadAway DEF LinksStay
<1>6. LinksAreSound
  BY <1>5 DEF LinksAreSound
<1>7. QED
  BY <1>4, <1>6 DEF DocumentIsSound

\* What every builder action promises (ops.ts, header), for every set of ids
\* and every sequence of edits, undo included: the start screen exists, every
\* component of a screen hangs below its root once, ids are unique, and the
\* parent links of 3D entities stay on their screen and form no cycle; each
\* until what the code leaves open (a copied screen, a changeset, the generic
\* deletion of a linked entity) has happened.
THEOREM DocumentHolds == Spec => []DocumentIsSound
<1>1. Spec => []DocInv
  BY InitIsSound, DocStep, PTL DEF Spec
<1>2. QED
  BY <1>1, DocInvIsSound, PTL

-----------------------------------------------------------------------------
(* The blocks of a screen (BlockDocument): what lies in what, and where.   *)

Full == {"then", "else", "socket"}
Within(d, b) == Inside(d, b, Full)
HeldIn(d) == InArms(d) \cup InSockets(d) \cup InRuns(d)
Roots(d) == (UNION {Body(d, h) : h \in d.handlers}) \cup InRuns(d)

\* Range and ToSet name the same set.
LEMMA RangeIsToSet == \A s : Range(s) = ToSet(s)
BY DEF Range, ToSet

\* The runs that are parked, each somewhere.
LEMMA StoredParts ==
  ASSUME NEW d, Stored(d)
  PROVE  /\ d = [handlers |-> d.handlers, arm |-> d.arm, socket |-> d.socket,
                 parked |-> d.parked, placed |-> d.placed]
         /\ d.handlers \in SUBSET Handlers /\ d.placed \in SUBSET Blocks
         /\ d.arm \in [Arms -> Seq(Blocks)]
         /\ d.socket \in [Sockets -> Expressions \cup {NoBlock}]
         /\ d.parked \in Seq(Seq(Blocks) \ {<<>>})
         /\ \A a \in Arms : d.arm[a] \in Seq(Blocks) /\ ToSet(d.arm[a]) \in SUBSET Blocks
         /\ \A k \in Sockets : d.socket[k] \in Expressions \cup {NoBlock}
         /\ \A run \in ToSet(d.parked) : run \in Seq(Blocks) /\ run # <<>> /\ ToSet(run) \in SUBSET Blocks
         /\ Expressions \subseteq Blocks
<1>1. d \in Content
  BY DEF Stored
<1>2. /\ d = [handlers |-> d.handlers, arm |-> d.arm, socket |-> d.socket,
              parked |-> d.parked, placed |-> d.placed]
      /\ d.handlers \in SUBSET Handlers /\ d.placed \in SUBSET Blocks
      /\ d.arm \in [Arms -> Seq(Blocks)] /\ d.socket \in [Sockets -> Blocks \cup {NoBlock}]
      /\ d.parked \in Seq(Seq(Blocks))
  BY <1>1 DEF Content
<1>3. \A s \in Seq(Blocks) : ToSet(s) \in SUBSET Blocks
  BY LenProperties, ElementOfSeq DEF ToSet
<1>4. d.socket \in [Sockets -> Expressions \cup {NoBlock}]
  BY <1>2 DEF Stored
<1>5. \A r \in DOMAIN d.parked : d.parked[r] \in Seq(Blocks) \ {<<>>}
  BY <1>2, LenProperties, ElementOfSeq DEF Stored
<1>6. d.parked \in [1..Len(d.parked) -> Seq(Blocks) \ {<<>>}] /\ Len(d.parked) \in Nat
  BY <1>2, <1>5, LenProperties
<1>7. d.parked \in Seq(Seq(Blocks) \ {<<>>})
  BY <1>6, FunctionIsSeq
<1>8. \A run \in ToSet(d.parked) : run \in Seq(Blocks) /\ run # <<>>
  BY <1>5 DEF ToSet
<1>9. Expressions \subseteq Blocks
  BY DEF Blocks
<1>10. QED
  BY <1>2, <1>3, <1>4, <1>7, <1>8, <1>9

\* And back.
LEMMA StoredIs ==
  ASSUME NEW H \in SUBSET Handlers, NEW A \in [Arms -> Seq(Blocks)],
         NEW S \in [Sockets -> Expressions \cup {NoBlock}],
         NEW P \in Seq(Seq(Blocks) \ {<<>>}), NEW Q \in SUBSET Blocks
  PROVE  Stored([handlers |-> H, arm |-> A, socket |-> S, parked |-> P, placed |-> Q])
<1>1. P \in [1..Len(P) -> Seq(Blocks) \ {<<>>}] /\ Len(P) \in Nat /\ DOMAIN P = 1..Len(P)
  BY LenProperties
<1>2. P \in [1..Len(P) -> Seq(Blocks)]
  BY <1>1
<1>3. P \in Seq(Seq(Blocks))
  BY <1>1, <1>2, FunctionIsSeq
<1>4. S \in [Sockets -> Blocks \cup {NoBlock}]
  BY DEF Blocks
<1>5. \A r \in DOMAIN P : P[r] # <<>>
  BY <1>1
<1>6. QED
  BY <1>3, <1>4, <1>5 DEF Stored, Content

\* What lies directly in a block.
LEMMA WithinIs ==
  ASSUME NEW d, Stored(d), NEW b \in Blocks, NEW via \in SUBSET Full
  PROVE  /\ Inside(d, b, via) \in SUBSET Blocks
         /\ \A x : x \in Inside(d, b, via) <=>
              \/ \E v \in via \ {"socket"} : b \in Ifs /\ <<b, v>> \in Arms /\ x \in ToSet(d.arm[<<b, v>>])
              \/ \E k \in Keys(b) : "socket" \in via /\ x = d.socket[<<b, k>>] /\ x # NoBlock
         /\ \A k \in Keys(b) : <<b, k>> \in Sockets
<1>1. \A v \in via \ {"socket"} : b \in Ifs => <<b, v>> \in Arms
  BY DEF Full, Arms
<1>2. \A k \in Keys(b) : <<b, k>> \in Sockets
  BY DEF Sockets
<1>3. ASSUME NEW x
      PROVE  x \in Inside(d, b, via) <=>
              \/ \E v \in via \ {"socket"} : b \in Ifs /\ x \in ToSet(d.arm[<<b, v>>])
              \/ \E k \in Keys(b) : "socket" \in via /\ x = d.socket[<<b, k>>] /\ x # NoBlock
  <2>1. PICK V, K : /\ V = IF b \in Ifs THEN via \ {"socket"} ELSE {}
                    /\ K = IF "socket" \in via THEN Keys(b) ELSE {}
    OBVIOUS
  <2>2. Inside(d, b, via) = (UNION {Range(d.arm[<<b, v>>]) : v \in V})
                              \cup ({d.socket[<<b, k>>] : k \in K} \ {NoBlock})
    BY <2>1 DEF Inside
  <2>3. x \in Inside(d, b, via) <=> \/ \E v \in V : x \in ToSet(d.arm[<<b, v>>])
                                   \/ \E k \in K : x = d.socket[<<b, k>>] /\ x # NoBlock
    <3>1. x \in UNION {Range(d.arm[<<b, v>>]) : v \in V} <=> \E v \in V : x \in Range(d.arm[<<b, v>>])
      OBVIOUS
    <3>2. x \in {d.socket[<<b, k>>] : k \in K} \ {NoBlock} <=> \E k \in K : x = d.socket[<<b, k>>] /\ x # NoBlock
      OBVIOUS
    <3>3. \A v \in V : Range(d.arm[<<b, v>>]) = ToSet(d.arm[<<b, v>>])
      BY RangeIsToSet
    <3>4. PICK I, J : /\ I = UNION {Range(d.arm[<<b, v>>]) : v \in V}
                      /\ J = {d.socket[<<b, k>>] : k \in K} \ {NoBlock}
      OBVIOUS
    <3>5. x \in Inside(d, b, via) <=> x \in I \/ x \in J
      BY <2>2, <3>4
    <3>6. x \in I <=> \E v \in V : x \in ToSet(d.arm[<<b, v>>])
      BY <3>1, <3>3, <3>4
    <3>7. QED
      BY <3>2, <3>4, <3>5, <3>6
  <2>4. QED
    BY <2>1, <2>3
<1>4. ASSUME NEW x \in Inside(d, b, via) PROVE x \in Blocks
  <2>1. CASE \E v \in via \ {"socket"} : b \in Ifs /\ x \in ToSet(d.arm[<<b, v>>])
    BY <1>1, <2>1, StoredParts
  <2>2. CASE \E k \in Keys(b) : x = d.socket[<<b, k>>] /\ x # NoBlock
    BY <1>2, <2>2, StoredParts
  <2>3. QED
    BY <1>3, <2>1, <2>2
<1>5. QED
  BY <1>1, <1>2, <1>3, <1>4

\* In an arm of it, or in a socket.
Sits(d, b, x) ==
  \/ \E v \in {"then", "else"} : b \in Ifs /\ <<b, v>> \in Arms /\ x \in ToSet(d.arm[<<b, v>>])
  \/ \E k \in Keys(b) : <<b, k>> \in Sockets /\ x = d.socket[<<b, k>>] /\ x # NoBlock

\* What lies directly inside a block sits in one of its arms or sockets.
LEMMA SitsIs ==
  ASSUME NEW d, Stored(d), NEW b \in Blocks, NEW x
  PROVE  /\ x \in Inside(d, b, Full) <=> Sits(d, b, x)
         /\ x \in Within(d, b) <=> Sits(d, b, x)
         /\ Sits(d, b, x) => x \in Blocks
<1>1. Full \in SUBSET Full /\ Full \ {"socket"} = {"then", "else"} /\ "socket" \in Full
  BY DEF Full
<1>2. /\ Inside(d, b, Full) \in SUBSET Blocks
      /\ \A y : y \in Inside(d, b, Full) <=>
              \/ \E v \in Full \ {"socket"} : b \in Ifs /\ <<b, v>> \in Arms /\ y \in ToSet(d.arm[<<b, v>>])
              \/ \E k \in Keys(b) : "socket" \in Full /\ y = d.socket[<<b, k>>] /\ y # NoBlock
      /\ \A k \in Keys(b) : <<b, k>> \in Sockets
  BY <1>1, WithinIs
<1>3. x \in Inside(d, b, Full) <=> Sits(d, b, x)
  BY <1>1, <1>2 DEF Sits
<1>4. QED
  BY <1>2, <1>3 DEF Within

\* A set that has what lies in its members.
Closed(d, via, S) == \A x \in S \cap Blocks : Inside(d, x, via) \subseteq S

\* A tree is what its roots hold, and what that holds, and nothing else.
LEMMA ClosureIs ==
  ASSUME NEW d, Stored(d), NEW via \in SUBSET Full, NEW roots \in SUBSET Blocks
  PROVE  /\ roots \subseteq Closure(d, roots, via) /\ Closure(d, roots, via) \in SUBSET Blocks
         /\ Closed(d, via, Closure(d, roots, via))
         /\ \A S : roots \subseteq S /\ Closed(d, via, S) => Closure(d, roots, via) \subseteq S
<1>1. PICK next : next = [b \in Blocks |-> Inside(d, b, via)]
  OBVIOUS
<1>2. next \in [Blocks -> SUBSET Blocks] /\ \A b \in Blocks : next[b] = Inside(d, b, via)
  BY <1>1, WithinIs
<1> DEFINE Grows(g) == g = [s \in SUBSET Blocks |->
                 LET more == s \cup UNION {Inside(d, b, via) : b \in s}
                 IN  IF more = s THEN s ELSE g[more]]
<1>3. \A s \in SUBSET Blocks : s \cup UNION {Inside(d, b, via) : b \in s} = SpreadOnce(next, s)
  BY <1>2 DEF SpreadOnce
<1>4. \A g : GrowsBy(g, Blocks, next) <=> Grows(g)
  BY <1>3 DEF GrowsBy
<1>5. PICK g : g = CHOOSE f : Grows(f)
  OBVIOUS
<1>6. Closure(d, roots, via) = g[roots]
  BY <1>5 DEF Closure
<1>7. \E f : Grows(f)
  BY <1>2, <1>4, GrowthExists
<1>8. Grows(g)
  BY <1>5, <1>7
<1>9. GrowsBy(g, Blocks, next)
  BY <1>4, <1>8
<1> HIDE DEF Grows
<1>10. ClosesOn(g[roots], Blocks, next, roots)
  BY <1>2, <1>9, GrownIs, BlockAssumption
<1>11. QED
  BY <1>2, <1>6, <1>10 DEF ClosesOn, Closed

\* The canvas is what lies in a body or a parked run, and what that holds.
LEMMA CanvasIs ==
  ASSUME NEW d, Stored(d)
  PROVE  /\ Roots(d) \subseteq OnCanvas(d) /\ OnCanvas(d) \in SUBSET Blocks
         /\ Roots(d) \in SUBSET Blocks
         /\ Closed(d, Full, OnCanvas(d))
         /\ \A S : Roots(d) \subseteq S /\ Closed(d, Full, S) => OnCanvas(d) \subseteq S
         /\ Attached(d) \subseteq OnCanvas(d)
<1>1. PICK B, R : /\ B = UNION {Body(d, h) : h \in d.handlers}
                  /\ R = UNION {Range(run) : run \in Range(d.parked)}
  OBVIOUS
<1>2. B \in SUBSET Blocks
  <2>1. \A h \in d.handlers : <<h, "body">> \in Arms
    BY StoredParts DEF Arms
  <2>2. \A h \in d.handlers : Body(d, h) \in SUBSET Blocks
    BY <2>1, StoredParts, RangeIsToSet DEF Body
  <2>3. QED
    BY <1>1, <2>2
<1>3. R \in SUBSET Blocks
  <2>1. \A run \in Range(d.parked) : Range(run) \in SUBSET Blocks
    BY StoredParts, RangeIsToSet
  <2>2. QED
    BY <1>1, <2>1
<1>4. Full \in SUBSET Full
  OBVIOUS
<1>5. PICK CB, CR : CB = Closure(d, B, Full) /\ CR = Closure(d, R, Full)
  OBVIOUS
<1>6. /\ B \subseteq CB /\ CB \in SUBSET Blocks /\ Closed(d, Full, CB)
      /\ \A S : B \subseteq S /\ Closed(d, Full, S) => CB \subseteq S
  BY <1>2, <1>4, <1>5, ClosureIs
<1>7. /\ R \subseteq CR /\ CR \in SUBSET Blocks /\ Closed(d, Full, CR)
      /\ \A S : R \subseteq S /\ Closed(d, Full, S) => CR \subseteq S
  BY <1>3, <1>4, <1>5, ClosureIs
<1>8. Attached(d) = CB /\ OnCanvas(d) = CB \cup CR
  BY <1>1, <1>5 DEF OnCanvas, Attached, BlockTree, Full
<1>9. Roots(d) = B \cup R
  BY <1>1 DEF Roots, InRuns
<1>10. Closed(d, Full, CB \cup CR)
  BY <1>6, <1>7 DEF Closed
<1>11. \A S : Roots(d) \subseteq S /\ Closed(d, Full, S) => OnCanvas(d) \subseteq S
  BY <1>6, <1>7, <1>8, <1>9
<1>12. QED
  BY <1>2, <1>3, <1>6, <1>7, <1>8, <1>9, <1>10, <1>11

\* What a handler's body reaches is on the canvas.
LEMMA FindableIs ==
  ASSUME NEW d, Stored(d), NEW h \in d.handlers
  PROVE  /\ Body(d, h) \subseteq Findable(d, h) /\ Findable(d, h) \in SUBSET Blocks
         /\ Closed(d, Full, Findable(d, h))
         /\ \A S : Body(d, h) \subseteq S /\ Closed(d, Full, S) => Findable(d, h) \subseteq S
         /\ Findable(d, h) \subseteq OnCanvas(d)
         /\ Walked(d, h) \subseteq Findable(d, h) /\ Removable(d, h) \subseteq Findable(d, h)
<1>1. Body(d, h) \in SUBSET Blocks
  <2>1. <<h, "body">> \in Arms
    BY StoredParts DEF Arms
  <2>2. QED
    BY <2>1, StoredParts, RangeIsToSet DEF Body
<1>2. Findable(d, h) = Closure(d, Body(d, h), Full)
  BY DEF Findable, BlockTree, Full
<1>3. Full \in SUBSET Full /\ {"then", "socket"} \in SUBSET Full /\ {"then", "else"} \in SUBSET Full
  BY DEF Full
<1>4. PICK C : C = Findable(d, h)
  OBVIOUS
<1>5. /\ Body(d, h) \subseteq C /\ C \in SUBSET Blocks /\ Closed(d, Full, C)
      /\ \A S : Body(d, h) \subseteq S /\ Closed(d, Full, S) => C \subseteq S
  BY <1>1, <1>2, <1>3, <1>4, ClosureIs
<1>6. C \subseteq OnCanvas(d)
  <2>1. Body(d, h) \subseteq Roots(d)
    BY DEF Roots
  <2>2. Body(d, h) \subseteq OnCanvas(d) /\ Closed(d, Full, OnCanvas(d))
    BY <2>1, CanvasIs
  <2>3. QED
    BY <1>5, <2>2
<1>7. ASSUME NEW via \in SUBSET Full PROVE Closure(d, Body(d, h), via) \subseteq C
  <2>1. ASSUME NEW x \in Blocks PROVE Inside(d, x, via) \subseteq Inside(d, x, Full)
    <3>1. SUFFICES ASSUME NEW y \in Inside(d, x, via) PROVE y \in Inside(d, x, Full)
      OBVIOUS
    <3>2. /\ via \ {"socket"} \subseteq Full \ {"socket"} /\ "socket" \in Full
          /\ \/ \E v \in via \ {"socket"} : x \in Ifs /\ <<x, v>> \in Arms /\ y \in ToSet(d.arm[<<x, v>>])
             \/ \E k \in Keys(x) : y = d.socket[<<x, k>>] /\ y # NoBlock
      BY <1>3, <3>1, WithinIs DEF Full
    <3>3. \/ \E v \in Full \ {"socket"} : x \in Ifs /\ <<x, v>> \in Arms /\ y \in ToSet(d.arm[<<x, v>>])
          \/ \E k \in Keys(x) : "socket" \in Full /\ y = d.socket[<<x, k>>] /\ y # NoBlock
      BY <3>2
    <3>4. QED
      BY <1>3, <3>3, WithinIs
  <2>2. Closed(d, via, C)
    BY <1>5, <2>1 DEF Closed
  <2>3. QED
    BY <1>1, <1>5, <2>2, ClosureIs
<1>8. Walked(d, h) \subseteq C /\ Removable(d, h) \subseteq C
  BY <1>3, <1>7 DEF Walked, Removable
<1>9. QED
  BY <1>4, <1>5, <1>6, <1>8

\* A tree below some blocks.
LEMMA TreeIs ==
  ASSUME NEW d, Stored(d), NEW roots \in SUBSET Blocks
  PROVE  /\ roots \subseteq BlockTree(d, roots) /\ BlockTree(d, roots) \in SUBSET Blocks
         /\ Closed(d, Full, BlockTree(d, roots))
         /\ \A S : roots \subseteq S /\ Closed(d, Full, S) => BlockTree(d, roots) \subseteq S
         /\ \A x \in BlockTree(d, roots) \ roots : \E y \in BlockTree(d, roots) : x \in Within(d, y)
<1>1. BlockTree(d, roots) = Closure(d, roots, Full) /\ Full \in SUBSET Full
  BY DEF BlockTree, Full
<1>2. PICK C : C = BlockTree(d, roots)
  OBVIOUS
<1>3. /\ roots \subseteq C /\ C \in SUBSET Blocks /\ Closed(d, Full, C)
      /\ \A S : roots \subseteq S /\ Closed(d, Full, S) => C \subseteq S
  BY <1>1, <1>2, ClosureIs
<1>4. ASSUME NEW x \in C \ roots, \A y \in C : x \notin Within(d, y) PROVE FALSE
  <2>1. PICK S : S = C \ {x}
    OBVIOUS
  <2>2. roots \subseteq S /\ Closed(d, Full, S)
    BY <1>3, <1>4, <2>1 DEF Closed, Within
  <2>3. QED
    BY <1>3, <2>1, <2>2
<1>5. QED
  BY <1>2, <1>3, <1>4

\* What is not on the canvas goes with its contents.
LEMMA TidyIs ==
  ASSUME NEW d, Stored(d), NEW t, t = Tidy(d)
  PROVE  /\ Stored(t) /\ t.handlers = d.handlers /\ t.parked = d.parked /\ t.placed = d.placed
         /\ \A a \in Arms : t.arm[a] = IF a[1] \in d.handlers \cup OnCanvas(d) THEN d.arm[a] ELSE <<>>
         /\ \A k \in Sockets : t.socket[k] = IF k[1] \in OnCanvas(d) THEN d.socket[k] ELSE NoBlock
<1>1. PICK kept : kept = d.handlers \cup OnCanvas(d)
  OBVIOUS
<1>2. PICK A, K : /\ A = [a \in Arms |-> IF a[1] \in kept THEN d.arm[a] ELSE <<>>]
                  /\ K = [k \in Sockets |-> IF k[1] \in kept THEN d.socket[k] ELSE NoBlock]
  OBVIOUS
<1>3. t = [d EXCEPT !.arm = A, !.socket = K]
  BY <1>1, <1>2 DEF Tidy
<1>4. t = [handlers |-> d.handlers, arm |-> A, socket |-> K, parked |-> d.parked, placed |-> d.placed]
  BY <1>3, StoredParts
<1>5. A \in [Arms -> Seq(Blocks)] /\ K \in [Sockets -> Expressions \cup {NoBlock}]
  <2>1. <<>> \in Seq(Blocks)
    OBVIOUS
  <2>2. QED
    BY <1>2, <2>1, StoredParts
<1>6. Stored(t)
  <2>1. d.handlers \in SUBSET Handlers /\ d.parked \in Seq(Seq(Blocks) \ {<<>>}) /\ d.placed \in SUBSET Blocks
    BY StoredParts
  <2>2. Stored([handlers |-> d.handlers, arm |-> A, socket |-> K, parked |-> d.parked, placed |-> d.placed])
    BY <1>5, <2>1, StoredIs
  <2>3. QED
    BY <1>4, <2>2
<1>7. \A k \in Sockets : k[1] \in kept <=> k[1] \in OnCanvas(d)
  <2>1. \A k \in Sockets : k[1] \in Blocks
    BY DEF Sockets
  <2>2. QED
    BY <1>1, <2>1, StoredParts, BlockAssumption
<1>8. QED
  BY <1>1, <1>2, <1>4, <1>6, <1>7

\* What is on the canvas stays there when the rest goes.
LEMMA TidyKeeps ==
  ASSUME NEW d, Stored(d), NEW t, t = Tidy(d)
  PROVE  /\ HeldIn(t) \subseteq OnCanvas(d) /\ OnCanvas(d) \subseteq OnCanvas(t)
         /\ \A h \in d.handlers : Findable(d, h) \subseteq Findable(t, h)
<1>1. /\ Stored(t) /\ t.handlers = d.handlers /\ t.parked = d.parked
      /\ \A a \in Arms : t.arm[a] = IF a[1] \in d.handlers \cup OnCanvas(d) THEN d.arm[a] ELSE <<>>
      /\ \A k \in Sockets : t.socket[k] = IF k[1] \in OnCanvas(d) THEN d.socket[k] ELSE NoBlock
  BY TidyIs
<1>2. /\ Roots(d) \subseteq OnCanvas(d) /\ OnCanvas(d) \in SUBSET Blocks /\ Closed(d, Full, OnCanvas(d))
      /\ \A S : Roots(d) \subseteq S /\ Closed(d, Full, S) => OnCanvas(d) \subseteq S
  BY CanvasIs
<1>3. ASSUME NEW x \in OnCanvas(d) PROVE Inside(t, x, Full) = Inside(d, x, Full)
  <2>1. x \in Blocks /\ Full \in SUBSET Full
    BY <1>2
  <2>2. \A v : <<x, v>>[1] = x
    OBVIOUS
  <2>3. \A v : <<x, v>> \in Arms => t.arm[<<x, v>>] = d.arm[<<x, v>>]
    BY <1>1, <2>2
  <2>4. \A k \in Keys(x) : t.socket[<<x, k>>] = d.socket[<<x, k>>]
    BY <1>1, <2>1, <2>2, WithinIs
  <2>7. Stored(t)
    BY <1>1
  <2>5. ASSUME NEW y PROVE y \in Inside(t, x, Full) <=> y \in Inside(d, x, Full)
    <3>1. Sits(t, x, y) <=> Sits(d, x, y)
      BY <2>3, <2>4 DEF Sits
    <3>2. QED
      BY <2>1, <2>7, <3>1, SitsIs
  <2>6. QED
    BY <2>5
<1>4. \A h \in d.handlers : Body(t, h) = Body(d, h)
  <2>1. \A h \in d.handlers : <<h, "body">> \in Arms /\ <<h, "body">>[1] = h
    BY StoredParts DEF Arms
  <2>2. QED
    BY <1>1, <2>1 DEF Body
<1>5. Roots(t) = Roots(d)
  BY <1>1, <1>4 DEF Roots, InRuns
<1>6. OnCanvas(d) \subseteq OnCanvas(t)
  <2>1. PICK S : S = OnCanvas(d) \cap OnCanvas(t)
    OBVIOUS
  <2>2. Roots(d) \subseteq S
    BY <1>1, <1>2, <1>5, <2>1, CanvasIs
  <2>3. Closed(t, Full, OnCanvas(t))
    BY <1>1, CanvasIs
  <2>4. Closed(d, Full, S)
    BY <1>2, <1>3, <2>1, <2>3 DEF Closed
  <2>5. QED
    BY <1>2, <2>1, <2>2, <2>4
<1>7. ASSUME NEW h \in d.handlers PROVE Findable(d, h) \subseteq Findable(t, h)
  <2>1. PICK S : S = Findable(d, h) \cap Findable(t, h)
    OBVIOUS
  <2>2. Body(d, h) \subseteq S
    BY <1>1, <1>4, <2>1, FindableIs
  <2>3. Closed(t, Full, Findable(t, h)) /\ Closed(d, Full, Findable(d, h)) /\ Findable(d, h) \subseteq OnCanvas(d)
    BY <1>1, FindableIs
  <2>4. Closed(d, Full, S)
    BY <1>3, <2>1, <2>3 DEF Closed
  <2>5. QED
    BY <2>1, <2>2, <2>4, FindableIs
<1>8. ASSUME NEW a \in Arms, NEW x \in ToSet(t.arm[a]) PROVE x \in OnCanvas(d)
  <2>1. ToSet(<<>>) = {}
    BY DEF ToSet
  <2>2. x \in ToSet(d.arm[a]) /\ a[1] \in d.handlers \cup OnCanvas(d)
    BY <1>1, <1>8, <2>1
  <2>3. CASE \E h \in Handlers : a = <<h, "body">>
    <3>1. PICK h \in Handlers : a = <<h, "body">>
      BY <2>3
    <3>2. a[1] = h
      BY <3>1
    <3>3. h \in d.handlers
      BY <1>2, <2>2, <3>2, BlockAssumption
    <3>4. x \in Body(d, h)
      BY <2>2, <3>1, RangeIsToSet DEF Body
    <3>5. QED
      BY <1>2, <3>3, <3>4 DEF Roots
  <2>4. CASE \E b \in Ifs, v \in {"then", "else"} : a = <<b, v>>
    <3>1. PICK b \in Ifs, v \in {"then", "else"} : a = <<b, v>>
      BY <2>4
    <3>2. b \in Blocks /\ a[1] = b /\ v \in Full \ {"socket"} /\ Full \in SUBSET Full
      BY <3>1 DEF Blocks, Full
    <3>3. b \in OnCanvas(d)
      BY <2>2, <3>2, StoredParts, BlockAssumption
    <3>4. x \in Inside(d, b, Full)
      BY <2>2, <3>1, <3>2, WithinIs
    <3>5. QED
      BY <1>2, <3>2, <3>3, <3>4 DEF Closed
  <2>5. QED
    BY <2>3, <2>4 DEF Arms
<1>9. ASSUME NEW k \in Sockets, t.socket[k] # NoBlock PROVE t.socket[k] \in OnCanvas(d)
  <2>1. k[1] \in OnCanvas(d) /\ t.socket[k] = d.socket[k]
    BY <1>1, <1>9
  <2>2. PICK b \in Blocks : k \in {b} \X Keys(b)
    BY DEF Sockets
  <2>6. PICK key \in Keys(b) : k = <<b, key>>
    BY <2>2
  <2>3. k[1] = b /\ "socket" \in Full /\ Full \in SUBSET Full
    BY <2>6 DEF Full
  <2>4. d.socket[k] \in Inside(d, b, Full)
    BY <1>9, <2>1, <2>2, <2>3, <2>6, WithinIs
  <2>5. QED
    BY <1>2, <2>1, <2>3, <2>4 DEF Closed
<1>10. InRuns(t) \subseteq OnCanvas(d)
  BY <1>1, <1>2 DEF Roots, InRuns
<1>11. HeldIn(t) \subseteq OnCanvas(d)
  BY <1>8, <1>9, <1>10, RangeIsToSet DEF HeldIn, InArms, InSockets
<1>12. QED
  BY <1>6, <1>7, <1>11

\* ParkedRuns that share no block.
RunsApart(P) ==
  /\ IsInjective(P) /\ \A run \in ToSet(P) : IsInjective(run)
  /\ \A run, other \in ToSet(P) : run # other => ToSet(run) \cap ToSet(other) = {}

OnceIn(d) ==
  /\ \A a \in Arms : IsInjective(d.arm[a])
  /\ \A a, c \in Arms : a # c => ToSet(d.arm[a]) \cap ToSet(d.arm[c]) = {}
  /\ \A k, l \in Sockets : d.socket[k] = d.socket[l] /\ k # l => d.socket[k] = NoBlock
  /\ RunsApart(d.parked)
  /\ \A a \in Arms, k \in Sockets : d.socket[k] \notin ToSet(d.arm[a])
  /\ \A run \in ToSet(d.parked) : /\ \A a \in Arms : ToSet(run) \cap ToSet(d.arm[a]) = {}
                                  /\ \A k \in Sockets : d.socket[k] \notin ToSet(run)

\* A block is held by an arm, a socket or a parked run.
LEMMA HeldIs ==
  ASSUME NEW d
  PROVE  /\ \A x : x \in HeldIn(d) <=> \/ \E a \in Arms : x \in ToSet(d.arm[a])
                                       \/ \E k \in Sockets : x = d.socket[k] /\ x # NoBlock
                                       \/ \E run \in ToSet(d.parked) : x \in ToSet(run)
         /\ \A x : x \in InArms(d) <=> \E a \in Arms : x \in ToSet(d.arm[a])
         /\ \A x : x \in InSockets(d) <=> \E k \in Sockets : x = d.socket[k] /\ x # NoBlock
         /\ \A x : x \in InRuns(d) <=> \E run \in ToSet(d.parked) : x \in ToSet(run)
<1>1. \A x : x \in InArms(d) <=> \E a \in Arms : x \in ToSet(d.arm[a])
  BY RangeIsToSet DEF InArms
<1>2. \A x : x \in InSockets(d) <=> \E k \in Sockets : x = d.socket[k] /\ x # NoBlock
  BY DEF InSockets
<1>3. \A x : x \in InRuns(d) <=> \E run \in ToSet(d.parked) : x \in ToSet(run)
  <2>1. \A x : x \in InRuns(d) <=> \E run \in Range(d.parked) : x \in Range(run)
    BY DEF InRuns
  <2>2. QED
    BY <2>1, RangeIsToSet
<1>4. QED
  BY <1>1, <1>2, <1>3 DEF HeldIn

\* No block in two places, stated over the places.
LEMMA UniqueIs ==
  ASSUME NEW d, Stored(d)
  PROVE  Unique(d) <=> OnceIn(d)
<1>1. /\ \A a \in Arms : ToSet(d.arm[a]) \in SUBSET Blocks
      /\ \A run \in ToSet(d.parked) : run # <<>> /\ ToSet(run) \in SUBSET Blocks /\ run \in Seq(Blocks)
      /\ NoBlock \notin Blocks
  BY StoredParts, BlockAssumption
<1>2. \A run \in ToSet(d.parked) : ToSet(run) # {}
  BY <1>1, LenProperties, EmptySeq DEF ToSet
<1>3. \A r \in DOMAIN d.parked : d.parked[r] \in ToSet(d.parked)
  BY DEF ToSet
<1>4. \A run \in ToSet(d.parked) : \E r \in DOMAIN d.parked : run = d.parked[r]
  BY DEF ToSet
<1>5. /\ \A r \in DOMAIN d.parked : IsInjective(d.parked[r])
      /\ \A r, q \in DOMAIN d.parked : r # q => Range(d.parked[r]) \cap Range(d.parked[q]) = {}
      <=> RunsApart(d.parked)
  <2>1. ASSUME \A r \in DOMAIN d.parked : IsInjective(d.parked[r]),
               \A r, q \in DOMAIN d.parked : r # q => Range(d.parked[r]) \cap Range(d.parked[q]) = {}
        PROVE  RunsApart(d.parked)
    <3>1. \A r, q \in DOMAIN d.parked : r # q => ToSet(d.parked[r]) \cap ToSet(d.parked[q]) = {}
      BY <2>1, RangeIsToSet
    <3>2. IsInjective(d.parked)
      BY <1>2, <1>3, <3>1 DEF IsInjective
    <3>3. \A run \in ToSet(d.parked) : IsInjective(run)
      BY <1>4, <2>1
    <3>4. \A run, other \in ToSet(d.parked) : run # other => ToSet(run) \cap ToSet(other) = {}
      BY <1>4, <3>1
    <3>5. QED
      BY <3>2, <3>3, <3>4 DEF RunsApart
  <2>2. ASSUME RunsApart(d.parked)
        PROVE  /\ \A r \in DOMAIN d.parked : IsInjective(d.parked[r])
               /\ \A r, q \in DOMAIN d.parked : r # q => Range(d.parked[r]) \cap Range(d.parked[q]) = {}
    <3>1. \A r, q \in DOMAIN d.parked : r # q => d.parked[r] # d.parked[q]
      BY <2>2 DEF RunsApart, IsInjective
    <3>2. \A r, q \in DOMAIN d.parked : r # q => ToSet(d.parked[r]) \cap ToSet(d.parked[q]) = {}
      BY <1>3, <2>2, <3>1 DEF RunsApart
    <3>3. QED
      BY <1>3, <2>2, <3>2, RangeIsToSet DEF RunsApart
  <2>3. QED
    BY <2>1, <2>2
<1>10. PICK IA, IS, IR : IA = InArms(d) /\ IS = InSockets(d) /\ IR = InRuns(d)
  OBVIOUS
<1>11. /\ \A x : x \in IA <=> \E a \in Arms : x \in ToSet(d.arm[a])
       /\ \A x : x \in IS <=> \E k \in Sockets : x = d.socket[k] /\ x # NoBlock
       /\ \A x : x \in IR <=> \E run \in ToSet(d.parked) : x \in ToSet(run)
  BY <1>10, HeldIs
<1>6. InArms(d) \cap InSockets(d) = {} <=> \A a \in Arms, k \in Sockets : d.socket[k] \notin ToSet(d.arm[a])
  <2>1. IA \cap IS = {} <=> \A x \in IA : x \notin IS
    OBVIOUS
  <2>2. \A a \in Arms : NoBlock \notin ToSet(d.arm[a])
    BY <1>1
  <2>3. (\A x \in IA : x \notin IS) <=> \A a \in Arms, k \in Sockets : d.socket[k] \notin ToSet(d.arm[a])
    BY <1>11, <2>2
  <2>4. QED
    BY <1>10, <2>1, <2>3
<1>7. (InArms(d) \cup InSockets(d)) \cap InRuns(d) = {} <=>
        \A run \in ToSet(d.parked) : /\ \A a \in Arms : ToSet(run) \cap ToSet(d.arm[a]) = {}
                                     /\ \A k \in Sockets : d.socket[k] \notin ToSet(run)
  <2>1. \A run \in ToSet(d.parked) : NoBlock \notin ToSet(run)
    BY <1>1
  <2>2. (IA \cup IS) \cap IR = {} <=> \A x \in IR : x \notin IA /\ x \notin IS
    OBVIOUS
  <2>3. (\A x \in IR : x \notin IA) <=> \A run \in ToSet(d.parked), a \in Arms : ToSet(run) \cap ToSet(d.arm[a]) = {}
    BY <1>11
  <2>4. (\A x \in IR : x \notin IS) <=> \A run \in ToSet(d.parked), k \in Sockets : d.socket[k] \notin ToSet(run)
    BY <1>11, <2>1
  <2>5. QED
    BY <1>10, <2>2, <2>3, <2>4
<1>8. \A a, c \in Arms : Range(d.arm[a]) = ToSet(d.arm[a]) /\ Range(d.arm[c]) = ToSet(d.arm[c])
  BY RangeIsToSet
<1>9. QED
  BY <1>5, <1>6, <1>7, <1>8 DEF Unique, OnceIn

(* Writing into a program: one arm, one socket, the list of parked runs.   *)
Spanned(P) == UNION {Range(run) : run \in Range(P)}
ParkedRuns == Seq(Seq(Blocks) \ {<<>>})
Sound(d) == Stored(d) /\ OnceIn(d)
ArmSet(d, a, s) == [d EXCEPT !.arm[a] = s]
SocketSet(d, k, e) == [d EXCEPT !.socket[k] = e]
RunsSet(d, P, Q) == [d EXCEPT !.parked = P, !.placed = Q]

\* The blocks of a list of runs.
LEMMA SpannedIs ==
  ASSUME NEW P
  PROVE  \A x : x \in Spanned(P) <=> \E run \in ToSet(P) : x \in ToSet(run)
<1>1. \A x : x \in Spanned(P) <=> \E run \in Range(P) : x \in Range(run)
  BY DEF Spanned
<1>2. QED
  BY <1>1, RangeIsToSet

\* An arm's list replaced by one whose blocks were in it or in no place.
LEMMA ArmPut ==
  ASSUME NEW d, Sound(d), NEW a \in Arms, NEW s \in Seq(Blocks), IsInjective(s),
         \A x \in ToSet(s) : x \in ToSet(d.arm[a]) \/ x \notin HeldIn(d),
         NEW n, n = ArmSet(d, a, s)
  PROVE  /\ Sound(n)
         /\ \A x : x \in HeldIn(n) <=> x \in HeldIn(d) \ ToSet(d.arm[a]) \/ x \in ToSet(s)
         /\ n.handlers = d.handlers /\ n.parked = d.parked /\ n.socket = d.socket /\ n.placed = d.placed
         /\ n.arm = [d.arm EXCEPT ![a] = s]
<1>0. Stored(d) /\ OnceIn(d)
  BY DEF Sound
<1>1. PICK A : A = [d.arm EXCEPT ![a] = s]
  OBVIOUS
<1>2. n = [handlers |-> d.handlers, arm |-> A, socket |-> d.socket, parked |-> d.parked, placed |-> d.placed]
  <2>1. n = [d EXCEPT !.arm = A]
    BY <1>1 DEF ArmSet
  <2>2. QED
    BY <1>0, <2>1, StoredParts
<1>3. A \in [Arms -> Seq(Blocks)] /\ \A c \in Arms : A[c] = IF c = a THEN s ELSE d.arm[c]
  BY <1>0, <1>1, StoredParts
<1>4. n.handlers = d.handlers /\ n.parked = d.parked /\ n.socket = d.socket /\ n.placed = d.placed /\ n.arm = A
  BY <1>2
<1>5. Stored(n)
  <2>1. /\ d.handlers \in SUBSET Handlers /\ d.parked \in Seq(Seq(Blocks) \ {<<>>}) /\ d.placed \in SUBSET Blocks
        /\ d.socket \in [Sockets -> Expressions \cup {NoBlock}]
    BY <1>0, StoredParts
  <2>2. Stored([handlers |-> d.handlers, arm |-> A, socket |-> d.socket, parked |-> d.parked, placed |-> d.placed])
    BY <1>3, <2>1, StoredIs
  <2>3. QED
    BY <1>2, <2>2
<1>6. /\ \A x : x \in HeldIn(d) <=> \/ \E c \in Arms : x \in ToSet(d.arm[c])
                                    \/ \E k \in Sockets : x = d.socket[k] /\ x # NoBlock
                                    \/ \E run \in ToSet(d.parked) : x \in ToSet(run)
      /\ \A x : x \in HeldIn(n) <=> \/ \E c \in Arms : x \in ToSet(n.arm[c])
                                    \/ \E k \in Sockets : x = n.socket[k] /\ x # NoBlock
                                    \/ \E run \in ToSet(n.parked) : x \in ToSet(run)
  <2>1. \A p, x : x \in HeldIn(p) <=>
        \/ \E c \in Arms : x \in ToSet(p.arm[c])
        \/ \E l \in Sockets : x = p.socket[l] /\ x # NoBlock
        \/ \E run \in ToSet(p.parked) : x \in ToSet(run)
    BY HeldIs
  <2>2. QED
    BY <2>1
<1>7. \A c \in Arms : n.arm[c] = IF c = a THEN s ELSE d.arm[c]
  BY <1>3, <1>4
<1>8. NoBlock \notin ToSet(s)
  <2>1. ToSet(s) \subseteq Blocks
    BY LenProperties, ElementOfSeq DEF ToSet
  <2>2. QED
    BY <2>1, BlockAssumption
<1>9. /\ \A c \in Arms \ {a} : ToSet(s) \cap ToSet(d.arm[c]) = {}
      /\ \A k \in Sockets : d.socket[k] \notin ToSet(s)
      /\ \A run \in ToSet(d.parked) : ToSet(run) \cap ToSet(s) = {}
  <2>2. \A c \in Arms \ {a} : ToSet(s) \cap ToSet(d.arm[c]) = {}
    BY <1>0, <1>6 DEF OnceIn
  <2>3. \A k \in Sockets : d.socket[k] \notin ToSet(s)
    BY <1>0, <1>6, <1>8 DEF OnceIn
  <2>4. \A run \in ToSet(d.parked) : ToSet(run) \cap ToSet(s) = {}
    BY <1>0, <1>6 DEF OnceIn
  <2>5. QED
    BY <2>2, <2>3, <2>4
<1>10. OnceIn(n)
  <2>1. \A c \in Arms : IsInjective(n.arm[c])
    BY <1>0, <1>7 DEF OnceIn
  <2>2. \A c, e \in Arms : c # e => ToSet(n.arm[c]) \cap ToSet(n.arm[e]) = {}
    BY <1>0, <1>7, <1>9 DEF OnceIn
  <2>3. \A c \in Arms, k \in Sockets : n.socket[k] \notin ToSet(n.arm[c])
    BY <1>0, <1>4, <1>7, <1>9 DEF OnceIn
  <2>4. \A run \in ToSet(n.parked), c \in Arms : ToSet(run) \cap ToSet(n.arm[c]) = {}
    BY <1>0, <1>4, <1>7, <1>9 DEF OnceIn
  <2>5. QED
    BY <1>0, <1>4, <2>1, <2>2, <2>3, <2>4 DEF OnceIn
<1>11. ASSUME NEW x PROVE x \in HeldIn(n) <=> x \in HeldIn(d) \ ToSet(d.arm[a]) \/ x \in ToSet(s)
  <2>1. x \in HeldIn(n) => x \in HeldIn(d) \ ToSet(d.arm[a]) \/ x \in ToSet(s)
    <3>1. ASSUME NEW c \in Arms, x \in ToSet(n.arm[c])
          PROVE  x \in HeldIn(d) \ ToSet(d.arm[a]) \/ x \in ToSet(s)
      <4>1. CASE c = a
        BY <1>7, <3>1, <4>1
      <4>2. CASE c # a
        <5>1. x \in ToSet(d.arm[c])
          BY <1>7, <3>1, <4>2
        <5>2. QED
          BY <1>0, <1>6, <4>2, <5>1 DEF OnceIn
      <4>3. QED
        BY <4>1, <4>2
    <3>2. ASSUME NEW k \in Sockets, x = n.socket[k], x # NoBlock PROVE x \in HeldIn(d) \ ToSet(d.arm[a])
      BY <1>0, <1>4, <1>6, <3>2 DEF OnceIn
    <3>3. ASSUME NEW run \in ToSet(n.parked), x \in ToSet(run) PROVE x \in HeldIn(d) \ ToSet(d.arm[a])
      BY <1>0, <1>4, <1>6, <3>3 DEF OnceIn
    <3>4. QED
      BY <1>6, <3>1, <3>2, <3>3
  <2>2. ASSUME x \in HeldIn(d), x \notin ToSet(d.arm[a]) PROVE x \in HeldIn(n)
    <3>1. CASE \E c \in Arms : x \in ToSet(d.arm[c])
      BY <1>6, <1>7, <2>2, <3>1
    <3>2. CASE ~\E c \in Arms : x \in ToSet(d.arm[c])
      BY <1>4, <1>6, <2>2, <3>2
    <3>3. QED
      BY <3>1, <3>2
  <2>3. x \in ToSet(s) => x \in HeldIn(n)
    BY <1>6, <1>7
  <2>4. QED
    BY <2>1, <2>2, <2>3
<1>12. QED
  BY <1>1, <1>4, <1>5, <1>10, <1>11 DEF Sound

\* A socket emptied, or given an expression that was in no place.
LEMMA SocketPut ==
  ASSUME NEW d, Sound(d), NEW k \in Sockets, NEW e \in Expressions \cup {NoBlock},
         e \notin HeldIn(d), NEW n, n = SocketSet(d, k, e)
  PROVE  /\ Sound(n)
         /\ \A x : x \in HeldIn(n) <=> x \in HeldIn(d) \ {d.socket[k]} \/ x \in {e} \ {NoBlock}
         /\ n.handlers = d.handlers /\ n.parked = d.parked /\ n.arm = d.arm /\ n.placed = d.placed
         /\ n.socket = [d.socket EXCEPT ![k] = e]
<1>0. Stored(d) /\ OnceIn(d)
  BY DEF Sound
<1>1. PICK K : K = [d.socket EXCEPT ![k] = e]
  OBVIOUS
<1>2. n = [handlers |-> d.handlers, arm |-> d.arm, socket |-> K, parked |-> d.parked, placed |-> d.placed]
  <2>1. n = [d EXCEPT !.socket = K]
    BY <1>1 DEF SocketSet
  <2>2. QED
    BY <1>0, <2>1, StoredParts
<1>3. K \in [Sockets -> Expressions \cup {NoBlock}] /\ \A l \in Sockets : K[l] = IF l = k THEN e ELSE d.socket[l]
  BY <1>0, <1>1, StoredParts
<1>4. n.handlers = d.handlers /\ n.parked = d.parked /\ n.socket = K /\ n.placed = d.placed /\ n.arm = d.arm
  BY <1>2
<1>5. Stored(n)
  <2>1. /\ d.handlers \in SUBSET Handlers /\ d.parked \in Seq(Seq(Blocks) \ {<<>>}) /\ d.placed \in SUBSET Blocks
        /\ d.arm \in [Arms -> Seq(Blocks)]
    BY <1>0, StoredParts
  <2>2. Stored([handlers |-> d.handlers, arm |-> d.arm, socket |-> K, parked |-> d.parked, placed |-> d.placed])
    BY <1>3, <2>1, StoredIs
  <2>3. QED
    BY <1>2, <2>2
<1>6. /\ \A x : x \in HeldIn(d) <=> \/ \E c \in Arms : x \in ToSet(d.arm[c])
                                    \/ \E l \in Sockets : x = d.socket[l] /\ x # NoBlock
                                    \/ \E run \in ToSet(d.parked) : x \in ToSet(run)
      /\ \A x : x \in HeldIn(n) <=> \/ \E c \in Arms : x \in ToSet(n.arm[c])
                                    \/ \E l \in Sockets : x = n.socket[l] /\ x # NoBlock
                                    \/ \E run \in ToSet(n.parked) : x \in ToSet(run)
  <2>1. \A p, x : x \in HeldIn(p) <=>
        \/ \E c \in Arms : x \in ToSet(p.arm[c])
        \/ \E l \in Sockets : x = p.socket[l] /\ x # NoBlock
        \/ \E run \in ToSet(p.parked) : x \in ToSet(run)
    BY HeldIs
  <2>2. QED
    BY <2>1
<1>7. \A l \in Sockets : n.socket[l] = IF l = k THEN e ELSE d.socket[l]
  BY <1>3, <1>4
<1>8. \A c \in Arms : e \notin ToSet(d.arm[c])
  BY <1>6
<1>9. \A run \in ToSet(d.parked) : e \notin ToSet(run)
  BY <1>6
<1>10. \A l \in Sockets : e = NoBlock \/ e # d.socket[l]
  BY <1>6
<1>11. OnceIn(n)
  <2>1. \A l, m \in Sockets : n.socket[l] = n.socket[m] /\ l # m => n.socket[l] = NoBlock
    BY <1>0, <1>7, <1>10 DEF OnceIn
  <2>2. \A c \in Arms, l \in Sockets : n.socket[l] \notin ToSet(n.arm[c])
    BY <1>0, <1>4, <1>7, <1>8 DEF OnceIn
  <2>3. \A run \in ToSet(n.parked), l \in Sockets : n.socket[l] \notin ToSet(run)
    BY <1>0, <1>4, <1>7, <1>9 DEF OnceIn
  <2>4. QED
    BY <1>0, <1>4, <2>1, <2>2, <2>3 DEF OnceIn
<1>12. ASSUME NEW x PROVE x \in HeldIn(n) <=> x \in HeldIn(d) \ {d.socket[k]} \/ x \in {e} \ {NoBlock}
  <2>1. ASSUME x \in HeldIn(n) PROVE x \in HeldIn(d) \ {d.socket[k]} \/ x \in {e} \ {NoBlock}
    <3>1. CASE \E c \in Arms : x \in ToSet(n.arm[c])
      BY <1>0, <1>4, <1>6, <3>1 DEF OnceIn
    <3>2. CASE \E l \in Sockets : x = n.socket[l] /\ x # NoBlock
      <4>1. PICK l \in Sockets : x = n.socket[l] /\ x # NoBlock
        BY <3>2
      <4>2. CASE l = k
        BY <1>7, <4>1, <4>2
      <4>3. CASE l # k
        <5>1. x = d.socket[l] /\ x # d.socket[k]
          BY <1>0, <1>7, <4>1, <4>3 DEF OnceIn
        <5>2. QED
          BY <1>6, <4>1, <5>1
      <4>4. QED
        BY <4>2, <4>3
    <3>3. CASE \E run \in ToSet(n.parked) : x \in ToSet(run)
      BY <1>0, <1>4, <1>6, <3>3 DEF OnceIn
    <3>4. QED
      BY <1>6, <2>1, <3>1, <3>2, <3>3
  <2>2. ASSUME x \in HeldIn(d), x # d.socket[k] PROVE x \in HeldIn(n)
    <3>1. CASE \E l \in Sockets : x = d.socket[l] /\ x # NoBlock
      BY <1>6, <1>7, <2>2, <3>1
    <3>2. CASE ~\E l \in Sockets : x = d.socket[l] /\ x # NoBlock
      BY <1>4, <1>6, <2>2, <3>2
    <3>3. QED
      BY <3>1, <3>2
  <2>3. x \in {e} \ {NoBlock} => x \in HeldIn(n)
    BY <1>6, <1>7
  <2>4. QED
    BY <2>1, <2>2, <2>3
<1>13. QED
  BY <1>1, <1>4, <1>5, <1>11, <1>12 DEF Sound

\* The list of parked runs replaced by one whose blocks were parked or in no place.
LEMMA RunsPut ==
  ASSUME NEW d, Sound(d), NEW P \in ParkedRuns, RunsApart(P), NEW Q \in SUBSET Blocks,
         \A x \in Spanned(P) : x \in Spanned(d.parked) \/ x \notin HeldIn(d),
         NEW n, n = RunsSet(d, P, Q)
  PROVE  /\ Sound(n)
         /\ \A x : x \in HeldIn(n) <=> x \in HeldIn(d) \ Spanned(d.parked) \/ x \in Spanned(P)
         /\ n.handlers = d.handlers /\ n.parked = P /\ n.arm = d.arm /\ n.socket = d.socket
<1>0. Stored(d) /\ OnceIn(d)
  BY DEF Sound
<1>1. n = [handlers |-> d.handlers, arm |-> d.arm, socket |-> d.socket, parked |-> P, placed |-> Q]
  <2>1. d = [handlers |-> d.handlers, arm |-> d.arm, socket |-> d.socket, parked |-> d.parked, placed |-> d.placed]
    BY <1>0, StoredParts
  <2>2. n = [d EXCEPT !.parked = P, !.placed = Q]
    BY DEF RunsSet
  <2>3. QED
    BY <2>1, <2>2
<1>2. n.handlers = d.handlers /\ n.parked = P /\ n.socket = d.socket /\ n.placed = Q /\ n.arm = d.arm
  BY <1>1
<1>3. Stored(n)
  <2>1. /\ d.handlers \in SUBSET Handlers /\ d.arm \in [Arms -> Seq(Blocks)]
        /\ d.socket \in [Sockets -> Expressions \cup {NoBlock}]
    BY <1>0, StoredParts
  <2>2. Stored([handlers |-> d.handlers, arm |-> d.arm, socket |-> d.socket, parked |-> P, placed |-> Q])
    BY <2>1, StoredIs DEF ParkedRuns
  <2>3. QED
    BY <1>1, <2>2
<1>4. /\ \A x : x \in HeldIn(d) <=> \/ \E c \in Arms : x \in ToSet(d.arm[c])
                                    \/ \E l \in Sockets : x = d.socket[l] /\ x # NoBlock
                                    \/ x \in Spanned(d.parked)
      /\ \A x : x \in HeldIn(n) <=> \/ \E c \in Arms : x \in ToSet(n.arm[c])
                                    \/ \E l \in Sockets : x = n.socket[l] /\ x # NoBlock
                                    \/ x \in Spanned(n.parked)
  <2>1. \A p, x : x \in HeldIn(p) <=>
        \/ \E c \in Arms : x \in ToSet(p.arm[c])
        \/ \E l \in Sockets : x = p.socket[l] /\ x # NoBlock
        \/ \E run \in ToSet(p.parked) : x \in ToSet(run)
    BY HeldIs
  <2>2. \A p, x : x \in HeldIn(p) <=>
        \/ \E c \in Arms : x \in ToSet(p.arm[c])
        \/ \E l \in Sockets : x = p.socket[l] /\ x # NoBlock
        \/ x \in Spanned(p.parked)
    BY <2>1, SpannedIs
  <2>3. QED
    BY <2>2
<1>5. \A x \in Spanned(d.parked) : (\A c \in Arms : x \notin ToSet(d.arm[c])) /\ \A l \in Sockets : x # d.socket[l]
  BY <1>0, SpannedIs DEF OnceIn
<1>6. \A x \in Spanned(P) : x \in Blocks
  <2>1. ASSUME NEW run \in ToSet(P) PROVE ToSet(run) \subseteq Blocks
    <3>1. run \in Seq(Blocks)
      BY LenProperties, ElementOfSeq DEF ToSet, ParkedRuns
    <3>2. QED
      BY <3>1, LenProperties, ElementOfSeq DEF ToSet
  <2>2. QED
    BY <2>1, SpannedIs
<1>7. \A x \in Spanned(P) : (\A c \in Arms : x \notin ToSet(d.arm[c])) /\ \A l \in Sockets : x # d.socket[l]
  <2>1. \A x \in Spanned(P) : x # NoBlock
    BY <1>6, BlockAssumption
  <2>2. QED
    BY <1>4, <1>5, <2>1
<1>8. OnceIn(n)
  <2>1. \A run \in ToSet(P) : /\ \A a \in Arms : ToSet(run) \cap ToSet(d.arm[a]) = {}
                              /\ \A k \in Sockets : d.socket[k] \notin ToSet(run)
    BY <1>7, SpannedIs
  <2>2. QED
    BY <1>0, <1>2, <2>1 DEF OnceIn
<1>9. ASSUME NEW x PROVE x \in HeldIn(n) <=> x \in HeldIn(d) \ Spanned(d.parked) \/ x \in Spanned(P)
  BY <1>2, <1>4, <1>5
<1>10. QED
  BY <1>2, <1>3, <1>8, <1>9 DEF Sound

(* Cutting and joining lists, and lists of runs.                            *)
LEMMA RunIsSeq ==
  ASSUME NEW V, NEW s \in Seq(V)
  PROVE  /\ Len(s) \in Nat /\ DOMAIN s = 1..Len(s) /\ ToSet(s) \in SUBSET V
         /\ (\A i \in 1..Len(s) : s[i] \in V)
         /\ s # <<>> => Len(s) > 0 /\ s[1] \in ToSet(s) /\ ToSet(s) # {}
         /\ \A x \in ToSet(s) : At(s, x) \in 1..Len(s) /\ s[At(s, x)] = x
<1>1. Len(s) \in Nat /\ DOMAIN s = 1..Len(s) /\ (\A i \in 1..Len(s) : s[i] \in V)
  BY LenProperties, ElementOfSeq
<1>2. s # <<>> => Len(s) > 0 /\ s[1] \in ToSet(s) /\ ToSet(s) # {}
  <2>1. s # <<>> => Len(s) > 0
    BY <1>1, EmptySeq
  <2>2. Len(s) > 0 => 1 \in DOMAIN s
    BY <1>1
  <2>3. 1 \in DOMAIN s => s[1] \in ToSet(s)
    BY DEF ToSet
  <2>4. QED
    BY <2>1, <2>2, <2>3
<1>3. ASSUME NEW x \in ToSet(s) PROVE At(s, x) \in 1..Len(s) /\ s[At(s, x)] = x
  <2>1. \E i \in DOMAIN s : s[i] = x
    BY DEF ToSet
  <2>2. At(s, x) \in DOMAIN s /\ s[At(s, x)] = x
    BY <2>1 DEF At
  <2>3. QED
    BY <1>1, <2>2
<1>4. QED
  BY <1>1, <1>2, <1>3 DEF ToSet

\* A list of one entry.
LEMMA OneRun ==
  ASSUME NEW V, NEW e \in V
  PROVE  <<e>> \in Seq(V) /\ <<e>> # <<>> /\ ToSet(<<e>>) = {e} /\ IsInjective(<<e>>) /\ <<e>>[1] = e
<1>1. <<e>> \in Seq(V) /\ <<e>> # <<>>
  BY OneElementSeq
<1>2. DOMAIN <<e>> = {1} /\ <<e>>[1] = e
  OBVIOUS
<1>3. QED
  BY <1>1, <1>2 DEF ToSet, IsInjective

\* A list with a run spliced in holds both, each once.
LEMMA SplicedEntries ==
  ASSUME NEW V, NEW s \in Seq(V), NEW at \in 0..Len(s), NEW run \in Seq(V)
  PROVE  /\ Splice(s, at, run) \in Seq(V)
         /\ ToSet(Splice(s, at, run)) = ToSet(s) \cup ToSet(run)
         /\ IsInjective(s) /\ IsInjective(run) /\ ToSet(s) \cap ToSet(run) = {} =>
              IsInjective(Splice(s, at, run))
<1>1. PICK k : k = at + 1
  OBVIOUS
<1>2. k \in 1..Len(s) + 1 /\ k - 1 = at
  BY <1>1, RunIsSeq
<1>3. PICK p, q : p = SubSeq(s, 1, k - 1) /\ q = SubSeq(s, k, Len(s))
  OBVIOUS
<1>4. /\ p \in Seq(V) /\ q \in Seq(V) /\ ToSet(p) \cup ToSet(q) = ToSet(s)
      /\ IsInjective(s) => IsInjective(p) /\ IsInjective(q) /\ ToSet(p) \cap ToSet(q) = {}
  BY <1>2, <1>3, PartEntries
<1>5. Splice(s, at, run) = (p \o run) \o q
  BY <1>1, <1>2, <1>3 DEF Splice
<1>6. PICK pr : pr = p \o run
  OBVIOUS
<1>7. /\ pr \in Seq(V) /\ ToSet(pr) = ToSet(p) \cup ToSet(run)
      /\ IsInjective(p) /\ IsInjective(run) /\ ToSet(p) \cap ToSet(run) = {} => IsInjective(pr)
  BY <1>4, <1>6, JoinedEntries
<1>8. /\ pr \o q \in Seq(V) /\ ToSet(pr \o q) = ToSet(pr) \cup ToSet(q)
      /\ IsInjective(pr) /\ IsInjective(q) /\ ToSet(pr) \cap ToSet(q) = {} => IsInjective(pr \o q)
  BY <1>4, <1>7, JoinedEntries
<1>9. QED
  BY <1>4, <1>5, <1>6, <1>7, <1>8

\* A list without its r-th entry.
LEMMA RemovedEntries ==
  ASSUME NEW V, NEW s \in Seq(V), NEW r \in 1..Len(s), IsInjective(s)
  PROVE  /\ RemoveAt(s, r) \in Seq(V) /\ IsInjective(RemoveAt(s, r))
         /\ ToSet(RemoveAt(s, r)) = ToSet(s) \ {s[r]}
<1>1. /\ RemoveAt(s, r) \in Seq(V) /\ Len(RemoveAt(s, r)) = Len(s) - 1
      /\ \A i \in 1..Len(s) - 1 : RemoveAt(s, r)[i] = IF i < r THEN s[i] ELSE s[i + 1]
  <2>1. r \in DOMAIN s
    BY RunIsSeq
  <2>2. QED
    BY <2>1, RemovedAt
<1>2. PICK t, n : t = RemoveAt(s, r) /\ n = Len(s)
  OBVIOUS
<1>3. /\ n \in Nat /\ r \in 1..n /\ DOMAIN t = 1..n - 1 /\ DOMAIN s = 1..n
      /\ \A i \in 1..n - 1 : t[i] = IF i < r THEN s[i] ELSE s[i + 1]
  BY <1>1, <1>2, RunIsSeq
<1>4. \A i, j \in 1..n : s[i] = s[j] => i = j
  BY <1>3 DEF IsInjective
<1>5. IsInjective(t)
  <2>1. ASSUME NEW i \in 1..n - 1, NEW j \in 1..n - 1, t[i] = t[j] PROVE i = j
    <3>1. i \in 1..n /\ i + 1 \in 1..n /\ j \in 1..n /\ j + 1 \in 1..n /\ i \in Int /\ j \in Int
      BY <1>3
    <3>2. PICK u, v : u = (IF i < r THEN i ELSE i + 1) /\ v = (IF j < r THEN j ELSE j + 1)
      OBVIOUS
    <3>3. u \in 1..n /\ v \in 1..n /\ s[u] = s[v]
      BY <1>3, <2>1, <3>1, <3>2
    <3>4. u = v
      BY <1>4, <3>3
    <3>5. QED
      BY <1>3, <3>1, <3>2, <3>4
  <2>2. QED
    BY <1>3, <2>1 DEF IsInjective
<1>6. \A x \in ToSet(t) : x \in ToSet(s) \ {s[r]}
  <2>1. SUFFICES ASSUME NEW i \in 1..n - 1 PROVE t[i] \in ToSet(s) \ {s[r]}
    BY <1>3 DEF ToSet
  <2>2. PICK u : u = (IF i < r THEN i ELSE i + 1)
    OBVIOUS
  <2>3. u \in 1..n /\ u # r /\ t[i] = s[u]
    BY <1>3, <2>2
  <2>4. QED
    BY <1>3, <1>4, <2>3 DEF ToSet
<1>7. \A x \in ToSet(s) \ {s[r]} : x \in ToSet(t)
  <2>1. SUFFICES ASSUME NEW u \in 1..n, s[u] # s[r] PROVE s[u] \in ToSet(t)
    BY <1>3 DEF ToSet
  <2>2. PICK i : i = IF u < r THEN u ELSE u - 1
    OBVIOUS
  <2>3. i \in 1..n - 1 /\ t[i] = s[u]
    BY <1>3, <2>1, <2>2
  <2>4. QED
    BY <1>3, <2>3 DEF ToSet
<1>8. QED
  BY <1>1, <1>2, <1>5, <1>6, <1>7

\* Parked runs are nonempty lists of blocks.
LEMMA RunsTyped ==
  ASSUME NEW P \in ParkedRuns
  PROVE  /\ Len(P) \in Nat /\ DOMAIN P = 1..Len(P)
         /\ \A r \in 1..Len(P) : P[r] \in Seq(Blocks) /\ P[r] # <<>> /\ P[r] \in ToSet(P)
                                   /\ P[r][1] \in ToSet(P[r])
         /\ \A run \in ToSet(P) : run \in Seq(Blocks) /\ run # <<>> /\ ToSet(run) \in SUBSET Blocks
                                   /\ ToSet(run) # {}
         /\ Spanned(P) \in SUBSET Blocks
<1>1. /\ Len(P) \in Nat /\ DOMAIN P = 1..Len(P) /\ ToSet(P) \in SUBSET (Seq(Blocks) \ {<<>>})
      /\ (\A i \in 1..Len(P) : P[i] \in Seq(Blocks) \ {<<>>})
  BY RunIsSeq DEF ParkedRuns
<1>2. ASSUME NEW run \in Seq(Blocks) \ {<<>>} PROVE run[1] \in ToSet(run) /\ ToSet(run) \in SUBSET Blocks
  <2>1. Len(run) \in Nat /\ Len(run) > 0 /\ DOMAIN run = 1..Len(run) /\ ToSet(run) \in SUBSET Blocks
    BY RunIsSeq
  <2>2. QED
    BY <2>1 DEF ToSet
<1>3. \A r \in 1..Len(P) : P[r] \in ToSet(P)
  BY <1>1 DEF ToSet
<1>4. \A x \in Spanned(P) : x \in Blocks
  BY <1>1, <1>2, SpannedIs
<1>5. QED
  BY <1>1, <1>2, <1>3, <1>4

\* Parking another run keeps the runs apart.
LEMMA RunsAppended ==
  ASSUME NEW P \in ParkedRuns, RunsApart(P), NEW run \in Seq(Blocks), run # <<>>, IsInjective(run),
         ToSet(run) \cap Spanned(P) = {}
  PROVE  /\ Append(P, run) \in ParkedRuns /\ RunsApart(Append(P, run))
         /\ \A x : x \in Spanned(Append(P, run)) <=> x \in Spanned(P) \/ x \in ToSet(run)
         /\ \A at \in 0..Len(P) :
              /\ Splice(P, at, <<run>>) \in ParkedRuns /\ RunsApart(Splice(P, at, <<run>>))
              /\ \A x : x \in Spanned(Splice(P, at, <<run>>)) <=> x \in Spanned(P) \/ x \in ToSet(run)
<1>1. PICK V : V = Seq(Blocks) \ {<<>>}
  OBVIOUS
<1>2. P \in Seq(V) /\ run \in V
  BY <1>1 DEF ParkedRuns
<1>3. <<run>> \in Seq(V) /\ ToSet(<<run>>) = {run} /\ IsInjective(<<run>>)
  BY <1>2, OneRun
<1>4. run \notin ToSet(P)
  <2>1. ToSet(run) # {}
    BY RunIsSeq
  <2>2. QED
    BY <2>1, SpannedIs
<1>5. ASSUME NEW R, R \in Seq(V), ToSet(R) = ToSet(P) \cup {run}, IsInjective(R)
      PROVE  R \in ParkedRuns /\ RunsApart(R) /\ \A x : x \in Spanned(R) <=> x \in Spanned(P) \/ x \in ToSet(run)
  <2>1. \A other \in ToSet(P) : ToSet(run) \cap ToSet(other) = {}
    BY SpannedIs
  <2>2. RunsApart(R)
    BY <1>5, <2>1 DEF RunsApart
  <2>3. ASSUME NEW x PROVE x \in Spanned(R) <=> x \in Spanned(P) \/ x \in ToSet(run)
    BY <1>5, SpannedIs
  <2>4. QED
    BY <1>1, <1>5, <2>2, <2>3 DEF ParkedRuns
<1>6. PICK one : one = <<run>>
  OBVIOUS
<1>10. one \in Seq(V) /\ IsInjective(one) /\ ToSet(one) = {run} /\ IsInjective(P) /\ ToSet(P) \cap ToSet(one) = {}
  BY <1>3, <1>4, <1>6 DEF RunsApart
<1>7. /\ Append(P, run) \in Seq(V) /\ ToSet(Append(P, run)) = ToSet(P) \cup {run}
      /\ IsInjective(Append(P, run))
  <2>1. Append(P, run) = P \o one
    BY <1>2, <1>6
  <2>2. /\ P \o one \in Seq(V) /\ ToSet(P \o one) = ToSet(P) \cup ToSet(one)
        /\ IsInjective(P \o one)
    BY <1>2, <1>10, JoinedEntries
  <2>3. QED
    BY <1>10, <2>1, <2>2
<1>8. ASSUME NEW at \in 0..Len(P)
      PROVE  /\ Splice(P, at, <<run>>) \in Seq(V) /\ ToSet(Splice(P, at, <<run>>)) = ToSet(P) \cup {run}
             /\ IsInjective(Splice(P, at, <<run>>))
  <2>1. /\ Splice(P, at, one) \in Seq(V) /\ ToSet(Splice(P, at, one)) = ToSet(P) \cup ToSet(one)
        /\ IsInjective(Splice(P, at, one))
    BY <1>2, <1>10, SplicedEntries
  <2>2. QED
    BY <1>6, <1>10, <2>1
<1>9. QED
  BY <1>5, <1>7, <1>8

\* Taking a parked run away keeps the runs apart.
LEMMA RunsRemoved ==
  ASSUME NEW P \in ParkedRuns, RunsApart(P), NEW r \in 1..Len(P)
  PROVE  /\ RemoveAt(P, r) \in ParkedRuns /\ RunsApart(RemoveAt(P, r))
         /\ \A x : x \in Spanned(RemoveAt(P, r)) <=> x \in Spanned(P) \ ToSet(P[r])
<1>1. PICK V : V = Seq(Blocks) \ {<<>>}
  OBVIOUS
<1>2. P \in Seq(V) /\ IsInjective(P)
  BY <1>1 DEF ParkedRuns, RunsApart
<1>3. PICK R : R = RemoveAt(P, r)
  OBVIOUS
<1>4. R \in Seq(V) /\ IsInjective(R) /\ ToSet(R) = ToSet(P) \ {P[r]}
  BY <1>2, <1>3, RemovedEntries
<1>5. RunsApart(R)
  BY <1>4 DEF RunsApart
<1>6. P[r] \in ToSet(P)
  BY RunsTyped
<1>7. ASSUME NEW x PROVE x \in Spanned(R) <=> x \in Spanned(P) \ ToSet(P[r])
  <2>1. x \in Spanned(R) <=> \E run \in ToSet(P) : run # P[r] /\ x \in ToSet(run)
    BY <1>4, SpannedIs
  <2>2. \A run \in ToSet(P) : run # P[r] => ToSet(run) \cap ToSet(P[r]) = {}
    BY <1>6 DEF RunsApart
  <2>3. QED
    BY <2>1, <2>2, SpannedIs
<1>8. QED
  BY <1>1, <1>3, <1>4, <1>5, <1>7 DEF ParkedRuns

\* A run cut in two: the front stays, the tail is parked behind the others.
TailFrom(s, cut) == SubSeq(s, cut + 1, Len(s))
CutRun(P, r, cut, tail) == Append([P EXCEPT ![r] = SubSeq(P[r], 1, cut)], tail)

\* Cutting a parked run in two keeps every block of it, once.
LEMMA RunsSplit ==
  ASSUME NEW P \in ParkedRuns, RunsApart(P), NEW r \in 1..Len(P), NEW cut \in 1..Len(P[r]) - 1,
         NEW tail, tail = TailFrom(P[r], cut),
         NEW R, R = CutRun(P, r, cut, tail)
  PROVE  /\ R \in ParkedRuns /\ RunsApart(R) /\ (\A x : x \in Spanned(R) <=> x \in Spanned(P))
         /\ tail \in Seq(Blocks) /\ tail # <<>> /\ tail[1] \in Blocks
<1>1. PICK s, n : s = P[r] /\ n = Len(s)
  OBVIOUS
<1>2. /\ s \in Seq(Blocks) /\ n \in Nat /\ DOMAIN s = 1..n /\ cut \in 1..n - 1 /\ s \in ToSet(P)
      /\ Len(P) \in Nat /\ DOMAIN P = 1..Len(P)
  <2>1. s \in Seq(Blocks) /\ s \in ToSet(P) /\ Len(P) \in Nat /\ DOMAIN P = 1..Len(P)
    BY <1>1, RunsTyped
  <2>2. n \in Nat /\ DOMAIN s = 1..n
    BY <1>1, <2>1, RunIsSeq
  <2>3. QED
    BY <1>1, <2>1, <2>2
<1>3. PICK front : front = SubSeq(s, 1, cut)
  OBVIOUS
<1>4. /\ front \in Seq(Blocks) /\ tail \in Seq(Blocks) /\ ToSet(front) \cup ToSet(tail) = ToSet(s)
      /\ IsInjective(front) /\ IsInjective(tail) /\ ToSet(front) \cap ToSet(tail) = {}
  <2>1. PICK k : k = cut + 1
    OBVIOUS
  <2>2. k \in 1..n + 1 /\ k - 1 = cut
    BY <1>2, <2>1
  <2>3. front = SubSeq(s, 1, k - 1) /\ tail = SubSeq(s, k, Len(s)) /\ IsInjective(s)
    BY <1>1, <1>2, <1>3, <2>1, <2>2 DEF RunsApart, TailFrom
  <2>4. QED
    BY <1>1, <1>2, <2>2, <2>3, PartEntries
<1>5. front # <<>> /\ tail # <<>> /\ tail[1] \in Blocks
  <2>1. Len(front) = cut /\ Len(tail) = n - cut
    BY <1>1, <1>2, <1>3 DEF TailFrom
  <2>2. Len(front) > 0 /\ Len(tail) > 0
    BY <1>2, <2>1
  <2>3. QED
    <3>1. front # <<>>
      <4>1. Len(<<>>) = 0
        OBVIOUS
      <4>2. QED
        BY <2>2, <4>1
    <3>2. tail # <<>>
      <4>1. Len(<<>>) = 0
        OBVIOUS
      <4>2. QED
        BY <2>2, <4>1
    <3>3. tail \in Seq(Blocks)
      BY <1>4
    <3>4. tail[1] \in ToSet(tail) /\ ToSet(tail) \in SUBSET Blocks
      BY <3>2, <3>3, RunIsSeq
    <3>5. QED
      BY <3>1, <3>2, <3>4
<1>6. PICK O : O = [P EXCEPT ![r] = front]
  OBVIOUS
<1>7. R = Append(O, tail)
  BY <1>1, <1>3, <1>6 DEF CutRun
<1>8. PICK V : V = Seq(Blocks) \ {<<>>}
  OBVIOUS
<1>9. /\ O \in Seq(V) /\ Len(O) = Len(P) /\ DOMAIN O = 1..Len(P)
      /\ \A q \in 1..Len(P) : O[q] = IF q = r THEN front ELSE P[q]
  <2>1. P \in [1..Len(P) -> V]
    BY <1>8, LenProperties DEF ParkedRuns
  <2>2. O \in [1..Len(P) -> V]
    BY <1>4, <1>5, <1>6, <1>8, <2>1
  <2>3. O \in Seq(V) /\ Len(O) = Len(P)
    BY <1>2, <2>2, FunctionIsSeq
  <2>4. QED
    BY <1>6, <2>1, <2>2, <2>3
<1>10. \A q, p \in 1..Len(P) : q # p => ToSet(P[q]) \cap ToSet(P[p]) = {} /\ P[q] # P[p]
  <2>1. \A q \in 1..Len(P) : P[q] \in ToSet(P)
    BY RunsTyped
  <2>2. \A q, p \in 1..Len(P) : q # p => P[q] # P[p]
    BY <1>2 DEF RunsApart, IsInjective
  <2>3. QED
    BY <2>1, <2>2 DEF RunsApart
<1>11. \A q, p \in 1..Len(P) : q # p => ToSet(O[q]) \cap ToSet(O[p]) = {}
  BY <1>1, <1>4, <1>9, <1>10
<1>12. \A q \in 1..Len(P) : ToSet(O[q]) # {} /\ IsInjective(O[q])
  <2>1. ASSUME NEW q \in 1..Len(P) PROVE ToSet(O[q]) # {}
    <3>1. O[q] \in V
      BY <1>9, RunIsSeq
    <3>2. O[q] \in Seq(Blocks) /\ O[q] # <<>>
      BY <1>8, <3>1
    <3>3. QED
      BY <3>2, RunIsSeq
  <2>2. \A q \in 1..Len(P) : P[q] \in ToSet(P)
    BY RunsTyped
  <2>3. QED
    BY <1>4, <1>9, <2>1, <2>2 DEF RunsApart
<1>13. RunsApart(O)
  <2>1. IsInjective(O)
    BY <1>9, <1>11, <1>12 DEF IsInjective
  <2>2. \A run \in ToSet(O) : \E q \in 1..Len(P) : run = O[q]
    BY <1>9 DEF ToSet
  <2>3. \A run \in ToSet(O) : IsInjective(run)
    BY <1>12, <2>2
  <2>4. \A run, other \in ToSet(O) : run # other => ToSet(run) \cap ToSet(other) = {}
    BY <1>11, <2>2
  <2>5. QED
    BY <2>1, <2>3, <2>4 DEF RunsApart
<1>14. /\ \A x : x \in Spanned(O) <=> \E q \in 1..Len(P) : x \in ToSet(O[q])
       /\ \A x : x \in Spanned(P) <=> \E q \in 1..Len(P) : x \in ToSet(P[q])
  <2>4. \A R0, run : run \in ToSet(R0) <=> \E q \in DOMAIN R0 : run = R0[q]
    BY DEF ToSet
  <2>1. \A x : x \in Spanned(O) <=> \E q \in DOMAIN O : x \in ToSet(O[q])
    BY <2>4, SpannedIs
  <2>2. \A x : x \in Spanned(P) <=> \E q \in DOMAIN P : x \in ToSet(P[q])
    BY <2>4, SpannedIs
  <2>3. QED
    BY <1>2, <1>9, <2>1, <2>2
<1>15. ToSet(tail) \cap Spanned(O) = {}
  <2>1. \A q \in 1..Len(P) : ToSet(tail) \cap ToSet(O[q]) = {}
    BY <1>1, <1>4, <1>9, <1>10
  <2>2. QED
    BY <1>14, <2>1
<1>16. O \in ParkedRuns
  BY <1>8, <1>9 DEF ParkedRuns
<1>17. /\ R \in ParkedRuns /\ RunsApart(R)
       /\ \A x : x \in Spanned(R) <=> x \in Spanned(O) \/ x \in ToSet(tail)
  <2>1. tail \in Seq(Blocks) /\ tail # <<>> /\ IsInjective(tail)
    BY <1>4, <1>5
  <2>2. /\ Append(O, tail) \in ParkedRuns /\ RunsApart(Append(O, tail))
        /\ \A x : x \in Spanned(Append(O, tail)) <=> x \in Spanned(O) \/ x \in ToSet(tail)
    BY <1>13, <1>15, <1>16, <2>1, RunsAppended
  <2>3. QED
    BY <1>7, <2>2
<1>18. ASSUME NEW x PROVE x \in Spanned(R) <=> x \in Spanned(P)
  <2>1. x \in Spanned(R) <=> (\E q \in 1..Len(P) : x \in ToSet(O[q])) \/ x \in ToSet(tail)
    BY <1>14, <1>17
  <2>2. x \in Spanned(P) <=> \E q \in 1..Len(P) : x \in ToSet(P[q])
    BY <1>14
  <2>3. \A q \in 1..Len(P) : x \in ToSet(P[q]) <=> x \in ToSet(O[q]) \/ (q = r /\ x \in ToSet(tail))
    BY <1>1, <1>4, <1>9
  <2>4. QED
    BY <2>1, <2>2, <2>3
<1>19. QED
  BY <1>4, <1>5, <1>17, <1>18

-----------------------------------------------------------------------------
(* The operations of blocks.ts.                                             *)
LEMMA ClampIs ==
  ASSUME NEW V, NEW s \in Seq(V), NEW i \in Nat
  PROVE  Clamp(i, s) \in 0..Len(s)
<1>1. Len(s) \in Nat
  BY LenProperties
<1>2. QED
  BY <1>1 DEF Clamp

\* A list spliced into an arm.
SplicedIn(d, a, at, run) == [d EXCEPT !.arm[a] = Splice(@, at, run)]

\* Splicing a run of blocks held nowhere else into an arm.
LEMMA Spliced ==
  ASSUME NEW d, Sound(d), NEW a \in Arms, NEW at \in 0..Len(d.arm[a]), NEW run \in Seq(Blocks),
         IsInjective(run), ToSet(run) \cap HeldIn(d) = {},
         NEW n, n = SplicedIn(d, a, at, run)
  PROVE  /\ Sound(n)
         /\ \A x : x \in HeldIn(n) <=> x \in HeldIn(d) \/ x \in ToSet(run)
         /\ n.handlers = d.handlers /\ n.parked = d.parked /\ n.socket = d.socket /\ n.placed = d.placed
         /\ n.arm = [d.arm EXCEPT ![a] = Splice(@, at, run)]
<1>1. PICK s : s = Splice(d.arm[a], at, run)
  OBVIOUS
<1>2. d.arm[a] \in Seq(Blocks) /\ IsInjective(d.arm[a])
  BY StoredParts DEF Sound, OnceIn
<1>3. \A x \in ToSet(d.arm[a]) : x \in HeldIn(d)
  BY HeldIs
<1>4. s \in Seq(Blocks) /\ ToSet(s) = ToSet(d.arm[a]) \cup ToSet(run) /\ IsInjective(s)
  BY <1>1, <1>2, <1>3, SplicedEntries
<1>5. n = ArmSet(d, a, s)
  BY <1>1 DEF ArmSet, SplicedIn
<1>7. \A x \in ToSet(s) : x \in ToSet(d.arm[a]) \/ x \notin HeldIn(d)
  BY <1>4
<1>6. /\ Sound(n)
      /\ \A x : x \in HeldIn(n) <=> x \in HeldIn(d) \ ToSet(d.arm[a]) \/ x \in ToSet(s)
      /\ n.handlers = d.handlers /\ n.parked = d.parked /\ n.socket = d.socket /\ n.placed = d.placed
      /\ n.arm = [d.arm EXCEPT ![a] = s]
  BY <1>4, <1>5, <1>7, ArmPut
<1>8. QED
  BY <1>1, <1>3, <1>4, <1>6

\* addStatement puts a new block in one place.
LEMMA AddStatementSound ==
  ASSUME NEW d, Sound(d), NEW h, NEW t, t.arm \in Arms, t.index \in Nat,
         NEW b \in Blocks, b \notin HeldIn(d)
  PROVE  Sound(AddStatement(d, h, t, b))
<1>1. CASE TargetExists(d, h, t)
  <2>1. PICK at : at = Clamp(t.index, d.arm[t.arm])
    OBVIOUS
  <2>2. at \in 0..Len(d.arm[t.arm])
    BY <2>1, StoredParts, ClampIs DEF Sound
  <2>6. PICK a, run : a = t.arm /\ run = <<b>>
    OBVIOUS
  <2>3. run \in Seq(Blocks) /\ IsInjective(run) /\ ToSet(run) \cap HeldIn(d) = {}
    BY <2>6, OneRun
  <2>7. a \in Arms /\ at \in 0..Len(d.arm[a])
    BY <2>2, <2>6
  <2>4. Sound(SplicedIn(d, a, at, run))
    BY <2>3, <2>7, Spliced
  <2>5. QED
    BY <1>1, <2>1, <2>4, <2>6 DEF AddStatement, SplicedIn
<1>2. CASE ~TargetExists(d, h, t)
  BY <1>2 DEF AddStatement
<1>3. QED
  BY <1>1, <1>2

\* A block in an arm, the run that starts at it, and what lies above.
Above(d, b) == SubSeq(d.arm[ArmOf(d, b)], 1, At(d.arm[ArmOf(d, b)], b) - 1)

\* A block and its siblings below it, and what stays above.
LEMMA RunFromIs ==
  ASSUME NEW d, Sound(d), NEW b, InArm(d, b), NEW a, a = ArmOf(d, b), NEW s, s = d.arm[a],
         NEW i, i = At(s, b), NEW run, run = RunFrom(d, b)
  PROVE  /\ a \in Arms /\ s \in Seq(Blocks) /\ IsInjective(s) /\ Len(s) \in Nat
         /\ i \in 1..Len(s) /\ s[i] = b /\ b \in ToSet(s) /\ b \in Blocks
         /\ run \in Seq(Blocks) /\ run # <<>> /\ IsInjective(run) /\ Len(run) = Len(s) - i + 1
         /\ Above(d, b) \in Seq(Blocks) /\ IsInjective(Above(d, b))
         /\ ToSet(Above(d, b)) \cup ToSet(run) = ToSet(s)
         /\ ToSet(Above(d, b)) \cap ToSet(run) = {}
<1>1. a \in Arms /\ Holds(d, a, b)
  BY DEF InArm, ArmOf
<1>2. s \in Seq(Blocks) /\ IsInjective(s) /\ b \in ToSet(s)
  BY <1>1, StoredParts, RangeIsToSet DEF Sound, OnceIn, Holds
<1>3. Len(s) \in Nat /\ i \in 1..Len(s) /\ s[i] = b /\ b \in Blocks
  BY <1>2, RunIsSeq
<1>4. run = SubSeq(s, i, Len(s))
  BY DEF RunFrom
<1>5. i \in 1..Len(s) + 1
  BY <1>3
<1>6. /\ Above(d, b) \in Seq(Blocks) /\ run \in Seq(Blocks)
      /\ ToSet(Above(d, b)) \cup ToSet(run) = ToSet(s)
      /\ IsInjective(Above(d, b)) /\ IsInjective(run)
      /\ ToSet(Above(d, b)) \cap ToSet(run) = {}
  <2>1. /\ SubSeq(s, 1, i - 1) \in Seq(Blocks) /\ run \in Seq(Blocks)
        /\ ToSet(SubSeq(s, 1, i - 1)) \cup ToSet(run) = ToSet(s)
        /\ IsInjective(SubSeq(s, 1, i - 1)) /\ IsInjective(run)
        /\ ToSet(SubSeq(s, 1, i - 1)) \cap ToSet(run) = {}
    BY <1>2, <1>4, <1>5, PartEntries
  <2>2. Above(d, b) = SubSeq(s, 1, i - 1)
    BY DEF Above
  <2>3. QED
    BY <2>1, <2>2
<1>7. Len(run) = Len(s) - i + 1
  BY <1>2, <1>3, <1>4
<1>8. run # <<>>
  BY <1>3, <1>6, <1>7, EmptySeq
<1>9. QED
  BY <1>1, <1>2, <1>3, <1>6, <1>7, <1>8

\* The run cut off its arm.
LEMMA RunCut ==
  ASSUME NEW d, Sound(d), NEW b, InArm(d, b),
         NEW n, n = ArmSet(d, ArmOf(d, b), Above(d, b))
  PROVE  /\ Sound(n) /\ ToSet(RunFrom(d, b)) \cap HeldIn(n) = {} /\ n.parked = d.parked
         /\ n.placed = d.placed /\ n.handlers = d.handlers /\ n.socket = d.socket
<1>1. PICK a, s, run, front : a = ArmOf(d, b) /\ s = d.arm[a] /\ run = RunFrom(d, b) /\ front = Above(d, b)
  OBVIOUS
<1>2. PICK i : i = At(s, b)
  OBVIOUS
<1>3. /\ a \in Arms /\ front \in Seq(Blocks) /\ IsInjective(front) /\ ToSet(front) \cup ToSet(run) = ToSet(s)
      /\ ToSet(front) \cap ToSet(run) = {}
  BY <1>1, <1>2, RunFromIs
<1>4. \A x \in ToSet(front) : x \in ToSet(d.arm[a])
  BY <1>1, <1>3
<1>5. n = ArmSet(d, a, front)
  BY <1>1
<1>9. front \in Seq(Blocks) /\ IsInjective(front) /\ a \in Arms
  BY <1>3
<1>10. \A x \in ToSet(front) : x \in ToSet(d.arm[a]) \/ x \notin HeldIn(d)
  BY <1>4
<1>11. Sound(n)
  BY <1>5, <1>9, <1>10, ArmPut
<1>12. \A x : x \in HeldIn(n) <=> x \in HeldIn(d) \ ToSet(d.arm[a]) \/ x \in ToSet(front)
  BY <1>5, <1>9, <1>10, ArmPut
<1>13. n.handlers = d.handlers /\ n.parked = d.parked /\ n.socket = d.socket /\ n.placed = d.placed
  BY <1>5, StoredParts DEF ArmSet, Sound
<1>7. ToSet(run) \cap HeldIn(n) = {}
  BY <1>1, <1>3, <1>12
<1>8. QED
  BY <1>1, <1>7, <1>11, <1>13

\* moveRun leaves each block in one place.
LEMMA MoveRunSound ==
  ASSUME NEW d, Sound(d), NEW h, NEW b, NEW th, NEW t, t.arm \in Arms, t.index \in Nat
  PROVE  Sound(MoveRun(d, h, b, th, t))
<1>1. CASE Locates(d, h, b) /\ t.arm[1] \notin Range(RunFrom(d, b))
  <2>1. PICK a, s, i, run, front : /\ a = ArmOf(d, b) /\ s = d.arm[a] /\ i = At(s, b) - 1
                                   /\ run = RunFrom(d, b) /\ front = SubSeq(s, 1, i)
    OBVIOUS
  <2>2. PICK cut : cut = ArmSet(d, a, front)
    OBVIOUS
  <2>3. PICK index : index = IF t.arm = a /\ i < t.index
                             THEN IF t.index < Len(run) THEN 0 ELSE t.index - Len(run)
                             ELSE t.index
    OBVIOUS
  <2>4. MoveRun(d, h, b, th, t) = IF TargetExists(cut, th, t)
                                  THEN [cut EXCEPT !.arm[t.arm] = Splice(@, Clamp(index, @), run)]
                                  ELSE d
    BY <1>1, <2>1, <2>2, <2>3 DEF MoveRun, ArmSet
  <2>5. InArm(d, b)
    BY <1>1 DEF Locates
  <2>6. run \in Seq(Blocks) /\ IsInjective(run)
    BY <2>1, <2>5, RunFromIs
  <2>15. cut = ArmSet(d, ArmOf(d, b), Above(d, b))
    BY <2>1, <2>2 DEF Above
  <2>7. Sound(cut) /\ ToSet(run) \cap HeldIn(cut) = {}
    BY <2>1, <2>5, <2>15, RunCut
  <2>8. index \in Nat
    <3>1. Len(run) \in Nat
      BY <2>6, LenProperties
    <3>2. QED
      BY <2>3, <3>1
  <2>9. PICK at : at = Clamp(index, cut.arm[t.arm])
    OBVIOUS
  <2>10. at \in 0..Len(cut.arm[t.arm])
    BY <2>7, <2>8, <2>9, StoredParts, ClampIs DEF Sound
  <2>13. PICK c : c = t.arm
    OBVIOUS
  <2>14. c \in Arms /\ at \in 0..Len(cut.arm[c])
    BY <2>10, <2>13
  <2>11. Sound(SplicedIn(cut, c, at, run))
    BY <2>6, <2>7, <2>14, Spliced
  <2>12. QED
    BY <2>4, <2>9, <2>11, <2>13 DEF SplicedIn
<1>2. CASE ~(Locates(d, h, b) /\ t.arm[1] \notin Range(RunFrom(d, b)))
  BY <1>2 DEF MoveRun
<1>3. QED
  BY <1>1, <1>2

\* A run that is in no place parked behind the others.
ParkedBehind(d, run, Q) == [d EXCEPT !.parked = Append(@, run), !.placed = Q]

\* Parking a run of blocks held nowhere else.
LEMMA Parked ==
  ASSUME NEW d, Sound(d), NEW run \in Seq(Blocks), run # <<>>, IsInjective(run),
         ToSet(run) \cap HeldIn(d) = {}, NEW Q \in SUBSET Blocks
  PROVE  Sound(ParkedBehind(d, run, Q))
<1>1. PICK P : P = Append(d.parked, run)
  OBVIOUS
<1>2. d.parked \in ParkedRuns /\ RunsApart(d.parked)
  BY StoredParts DEF Sound, OnceIn, ParkedRuns
<1>3. ToSet(run) \cap Spanned(d.parked) = {}
  BY HeldIs, SpannedIs
<1>5. P \in ParkedRuns /\ RunsApart(P) /\ \A x : x \in Spanned(P) <=> x \in Spanned(d.parked) \/ x \in ToSet(run)
  BY <1>1, <1>2, <1>3, RunsAppended
<1>6. \A x \in Spanned(P) : x \in Spanned(d.parked) \/ x \notin HeldIn(d)
  BY <1>5
<1>8. Sound(RunsSet(d, P, Q))
  BY <1>5, <1>6, RunsPut
<1>7. QED
  BY <1>1, <1>8 DEF RunsSet, ParkedBehind

\* addParked puts a new block in one place.
LEMMA AddParkedSound ==
  ASSUME NEW d, Sound(d), NEW b \in Blocks, b \notin HeldIn(d)
  PROVE  Sound(AddParked(d, b))
<1>1. <<b>> \in Seq(Blocks) /\ <<b>> # <<>> /\ IsInjective(<<b>>) /\ ToSet(<<b>>) \cap HeldIn(d) = {}
  BY OneRun
<1>2. d.placed \cup {b} \in SUBSET Blocks
  BY StoredParts DEF Sound
<1>3. Sound(ParkedBehind(d, <<b>>, d.placed \cup {b}))
  BY <1>1, <1>2, Parked
<1>4. QED
  BY <1>3 DEF AddParked, ParkedBehind

\* parkRun leaves each block in one place.
LEMMA ParkRunSound ==
  ASSUME NEW d, Sound(d), NEW h, NEW b
  PROVE  Sound(ParkRun(d, h, b))
<1>1. CASE Locates(d, h, b)
  <2>1. PICK a, s, i, run, front : /\ a = ArmOf(d, b) /\ s = d.arm[a] /\ i = At(s, b)
                                   /\ run = RunFrom(d, b) /\ front = SubSeq(s, 1, i - 1)
    OBVIOUS
  <2>2. InArm(d, b)
    BY <1>1 DEF Locates
  <2>3. /\ a \in Arms /\ Len(s) \in Nat /\ i \in 1..Len(s) /\ b \in Blocks
        /\ run \in Seq(Blocks) /\ run # <<>> /\ IsInjective(run) /\ Len(run) = Len(s) - i + 1
    BY <2>1, <2>2, RunFromIs
  <2>4. Len(s) - Len(run) = i - 1
    BY <2>3
  <2>5. PICK cut : cut = ArmSet(d, a, front)
    OBVIOUS
  <2>12. cut = ArmSet(d, ArmOf(d, b), Above(d, b))
    BY <2>1, <2>5 DEF Above
  <2>6. Sound(cut) /\ ToSet(run) \cap HeldIn(cut) = {} /\ cut.parked = d.parked /\ cut.placed = d.placed
    BY <2>1, <2>2, <2>12, RunCut
  <2>7. d.placed \cup {b} \in SUBSET Blocks
    BY <2>3, StoredParts DEF Sound
  <2>8. Sound(ParkedBehind(cut, run, d.placed \cup {b}))
    BY <2>3, <2>6, <2>7, Parked
  <2>9. ParkRun(d, h, b) = [d EXCEPT !.arm[a] = front, !.parked = Append(@, run), !.placed = @ \cup {b}]
    BY <1>1, <2>1, <2>4 DEF ParkRun
  <2>10. [d EXCEPT !.arm[a] = front, !.parked = Append(@, run), !.placed = @ \cup {b}]
           = [cut EXCEPT !.parked = Append(@, run), !.placed = d.placed \cup {b}]
    BY <2>5, StoredParts DEF Sound, ArmSet
  <2>11. QED
    BY <2>8, <2>9, <2>10 DEF ParkedBehind
<1>2. CASE ~Locates(d, h, b)
  BY <1>2 DEF ParkRun
<1>3. QED
  BY <1>1, <1>2

\* A parked run by its lead.
LEMMA LeadIs ==
  ASSUME NEW d, Sound(d), NEW lead, IsLead(d, lead)
  PROVE  /\ d.parked \in ParkedRuns /\ RunsApart(d.parked) /\ RunOf(d, lead) \in 1..Len(d.parked)
         /\ d.parked[RunOf(d, lead)] \in Seq(Blocks) /\ d.parked[RunOf(d, lead)] # <<>>
         /\ IsInjective(d.parked[RunOf(d, lead)]) /\ d.parked[RunOf(d, lead)][1] = lead
         /\ d.parked[RunOf(d, lead)] \in ToSet(d.parked)
         /\ Len(d.parked[RunOf(d, lead)]) \in Nat
<1>1. d.parked \in ParkedRuns /\ RunsApart(d.parked)
  BY StoredParts DEF Sound, OnceIn, ParkedRuns
<1>2. RunOf(d, lead) \in DOMAIN d.parked /\ d.parked[RunOf(d, lead)][1] = lead
  BY DEF IsLead, RunOf
<1>3. QED
  BY <1>1, <1>2, RunsTyped, LenProperties DEF RunsApart

\* splitParkedRun leaves each block in one place.
LEMMA SplitSound ==
  ASSUME NEW d, Sound(d), NEW lead, NEW offset \in Nat
  PROVE  Sound(SplitParkedRun(d, lead, offset))
<1>1. CASE IsLead(d, lead) /\ offset > 0 /\ offset < Len(d.parked[RunOf(d, lead)])
  <2>1. PICK r, tail, P : r = RunOf(d, lead) /\ tail = TailFrom(d.parked[r], offset) /\ P = CutRun(d.parked, r, offset, tail)
    OBVIOUS
  <2>2. d.parked \in ParkedRuns /\ RunsApart(d.parked) /\ r \in 1..Len(d.parked) /\ Len(d.parked[r]) \in Nat
    BY <1>1, <2>1, LeadIs
  <2>3. offset \in 1..Len(d.parked[r]) - 1
    BY <1>1, <2>1, <2>2
  <2>4. P \in ParkedRuns /\ RunsApart(P) /\ (\A x : x \in Spanned(P) <=> x \in Spanned(d.parked)) /\ tail[1] \in Blocks
    BY <2>1, <2>2, <2>3, RunsSplit
  <2>5. PICK Q : Q = d.placed \cup {tail[1]}
    OBVIOUS
  <2>6. (\A x \in Spanned(P) : x \in Spanned(d.parked) \/ x \notin HeldIn(d)) /\ Q \in SUBSET Blocks
    BY <2>4, <2>5, StoredParts DEF Sound
  <2>7. Sound(RunsSet(d, P, Q))
    BY <2>4, <2>6, RunsPut
  <2>8. SplitParkedRun(d, lead, offset) = [d EXCEPT !.parked = CutRun(@, r, offset, tail), !.placed = @ \cup {tail[1]}]
    BY <1>1, <2>1 DEF SplitParkedRun, CutRun, TailFrom
  <2>10. SplitParkedRun(d, lead, offset) = RunsSet(d, P, Q)
    BY <2>1, <2>5, <2>8 DEF RunsSet
  <2>9. QED
    BY <2>7, <2>10
<1>2. CASE ~(IsLead(d, lead) /\ offset > 0 /\ offset < Len(d.parked[RunOf(d, lead)]))
  BY <1>2 DEF SplitParkedRun
<1>3. QED
  BY <1>1, <1>2

\* A parked run taken off the canvas.
LEMMA Unparked ==
  ASSUME NEW d, Sound(d), NEW lead, IsLead(d, lead), NEW r, r = RunOf(d, lead),
         NEW Q \in SUBSET Blocks, NEW n, n = RunsSet(d, RemoveAt(d.parked, r), Q)
  PROVE  /\ Sound(n) /\ ToSet(d.parked[r]) \cap HeldIn(n) = {}
         /\ \A x : x \in HeldIn(n) => x \in HeldIn(d)
         /\ n.handlers = d.handlers /\ n.arm = d.arm /\ n.socket = d.socket
<1>1. d.parked \in ParkedRuns /\ RunsApart(d.parked) /\ r \in 1..Len(d.parked) /\ d.parked[r] \in ToSet(d.parked)
  BY LeadIs
<1>2. PICK P : P = RemoveAt(d.parked, r)
  OBVIOUS
<1>3. P \in ParkedRuns /\ RunsApart(P) /\ \A x : x \in Spanned(P) <=> x \in Spanned(d.parked) \ ToSet(d.parked[r])
  BY <1>1, <1>2, RunsRemoved
<1>5. n = RunsSet(d, P, Q) /\ (\A x \in Spanned(P) : x \in Spanned(d.parked) \/ x \notin HeldIn(d))
  BY <1>2, <1>3
<1>6. /\ Sound(n)
      /\ \A x : x \in HeldIn(n) <=> x \in HeldIn(d) \ Spanned(d.parked) \/ x \in Spanned(P)
      /\ n.handlers = d.handlers /\ n.parked = P /\ n.arm = d.arm /\ n.socket = d.socket
  BY <1>3, <1>5, RunsPut
<1>7. \A x \in Spanned(d.parked) : x \in HeldIn(d)
  BY HeldIs, SpannedIs
<1>8. \A x \in ToSet(d.parked[r]) : x \in Spanned(d.parked)
  BY <1>1, SpannedIs
<1>9. QED
  BY <1>3, <1>6, <1>7, <1>8

\* removeParked only takes blocks away.
LEMMA RemoveParkedSound ==
  ASSUME NEW d, Sound(d), NEW lead, NEW n, n = RemoveParked(d, lead)
  PROVE  /\ Sound(n) /\ (\A x : x \in HeldIn(n) => x \in HeldIn(d))
         /\ n.handlers = d.handlers /\ n.arm = d.arm /\ n.socket = d.socket
<1>1. CASE IsLead(d, lead)
  <2>1. PICK r, Q : r = RunOf(d, lead) /\ Q = d.placed \ {lead}
    OBVIOUS
  <2>2. n = RunsSet(d, RemoveAt(d.parked, r), Q) /\ Q \in SUBSET Blocks
    BY <1>1, <2>1, StoredParts DEF RemoveParked, Sound, RunsSet
  <2>3. QED
    BY <1>1, <2>1, <2>2, Unparked
<1>2. CASE ~IsLead(d, lead)
  BY <1>2 DEF RemoveParked
<1>3. QED
  BY <1>1, <1>2

\* attachParked leaves each block in one place.
LEMMA AttachSound ==
  ASSUME NEW d, Sound(d), NEW lead, NEW h, NEW t, t.arm \in Arms, t.index \in Nat
  PROVE  Sound(AttachParked(d, lead, h, t))
<1>1. CASE IsLead(d, lead) /\ TargetExists(d, h, t)
  <2>1. PICK r, Q, run : r = RunOf(d, lead) /\ Q = d.placed \ {lead} /\ run = d.parked[r]
    OBVIOUS
  <2>2. PICK cut : cut = RunsSet(d, RemoveAt(d.parked, r), Q)
    OBVIOUS
  <2>3. Q \in SUBSET Blocks
    BY <2>1, StoredParts DEF Sound
  <2>4. Sound(cut) /\ ToSet(run) \cap HeldIn(cut) = {} /\ cut.arm = d.arm
    BY <1>1, <2>1, <2>2, <2>3, Unparked
  <2>5. run \in Seq(Blocks) /\ IsInjective(run)
    BY <1>1, <2>1, LeadIs
  <2>6. PICK at : at = Clamp(t.index, cut.arm[t.arm])
    OBVIOUS
  <2>7. at \in 0..Len(cut.arm[t.arm])
    BY <2>4, <2>6, StoredParts, ClampIs DEF Sound
  <2>12. PICK c : c = t.arm
    OBVIOUS
  <2>13. c \in Arms /\ at \in 0..Len(cut.arm[c])
    BY <2>7, <2>12
  <2>8. Sound(SplicedIn(cut, c, at, run))
    BY <2>4, <2>5, <2>13, Spliced
  <2>9. AttachParked(d, lead, h, t) = [d EXCEPT !.parked = RemoveAt(@, r),
                !.arm[t.arm] = Splice(@, at, run), !.placed = Q]
    BY <1>1, <2>1, <2>4, <2>6 DEF AttachParked
  <2>10. [d EXCEPT !.parked = RemoveAt(@, r), !.arm[t.arm] = Splice(@, at, run), !.placed = Q]
           = [cut EXCEPT !.arm[t.arm] = Splice(@, at, run)]
    BY <2>2, StoredParts DEF Sound, RunsSet
  <2>11. QED
    BY <2>8, <2>9, <2>10, <2>12 DEF SplicedIn
<1>2. CASE ~(IsLead(d, lead) /\ TargetExists(d, h, t))
  BY <1>2 DEF AttachParked
<1>3. QED
  BY <1>1, <1>2

\* setSlot puts a block held nowhere else in place of what the socket held.
LEMMA SetSlotSound ==
  ASSUME NEW d, Sound(d), NEW h, NEW k \in Sockets, NEW e \in Expressions \cup {NoBlock}, e \notin HeldIn(d),
         NEW n, n = SetSlot(d, h, k, e)
  PROVE  /\ Sound(n)
         /\ h \in d.handlers /\ k[1] \in Findable(d, h) =>
              \A x : x \in HeldIn(n) <=> x \in HeldIn(d) \ {d.socket[k]} \/ x \in {e} \ {NoBlock}
         /\ n.handlers = d.handlers /\ n.arm = d.arm /\ n.parked = d.parked
         /\ n.socket = IF h \in d.handlers /\ k[1] \in Findable(d, h)
                       THEN [d.socket EXCEPT ![k] = e] ELSE d.socket
<1>1. CASE h \in d.handlers /\ k[1] \in Findable(d, h)
  <2>1. n = SocketSet(d, k, e)
    BY <1>1 DEF SetSlot, SocketSet
  <2>2. QED
    BY <1>1, <2>1, SocketPut
<1>2. CASE ~(h \in d.handlers /\ k[1] \in Findable(d, h))
  BY <1>2 DEF SetSlot
<1>3. QED
  BY <1>1, <1>2

\* An expression put into a socket; the one it displaces is parked.
LEMMA WireSound ==
  ASSUME NEW d, Sound(d), NEW t, t.key \in Sockets,
         NEW e \in Expressions, e \notin HeldIn(d)
  PROVE  Sound(Wire(d, t, e))
<1>1. PICK x, w : /\ x = IF t.h \in d.handlers /\ t.key[1] \in Walked(d, t.h) THEN d.socket[t.key] ELSE NoBlock
                  /\ w = SetSlot(d, t.h, t.key, e)
  OBVIOUS
<1>2. Wire(d, t, e) = IF x = NoBlock THEN w ELSE AddParked(w, x)
  BY <1>1 DEF Wire
<1>3. PICK k : k = t.key
  OBVIOUS
<1>9. PICK h : h = t.h
  OBVIOUS
<1>8. k \in Sockets /\ e \in Expressions \cup {NoBlock} /\ w = SetSlot(d, h, k, e)
  BY <1>1, <1>3, <1>9
<1>4. /\ Sound(w)
      /\ h \in d.handlers /\ k[1] \in Findable(d, h) => \A y : y \in HeldIn(w) <=> y \in HeldIn(d) \ {d.socket[k]} \/ y \in {e} \ {NoBlock}
  BY <1>8, SetSlotSound
<1>5. CASE x = NoBlock
  BY <1>2, <1>4, <1>5
<1>6. CASE x # NoBlock
  <2>1. x = d.socket[k] /\ h \in d.handlers /\ k[1] \in Walked(d, h)
    BY <1>1, <1>3, <1>6, <1>9
  <2>2. k[1] \in Findable(d, h)
    BY <2>1, FindableIs DEF Sound
  <2>3. x \in HeldIn(d)
    BY <1>3, <1>6, <2>1, HeldIs
  <2>4. x \notin HeldIn(w)
    BY <1>4, <2>1, <2>2, <2>3
  <2>5. x \in Blocks
    BY <1>3, <1>6, <2>1, StoredParts DEF Sound
  <2>6. Sound(AddParked(w, x))
    BY <1>4, <2>4, <2>5, AddParkedSound
  <2>7. QED
    BY <1>2, <1>6, <2>6
<1>7. QED
  BY <1>5, <1>6

Swapped(s, i, j) == [s EXCEPT ![i] = s[j], ![j] = s[i]]

\* Two entries of a list swapped.
LEMMA SwappedEntries ==
  ASSUME NEW V, NEW s \in Seq(V), NEW i \in 1..Len(s), NEW j \in 1..Len(s),
         NEW t, t = Swapped(s, i, j)
  PROVE  t \in Seq(V) /\ ToSet(t) = ToSet(s) /\ (IsInjective(s) => IsInjective(t))
<1>1. PICK n : n = Len(s)
  OBVIOUS
<1>2. n \in Nat /\ DOMAIN s = 1..n /\ s \in [1..n -> V]
  BY <1>1, LenProperties
<1>3. PICK u : u = [s EXCEPT ![i] = s[j]]
  OBVIOUS
<1>4. t = [u EXCEPT ![j] = s[i]]
  BY <1>3 DEF Swapped
<1>5. t \in [1..n -> V] /\ \A m \in 1..n : t[m] = IF m = j THEN s[i] ELSE IF m = i THEN s[j] ELSE s[m]
  BY <1>1, <1>2, <1>3, <1>4
<1>6. t \in Seq(V) /\ DOMAIN t = 1..n
  BY <1>2, <1>5, FunctionIsSeq
<1>7. ToSet(t) = ToSet(s)
  <2>1. \A m \in 1..n : t[m] \in ToSet(s)
    BY <1>1, <1>2, <1>5 DEF ToSet
  <2>2. ASSUME NEW m \in 1..n PROVE \E o \in 1..n : t[o] = s[m]
    <3>1. PICK o : o = IF m = i THEN j ELSE IF m = j THEN i ELSE m
      OBVIOUS
    <3>2. o \in 1..n /\ t[o] = s[m]
      BY <1>1, <1>5, <3>1
    <3>3. QED
      BY <3>2
  <2>3. /\ \A x : x \in ToSet(t) <=> \E m \in 1..n : x = t[m]
        /\ \A x : x \in ToSet(s) <=> \E m \in 1..n : x = s[m]
    BY <1>2, <1>6 DEF ToSet
  <2>4. \A x \in ToSet(t) : x \in ToSet(s)
    BY <2>1, <2>3
  <2>5. \A x \in ToSet(s) : x \in ToSet(t)
    BY <2>2, <2>3
  <2>6. QED
    BY <2>4, <2>5
<1>8. ASSUME IsInjective(s) PROVE IsInjective(t)
  <2>1. \A m, o \in 1..n : s[m] = s[o] => m = o
    BY <1>2, <1>8 DEF IsInjective
  <2>2. \A m, o \in 1..n : t[m] = t[o] => m = o
    BY <1>1, <1>5, <2>1
  <2>3. QED
    BY <1>6, <2>2 DEF IsInjective
<1>9. QED
  BY <1>6, <1>7, <1>8

\* moveStatement moves a block within its arm.
LEMMA MoveStatementSound ==
  ASSUME NEW d, Sound(d), NEW h, NEW b, NEW step \in {-1, 1}, NEW n, n = MoveStatement(d, h, b, step)
  PROVE  /\ Sound(n) /\ (\A x : x \in HeldIn(n) <=> x \in HeldIn(d))
         /\ n.handlers = d.handlers /\ n.socket = d.socket
         /\ \A a \in Arms : ToSet(n.arm[a]) = ToSet(d.arm[a])
<1>1. CASE n = d
  BY <1>1
<1>2. CASE n # d
  <2>1. PICK a, s, i : a = ArmOf(d, b) /\ s = d.arm[a] /\ i = At(s, b)
    OBVIOUS
  <2>2. PICK t : t = [s EXCEPT ![i] = s[i + step], ![i + step] = b]
    OBVIOUS
  <2>3. /\ h \in d.handlers /\ b \in Removable(d, h) /\ InArm(d, b) /\ i + step \in DOMAIN s
        /\ n = ArmSet(d, a, t)
    BY <1>2, <2>1, <2>2 DEF MoveStatement, ArmSet
  <2>4. a \in Arms /\ s \in Seq(Blocks) /\ IsInjective(s) /\ i \in 1..Len(s) /\ s[i] = b
    BY <2>1, <2>3, RunFromIs
  <2>5. PICK j : j = i + step
    OBVIOUS
  <2>6. j \in 1..Len(s) /\ t = Swapped(s, i, j)
    BY <2>2, <2>3, <2>4, <2>5, LenProperties DEF Swapped
  <2>7. t \in Seq(Blocks) /\ ToSet(t) = ToSet(s) /\ IsInjective(t)
    BY <2>4, <2>6, SwappedEntries
  <2>9. \A x \in ToSet(t) : x \in ToSet(d.arm[a]) \/ x \notin HeldIn(d)
    BY <2>1, <2>7
  <2>10. /\ Sound(n)
         /\ \A x : x \in HeldIn(n) <=> x \in HeldIn(d) \ ToSet(d.arm[a]) \/ x \in ToSet(t)
         /\ n.handlers = d.handlers /\ n.socket = d.socket /\ n.arm = [d.arm EXCEPT ![a] = t]
    BY <2>3, <2>4, <2>7, <2>9, ArmPut
  <2>11. \A x \in ToSet(d.arm[a]) : x \in HeldIn(d)
    BY <2>4, HeldIs
  <2>12. \A c \in Arms : ToSet(n.arm[c]) = ToSet(d.arm[c])
    BY <2>1, <2>7, <2>10, StoredParts DEF Sound
  <2>13. QED
    BY <2>1, <2>7, <2>10, <2>11, <2>12
<1>3. QED
  BY <1>1, <1>2

\* Tidying takes away only.
LEMMA TidySound ==
  ASSUME NEW d, Sound(d), NEW t, t = Tidy(d)
  PROVE  Sound(t) /\ \A x : x \in HeldIn(t) => x \in HeldIn(d)
<1>1. /\ Stored(t) /\ t.parked = d.parked
      /\ \A a \in Arms : t.arm[a] = IF a[1] \in d.handlers \cup OnCanvas(d) THEN d.arm[a] ELSE <<>>
      /\ \A k \in Sockets : t.socket[k] = IF k[1] \in OnCanvas(d) THEN d.socket[k] ELSE NoBlock
  BY TidyIs DEF Sound
<1>2. ToSet(<<>>) = {} /\ IsInjective(<<>>)
  BY DEF ToSet, IsInjective
<1>3. \A a \in Arms : ToSet(t.arm[a]) \subseteq ToSet(d.arm[a]) /\ IsInjective(t.arm[a])
  BY <1>1, <1>2 DEF Sound, OnceIn
<1>4. \A k \in Sockets : t.socket[k] = NoBlock \/ t.socket[k] = d.socket[k]
  BY <1>1
<1>5. /\ \A a \in Arms : NoBlock \notin ToSet(d.arm[a])
      /\ \A run \in ToSet(d.parked) : NoBlock \notin ToSet(run)
  BY StoredParts, BlockAssumption DEF Sound
<1>6. OnceIn(t)
  <2>1. \A a, c \in Arms : a # c => ToSet(t.arm[a]) \cap ToSet(t.arm[c]) = {}
    BY <1>3 DEF Sound, OnceIn
  <2>2. \A k, l \in Sockets : t.socket[k] = t.socket[l] /\ k # l => t.socket[k] = NoBlock
    BY <1>4 DEF Sound, OnceIn
  <2>3. \A a \in Arms, k \in Sockets : t.socket[k] \notin ToSet(t.arm[a])
    BY <1>3, <1>4, <1>5 DEF Sound, OnceIn
  <2>4. \A run \in ToSet(t.parked) : /\ \A a \in Arms : ToSet(run) \cap ToSet(t.arm[a]) = {}
                                     /\ \A k \in Sockets : t.socket[k] \notin ToSet(run)
    BY <1>1, <1>3, <1>4, <1>5 DEF Sound, OnceIn
  <2>5. QED
    BY <1>1, <1>3, <2>1, <2>2, <2>3, <2>4 DEF Sound, OnceIn
<1>7. \A x : x \in HeldIn(t) => x \in HeldIn(d)
  <2>1. \A x : x \in HeldIn(t) <=> \/ \E a \in Arms : x \in ToSet(t.arm[a])
                                   \/ \E k \in Sockets : x = t.socket[k] /\ x # NoBlock
                                   \/ \E run \in ToSet(t.parked) : x \in ToSet(run)
    BY HeldIs
  <2>2. \A x : x \in HeldIn(d) <=> \/ \E a \in Arms : x \in ToSet(d.arm[a])
                                   \/ \E k \in Sockets : x = d.socket[k] /\ x # NoBlock
                                   \/ \E run \in ToSet(d.parked) : x \in ToSet(run)
    BY HeldIs
  <2>3. QED
    BY <1>1, <1>3, <1>4, <2>1, <2>2
<1>8. QED
  BY <1>1, <1>6, <1>7 DEF Sound

-----------------------------------------------------------------------------
(* Who holds a block.                                                       *)
LEMMA RootsAre ==
  ASSUME NEW d, Stored(d)
  PROVE  \A x : x \in Roots(d) <=>
           \/ \E h \in d.handlers : <<h, "body">> \in Arms /\ x \in ToSet(d.arm[<<h, "body">>])
           \/ \E run \in ToSet(d.parked) : x \in ToSet(run)
<1>1. \A h \in d.handlers : <<h, "body">> \in Arms
  BY StoredParts DEF Arms
<1>2. \A h : Body(d, h) = ToSet(d.arm[<<h, "body">>])
  BY RangeIsToSet DEF Body
<1>3. ASSUME NEW x PROVE x \in Roots(d) <=> (\E h \in d.handlers : x \in Body(d, h)) \/ x \in InRuns(d)
  BY DEF Roots
<1>4. \A x : x \in InRuns(d) <=> \E run \in ToSet(d.parked) : x \in ToSet(run)
  BY HeldIs
<1>5. QED
  BY <1>1, <1>2, <1>3, <1>4

\* A block lies in one block at most, and then in no body and no parked run.
LEMMA OneHolder ==
  ASSUME NEW d, Sound(d), NEW x \in Blocks, NEW c \in Within(d, x)
  PROVE  c \notin Roots(d) /\ c \in HeldIn(d) /\ c \in Blocks /\ \A y \in Blocks : c \in Within(d, y) => x = y
<1>2. ASSUME NEW y \in Blocks, c \in Within(d, y)
      PROVE  \/ \E v \in {"then", "else"} : <<y, v>> \in Arms /\ y \in Ifs /\ c \in ToSet(d.arm[<<y, v>>])
             \/ \E k \in Keys(y) : <<y, k>> \in Sockets /\ c = d.socket[<<y, k>>] /\ c # NoBlock
  <2>1. Sits(d, y, c)
    BY <1>2, SitsIs DEF Sound
  <2>2. QED
    BY <2>1 DEF Sits
<1>3. c \in Blocks
  BY SitsIs DEF Sound
<1>4. CASE \E v \in {"then", "else"} : <<x, v>> \in Arms /\ x \in Ifs /\ c \in ToSet(d.arm[<<x, v>>])
  <2>1. PICK v \in {"then", "else"} : <<x, v>> \in Arms /\ x \in Ifs /\ c \in ToSet(d.arm[<<x, v>>])
    BY <1>4
  <2>2. PICK a : a = <<x, v>>
    OBVIOUS
  <2>3. a \in Arms /\ c \in ToSet(d.arm[a]) /\ a[1] = x
    BY <2>1, <2>2
  <2>4. \A e \in Arms : c \in ToSet(d.arm[e]) => e = a
    BY <2>3 DEF Sound, OnceIn
  <2>5. \A k \in Sockets : c # d.socket[k]
    BY <2>3 DEF Sound, OnceIn
  <2>6. \A run \in ToSet(d.parked) : c \notin ToSet(run)
    BY <2>3 DEF Sound, OnceIn
  <2>7. \A h \in d.handlers : <<h, "body">> # a
    BY <2>2, StoredParts, BlockAssumption DEF Sound
  <2>8. c \notin Roots(d)
    BY <2>4, <2>6, <2>7, RootsAre DEF Sound
  <2>9. ASSUME NEW y \in Blocks, c \in Within(d, y) PROVE x = y
    <3>1. PICK w \in {"then", "else"} : <<y, w>> \in Arms /\ c \in ToSet(d.arm[<<y, w>>])
      BY <1>2, <2>5, <2>9
    <3>2. <<y, w>> = <<x, v>>
      BY <2>2, <2>4, <3>1
    <3>3. QED
      BY <3>2
  <2>10. QED
    BY <1>3, <2>3, <2>8, <2>9, HeldIs
<1>5. CASE \E k \in Keys(x) : <<x, k>> \in Sockets /\ c = d.socket[<<x, k>>] /\ c # NoBlock
  <2>1. PICK k \in Keys(x) : <<x, k>> \in Sockets /\ c = d.socket[<<x, k>>] /\ c # NoBlock
    BY <1>5
  <2>2. PICK l : l = <<x, k>>
    OBVIOUS
  <2>3. l \in Sockets /\ c = d.socket[l] /\ c # NoBlock
    BY <2>1, <2>2
  <2>4. \A e \in Arms : c \notin ToSet(d.arm[e])
    BY <2>3 DEF Sound, OnceIn
  <2>5. \A m \in Sockets : c = d.socket[m] => m = l
    BY <2>3 DEF Sound, OnceIn
  <2>6. \A run \in ToSet(d.parked) : c \notin ToSet(run)
    BY <2>3 DEF Sound, OnceIn
  <2>7. c \notin Roots(d)
    BY <2>4, <2>6, RootsAre DEF Sound
  <2>8. ASSUME NEW y \in Blocks, c \in Within(d, y) PROVE x = y
    <3>1. PICK m \in Keys(y) : <<y, m>> \in Sockets /\ c = d.socket[<<y, m>>]
      BY <1>2, <2>4, <2>8
    <3>2. <<y, m>> = <<x, k>>
      BY <2>2, <2>5, <3>1
    <3>3. QED
      BY <3>2
  <2>9. QED
    BY <1>3, <2>3, <2>7, <2>8, HeldIs
<1>6. QED
  BY <1>2, <1>4, <1>5

\* Blocks that only each other hold are not on the canvas.
LEMMA OffCanvas ==
  ASSUME NEW d, Stored(d), NEW T, T \cap Roots(d) = {},
         \A x \in Blocks : Within(d, x) \cap T # {} => x \in T
  PROVE  T \cap OnCanvas(d) = {}
<1>1. PICK S : S = OnCanvas(d) \ T
  OBVIOUS
<1>2. /\ Roots(d) \subseteq OnCanvas(d) /\ OnCanvas(d) \in SUBSET Blocks /\ Closed(d, Full, OnCanvas(d))
      /\ Roots(d) \subseteq S /\ Closed(d, Full, S) => OnCanvas(d) \subseteq S
  BY CanvasIs
<1>3. Closed(d, Full, S)
  BY <1>1, <1>2 DEF Closed, Within
<1>4. QED
  BY <1>1, <1>2, <1>3

\* No block on the canvas lies inside itself.
LEMMA NoCycle ==
  ASSUME NEW d, Sound(d), NEW b \in OnCanvas(d), NEW x \in BlockTree(d, {b})
  PROVE  b \notin Within(d, x)
<1>1. SUFFICES ASSUME b \in Within(d, x) PROVE FALSE
  OBVIOUS
<1>2. PICK T : T = BlockTree(d, {b})
  OBVIOUS
<1>3. b \in Blocks /\ {b} \in SUBSET Blocks
  BY CanvasIs DEF Sound
<1>4. b \in T /\ T \in SUBSET Blocks /\ \A y \in T \ {b} : \E z \in T : y \in Within(d, z)
  BY <1>2, <1>3, TreeIs DEF Sound
<1>5. \A y \in T : \E z \in T : y \in Within(d, z)
  BY <1>1, <1>2, <1>4
<1>6. \A y \in T : y \notin Roots(d) /\ \A z \in Blocks : y \in Within(d, z) => z \in T
  BY <1>4, <1>5, OneHolder
<1>7. T \cap OnCanvas(d) = {}
  BY <1>6, OffCanvas DEF Sound
<1>8. QED
  BY <1>4, <1>7

\* On the canvas a block is a root or lies in a block on it.
LEMMA CanvasHolds ==
  ASSUME NEW d, Stored(d), NEW b \in OnCanvas(d)
  PROVE  b \in Roots(d) \/ \E x \in OnCanvas(d) : b \in Within(d, x)
<1>1. SUFFICES ASSUME b \notin Roots(d), \A x \in OnCanvas(d) : b \notin Within(d, x) PROVE FALSE
  OBVIOUS
<1>2. PICK S : S = OnCanvas(d) \ {b}
  OBVIOUS
<1>3. /\ Roots(d) \subseteq OnCanvas(d) /\ Closed(d, Full, OnCanvas(d))
      /\ Roots(d) \subseteq S /\ Closed(d, Full, S) => OnCanvas(d) \subseteq S
  BY CanvasIs
<1>4. Closed(d, Full, S)
  BY <1>1, <1>2, <1>3 DEF Closed, Within
<1>5. QED
  BY <1>1, <1>2, <1>3, <1>4

\* What a handler reached it still reaches, but for what was cut away.
LEMMA FindableKept ==
  ASSUME NEW d, Stored(d), NEW n, Stored(n), NEW h \in d.handlers, h \in n.handlers,
         NEW T, Closed(d, Full, T),
         \A a \in Arms : a[1] \in {h} \cup Findable(d, h) => ToSet(d.arm[a]) \subseteq ToSet(n.arm[a]) \cup T,
         \A k \in Sockets : k[1] \in Findable(d, h) => n.socket[k] = d.socket[k]
  PROVE  Findable(d, h) \subseteq Findable(n, h) \cup T
<1>1. PICK F, G, S : F = Findable(d, h) /\ G = Findable(n, h) /\ S = F \cap (G \cup T)
  OBVIOUS
<1>2. /\ Body(d, h) \subseteq F /\ F \in SUBSET Blocks /\ Closed(d, Full, F)
      /\ Body(d, h) \subseteq S /\ Closed(d, Full, S) => F \subseteq S
      /\ Body(n, h) \subseteq G /\ G \in SUBSET Blocks /\ Closed(n, Full, G)
  BY <1>1, FindableIs
<1>3. Body(d, h) \subseteq S
  <2>1. <<h, "body">> \in Arms /\ <<h, "body">>[1] = h
    BY StoredParts DEF Arms
  <2>2. Body(d, h) \subseteq Body(n, h) \cup T
    BY <2>1, RangeIsToSet DEF Body
  <2>3. QED
    BY <1>1, <1>2, <2>2
<1>4. ASSUME NEW x \in S, NEW y \in Inside(d, x, Full) PROVE y \in S
  <2>1. x \in Blocks /\ x \in F /\ y \in F
    BY <1>1, <1>2, <1>4 DEF Closed
  <2>2. CASE x \in T
    BY <1>1, <2>1, <2>2 DEF Closed
  <2>3. CASE x \in G
    <3>1. Sits(d, x, y)
      BY <1>4, <2>1, SitsIs
    <3>2. \A v : <<x, v>>[1] = x
      OBVIOUS
    <3>3. y \in T \/ Sits(n, x, y)
      <4>1. \A v : <<x, v>> \in Arms => ToSet(d.arm[<<x, v>>]) \subseteq ToSet(n.arm[<<x, v>>]) \cup T
        BY <1>1, <2>1, <3>2
      <4>2. \A k : <<x, k>> \in Sockets => n.socket[<<x, k>>] = d.socket[<<x, k>>]
        BY <1>1, <2>1, <3>2
      <4>3. QED
        BY <3>1, <4>1, <4>2 DEF Sits
    <3>4. y \in T \/ y \in Inside(n, x, Full)
      BY <2>1, <3>3, SitsIs
    <3>5. QED
      BY <1>1, <1>2, <2>1, <2>3, <3>4 DEF Closed
  <2>4. QED
    BY <1>1, <2>2, <2>3
<1>5. Closed(d, Full, S)
  BY <1>4 DEF Closed
<1>6. QED
  BY <1>1, <1>2, <1>3, <1>5

\* A block removed from its arm takes its contents off the canvas.
LEMMA RemoveBlockSound ==
  ASSUME NEW d, Sound(d), NEW h, NEW b, NEW n, n = RemoveBlock(d, h, b)
  PROVE  /\ Sound(n) /\ (\A x : x \in HeldIn(n) => x \in HeldIn(d))
         /\ n.handlers = d.handlers /\ n.socket = d.socket
         /\ \E T \in SUBSET Blocks : /\ Closed(d, Full, T) /\ T \cap OnCanvas(n) = {}
                                     /\ \A i \in d.handlers : Findable(d, i) \subseteq Findable(n, i) \cup T
<1>1. CASE ~(h \in d.handlers /\ b \in Removable(d, h) /\ InArm(d, b))
  <2>1. n = d
    BY <1>1 DEF RemoveBlock
  <2>2. PICK T : T = {}
    OBVIOUS
  <2>3. T \in SUBSET Blocks /\ Closed(d, Full, T) /\ T \cap OnCanvas(n) = {}
    BY <2>2 DEF Closed
  <2>4. QED
    BY <2>1, <2>3
<1>2. CASE h \in d.handlers /\ b \in Removable(d, h) /\ InArm(d, b)
  <2>1. PICK a, s, u : a = ArmOf(d, b) /\ s = d.arm[a] /\ u = Omit(s, {b})
    OBVIOUS
  <2>2. n = ArmSet(d, a, u)
    BY <1>2, <2>1 DEF RemoveBlock, ArmSet
  <2>3. a \in Arms /\ s \in Seq(Blocks) /\ IsInjective(s) /\ b \in ToSet(s) /\ b \in Blocks
    BY <1>2, <2>1, RunFromIs
  <2>4. u \in Seq(Blocks) /\ ToSet(u) = ToSet(s) \ {b} /\ IsInjective(u)
    BY <2>1, <2>3, OmitEntries
  <2>6. \A x \in ToSet(u) : x \in ToSet(d.arm[a]) \/ x \notin HeldIn(d)
    BY <2>1, <2>4
  <2>7. /\ Sound(n) /\ Stored(n)
        /\ \A x : x \in HeldIn(n) <=> x \in HeldIn(d) \ ToSet(d.arm[a]) \/ x \in ToSet(u)
        /\ n.handlers = d.handlers /\ n.socket = d.socket /\ n.parked = d.parked
        /\ n.arm = [d.arm EXCEPT ![a] = u]
    <3>1. /\ Sound(n)
          /\ \A x : x \in HeldIn(n) <=> x \in HeldIn(d) \ ToSet(d.arm[a]) \/ x \in ToSet(u)
          /\ n.handlers = d.handlers /\ n.socket = d.socket /\ n.parked = d.parked
          /\ n.arm = [d.arm EXCEPT ![a] = u]
      BY <2>2, <2>3, <2>4, <2>6, ArmPut
    <3>2. QED
      BY <3>1 DEF Sound
  <2>8. \A x \in ToSet(d.arm[a]) : x \in HeldIn(d)
    BY <2>3, HeldIs
  <2>9. b \notin HeldIn(n) /\ \A x : x \in HeldIn(n) => x \in HeldIn(d)
    BY <2>1, <2>3, <2>4, <2>7, <2>8
  <2>10. \A c \in Arms : ToSet(n.arm[c]) \subseteq ToSet(d.arm[c]) /\ ToSet(d.arm[c]) \subseteq ToSet(n.arm[c]) \cup {b}
    <3>1. d.arm \in [Arms -> Seq(Blocks)]
      BY StoredParts DEF Sound
    <3>2. n.arm = [d.arm EXCEPT ![a] = u]
      BY <2>7
    <3>3. \A c \in Arms : n.arm[c] = d.arm[c] \/ (c = a /\ n.arm[c] = u)
      BY <3>1, <3>2
    <3>4. ToSet(u) = ToSet(d.arm[a]) \ {b}
      BY <2>1, <2>4
    <3>5. QED
      BY <3>3, <3>4
  <2>11. PICK T : T = BlockTree(d, {b})
    OBVIOUS
  <2>12. /\ b \in T /\ T \in SUBSET Blocks /\ Closed(d, Full, T)
         /\ \A y \in T \ {b} : \E z \in T : y \in Within(d, z)
    BY <2>3, <2>11, TreeIs DEF Sound
  <2>13. \A x : x \in Roots(n) => x \in Roots(d) /\ x \in HeldIn(n)
    <3>1. \A x : x \in Roots(n) <=>
           \/ \E i \in n.handlers : <<i, "body">> \in Arms /\ x \in ToSet(n.arm[<<i, "body">>])
           \/ \E run \in ToSet(n.parked) : x \in ToSet(run)
      BY <2>7, RootsAre
    <3>2. \A x : x \in Roots(d) <=>
           \/ \E i \in d.handlers : <<i, "body">> \in Arms /\ x \in ToSet(d.arm[<<i, "body">>])
           \/ \E run \in ToSet(d.parked) : x \in ToSet(run)
      BY RootsAre DEF Sound
    <3>3. QED
      BY <2>7, <2>10, <3>1, <3>2, HeldIs
  <2>14. ASSUME NEW x \in Blocks, NEW y \in Within(n, x) PROVE y \in Within(d, x) /\ y \in HeldIn(n)
    <3>1. Sound(n)
      BY <2>7
    <3>2. Sits(n, x, y)
      BY <2>7, <2>14, SitsIs
    <3>3. Sits(d, x, y)
      BY <2>7, <2>10, <3>2 DEF Sits
    <3>4. y \in Within(d, x)
      BY <3>3, SitsIs DEF Sound
    <3>5. y \in HeldIn(n)
      BY <2>14, <3>1, OneHolder
    <3>6. QED
      BY <3>4, <3>5
  <2>15. T \cap Roots(n) = {}
    BY <2>9, <2>12, <2>13, OneHolder
  <2>16. \A x \in Blocks : Within(n, x) \cap T # {} => x \in T
    <3>1. ASSUME NEW x \in Blocks, NEW y \in Within(n, x), y \in T PROVE x \in T
      <4>1. y \in Within(d, x) /\ y # b
        BY <2>9, <2>14, <3>1
      <4>2. PICK z \in T : y \in Within(d, z)
        BY <2>12, <3>1, <4>1
      <4>3. x = z
        BY <2>12, <4>1, <4>2, OneHolder
      <4>4. QED
        BY <4>3
    <3>2. QED
      BY <3>1
  <2>17. T \cap OnCanvas(n) = {}
    BY <2>7, <2>15, <2>16, OffCanvas
  <2>18. ASSUME NEW i \in d.handlers PROVE Findable(d, i) \subseteq Findable(n, i) \cup T
    <3>1. \A c \in Arms : ToSet(d.arm[c]) \subseteq ToSet(n.arm[c]) \cup T
      BY <2>10, <2>12
    <3>2. Stored(d) /\ i \in n.handlers /\ \A k \in Sockets : n.socket[k] = d.socket[k]
      BY <2>7 DEF Sound
    <3>3. QED
      BY <2>7, <2>12, <3>1, <3>2, FindableKept
  <2>19. QED
    BY <2>7, <2>9, <2>12, <2>17, <2>18 DEF Sound
<1>3. QED
  BY <1>1, <1>2

-----------------------------------------------------------------------------
(* A copy of a tree under free identifiers.                                 *)
LEMMA FitsInto ==
  ASSUME NEW S, NEW T, IsFiniteSet(S), IsFiniteSet(T), Cardinality(S) <= Cardinality(T)
  PROVE  \E f \in [S -> T] : IsInjective(f)
<1>1. PICK m, n : m = Cardinality(S) /\ n = Cardinality(T)
  OBVIOUS
<1>2. m \in Nat /\ n \in Nat /\ m <= n /\ ExistsBijection(1..m, S) /\ ExistsBijection(1..n, T)
  BY <1>1, FS_CardinalityType
<1>3. PICK g \in [1..m -> S] : \A x \in S : \E i \in 1..m : g[i] = x
  BY <1>2 DEF ExistsBijection, Bijection, Surjection
<1>4. PICK k \in [1..n -> T] : \A i, j \in 1..n : k[i] = k[j] => i = j
  BY <1>2 DEF ExistsBijection, Bijection, Injection, IsInjective
<1>5. PICK at : at = [x \in S |-> CHOOSE i \in 1..m : g[i] = x]
  OBVIOUS
<1>6. \A x \in S : at[x] \in 1..m /\ g[at[x]] = x
  BY <1>3, <1>5
<1>7. PICK f : f = [x \in S |-> k[at[x]]]
  OBVIOUS
<1>8. \A x \in S : at[x] \in 1..n
  BY <1>2, <1>6
<1>9. f \in [S -> T]
  BY <1>4, <1>7, <1>8
<1>10. \A x, y \in S : f[x] = f[y] => x = y
  BY <1>4, <1>6, <1>7, <1>8
<1>11. IsInjective(f)
  BY <1>9, <1>10 DEF IsInjective
<1>12. QED
  BY <1>9, <1>11

\* One block one shape.
LEMMA ShapesAre ==
  /\ \A b \in Blocks : \E s \in Shapes : b \in s
  /\ \A s, t \in Shapes : \A b : b \in s /\ b \in t => s = t
  /\ \A s \in Shapes : s \subseteq Blocks
  /\ \A b \in Blocks : ShapeOf(b) \in Shapes /\ b \in ShapeOf(b)
  /\ \A s \in Shapes : \A b, c \in s : Keys(b) = Keys(c) /\ (b \in Ifs <=> c \in Ifs)
                                          /\ (b \in Expressions => c \in Expressions)
<1>1. \A s : s \in Shapes <=> s = Ifs \/ s = Statements \/ s = Operators \/ s = Literals
  BY DEF Shapes
<1>2. \A b \in Blocks : \E s \in Shapes : b \in s
  BY <1>1 DEF Blocks, Expressions
<1>3. \A s, t \in Shapes : s \cap t # {} => s = t
  <2>1. /\ Ifs \cap Statements = {} /\ Ifs \cap Operators = {} /\ Ifs \cap Literals = {}
        /\ Statements \cap Operators = {} /\ Statements \cap Literals = {} /\ Operators \cap Literals = {}
    BY BlockAssumption DEF Expressions
  <2>2. QED
    BY <1>1, <2>1
<1>4. \A s, t \in Shapes : \A b : b \in s /\ b \in t => s = t
  BY <1>3
<1>5. \A s \in Shapes : s \subseteq Blocks
  BY <1>1 DEF Blocks, Expressions
<1>6. \A b \in Blocks : ShapeOf(b) \in Shapes /\ b \in ShapeOf(b)
  BY <1>2 DEF ShapeOf
<1>7. ASSUME NEW s \in Shapes, NEW b \in s, NEW c \in s
      PROVE  /\ (b \in Ifs <=> c \in Ifs) /\ (b \in Statements <=> c \in Statements)
             /\ (b \in Operators <=> c \in Operators) /\ (b \in Literals <=> c \in Literals)
  <2>1. Ifs \in Shapes /\ Statements \in Shapes /\ Operators \in Shapes /\ Literals \in Shapes
    BY <1>1
  <2>2. QED
    BY <1>4, <2>1
<1>8. ASSUME NEW s \in Shapes, NEW b \in s, NEW c \in s
      PROVE  Keys(b) = Keys(c) /\ (b \in Ifs <=> c \in Ifs) /\ (b \in Expressions => c \in Expressions)
  <2>1. /\ (b \in Ifs <=> c \in Ifs) /\ (b \in Statements <=> c \in Statements)
        /\ (b \in Operators <=> c \in Operators) /\ (b \in Literals <=> c \in Literals)
    BY <1>7
  <2>2. /\ Ifs \cap Statements = {} \/ Ifs = Statements
        /\ Ifs \cap Operators = {} \/ Ifs = Operators
        /\ Statements \cap Operators = {} \/ Statements = Operators
    BY <1>1, <1>3
  <2>3. Keys(b) = Keys(c)
    BY <2>1 DEF Keys
  <2>4. QED
    BY <2>1, <2>3 DEF Expressions
<1>9. QED
  BY <1>2, <1>4, <1>5, <1>6, <1>8

Copies(copy, tree, used) ==
  /\ copy \in [tree -> Blocks] /\ \A x, y \in tree : copy[x] = copy[y] => x = y
  /\ \A x \in tree : copy[x] \notin used
  /\ \A x \in tree, s \in Shapes : x \in s => copy[x] \in s

\* Where there are identifiers enough a tree can be copied.
LEMMA CopyExists ==
  ASSUME NEW tree \in SUBSET Blocks, CanCopy(tree)
  PROVE  Copies(CopyOf(tree), tree, Remembered)
<1> DEFINE Fits(f) == IsInjective(f) /\ \A b \in tree : f[b] \in ShapeOf(b)
<1>1. \A s \in Shapes : \E f \in [tree \cap s -> Free(s)] : IsInjective(f)
  <2>1. ASSUME NEW s \in Shapes PROVE \E f \in [tree \cap s -> Free(s)] : IsInjective(f)
    <3>1. tree \cap s \in SUBSET Blocks /\ Free(s) \in SUBSET Blocks
      BY ShapesAre DEF Free
    <3>2. IsFiniteSet(tree \cap s) /\ IsFiniteSet(Free(s))
      BY <3>1, FS_Subset, BlockAssumption
    <3>3. Cardinality(tree \cap s) <= Cardinality(Free(s))
      BY DEF CanCopy
    <3>4. QED
      BY <3>2, <3>3, FitsInto
  <2>2. QED
    BY <2>1
<1>2. PICK F : F = [s \in Shapes |-> CHOOSE f \in [tree \cap s -> Free(s)] : IsInjective(f)]
  OBVIOUS
<1>3. \A s \in Shapes : F[s] \in [tree \cap s -> Free(s)] /\ IsInjective(F[s])
  BY <1>1, <1>2
<1>4. PICK c : c = [b \in tree |-> F[ShapeOf(b)][b]]
  OBVIOUS
<1>5. ASSUME NEW b \in tree PROVE c[b] = F[ShapeOf(b)][b] /\ c[b] \in Free(ShapeOf(b)) /\ ShapeOf(b) \in Shapes /\ b \in ShapeOf(b)
  <2>1. ShapeOf(b) \in Shapes /\ b \in ShapeOf(b)
    BY ShapesAre
  <2>2. b \in tree \cap ShapeOf(b) /\ F[ShapeOf(b)] \in [tree \cap ShapeOf(b) -> Free(ShapeOf(b))]
    BY <1>3, <2>1
  <2>3. QED
    BY <1>4, <2>1, <2>2
<1>6. \A b \in tree : c[b] \in Blocks \ Remembered /\ c[b] \in ShapeOf(b)
  BY <1>5, ShapesAre DEF Free
<1>7. ASSUME NEW x \in tree, NEW y \in tree, c[x] = c[y] PROVE x = y
  <2>1. ShapeOf(x) = ShapeOf(y)
    BY <1>5, <1>6, <1>7, ShapesAre
  <2>2. PICK s : s = ShapeOf(x)
    OBVIOUS
  <2>3. s \in Shapes /\ x \in tree \cap s /\ y \in tree \cap s /\ F[s][x] = F[s][y]
    BY <1>5, <1>7, <2>1, <2>2
  <2>4. IsInjective(F[s]) /\ DOMAIN F[s] = tree \cap s
    BY <1>3, <2>3
  <2>5. QED
    BY <2>3, <2>4 DEF IsInjective
<1>8. c \in [tree -> Blocks \ Remembered]
  BY <1>4, <1>6
<1>9. IsInjective(c)
  BY <1>7, <1>8 DEF IsInjective
<1>10. Fits(c)
  BY <1>6, <1>9
<1>11. PICK g : g = CopyOf(tree)
  OBVIOUS
<1>12. g = CHOOSE f \in [tree -> Blocks \ Remembered] : Fits(f)
  BY <1>11 DEF CopyOf
<1>13. g \in [tree -> Blocks \ Remembered] /\ Fits(g)
  BY <1>8, <1>10, <1>12
<1>14. \A x \in tree, s \in Shapes : x \in s => g[x] \in s
  <2>1. ASSUME NEW x \in tree, NEW s \in Shapes, x \in s PROVE g[x] \in s
    <3>1. g[x] \in ShapeOf(x)
      BY <1>13
    <3>2. ShapeOf(x) = s
      BY <2>1, ShapesAre
    <3>3. QED
      BY <3>1, <3>2
  <2>2. QED
    BY <2>1
<1>15. g \in [tree -> Blocks] /\ \A x \in tree : g[x] \notin Remembered
  BY <1>13
<1>16. \A x, y \in tree : g[x] = g[y] => x = y
  BY <1>13 DEF IsInjective
<1>17. QED
  BY <1>11, <1>14, <1>15, <1>16 DEF Copies

Origin(copy, x) == CHOOSE b \in DOMAIN copy : copy[b] = x
Fresh(copy) == {copy[b] : b \in DOMAIN copy}

\* Each copied block is the copy of one block, of the same shape.
LEMMA OriginIs ==
  ASSUME NEW tree \in SUBSET Blocks, NEW used, NEW copy, Copies(copy, tree, used),
         NEW fresh, fresh = Fresh(copy)
  PROVE  /\ fresh \cap used = {} /\ DOMAIN copy = tree
         /\ \A b \in tree : copy[b] \in fresh /\ Origin(copy, copy[b]) = b
         /\ \A x \in fresh : Origin(copy, x) \in tree /\ copy[Origin(copy, x)] = x
         /\ \A b \in tree : Keys(copy[b]) = Keys(b) /\ (copy[b] \in Ifs <=> b \in Ifs)
                            /\ (b \in Expressions => copy[b] \in Expressions)
<1>1. /\ DOMAIN copy = tree /\ \A b \in tree : copy[b] \in Blocks /\ copy[b] \notin used
      /\ \A x, y \in tree : copy[x] = copy[y] => x = y
      /\ \A x \in tree, s \in Shapes : x \in s => copy[x] \in s
  BY DEF Copies
<1>2. \A x \in fresh : Origin(copy, x) \in tree /\ copy[Origin(copy, x)] = x
  BY <1>1 DEF Origin, Fresh
<1>3. \A b \in tree : copy[b] \in fresh /\ Origin(copy, copy[b]) = b
  BY <1>1, <1>2 DEF Fresh
<1>6. \A x \in fresh : x \notin used
  BY <1>1, <1>2
<1>4. ASSUME NEW b \in tree
      PROVE  Keys(copy[b]) = Keys(b) /\ (copy[b] \in Ifs <=> b \in Ifs) /\ (b \in Expressions => copy[b] \in Expressions)
  <2>1. PICK s \in Shapes : b \in s
    BY ShapesAre
  <2>2. copy[b] \in s
    BY <1>1, <2>1
  <2>3. QED
    BY <2>1, <2>2, ShapesAre
<1>5. QED
  BY <1>1, <1>2, <1>3, <1>4, <1>6

\* What a copied subtree holds.
Copied(d, n, copy, tree, fresh) ==
  /\ Stored(n) /\ n.handlers = d.handlers /\ n.parked = d.parked /\ n.placed = d.placed
  /\ \A a \in Arms : a[1] \notin fresh => n.arm[a] = d.arm[a]
  /\ \A a \in Arms : a[1] \in fresh =>
       \E b \in tree \cap Ifs, v \in {"then", "else"} :
         /\ a = <<copy[b], v>> /\ <<b, v>> \in Arms
         /\ n.arm[a] = Renamed(d.arm[<<b, v>>], copy) /\ ToSet(d.arm[<<b, v>>]) \subseteq Within(d, b)
  /\ \A k \in Sockets : k[1] \notin fresh => n.socket[k] = d.socket[k]
  /\ \A k \in Sockets : k[1] \in fresh =>
       \E b \in tree : \E key \in Keys(b) :
         /\ k = <<copy[b], key>> /\ <<b, key>> \in Sockets
         /\ IF d.socket[<<b, key>>] = NoBlock THEN n.socket[k] = NoBlock
            ELSE n.socket[k] = copy[d.socket[<<b, key>>]] /\ d.socket[<<b, key>>] \in Within(d, b)

\* A subtree under fresh identifiers.
LEMMA ReidIs ==
  ASSUME NEW d, Stored(d), NEW tree \in SUBSET Blocks, Closed(d, Full, tree),
         NEW copy, Copies(copy, tree, HeldIn(d)), NEW fresh, fresh = Fresh(copy),
         NEW n, n = Reid(d, copy)
  PROVE  Copied(d, n, copy, tree, fresh)
<1>1. /\ (\A x \in fresh : x \in Blocks) /\ fresh \cap HeldIn(d) = {} /\ DOMAIN copy = tree
      /\ \A b \in tree : copy[b] \in fresh /\ Origin(copy, copy[b]) = b
      /\ \A x \in fresh : Origin(copy, x) \in tree /\ copy[Origin(copy, x)] = x
      /\ \A b \in tree : Keys(copy[b]) = Keys(b) /\ (copy[b] \in Ifs <=> b \in Ifs)
                         /\ (b \in Expressions => copy[b] \in Expressions)
  <2>1. /\ fresh \cap HeldIn(d) = {} /\ DOMAIN copy = tree
        /\ \A b \in tree : copy[b] \in fresh /\ Origin(copy, copy[b]) = b
        /\ \A x \in fresh : Origin(copy, x) \in tree /\ copy[Origin(copy, x)] = x
    BY OriginIs
  <2>2. \A b \in tree : Keys(copy[b]) = Keys(b) /\ (copy[b] \in Ifs <=> b \in Ifs)
                         /\ (b \in Expressions => copy[b] \in Expressions)
    BY OriginIs
  <2>3. \A b \in tree : copy[b] \in Blocks
    BY DEF Copies
  <2>4. \A x \in fresh : x \in Blocks
    BY <2>1, <2>3
  <2>5. QED
    BY <2>1, <2>2, <2>4
<1>2. PICK A, K :
        /\ A = [a \in Arms |-> IF a[1] \in fresh THEN Renamed(d.arm[<<Origin(copy, a[1]), a[2]>>], copy)
                               ELSE d.arm[a]]
        /\ K = [k \in Sockets |-> IF k[1] \in fresh
                                  THEN IF d.socket[<<Origin(copy, k[1]), k[2]>>] = NoBlock THEN NoBlock
                                       ELSE copy[d.socket[<<Origin(copy, k[1]), k[2]>>]]
                                  ELSE d.socket[k]]
  OBVIOUS
<1>3. n = [d EXCEPT !.arm = A, !.socket = K]
  <2>1. fresh = {copy[b] : b \in DOMAIN copy}
    BY DEF Fresh
  <2>2. n = [d EXCEPT
           !.arm = [a \in Arms |->
                      IF a[1] \in fresh
                      THEN LET s == d.arm[<<Origin(copy, a[1]), a[2]>>]
                           IN  [i \in DOMAIN s |-> copy[s[i]]]
                      ELSE d.arm[a]],
           !.socket = [k \in Sockets |->
                         IF k[1] \in fresh
                         THEN IF d.socket[<<Origin(copy, k[1]), k[2]>>] = NoBlock THEN NoBlock
                              ELSE copy[d.socket[<<Origin(copy, k[1]), k[2]>>]]
                         ELSE d.socket[k]]]
    BY <2>1 DEF Reid, Origin
  <2>3. QED
    BY <1>2, <2>2 DEF Renamed
<1>4. n = [handlers |-> d.handlers, arm |-> A, socket |-> K, parked |-> d.parked, placed |-> d.placed]
  BY <1>3, StoredParts
<1>5. ASSUME NEW a \in Arms, a[1] \in fresh
      PROVE  \E b \in tree \cap Ifs, v \in {"then", "else"} :
                /\ a = <<copy[b], v>> /\ <<b, v>> \in Arms
                /\ A[a] = Renamed(d.arm[<<b, v>>], copy) /\ ToSet(d.arm[<<b, v>>]) \subseteq Within(d, b)
  <2>1. \A h \in Handlers : h \notin fresh
    BY <1>1, BlockAssumption
  <2>2. a \in Ifs \X {"then", "else"}
    BY <1>5, <2>1 DEF Arms
  <2>3. PICK c \in Ifs, v \in {"then", "else"} : a = <<c, v>>
    BY <2>2
  <2>4. PICK b : b = Origin(copy, c)
    OBVIOUS
  <2>5. c \in fresh /\ b \in tree /\ copy[b] = c /\ b \in Ifs
    BY <1>1, <1>5, <2>3, <2>4
  <2>6. <<b, v>> \in Arms
    BY <2>5 DEF Arms
  <2>7. A[a] = Renamed(d.arm[<<b, v>>], copy)
    BY <1>2, <1>5, <2>3, <2>4
  <2>8. ToSet(d.arm[<<b, v>>]) \subseteq Within(d, b)
    <3>1. b \in Blocks
      BY <2>5
    <3>2. \A x \in ToSet(d.arm[<<b, v>>]) : Sits(d, b, x)
      BY <2>3, <2>5, <2>6 DEF Sits
    <3>3. QED
      BY <3>1, <3>2, SitsIs
  <2>9. QED
    BY <2>3, <2>5, <2>6, <2>7, <2>8
<1>6. ASSUME NEW k \in Sockets, k[1] \in fresh
      PROVE  \E b \in tree : \E key \in Keys(b) :
                /\ k = <<copy[b], key>> /\ <<b, key>> \in Sockets
                /\ IF d.socket[<<b, key>>] = NoBlock THEN K[k] = NoBlock
                   ELSE K[k] = copy[d.socket[<<b, key>>]] /\ d.socket[<<b, key>>] \in Within(d, b)
  <2>1. PICK c \in Blocks : k \in {c} \X Keys(c)
    BY DEF Sockets
  <2>2. PICK key \in Keys(c) : k = <<c, key>>
    BY <2>1
  <2>3. PICK b : b = Origin(copy, c)
    OBVIOUS
  <2>4. c \in fresh /\ b \in tree /\ copy[b] = c /\ Keys(c) = Keys(b) /\ b \in Blocks
    BY <1>1, <1>6, <2>2, <2>3
  <2>5. <<b, key>> \in Sockets
    BY <2>2, <2>4 DEF Sockets
  <2>6. K[k] = IF d.socket[<<b, key>>] = NoBlock THEN NoBlock ELSE copy[d.socket[<<b, key>>]]
    BY <1>2, <1>6, <2>2, <2>3
  <2>7. d.socket[<<b, key>>] # NoBlock => d.socket[<<b, key>>] \in Within(d, b)
    <3>1. PICK x : x = d.socket[<<b, key>>]
      OBVIOUS
    <3>2. x # NoBlock => Sits(d, b, x)
      BY <2>2, <2>4, <2>5, <3>1 DEF Sits
    <3>3. QED
      BY <2>4, <3>1, <3>2, SitsIs
  <2>8. QED
    BY <2>2, <2>4, <2>5, <2>6, <2>7
<1>7. \A b \in tree : Within(d, b) \subseteq tree
  BY DEF Closed, Within
<1>8. A \in [Arms -> Seq(Blocks)]
  <2>1. ASSUME NEW a \in Arms PROVE A[a] \in Seq(Blocks)
    <3>1. CASE a[1] \in fresh
      <4>1. PICK b \in tree \cap Ifs, v \in {"then", "else"} :
                /\ <<b, v>> \in Arms
                /\ A[a] = Renamed(d.arm[<<b, v>>], copy) /\ ToSet(d.arm[<<b, v>>]) \subseteq Within(d, b)
        BY <1>5, <3>1
      <4>2. PICK s : s = d.arm[<<b, v>>]
        OBVIOUS
      <4>3. s \in Seq(Blocks) /\ \A x \in ToSet(s) : copy[x] \in Blocks
        BY <1>1, <1>7, <4>1, <4>2, StoredParts
      <4>4. QED
        BY <4>1, <4>2, <4>3, RenamedEntries
    <3>2. CASE a[1] \notin fresh
      BY <1>2, <3>2, StoredParts
    <3>3. QED
      BY <3>1, <3>2
  <2>2. QED
    BY <1>2, <2>1
<1>9. K \in [Sockets -> Expressions \cup {NoBlock}]
  <2>1. ASSUME NEW k \in Sockets PROVE K[k] \in Expressions \cup {NoBlock}
    <3>1. CASE k[1] \in fresh
      <4>1. PICK b \in tree : \E key \in Keys(b) :
                /\ <<b, key>> \in Sockets
                /\ IF d.socket[<<b, key>>] = NoBlock THEN K[k] = NoBlock
                   ELSE K[k] = copy[d.socket[<<b, key>>]] /\ d.socket[<<b, key>>] \in Within(d, b)
        BY <1>6, <3>1
      <4>2. PICK key \in Keys(b) : 
                /\ <<b, key>> \in Sockets
                /\ IF d.socket[<<b, key>>] = NoBlock THEN K[k] = NoBlock
                   ELSE K[k] = copy[d.socket[<<b, key>>]] /\ d.socket[<<b, key>>] \in Within(d, b)
        BY <4>1
      <4>3. PICK e : e = d.socket[<<b, key>>]
        OBVIOUS
      <4>4. e \in Expressions \cup {NoBlock}
        BY <4>2, <4>3, StoredParts
      <4>5. e \in tree \/ e = NoBlock
        BY <1>7, <4>2, <4>3
      <4>6. QED
        BY <1>1, <4>2, <4>3, <4>4, <4>5
    <3>2. CASE k[1] \notin fresh
      BY <1>2, <3>2, StoredParts
    <3>3. QED
      BY <3>1, <3>2
  <2>2. QED
    BY <1>2, <2>1
<1>10. Stored(n)
  <2>1. d.handlers \in SUBSET Handlers /\ d.parked \in Seq(Seq(Blocks) \ {<<>>}) /\ d.placed \in SUBSET Blocks
    BY StoredParts
  <2>2. QED
    BY <1>4, <1>8, <1>9, <2>1, StoredIs
<1>11. n.handlers = d.handlers /\ n.parked = d.parked /\ n.placed = d.placed /\ n.arm = A /\ n.socket = K
  BY <1>4
<1>12. /\ \A a \in Arms : a[1] \notin fresh => A[a] = d.arm[a]
       /\ \A k \in Sockets : k[1] \notin fresh => K[k] = d.socket[k]
  BY <1>2
<1>13. QED
  BY <1>5, <1>6, <1>10, <1>11, <1>12 DEF Copied

\* A copied subtree takes no place another block has.
LEMMA ReidSound ==
  ASSUME NEW d, Sound(d), NEW tree \in SUBSET Blocks, Closed(d, Full, tree),
         NEW copy, Copies(copy, tree, HeldIn(d)), NEW fresh, fresh = Fresh(copy),
         NEW n, n = Reid(d, copy)
  PROVE  /\ Sound(n) /\ n.handlers = d.handlers /\ n.parked = d.parked /\ n.placed = d.placed
         /\ \A a \in Arms : a[1] \notin fresh => n.arm[a] = d.arm[a]
         /\ \A k \in Sockets : k[1] \notin fresh => n.socket[k] = d.socket[k]
         /\ \A x : x \in HeldIn(n) => x \in HeldIn(d) \/ \E b, y \in tree : x = copy[b] /\ b \in Within(d, y)
<1>1. /\ Stored(n) /\ n.handlers = d.handlers /\ n.parked = d.parked /\ n.placed = d.placed
      /\ \A a \in Arms : a[1] \notin fresh => n.arm[a] = d.arm[a]
      /\ \A a \in Arms : a[1] \in fresh =>
           \E b \in tree \cap Ifs, v \in {"then", "else"} :
             /\ a = <<copy[b], v>> /\ <<b, v>> \in Arms
             /\ n.arm[a] = Renamed(d.arm[<<b, v>>], copy) /\ ToSet(d.arm[<<b, v>>]) \subseteq Within(d, b)
      /\ \A k \in Sockets : k[1] \notin fresh => n.socket[k] = d.socket[k]
      /\ \A k \in Sockets : k[1] \in fresh =>
           \E b \in tree : \E key \in Keys(b) :
             /\ k = <<copy[b], key>> /\ <<b, key>> \in Sockets
             /\ IF d.socket[<<b, key>>] = NoBlock THEN n.socket[k] = NoBlock
                ELSE n.socket[k] = copy[d.socket[<<b, key>>]] /\ d.socket[<<b, key>>] \in Within(d, b)
  <2>1. Stored(d)
    BY DEF Sound
  <2>2. Copied(d, n, copy, tree, fresh)
    BY <2>1, ReidIs
  <2>3. QED
    BY <2>2 DEF Copied
<1>2. /\ \A b \in tree : copy[b] \in fresh /\ copy[b] \in Blocks
      /\ \A x, y \in tree : copy[x] = copy[y] => x = y
      /\ \A x \in fresh : x \notin HeldIn(d)
      /\ \A b \in tree : Within(d, b) \subseteq tree
  <2>1. \A b \in tree : copy[b] \in fresh
    BY DEF Fresh, Copies
  <2>2. fresh \cap HeldIn(d) = {}
    <3>1. PICK used : used = HeldIn(d)
      OBVIOUS
    <3>2. Copies(copy, tree, used)
      BY <3>1
    <3>3. fresh \cap used = {}
      BY <3>2, OriginIs
    <3>4. QED
      BY <3>1, <3>3
  <2>3. (\A b \in tree : copy[b] \in Blocks) /\ \A x, y \in tree : copy[x] = copy[y] => x = y
    BY DEF Copies
  <2>4. \A b \in tree : Within(d, b) \subseteq tree
    BY DEF Closed, Within
  <2>5. QED
    BY <2>1, <2>2, <2>3, <2>4
<1>3. ASSUME NEW a \in Arms, a[1] \in fresh
      PROVE  /\ IsInjective(n.arm[a])
             /\ \A x \in ToSet(n.arm[a]) : \E b \in tree, v \in {"then", "else"}, p \in tree :
                  a = <<copy[b], v>> /\ <<b, v>> \in Arms /\ p \in ToSet(d.arm[<<b, v>>])
                    /\ p \in Within(d, b) /\ x = copy[p]
  <2>1. PICK b \in tree \cap Ifs, v \in {"then", "else"} :
             /\ a = <<copy[b], v>> /\ <<b, v>> \in Arms
             /\ n.arm[a] = Renamed(d.arm[<<b, v>>], copy) /\ ToSet(d.arm[<<b, v>>]) \subseteq Within(d, b)
    BY <1>1, <1>3
  <2>2. PICK s : s = d.arm[<<b, v>>]
    OBVIOUS
  <2>3. s \in Seq(Blocks) /\ IsInjective(s) /\ ToSet(s) \subseteq tree
    BY <1>2, <2>1, <2>2, StoredParts DEF Sound, OnceIn
  <2>4. (\A x \in ToSet(s) : copy[x] \in Blocks) /\ \A x, y \in ToSet(s) : copy[x] = copy[y] => x = y
    BY <1>2, <2>3
  <2>5. ToSet(Renamed(s, copy)) = {copy[x] : x \in ToSet(s)} /\ IsInjective(Renamed(s, copy))
    BY <2>3, <2>4, RenamedEntries
  <2>6. \A x \in ToSet(n.arm[a]) : \E p \in ToSet(s) : x = copy[p]
    BY <2>1, <2>2, <2>5
  <2>7. \A x \in ToSet(n.arm[a]) : \E p \in tree :
                  p \in ToSet(d.arm[<<b, v>>]) /\ p \in Within(d, b) /\ x = copy[p]
    BY <2>1, <2>2, <2>3, <2>6
  <2>8. IsInjective(n.arm[a])
    BY <2>1, <2>2, <2>5
  <2>9. QED
    BY <2>1, <2>7, <2>8
<1>4. ASSUME NEW k \in Sockets, k[1] \in fresh, n.socket[k] # NoBlock
      PROVE  \E b \in tree : \E key \in Keys(b), p \in tree :
               k = <<copy[b], key>> /\ <<b, key>> \in Sockets /\ p = d.socket[<<b, key>>]
                 /\ p # NoBlock /\ p \in Within(d, b) /\ n.socket[k] = copy[p]
  BY ZenonT(40), <1>1, <1>2, <1>4
<1>5. /\ \A x : x \in HeldIn(d) <=> \/ \E c \in Arms : x \in ToSet(d.arm[c])
                                    \/ \E l \in Sockets : x = d.socket[l] /\ x # NoBlock
                                    \/ \E run \in ToSet(d.parked) : x \in ToSet(run)
      /\ \A x : x \in HeldIn(n) <=> \/ \E c \in Arms : x \in ToSet(n.arm[c])
                                    \/ \E k \in Sockets : x = n.socket[k] /\ x # NoBlock
                                    \/ \E run \in ToSet(n.parked) : x \in ToSet(run)
  <2>1. \A p, x : x \in HeldIn(p) <=>
        \/ \E c \in Arms : x \in ToSet(p.arm[c])
        \/ \E l \in Sockets : x = p.socket[l] /\ x # NoBlock
        \/ \E run \in ToSet(p.parked) : x \in ToSet(run)
    BY HeldIs
  <2>2. QED
    BY <2>1
<1>6. \A a \in Arms : a[1] \notin fresh => \A x \in ToSet(n.arm[a]) : x \in ToSet(d.arm[a]) /\ x \notin fresh
  BY <1>1, <1>2, <1>5
<1>7. \A k \in Sockets : k[1] \notin fresh /\ n.socket[k] # NoBlock => n.socket[k] = d.socket[k] /\ n.socket[k] \notin fresh
  BY <1>1, <1>2, <1>5
<1>8. \A a \in Arms : a[1] \in fresh => \A x \in ToSet(n.arm[a]) : x \in fresh
  <2>1. ASSUME NEW a \in Arms, a[1] \in fresh, NEW x \in ToSet(n.arm[a]) PROVE x \in fresh
    <3>1. PICK b \in tree, v \in {"then", "else"}, p \in tree :
                  a = <<copy[b], v>> /\ <<b, v>> \in Arms /\ p \in ToSet(d.arm[<<b, v>>])
                    /\ p \in Within(d, b) /\ x = copy[p]
      BY <1>3, <2>1
    <3>2. QED
      BY <1>2, <3>1
  <2>2. QED
    BY <2>1
<1>9. \A k \in Sockets : k[1] \in fresh /\ n.socket[k] # NoBlock => n.socket[k] \in fresh
  BY <1>2, <1>4
<1>10. \A run \in ToSet(d.parked) : \A x \in ToSet(run) : x \notin fresh
  BY <1>2, <1>5
<1>11. NoBlock \notin fresh /\ (\A a \in Arms : NoBlock \notin ToSet(n.arm[a])) /\ \A run \in ToSet(d.parked) : NoBlock \notin ToSet(run)
  <2>1. \A a \in Arms : NoBlock \notin ToSet(n.arm[a])
    BY <1>1, StoredParts, BlockAssumption
  <2>2. \A run \in ToSet(d.parked) : NoBlock \notin ToSet(run)
    BY StoredParts, BlockAssumption DEF Sound
  <2>3. NoBlock \notin fresh
    <3>1. DOMAIN copy = tree /\ \A x \in tree : copy[x] \in Blocks
      BY DEF Copies
    <3>2. QED
      BY <3>1, BlockAssumption DEF Fresh
  <2>4. QED
    BY <2>1, <2>2, <2>3
<1>12. ASSUME NEW a \in Arms, NEW c \in Arms, NEW x \in ToSet(n.arm[a]), x \in ToSet(n.arm[c]) PROVE a = c
  <2>1. CASE a[1] \notin fresh
    BY <1>6, <1>8, <1>12, <2>1 DEF Sound, OnceIn
  <2>2. CASE c[1] \notin fresh
    BY <1>6, <1>8, <1>12, <2>2 DEF Sound, OnceIn
  <2>3. CASE a[1] \in fresh /\ c[1] \in fresh
    <3>1. PICK b \in tree, v \in {"then", "else"}, p \in tree :
                  a = <<copy[b], v>> /\ <<b, v>> \in Arms /\ p \in ToSet(d.arm[<<b, v>>])
                    /\ p \in Within(d, b) /\ x = copy[p]
      BY <1>3, <2>3
    <3>2. PICK e \in tree, w \in {"then", "else"}, q \in tree :
                  c = <<copy[e], w>> /\ <<e, w>> \in Arms /\ q \in ToSet(d.arm[<<e, w>>])
                    /\ q \in Within(d, e) /\ x = copy[q]
      BY <1>3, <1>12, <2>3
    <3>3. p = q
      BY <1>2, <3>1, <3>2
    <3>4. <<b, v>> = <<e, w>>
      BY <3>1, <3>2, <3>3 DEF Sound, OnceIn
    <3>5. QED
      BY <3>1, <3>2, <3>4
  <2>4. QED
    BY <2>1, <2>2, <2>3
<1>13. ASSUME NEW k \in Sockets, NEW l \in Sockets, n.socket[k] = n.socket[l], n.socket[k] # NoBlock PROVE k = l
  <2>1. CASE k[1] \notin fresh
    BY <1>7, <1>9, <1>13, <2>1 DEF Sound, OnceIn
  <2>2. CASE l[1] \notin fresh
    BY <1>7, <1>9, <1>13, <2>2 DEF Sound, OnceIn
  <2>3. CASE k[1] \in fresh /\ l[1] \in fresh
    <3>1. PICK b \in tree : \E key \in Keys(b), p \in tree :
               k = <<copy[b], key>> /\ <<b, key>> \in Sockets /\ p = d.socket[<<b, key>>]
                 /\ p # NoBlock /\ n.socket[k] = copy[p]
      BY ZenonT(40), <1>4, <1>13, <2>3
    <3>2. PICK key \in Keys(b), p \in tree :
               k = <<copy[b], key>> /\ <<b, key>> \in Sockets /\ p = d.socket[<<b, key>>]
                 /\ p # NoBlock /\ n.socket[k] = copy[p]
      BY <3>1
    <3>3. PICK e \in tree : \E kin \in Keys(e), q \in tree :
               l = <<copy[e], kin>> /\ <<e, kin>> \in Sockets /\ q = d.socket[<<e, kin>>]
                 /\ q # NoBlock /\ n.socket[l] = copy[q]
      BY <1>4, <1>13, <2>3
    <3>4. PICK kin \in Keys(e), q \in tree :
               l = <<copy[e], kin>> /\ <<e, kin>> \in Sockets /\ q = d.socket[<<e, kin>>]
                 /\ q # NoBlock /\ n.socket[l] = copy[q]
      BY <3>3
    <3>5. p = q
      BY <1>2, <1>13, <3>2, <3>4
    <3>6. <<b, key>> = <<e, kin>>
      BY <3>2, <3>4, <3>5 DEF Sound, OnceIn
    <3>7. QED
      BY <3>2, <3>4, <3>6
  <2>4. QED
    BY <2>1, <2>2, <2>3
<1>14. ASSUME NEW a \in Arms, NEW k \in Sockets, n.socket[k] \in ToSet(n.arm[a]) PROVE FALSE
  <2>0. n.socket[k] # NoBlock
    BY <1>11, <1>14
  <2>1. CASE a[1] \notin fresh
    BY <1>6, <1>7, <1>9, <1>14, <2>0, <2>1 DEF Sound, OnceIn
  <2>2. CASE k[1] \notin fresh
    BY <1>6, <1>7, <1>8, <1>14, <2>0, <2>2 DEF Sound, OnceIn
  <2>3. CASE a[1] \in fresh /\ k[1] \in fresh
    <3>6. PICK x : x = n.socket[k] /\ x \in ToSet(n.arm[a])
      BY <1>14
    <3>1. PICK b \in tree, v \in {"then", "else"}, p \in tree :
              a = <<copy[b], v>> /\ <<b, v>> \in Arms /\ p \in ToSet(d.arm[<<b, v>>])
                    /\ p \in Within(d, b) /\ x = copy[p]
      BY <1>3, <1>14, <2>3, <3>6
    <3>2. PICK e \in tree : \E kin \in Keys(e), q \in tree :
               <<e, kin>> \in Sockets /\ q = d.socket[<<e, kin>>] /\ n.socket[k] = copy[q]
      BY <1>4, <2>0, <2>3
    <3>3. PICK kin \in Keys(e), q \in tree :
               <<e, kin>> \in Sockets /\ q = d.socket[<<e, kin>>] /\ n.socket[k] = copy[q]
      BY <3>2
    <3>4. p = q
      BY <1>2, <3>1, <3>3, <3>6
    <3>5. QED
      BY <3>1, <3>3, <3>4 DEF Sound, OnceIn
  <2>4. QED
    BY <2>1, <2>2, <2>3
<1>15. OnceIn(n)
  <2>1. \A a \in Arms : IsInjective(n.arm[a])
    BY <1>1, <1>3 DEF Sound, OnceIn
  <2>2. \A a, c \in Arms : a # c => ToSet(n.arm[a]) \cap ToSet(n.arm[c]) = {}
    BY <1>12
  <2>3. \A k, l \in Sockets : n.socket[k] = n.socket[l] /\ k # l => n.socket[k] = NoBlock
    BY <1>13
  <2>4. \A a \in Arms, k \in Sockets : n.socket[k] \notin ToSet(n.arm[a])
    BY <1>14
  <2>5. \A run \in ToSet(n.parked), a \in Arms : ToSet(run) \cap ToSet(n.arm[a]) = {}
    BY <1>1, <1>6, <1>8, <1>10 DEF Sound, OnceIn
  <2>6. \A run \in ToSet(n.parked), k \in Sockets : n.socket[k] \notin ToSet(run)
    BY <1>1, <1>7, <1>9, <1>10, <1>11 DEF Sound, OnceIn
  <2>7. RunsApart(n.parked)
    BY <1>1 DEF Sound, OnceIn
  <2>8. QED
    BY <2>1, <2>2, <2>3, <2>4, <2>5, <2>6, <2>7 DEF OnceIn
<1>16. ASSUME NEW x, x \in HeldIn(n), x \notin HeldIn(d)
       PROVE  \E b, y \in tree : x = copy[b] /\ b \in Within(d, y)
  <2>1. \A run \in ToSet(n.parked) : x \notin ToSet(run)
    BY <1>1, <1>5, <1>16
  <2>2. CASE \E a \in Arms : x \in ToSet(n.arm[a])
    <3>1. PICK a \in Arms : x \in ToSet(n.arm[a])
      BY <2>2
    <3>2. a[1] \in fresh
      BY <1>5, <1>6, <1>16, <3>1
    <3>3. QED
      BY <1>3, <3>1, <3>2
  <2>3. CASE \E k \in Sockets : x = n.socket[k] /\ x # NoBlock
    <3>1. PICK k \in Sockets : x = n.socket[k] /\ x # NoBlock
      BY <2>3
    <3>2. k[1] \in fresh
      BY <1>5, <1>7, <1>16, <3>1
    <3>3. QED
      BY <1>4, <3>1, <3>2
  <2>4. QED
    BY <1>5, <1>16, <2>1, <2>2, <2>3
<1>17. QED
  BY <1>1, <1>15, <1>16 DEF Sound

\* What is on the canvas is held somewhere.
LEMMA CanvasHeld ==
  ASSUME NEW d, Sound(d)
  PROVE  \A x : x \in OnCanvas(d) => x \in HeldIn(d) /\ x \in Blocks
<1>1. \A x : x \in Roots(d) => x \in HeldIn(d)
  BY RootsAre, HeldIs DEF Sound
<1>2. OnCanvas(d) \in SUBSET Blocks
  BY CanvasIs DEF Sound
<1>3. ASSUME NEW x \in OnCanvas(d) PROVE x \in HeldIn(d)
  <2>1. CASE x \in Roots(d)
    BY <1>1, <2>1
  <2>2. CASE \E y \in OnCanvas(d) : x \in Within(d, y)
    BY <1>2, <2>2, OneHolder
  <2>3. QED
    BY <2>1, <2>2, CanvasHolds DEF Sound
<1>4. QED
  BY <1>2, <1>3

\* A program that lost nothing and gained some of F.
Grown(d, n, F) ==
  /\ n.handlers = d.handlers
  /\ \A a \in Arms : a[1] \notin F => ToSet(d.arm[a]) \subseteq ToSet(n.arm[a])
  /\ \A k \in Sockets : k[1] \notin F => n.socket[k] = d.socket[k]
  /\ \A x : x \in HeldIn(n) => x \in HeldIn(d) \/ x \in F

\* Duplicating a block in a stack adds the copy, each block of it once.
LEMMA DuplicateAttachedSound ==
  ASSUME NEW d, Sound(d), NEW h, NEW b \in Blocks, NEW copy, Copies(copy, BlockTree(d, {b}), HeldIn(d)),
         NEW n, n = DuplicateAttached(d, h, b, copy)
  PROVE  Sound(n) /\ Grown(d, n, Fresh(copy))
<1>1. CASE ~Locates(d, h, b)
  BY <1>1 DEF DuplicateAttached, Grown
<1>2. CASE Locates(d, h, b)
  <2>1. PICK tree, F, a, s, q : tree = BlockTree(d, {b}) /\ F = Fresh(copy) /\ a = ArmOf(d, b) /\ s = d.arm[a]
                                /\ q = Reid(d, copy)
    OBVIOUS
  <2>2. b \in tree /\ tree \in SUBSET Blocks /\ Closed(d, Full, tree) /\ Copies(copy, tree, HeldIn(d))
    BY <2>1, TreeIs DEF Sound
  <2>3. h \in d.handlers /\ b \in OnCanvas(d) /\ InArm(d, b)
    BY <1>2, FindableIs DEF Locates, Sound
  <2>4. a \in Arms /\ s \in Seq(Blocks) /\ Len(s) \in Nat /\ At(s, b) \in 1..Len(s) /\ b \in ToSet(s)
    BY <2>1, <2>3, RunFromIs
  <2>5. /\ Sound(q) /\ q.handlers = d.handlers /\ q.parked = d.parked
        /\ \A c \in Arms : c[1] \notin F => q.arm[c] = d.arm[c]
        /\ \A k \in Sockets : k[1] \notin F => q.socket[k] = d.socket[k]
        /\ \A x : x \in HeldIn(q) => x \in HeldIn(d) \/ \E c, y \in tree : x = copy[c] /\ c \in Within(d, y)
    <3>1. Closed(d, Full, tree) /\ Copies(copy, tree, HeldIn(d)) /\ tree \in SUBSET Blocks
          /\ F = Fresh(copy) /\ q = Reid(d, copy)
      BY <2>1, <2>2
    <3>2. QED
      BY <3>1, ReidSound
  <2>6. /\ \A c \in tree : copy[c] \in F /\ copy[c] \in Blocks
        /\ \A x \in F : x \notin HeldIn(d) /\ x \in Blocks
        /\ \A x, y \in tree : copy[x] = copy[y] => x = y
    <3>1. /\ DOMAIN copy = tree /\ \A c \in tree : copy[c] \in Blocks /\ copy[c] \notin HeldIn(d)
          /\ \A x, y \in tree : copy[x] = copy[y] => x = y
      BY <2>2 DEF Copies
    <3>2. \A x : x \in F <=> \E c \in tree : x = copy[c]
      BY <2>1, <3>1 DEF Fresh
    <3>3. QED
      BY <3>1, <3>2
  <2>7. a[1] \notin F
    <3>1. CASE a[1] \in Handlers
      BY <2>6, <3>1, BlockAssumption
    <3>2. CASE a \in Ifs \X {"then", "else"}
      <4>1. PICK c \in Ifs, v \in {"then", "else"} : a = <<c, v>>
        BY <3>2
      <4>2. c \in Blocks /\ Sits(d, c, b)
        BY <2>1, <2>4, <4>1 DEF Sits, Blocks
      <4>3. b \in Within(d, c)
        BY <4>2, SitsIs DEF Sound
      <4>4. b \notin Roots(d) /\ \A y \in Blocks : b \in Within(d, y) => c = y
        BY <4>2, <4>3, OneHolder
      <4>5. PICK x \in OnCanvas(d) : b \in Within(d, x)
        BY <2>3, <4>4, CanvasHolds DEF Sound
      <4>6. c \in HeldIn(d)
        BY <4>4, <4>5, CanvasHeld
      <4>7. QED
        BY <2>6, <4>1, <4>6
    <3>3. QED
      BY <2>4, <3>1, <3>2 DEF Arms
  <2>8. q.arm[a] = s
    BY <2>1, <2>4, <2>5, <2>7
  <2>9. PICK at, run : at = At(s, b) /\ run = <<copy[b]>>
    OBVIOUS
  <2>10. n = SplicedIn(q, a, at, run)
    BY <1>2, <2>1, <2>8, <2>9 DEF DuplicateAttached, SplicedIn
  <2>11. at \in 0..Len(q.arm[a]) /\ copy[b] \in Blocks
    BY <2>2, <2>4, <2>6, <2>8, <2>9
  <2>12. run \in Seq(Blocks) /\ IsInjective(run) /\ ToSet(run) = {copy[b]}
    BY <2>9, <2>11, OneRun
  <2>13. copy[b] \notin HeldIn(q)
    <3>1. SUFFICES ASSUME copy[b] \in HeldIn(q) PROVE FALSE
      OBVIOUS
    <3>2. copy[b] \notin HeldIn(d)
      BY <2>2, <2>6
    <3>3. PICK c, y \in tree : copy[b] = copy[c] /\ c \in Within(d, y)
      BY <2>5, <3>1, <3>2
    <3>4. b \in Within(d, y)
      BY <2>2, <2>6, <3>3
    <3>5. QED
      BY <2>1, <2>3, <3>3, <3>4, NoCycle
  <2>14. ToSet(run) \cap HeldIn(q) = {}
    BY <2>12, <2>13
  <2>15. /\ Sound(n)
         /\ \A x : x \in HeldIn(n) <=> x \in HeldIn(q) \/ x \in ToSet(run)
         /\ n.handlers = q.handlers /\ n.socket = q.socket
         /\ n.arm = [q.arm EXCEPT ![a] = Splice(@, at, run)]
    <3>1. Sound(q) /\ a \in Arms
      BY <2>4, <2>5
    <3>2. QED
      BY <3>1, <2>10, <2>11, <2>12, <2>14, Spliced
  <2>16. PICK u : u = Splice(s, at, run)
    OBVIOUS
  <2>17. ToSet(s) \subseteq ToSet(u)
    BY <2>4, <2>8, <2>11, <2>12, <2>16, SplicedEntries
  <2>18. \A c \in Arms : n.arm[c] = IF c = a THEN u ELSE q.arm[c]
    <3>1. q.arm \in [Arms -> Seq(Blocks)]
      BY <2>5, StoredParts DEF Sound
    <3>2. n.arm = [q.arm EXCEPT ![a] = u]
      BY <2>8, <2>15, <2>16
    <3>3. QED
      BY <3>1, <3>2
  <2>19. \A c \in Arms : c[1] \notin F => ToSet(d.arm[c]) \subseteq ToSet(n.arm[c])
    BY <2>1, <2>5, <2>17, <2>18
  <2>20. \A x : x \in HeldIn(n) => x \in HeldIn(d) \/ x \in F
    BY <2>2, <2>5, <2>6, <2>12, <2>15
  <2>21. Grown(d, n, F)
    BY <2>5, <2>15, <2>19, <2>20 DEF Grown
  <2>22. QED
    BY <2>1, <2>15, <2>21
<1>3. QED
  BY <1>1, <1>2

\* Duplicating a parked run adds the copy, each block of it once.
LEMMA DuplicateParkedSound ==
  ASSUME NEW d, Sound(d), NEW lead, IsLead(d, lead), NEW tree,
         tree = BlockTree(d, Range(d.parked[RunOf(d, lead)])),
         NEW copy, Copies(copy, tree, HeldIn(d)),
         NEW n, n = DuplicateParked(d, lead, copy)
  PROVE  Sound(n) /\ Grown(d, n, Fresh(copy))
<1>1. PICK F, r, run, twin, q : /\ F = Fresh(copy) /\ r = RunOf(d, lead) /\ run = d.parked[r]
                                /\ twin = Renamed(run, copy) /\ q = Reid(d, copy)
  OBVIOUS
<1>2. /\ d.parked \in ParkedRuns /\ RunsApart(d.parked) /\ r \in 1..Len(d.parked)
      /\ run \in Seq(Blocks) /\ run # <<>> /\ IsInjective(run) /\ run \in ToSet(d.parked)
  BY <1>1, LeadIs
<1>3. Range(run) = ToSet(run) /\ ToSet(run) \in SUBSET Blocks
  BY <1>2, RangeIsToSet, RunIsSeq
<1>4. ToSet(run) \subseteq tree /\ tree \in SUBSET Blocks /\ Closed(d, Full, tree)
  BY <1>1, <1>3, TreeIs DEF Sound
<1>5. /\ Sound(q) /\ q.handlers = d.handlers /\ q.parked = d.parked
      /\ \A c \in Arms : c[1] \notin F => q.arm[c] = d.arm[c]
      /\ \A k \in Sockets : k[1] \notin F => q.socket[k] = d.socket[k]
      /\ \A x : x \in HeldIn(q) => x \in HeldIn(d) \/ \E c, y \in tree : x = copy[c] /\ c \in Within(d, y)
  BY <1>1, <1>4, ReidSound
<1>6. /\ \A c \in tree : copy[c] \in F /\ copy[c] \in Blocks
      /\ \A x \in F : x \notin HeldIn(d) /\ x \in Blocks
      /\ \A x, y \in tree : copy[x] = copy[y] => x = y
  BY <1>1, <1>4 DEF Copies, Fresh
<1>7. twin \in Seq(Blocks) /\ ToSet(twin) = {copy[x] : x \in ToSet(run)} /\ IsInjective(twin)
  BY <1>1, <1>2, <1>4, <1>6, RenamedEntries
<1>8. twin # <<>> /\ twin[1] \in Blocks
  <2>1. ToSet(run) # {}
    BY <1>2, RunIsSeq
  <2>2. ToSet(twin) # {}
    BY <1>7, <2>1
  <2>3. twin # <<>>
    BY <2>2 DEF ToSet
  <2>4. QED
    BY <1>7, <2>3, RunIsSeq
<1>9. \A x \in ToSet(twin) : x \notin HeldIn(q) /\ x \in F
  <2>1. SUFFICES ASSUME NEW p \in ToSet(run) PROVE copy[p] \notin HeldIn(q) /\ copy[p] \in F
    BY <1>7
  <2>2. copy[p] \in F /\ copy[p] \notin HeldIn(d) /\ p \in tree
    BY <1>4, <1>6
  <2>3. \A y \in tree : p \notin Within(d, y)
    <3>1. p \in Roots(d)
      BY <1>2, RootsAre DEF Sound
    <3>2. QED
      BY <1>4, <3>1, OneHolder
  <2>4. QED
    BY <1>5, <1>6, <2>2, <2>3
<1>10. PICK P, Q : P = Splice(d.parked, r, <<twin>>) /\ Q = d.placed \cup {twin[1]}
  OBVIOUS
<1>11. n = RunsSet(q, P, Q)
  <2>1. n = [q EXCEPT !.parked = P, !.placed = Q]
    BY <1>1, <1>10 DEF DuplicateParked, Renamed
  <2>2. QED
    BY <2>1 DEF RunsSet
<1>12. \A x \in ToSet(twin) : x \notin Spanned(d.parked)
  <2>1. \A x : x \in Spanned(d.parked) => x \in HeldIn(d)
    BY SpannedIs, HeldIs
  <2>2. QED
    BY <1>6, <1>9, <2>1
<1>13. /\ P \in ParkedRuns /\ RunsApart(P)
       /\ \A x : x \in Spanned(P) <=> x \in Spanned(d.parked) \/ x \in ToSet(twin)
  <2>1. ToSet(twin) \cap Spanned(d.parked) = {} /\ r \in 0..Len(d.parked)
    BY <1>2, <1>12, RunsTyped
  <2>2. QED
    BY <1>2, <1>7, <1>8, <1>10, <2>1, RunsAppended
<1>14. Q \in SUBSET Blocks
  BY <1>8, <1>10, StoredParts DEF Sound
<1>15. \A x \in Spanned(P) : x \in Spanned(q.parked) \/ x \notin HeldIn(q)
  BY <1>5, <1>9, <1>13
<1>16. /\ Sound(n)
       /\ \A x : x \in HeldIn(n) <=> x \in HeldIn(q) \ Spanned(q.parked) \/ x \in Spanned(P)
       /\ n.handlers = q.handlers /\ n.arm = q.arm /\ n.socket = q.socket
  BY <1>5, <1>11, <1>13, <1>14, <1>15, RunsPut
<1>17. \A x : x \in HeldIn(n) => x \in HeldIn(d) \/ x \in F
  <2>1. \A x : x \in HeldIn(q) => x \in HeldIn(d) \/ x \in F
    BY <1>5, <1>6
  <2>2. \A x : x \in Spanned(d.parked) => x \in HeldIn(d)
    BY SpannedIs, HeldIs
  <2>3. QED
    BY <1>9, <1>13, <1>16, <2>1, <2>2
<1>18. Grown(d, n, F)
  BY <1>5, <1>16, <1>17 DEF Grown
<1>19. QED
  BY <1>1, <1>16, <1>18

(* A dragged expression: where it was taken from, or nowhere.              *)
Neat(d) == Sound(d) /\ \A x : x \in HeldIn(d) => x \in OnCanvas(d)

Packed(g) ==
  /\ g.expr \in g.carried /\ g.carried \subseteq Expressions
  /\ g.key \in Sockets /\ g.key[1] \notin g.carried
  /\ DOMAIN g.inner = {n \in Sockets : n[1] \in g.carried}
  /\ \A n \in DOMAIN g.inner : g.inner[n] \in (g.carried \ {g.expr}) \cup {NoBlock}
  /\ \A n, o \in DOMAIN g.inner : g.inner[n] = g.inner[o] /\ g.inner[n] # NoBlock => n = o
  /\ \A S \in SUBSET g.carried :
       g.expr \in S /\ (\A n \in DOMAIN g.inner : n[1] \in S => g.inner[n] \in S \cup {NoBlock})
         => g.carried \subseteq S

Wired(d, g) ==
  /\ d.socket[g.key] = g.expr /\ g.h \in d.handlers /\ g.key[1] \in Findable(d, g.h)
  /\ \A n \in DOMAIN g.inner : d.socket[n] = g.inner[n]

Gone(d, g) == \A x \in g.carried \cup {g.key[1]} : x \notin HeldIn(d)

SlotKept(d, g) == Packed(g) /\ (Wired(d, g) \/ Gone(d, g))

\* A socket's key, and what it holds.
LEMMA SocketHolds ==
  ASSUME NEW d, Stored(d), NEW k \in Sockets
  PROVE  /\ k[1] \in Blocks
         /\ d.socket[k] # NoBlock => d.socket[k] \in Within(d, k[1]) /\ d.socket[k] \in Inside(d, k[1], Full)
<1>1. PICK b \in Blocks : k \in {b} \X Keys(b)
  BY DEF Sockets
<1>2. PICK key \in Keys(b) : k = <<b, key>>
  BY <1>1
<1>3. PICK x : x = d.socket[k]
  OBVIOUS
<1>4. x # NoBlock => Sits(d, b, x)
  BY <1>2, <1>3 DEF Sits
<1>5. k[1] = b
  BY <1>2
<1>6. QED
  BY <1>3, <1>4, <1>5, SitsIs

\* Expressions hold expressions.
LEMMA ExpressionsHold ==
  ASSUME NEW d, Stored(d), NEW b \in Expressions, NEW x, x \in Within(d, b)
  PROVE  x \in Expressions /\ \E k \in Sockets : k[1] = b /\ x = d.socket[k] /\ x # NoBlock
<1>1. b \in Blocks /\ b \notin Ifs
  BY BlockAssumption DEF Blocks
<1>2. Sits(d, b, x)
  BY <1>1, SitsIs
<1>3. PICK key \in Keys(b) : <<b, key>> \in Sockets /\ x = d.socket[<<b, key>>] /\ x # NoBlock
  BY <1>1, <1>2 DEF Sits
<1>4. PICK k : k = <<b, key>>
  OBVIOUS
<1>5. k \in Sockets /\ k[1] = b /\ x = d.socket[k] /\ x # NoBlock
  BY <1>3, <1>4
<1>6. QED
  BY <1>5, StoredParts

\* What is packed when the drag begins.
Operands(d, carried) == [n \in {n \in Sockets : n[1] \in carried} |-> d.socket[n]]

\* A dragged expression is wired where the drag began.
LEMMA SlotBegins ==
  ASSUME NEW d, Sound(d), NEW h \in d.handlers, NEW k \in Sockets, k[1] \in Findable(d, h),
         NEW e, e = d.socket[k], e # NoBlock, NEW carried, carried = BlockTree(d, {e}),
         NEW g, g.h = h, g.key = k, g.expr = e, g.carried = carried,
         g.inner = Operands(d, carried)
  PROVE  SlotKept(d, g)
<1>1. e \in Expressions /\ e \in Blocks /\ e \in Within(d, k[1]) /\ k[1] \in Blocks
  BY StoredParts, SocketHolds DEF Sound
<1>2. Findable(d, h) \subseteq OnCanvas(d) /\ Closed(d, Full, OnCanvas(d))
  BY FindableIs, CanvasIs DEF Sound
<1>3. e \in OnCanvas(d)
  BY <1>1, <1>2 DEF Closed, Within
<1>4. /\ e \in carried /\ Closed(d, Full, carried)
      /\ \A S : {e} \subseteq S /\ Closed(d, Full, S) => carried \subseteq S
  <2>1. {e} \in SUBSET Blocks
    BY <1>1
  <2>2. QED
    BY <2>1, TreeIs DEF Sound
<1>5. carried \subseteq Expressions
  <2>1. \A x \in Expressions \cap Blocks : Inside(d, x, Full) \subseteq Expressions
    BY ExpressionsHold DEF Within, Sound
  <2>2. Closed(d, Full, Expressions)
    BY <2>1 DEF Closed
  <2>3. QED
    BY <1>1, <1>4, <2>2
<1>6. \A x \in carried : e \notin Within(d, x)
  BY <1>3, NoCycle
<1>7. k[1] \notin carried
  BY <1>1, <1>6
<1>8. PICK I : I = g.inner
  OBVIOUS
<1>9. DOMAIN I = {n \in Sockets : n[1] \in carried} /\ \A n \in DOMAIN I : I[n] = d.socket[n]
  BY <1>8 DEF Operands
<1>10. \A n \in DOMAIN I : I[n] \in (carried \ {e}) \cup {NoBlock}
  <2>1. ASSUME NEW n \in Sockets, n[1] \in carried, d.socket[n] # NoBlock PROVE d.socket[n] \in carried \ {e}
    <3>1. PICK x : x = d.socket[n]
      OBVIOUS
    <3>2. n[1] \in Blocks /\ x \in Within(d, n[1]) /\ x \in Inside(d, n[1], Full)
      BY <2>1, <3>1, SocketHolds DEF Sound
    <3>3. x \in carried
      BY <1>4, <2>1, <3>2 DEF Closed
    <3>4. x # e
      BY <1>6, <2>1, <3>2
    <3>5. QED
      BY <3>1, <3>3, <3>4
  <2>2. QED
    BY <1>9, <2>1
<1>11. \A n, o \in DOMAIN I : I[n] = I[o] /\ I[n] # NoBlock => n = o
  BY <1>9 DEF Sound, OnceIn
<1>12. ASSUME NEW S \in SUBSET carried, e \in S, \A n \in DOMAIN I : n[1] \in S => I[n] \in S \cup {NoBlock}
       PROVE  carried \subseteq S
  <2>1. PICK R : R = S \cap carried
    OBVIOUS
  <2>2. ASSUME NEW x \in R \cap Blocks, NEW y \in Inside(d, x, Full) PROVE y \in R
    <3>1. x \in Expressions /\ y \in Within(d, x) /\ y \in carried
      BY <1>4, <1>5, <2>1, <2>2 DEF Closed, Within
    <3>2. PICK n \in Sockets : n[1] = x /\ y = d.socket[n] /\ y # NoBlock
      BY <3>1, ExpressionsHold DEF Sound
    <3>3. n \in DOMAIN I
      BY <1>9, <2>1, <3>2
    <3>4. QED
      BY <1>9, <1>12, <2>1, <3>1, <3>2, <3>3
  <2>3. Closed(d, Full, R)
    BY <2>2 DEF Closed
  <2>4. QED
    BY <1>4, <1>12, <2>1, <2>3
<1>13. Packed(g)
  <2>2. e = g.expr /\ carried = g.carried /\ k = g.key /\ I = g.inner
    BY <1>8
  <2>3. g.expr \in g.carried /\ g.carried \subseteq Expressions /\ g.key \in Sockets /\ g.key[1] \notin g.carried
    BY <1>4, <1>5, <1>7, <2>2
  <2>4. /\ DOMAIN g.inner = {n \in Sockets : n[1] \in g.carried}
        /\ \A n \in DOMAIN g.inner : g.inner[n] \in (g.carried \ {g.expr}) \cup {NoBlock}
        /\ \A n, o \in DOMAIN g.inner : g.inner[n] = g.inner[o] /\ g.inner[n] # NoBlock => n = o
    BY <1>9, <1>10, <1>11, <2>2
  <2>5. ASSUME NEW S \in SUBSET g.carried, g.expr \in S,
               \A n \in DOMAIN g.inner : n[1] \in S => g.inner[n] \in S \cup {NoBlock}
        PROVE  g.carried \subseteq S
    <3>1. S \in SUBSET carried /\ e \in S /\ \A n \in DOMAIN I : n[1] \in S => I[n] \in S \cup {NoBlock}
      BY <2>2, <2>5
    <3>2. carried \subseteq S
      BY <1>12, <3>1
    <3>3. QED
      BY <2>2, <3>2
  <2>6. QED
    BY <2>3, <2>4, <2>5 DEF Packed
<1>14. Wired(d, g)
  BY <1>8, <1>9 DEF Wired
<1>15. QED
  BY <1>13, <1>14 DEF SlotKept

\* It stays where it was while the program around it grows.
LEMMA SlotGrown ==
  ASSUME NEW d, Sound(d), NEW n, Sound(n), NEW g, SlotKept(d, g), NEW F, F \subseteq Blocks, Grown(d, n, F),
         \A x \in F : x \notin HeldIn(d) /\ x \notin g.carried /\ x # g.key[1]
  PROVE  SlotKept(n, g)
<1>1. /\ n.handlers = d.handlers
      /\ \A a \in Arms : a[1] \notin F => ToSet(d.arm[a]) \subseteq ToSet(n.arm[a])
      /\ \A k \in Sockets : k[1] \notin F => n.socket[k] = d.socket[k]
      /\ \A x : x \in HeldIn(n) => x \in HeldIn(d) \/ x \in F
  BY DEF Grown
<1>2. CASE Gone(d, g)
  BY <1>1, <1>2 DEF SlotKept, Gone
<1>3. CASE Wired(d, g)
  <2>1. PICK h, k : h = g.h /\ k = g.key
    OBVIOUS
  <2>2. /\ h \in d.handlers /\ k[1] \in Findable(d, h) /\ k \in Sockets /\ d.socket[k] = g.expr
        /\ \A o \in DOMAIN g.inner : d.socket[o] = g.inner[o] /\ o \in Sockets /\ o[1] \in g.carried
    BY <1>3, <2>1 DEF Wired, SlotKept, Packed
  <2>3. \A x \in Findable(d, h) : x \notin F
    BY <2>2, FindableIs, CanvasHeld DEF Sound
  <2>4. h \notin F
    BY <2>2, StoredParts, BlockAssumption DEF Sound
  <2>5. Findable(d, h) \subseteq Findable(n, h)
    <3>1. PICK T : T = {}
      OBVIOUS
    <3>2. Closed(d, Full, T)
      BY <3>1 DEF Closed
    <3>3. \A a \in Arms : a[1] \in {h} \cup Findable(d, h) => ToSet(d.arm[a]) \subseteq ToSet(n.arm[a]) \cup T
      BY <1>1, <2>3, <2>4
    <3>4. \A l \in Sockets : l[1] \in Findable(d, h) => n.socket[l] = d.socket[l]
      BY <1>1, <2>3
    <3>5. Stored(d) /\ Stored(n) /\ h \in n.handlers
      BY <1>1, <2>2 DEF Sound
    <3>6. Findable(d, h) \subseteq Findable(n, h) \cup T
      BY <2>2, <3>2, <3>3, <3>4, <3>5, FindableKept
    <3>7. QED
      BY <3>1, <3>6
  <2>6. n.socket[k] = g.expr
    BY <1>1, <2>2, <2>3
  <2>7. \A o \in DOMAIN g.inner : n.socket[o] = g.inner[o]
    BY <1>1, <2>2
  <2>8. Wired(n, g)
    BY <1>1, <2>1, <2>2, <2>5, <2>6, <2>7 DEF Wired
  <2>9. QED
    BY <2>8 DEF SlotKept
<1>4. QED
  BY <1>2, <1>3 DEF SlotKept

\* Closed sets that have the expression have all it carries.
LEMMA CarriedIn ==
  ASSUME NEW d, Sound(d), NEW g, Packed(g), Wired(d, g), NEW T, Closed(d, Full, T), g.expr \in T
  PROVE  g.carried \subseteq T
<1>1. \A n \in DOMAIN g.inner : n \in Sockets /\ d.socket[n] = g.inner[n]
  BY DEF Packed, Wired
<1>2. ASSUME NEW n \in DOMAIN g.inner, n[1] \in T, g.inner[n] # NoBlock PROVE g.inner[n] \in T
  <2>1. n \in Sockets /\ d.socket[n] # NoBlock
    BY <1>1, <1>2
  <2>2. n[1] \in Blocks /\ d.socket[n] \in Inside(d, n[1], Full)
    BY <2>1, SocketHolds DEF Sound
  <2>3. QED
    BY <1>1, <1>2, <2>2 DEF Closed
<1>3. PICK S : S = T \cap g.carried
  OBVIOUS
<1>4. \A n \in DOMAIN g.inner : n[1] \in S => g.inner[n] \in S \cup {NoBlock}
  BY <1>2, <1>3 DEF Packed
<1>5. S \in SUBSET g.carried /\ g.expr \in S
  BY <1>3 DEF Packed
<1>6. g.carried \subseteq S
  BY <1>4, <1>5 DEF Packed
<1>7. QED
  BY <1>3, <1>6

\* Dropping what is off the canvas keeps the dragged expression wired or gone.
LEMMA SlotTidied ==
  ASSUME NEW d, Sound(d), NEW g, SlotKept(d, g), NEW t, t = Tidy(d)
  PROVE  SlotKept(t, g)
<1>1. /\ t.handlers = d.handlers
      /\ \A k \in Sockets : k[1] \in OnCanvas(d) => t.socket[k] = d.socket[k]
  BY TidyIs DEF Sound
<1>2. \A h \in d.handlers : Findable(d, h) \subseteq Findable(t, h)
  BY TidyKeeps DEF Sound
<1>3. CASE Gone(d, g)
  BY <1>3, TidySound DEF SlotKept, Gone
<1>4. CASE Wired(d, g)
  <2>1. PICK h, k, e : h = g.h /\ k = g.key /\ e = g.expr
    OBVIOUS
  <2>2. /\ h \in d.handlers /\ k[1] \in Findable(d, h) /\ k \in Sockets /\ d.socket[k] = e
        /\ \A o \in DOMAIN g.inner : d.socket[o] = g.inner[o] /\ o \in Sockets /\ o[1] \in g.carried
        /\ e \in Expressions
    BY <1>4, <2>1 DEF Wired, SlotKept, Packed
  <2>3. e # NoBlock
    BY <2>2, BlockAssumption DEF Blocks
  <2>4. Findable(d, h) \subseteq OnCanvas(d) /\ Closed(d, Full, OnCanvas(d)) /\ Closed(d, Full, Findable(d, h))
    BY <2>2, FindableIs, CanvasIs DEF Sound
  <2>5. e \in OnCanvas(d)
    BY <2>2, <2>3, <2>4, SocketHolds DEF Closed, Sound
  <2>6. g.carried \subseteq OnCanvas(d)
    BY <1>4, <2>1, <2>4, <2>5, CarriedIn DEF SlotKept
  <2>7. t.socket[k] = e /\ \A o \in DOMAIN g.inner : t.socket[o] = g.inner[o]
    BY <1>1, <2>2, <2>4, <2>6
  <2>8. Wired(t, g)
    BY <1>1, <1>2, <2>1, <2>2, <2>7 DEF Wired
  <2>9. QED
    BY <2>8 DEF SlotKept
<1>5. QED
  BY <1>3, <1>4 DEF SlotKept

\* Deleting a block keeps the dragged expression wired, or takes all of it.
LEMMA SlotRemoved ==
  ASSUME NEW d, Sound(d), NEW g, SlotKept(d, g), NEW h, NEW b, NEW n, n = RemoveBlock(d, h, b),
         NEW t, t = Tidy(n)
  PROVE  SlotKept(t, g)
<1>1. /\ Sound(n) /\ (\A x : x \in HeldIn(n) => x \in HeldIn(d))
      /\ n.handlers = d.handlers /\ n.socket = d.socket
  BY RemoveBlockSound
<1>2. PICK T \in SUBSET Blocks : /\ Closed(d, Full, T) /\ T \cap OnCanvas(n) = {}
                                 /\ \A i \in d.handlers : Findable(d, i) \subseteq Findable(n, i) \cup T
  BY RemoveBlockSound
<1>3. CASE Gone(d, g)
  <2>1. SlotKept(n, g)
    BY <1>1, <1>3 DEF SlotKept, Gone
  <2>2. QED
    BY <1>1, <2>1, SlotTidied
<1>4. CASE Wired(d, g) /\ g.key[1] \notin T
  <2>1. Wired(n, g)
    BY <1>1, <1>2, <1>4 DEF Wired
  <2>2. SlotKept(n, g)
    BY <2>1 DEF SlotKept
  <2>3. QED
    BY <1>1, <2>2, SlotTidied
<1>5. CASE Wired(d, g) /\ g.key[1] \in T
  <2>1. PICK k, e : k = g.key /\ e = g.expr
    OBVIOUS
  <2>2. k \in Sockets /\ d.socket[k] = e /\ e \in Expressions
    BY <1>5, <2>1 DEF Wired, SlotKept, Packed
  <2>3. e # NoBlock
    BY <2>2, BlockAssumption DEF Blocks
  <2>4. e \in T
    BY <1>2, <1>5, <2>1, <2>2, <2>3, SocketHolds DEF Closed, Sound
  <2>5. g.carried \subseteq T
    BY <1>2, <1>5, <2>1, <2>4, CarriedIn DEF SlotKept
  <2>6. HeldIn(t) \subseteq OnCanvas(n)
    BY <1>1, TidyKeeps DEF Sound
  <2>7. QED
    BY <1>2, <1>5, <2>5, <2>6 DEF SlotKept, Gone
<1>6. QED
  BY <1>3, <1>4, <1>5 DEF SlotKept

\* Only blocks are held.
LEMMA HeldBlocks ==
  ASSUME NEW d, Sound(d)
  PROVE  (\A x : x \in HeldIn(d) => x \in Blocks) /\ NoBlock \notin HeldIn(d)
<1>1. /\ \A a \in Arms : ToSet(d.arm[a]) \in SUBSET Blocks
      /\ \A k \in Sockets : d.socket[k] \in Expressions \cup {NoBlock}
      /\ \A run \in ToSet(d.parked) : ToSet(run) \in SUBSET Blocks
      /\ Expressions \subseteq Blocks
  BY StoredParts DEF Sound
<1>2. \A x : x \in HeldIn(d) => x \in Blocks
  BY <1>1, HeldIs
<1>3. QED
  BY <1>2, BlockAssumption

\* The sockets a dragged expression brings along.
Unpack(d, inner) ==
  [d EXCEPT !.socket = [k \in Sockets |-> IF k \in DOMAIN inner THEN inner[k] ELSE d.socket[k]]]

\* Writing the operands of a carried expression back into its sockets.
LEMMA UnpackSound ==
  ASSUME NEW d, Sound(d), NEW inner, DOMAIN inner \subseteq Sockets, NEW V, V \subseteq Expressions,
         \A k \in DOMAIN inner : inner[k] \in V \cup {NoBlock},
         \A k, l \in DOMAIN inner : inner[k] = inner[l] /\ inner[k] # NoBlock => k = l,
         \A x \in V : x \notin HeldIn(d),
         NEW n, n = Unpack(d, inner)
  PROVE  Sound(n) /\ n.handlers = d.handlers /\ \A x : x \in HeldIn(n) => x \in HeldIn(d) \/ x \in V
<1>0. Stored(d) /\ OnceIn(d)
  BY DEF Sound
<1>1. PICK K : K = [k \in Sockets |-> IF k \in DOMAIN inner THEN inner[k] ELSE d.socket[k]]
  OBVIOUS
<1>2. n = [handlers |-> d.handlers, arm |-> d.arm, socket |-> K, parked |-> d.parked, placed |-> d.placed]
  <2>1. n = [d EXCEPT !.socket = K]
    BY <1>1 DEF Unpack
  <2>2. QED
    BY <1>0, <2>1, StoredParts
<1>3. n.handlers = d.handlers /\ n.arm = d.arm /\ n.socket = K /\ n.parked = d.parked
  BY <1>2
<1>4. K \in [Sockets -> Expressions \cup {NoBlock}]
  <2>1. \A k \in Sockets : d.socket[k] \in Expressions \cup {NoBlock}
    BY <1>0, StoredParts
  <2>2. QED
    BY <1>1, <2>1
<1>5. Stored(n)
  <2>1. /\ d.handlers \in SUBSET Handlers /\ d.arm \in [Arms -> Seq(Blocks)]
        /\ d.parked \in Seq(Seq(Blocks) \ {<<>>}) /\ d.placed \in SUBSET Blocks
    BY <1>0, StoredParts
  <2>2. Stored([handlers |-> d.handlers, arm |-> d.arm, socket |-> K, parked |-> d.parked, placed |-> d.placed])
    BY <1>4, <2>1, StoredIs
  <2>3. QED
    BY <1>2, <2>2
<1>6. \A x : x \in HeldIn(d) <=> \/ \E c \in Arms : x \in ToSet(d.arm[c])
                                 \/ \E l \in Sockets : x = d.socket[l] /\ x # NoBlock
                                 \/ \E run \in ToSet(d.parked) : x \in ToSet(run)
  BY HeldIs
<1>7. \A k \in Sockets : K[k] = NoBlock \/ (k \notin DOMAIN inner /\ K[k] = d.socket[k] /\ K[k] \notin V)
                           \/ (k \in DOMAIN inner /\ K[k] = inner[k] /\ K[k] \in V)
  BY <1>1, <1>6
<1>8. /\ \A a \in Arms : NoBlock \notin ToSet(d.arm[a])
      /\ \A run \in ToSet(d.parked) : NoBlock \notin ToSet(run)
  BY <1>0, StoredParts, BlockAssumption
<1>9. OnceIn(n)
  <2>1. \A k, l \in Sockets : K[k] = K[l] /\ k # l => K[k] = NoBlock
    BY <1>0, <1>7 DEF OnceIn
  <2>2. \A a \in Arms, k \in Sockets : K[k] \notin ToSet(d.arm[a])
    BY <1>0, <1>6, <1>7, <1>8 DEF OnceIn
  <2>3. \A run \in ToSet(d.parked), k \in Sockets : K[k] \notin ToSet(run)
    BY <1>0, <1>6, <1>7, <1>8 DEF OnceIn
  <2>4. QED
    BY <1>0, <1>3, <2>1, <2>2, <2>3 DEF OnceIn
<1>10. ASSUME NEW x, x \in HeldIn(n) PROVE x \in HeldIn(d) \/ x \in V
  <2>1. \/ \E c \in Arms : x \in ToSet(n.arm[c])
        \/ \E l \in Sockets : x = n.socket[l] /\ x # NoBlock
        \/ \E run \in ToSet(n.parked) : x \in ToSet(run)
    BY <1>10, HeldIs
  <2>2. QED
    BY <1>3, <1>6, <1>7, <2>1
<1>11. QED
  BY <1>3, <1>5, <1>9, <1>10 DEF Sound

\* A dragged expression dropped: its copy takes the place of what it left, or comes back.
LEMMA DropSlotSound ==
  ASSUME NEW d, Sound(d), NEW g, SlotKept(d, g), NEW t,
         t.to = "socket" => t.key \in Sockets
  PROVE  Sound(DropSlot(d, g, t))
<1>1. PICK e, cut, placed, h, k : /\ cut = SetSlot(d, g.h, g.key, NoBlock)
                           /\ placed = Unpack(cut, g.inner) /\ e = g.expr /\ h = g.h /\ k = g.key
  OBVIOUS
<1>2. /\ e \in g.carried /\ g.carried \subseteq Expressions /\ k \in Sockets /\ k[1] \notin g.carried
      /\ DOMAIN g.inner = {n \in Sockets : n[1] \in g.carried}
      /\ \A n \in DOMAIN g.inner : g.inner[n] \in (g.carried \ {e}) \cup {NoBlock}
      /\ \A n, o \in DOMAIN g.inner : g.inner[n] = g.inner[o] /\ g.inner[n] # NoBlock => n = o
  BY <1>1 DEF SlotKept, Packed
<1>3. NoBlock \notin HeldIn(d)
  BY HeldBlocks
<1>4. /\ Sound(cut) /\ cut.handlers = d.handlers /\ cut.parked = d.parked /\ cut.arm = d.arm
      /\ (h \in d.handlers /\ k[1] \in Findable(d, h)) =>
           \A x : x \in HeldIn(cut) <=> x \in HeldIn(d) \ {d.socket[k]} \/ x \in {NoBlock} \ {NoBlock}
      /\ cut.socket = IF h \in d.handlers /\ k[1] \in Findable(d, h)
                      THEN [d.socket EXCEPT ![k] = NoBlock] ELSE d.socket
  <2>1. PICK empty : empty = NoBlock
    OBVIOUS
  <2>2. cut = SetSlot(d, h, k, empty) /\ empty \in Expressions \cup {NoBlock} /\ empty \notin HeldIn(d)
    BY <1>1, <1>3, <2>1
  <2>3. Sound(cut)
    BY <1>2, <2>2, SetSlotSound
  <2>6. h \in d.handlers /\ k[1] \in Findable(d, h) =>
             \A x : x \in HeldIn(cut) <=> x \in HeldIn(d) \ {d.socket[k]} \/ x \in {empty} \ {NoBlock}
    BY <1>2, <2>2, SetSlotSound
  <2>8. cut = IF h \in d.handlers /\ k[1] \in Findable(d, h) THEN [d EXCEPT !.socket[k] = empty] ELSE d
    BY <2>2 DEF SetSlot
  <2>9. d = [handlers |-> d.handlers, arm |-> d.arm, socket |-> d.socket, parked |-> d.parked, placed |-> d.placed]
    BY StoredParts DEF Sound
  <2>4. cut.handlers = d.handlers /\ cut.arm = d.arm /\ cut.parked = d.parked
    BY <2>8, <2>9
  <2>7. cut.socket = IF h \in d.handlers /\ k[1] \in Findable(d, h)
                     THEN [d.socket EXCEPT ![k] = empty] ELSE d.socket
    BY <2>8, <2>9
  <2>5. QED
    BY <2>1, <2>3, <2>4, <2>6, <2>7
<1>5. Sound(placed) /\ e \notin HeldIn(placed) /\ placed.handlers = d.handlers
  <2>1. CASE Wired(d, g)
    <3>1. /\ h \in d.handlers /\ k[1] \in Findable(d, h) /\ d.socket[k] = e
          /\ \A n \in DOMAIN g.inner : d.socket[n] = g.inner[n]
      BY <1>1, <2>1 DEF Wired
    <3>2. e \notin HeldIn(cut)
      BY <1>4, <3>1
    <3>3. /\ cut.socket \in [Sockets -> Expressions \cup {NoBlock}]
          /\ cut = [handlers |-> cut.handlers, arm |-> cut.arm, socket |-> cut.socket,
                 parked |-> cut.parked, placed |-> cut.placed]
      BY <1>4, StoredParts DEF Sound
    <3>4. cut.socket = [d.socket EXCEPT ![k] = NoBlock] /\ d.socket \in [Sockets -> Expressions \cup {NoBlock}]
      BY <1>4, <3>1, StoredParts DEF Sound
    <3>5. \A n \in DOMAIN g.inner : cut.socket[n] = g.inner[n]
      BY <1>2, <3>1, <3>4
    <3>6. PICK K : K = [n \in Sockets |-> IF n \in DOMAIN g.inner THEN g.inner[n] ELSE cut.socket[n]]
      OBVIOUS
    <3>7. K = cut.socket
      BY <3>3, <3>5, <3>6
    <3>8. placed = [cut EXCEPT !.socket = K]
      BY <1>1, <3>6 DEF Unpack
    <3>9. placed = cut
      BY <3>3, <3>7, <3>8
    <3>10. QED
      BY <1>4, <3>2, <3>9
  <2>2. CASE Gone(d, g)
    <3>1. \A x : x \in HeldIn(cut) => x \in HeldIn(d)
      <4>1. CASE h \in d.handlers /\ k[1] \in Findable(d, h)
        BY <1>4, <4>1
      <4>2. CASE ~(h \in d.handlers /\ k[1] \in Findable(d, h))
        BY <1>1, <4>2 DEF SetSlot
      <4>3. QED
        BY <4>1, <4>2
    <3>2. PICK V : V = g.carried \ {e}
      OBVIOUS
    <3>3. /\ DOMAIN g.inner \subseteq Sockets /\ V \subseteq Expressions
          /\ \A n \in DOMAIN g.inner : g.inner[n] \in V \cup {NoBlock}
          /\ \A x \in V : x \notin HeldIn(cut)
      BY <1>2, <2>2, <3>1, <3>2 DEF Gone
    <3>4. Sound(placed) /\ placed.handlers = cut.handlers /\ \A x : x \in HeldIn(placed) => x \in HeldIn(cut) \/ x \in V
      <4>1. PICK inner : inner = g.inner
        OBVIOUS
      <4>2. /\ DOMAIN inner \subseteq Sockets /\ V \subseteq Expressions
            /\ \A n \in DOMAIN inner : inner[n] \in V \cup {NoBlock}
            /\ \A x \in V : x \notin HeldIn(cut)
            /\ \A n, o \in DOMAIN inner : inner[n] = inner[o] /\ inner[n] # NoBlock => n = o
            /\ placed = Unpack(cut, inner)
        BY <1>1, <1>2, <3>3, <4>1
      <4>3. QED
        BY <1>4, <4>2, UnpackSound
    <3>5. e \notin HeldIn(cut) /\ e \notin V
      BY <1>2, <2>2, <3>1, <3>2 DEF Gone
    <3>6. QED
      BY <1>4, <3>4, <3>5
  <2>3. QED
    BY <2>1, <2>2 DEF SlotKept
<1>6. e \in Expressions /\ e \in Blocks
  BY <1>2 DEF Blocks
<1>7. PICK n : n = DropSlot(d, g, t)
  OBVIOUS
<1>8. n = CASE t.to = "socket" /\ t.h = g.h /\ t.key = g.key -> d
            [] t.to = "socket" /\ ~(t.h = g.h /\ t.key = g.key) ->
                 IF t.h \in d.handlers /\ t.key[1] \in Findable(cut, t.h) THEN Wire(placed, t, e) ELSE cut
            [] t.to = "park" -> AddParked(placed, e)
            [] OTHER -> d
  BY <1>1, <1>7 DEF DropSlot, Unpack
<1>9. t.to = "socket" => Sound(Wire(placed, t, e))
  BY <1>5, <1>6, WireSound
<1>10. Sound(AddParked(placed, e))
  BY <1>5, <1>6, AddParkedSound
<1>11. n = d \/ n = cut \/ (t.to = "socket" /\ n = Wire(placed, t, e)) \/ n = AddParked(placed, e)
  BY <1>8
<1>12. QED
  BY <1>4, <1>7, <1>9, <1>10, <1>11

DragHeld(d, g) ==
  \/ g = NoBlock
  \/ /\ g.from \in {"palette-statement", "palette-reporter", "script", "parked", "slot"}
     /\ g.from = "slot" => SlotKept(d, g)
     /\ g.from = "parked" => g.offset \in Nat
     /\ g.from \in {"palette-statement", "palette-reporter"} => g.shape \in Shapes
     /\ g.from = "palette-reporter" => g.shape \subseteq Expressions

\* What undo and redo return to is kept as it is, and a target names a place
\* there may be.
Programs == {d \in Content : Neat(d)}
Aims(t) ==
  /\ t.to = "stack" => t.arm \in Arms /\ t.index \in Nat
  /\ t.to = "socket" => t.key \in Sockets
HistoryHeld ==
  blockPast \in Seq(Programs) /\ blockFuture \in Seq(Programs) /\ Aims(dropTarget)

BlocksInv == ~stale => Neat(blockDoc) /\ HistoryHeld /\ DragHeld(blockDoc, drag)

\* A committed program keeps only what is on the canvas.
LEMMA Committed ==
  ASSUME NEW d, Sound(d), NEW t, t = Tidy(d)
  PROVE  Neat(t)
<1>1. Sound(t)
  BY TidySound
<1>2. HeldIn(t) \subseteq OnCanvas(d) /\ OnCanvas(d) \subseteq OnCanvas(t)
  BY TidyKeeps DEF Sound
<1>3. QED
  BY <1>1, <1>2 DEF Neat

\* A handler added or removed moves no block.
LEMMA HandlersSet ==
  ASSUME NEW d, Sound(d), NEW H \in SUBSET Handlers, NEW n, n = [d EXCEPT !.handlers = H]
  PROVE  Sound(n)
<1>1. n = [handlers |-> H, arm |-> d.arm, socket |-> d.socket, parked |-> d.parked, placed |-> d.placed]
  <2>1. d = [handlers |-> d.handlers, arm |-> d.arm, socket |-> d.socket, parked |-> d.parked, placed |-> d.placed]
    BY StoredParts DEF Sound
  <2>2. QED
    BY <2>1
<1>2. Stored(n)
  <2>1. /\ d.arm \in [Arms -> Seq(Blocks)] /\ d.socket \in [Sockets -> Expressions \cup {NoBlock}]
        /\ d.parked \in Seq(Seq(Blocks) \ {<<>>}) /\ d.placed \in SUBSET Blocks
    BY StoredParts DEF Sound
  <2>2. Stored([handlers |-> H, arm |-> d.arm, socket |-> d.socket, parked |-> d.parked, placed |-> d.placed])
    BY <2>1, StoredIs
  <2>3. QED
    BY <1>1, <2>2
<1>3. n.arm = d.arm /\ n.socket = d.socket /\ n.parked = d.parked
  BY <1>1
<1>4. OnceIn(n)
  BY <1>3 DEF Sound, OnceIn
<1>5. QED
  BY <1>2, <1>4 DEF Sound

\* What the program holds is remembered.
LEMMA HeldRemembered ==
  ASSUME Neat(blockDoc), NEW x \in HeldIn(blockDoc)
  PROVE  x \in Remembered
<1>1. PICK kept : kept = UNION {OnCanvas(d) \cup d.placed : d \in Documents}
  OBVIOUS
<1>2. x \in OnCanvas(blockDoc) /\ blockDoc \in Documents
  BY DEF Neat, Documents
<1>3. x \in OnCanvas(blockDoc) \cup blockDoc.placed
  BY <1>2
<1>4. x \in kept
  BY <1>1, <1>2, <1>3
<1>5. Remembered = kept \cup Gripped \cup Aimed
  BY <1>1 DEF Remembered
<1>6. QED
  BY <1>4, <1>5

\* What a drag carries is remembered.
LEMMA CarriedRemembered ==
  ASSUME ~Idle, drag.from = "slot", NEW x \in drag.carried \cup {drag.key[1]}
  PROVE  x \in Remembered
<1>1. PICK kept : kept = UNION {OnCanvas(d) \cup d.placed : d \in Documents}
  OBVIOUS
<1>2. Remembered = kept \cup Gripped \cup Aimed
  BY <1>1 DEF Remembered
<1>3. x \in Gripped
  BY DEF Gripped
<1>4. QED
  BY <1>2, <1>3

\* A new block, and a copy, take identifiers no block has.
LEMMA NewIs ==
  ASSUME Neat(blockDoc), NEW shape \in Shapes, Free(shape) # {}
  PROVE  New(shape) \in shape /\ New(shape) \in Blocks /\ New(shape) \notin HeldIn(blockDoc)
<1>1. New(shape) \in shape /\ New(shape) \notin Remembered
  BY DEF New, Free
<1>2. \A x : x \in HeldIn(blockDoc) => x \in Remembered
  BY HeldRemembered
<1>3. QED
  BY <1>1, <1>2, ShapesAre

\* A copy has no identifier of the program, nor of the dragged expression.
LEMMA CopyIsFresh ==
  ASSUME Neat(blockDoc), NEW tree \in SUBSET Blocks, CanCopy(tree), NEW copy, copy = CopyOf(tree)
  PROVE  /\ Copies(copy, tree, HeldIn(blockDoc))
         /\ \A x \in Fresh(copy) : x \in Blocks /\ x \notin HeldIn(blockDoc)
         /\ ~Idle /\ drag.from = "slot" => \A x \in Fresh(copy) : x \notin drag.carried /\ x # drag.key[1]
<1>1. Copies(copy, tree, Remembered)
  BY CopyExists
<1>2. \A x : x \in HeldIn(blockDoc) => x \in Remembered
  BY HeldRemembered
<1>3. ~Idle /\ drag.from = "slot" => \A x \in drag.carried \cup {drag.key[1]} : x \in Remembered
  BY CarriedRemembered
<1>4. /\ copy \in [tree -> Blocks] /\ \A x, y \in tree : copy[x] = copy[y] => x = y
      /\ \A x \in tree : copy[x] \notin Remembered
      /\ \A x \in tree, s \in Shapes : x \in s => copy[x] \in s
  BY <1>1 DEF Copies
<1>5. \A x \in Fresh(copy) : x \in Blocks /\ x \notin Remembered
  BY <1>4 DEF Fresh
<1>6. Copies(copy, tree, HeldIn(blockDoc))
  BY <1>2, <1>4 DEF Copies
<1>7. QED
  BY <1>2, <1>3, <1>5, <1>6

\* What the pointer can be over.
LEMMA TargetsAre ==
  ASSUME Sound(blockDoc), NEW t \in Targets
  PROVE  Aims(t)
<1>1. CASE t = [to |-> "park"] \/ t = [to |-> "outside"]
  BY <1>1 DEF Aims
<1>2. CASE \E h \in blockDoc.handlers : \E a \in ArmsOf(blockDoc, h) : \E i \in 0..Len(blockDoc.arm[a]) :
             t = [to |-> "stack", h |-> h, arm |-> a, index |-> i]
  <2>1. PICK h \in blockDoc.handlers : \E a \in ArmsOf(blockDoc, h) : \E i \in 0..Len(blockDoc.arm[a]) :
             t = [to |-> "stack", h |-> h, arm |-> a, index |-> i]
    BY <1>2
  <2>2. PICK a \in ArmsOf(blockDoc, h) : \E i \in 0..Len(blockDoc.arm[a]) :
             t = [to |-> "stack", h |-> h, arm |-> a, index |-> i]
    BY <2>1
  <2>3. PICK i \in 0..Len(blockDoc.arm[a]) : t = [to |-> "stack", h |-> h, arm |-> a, index |-> i]
    BY <2>2
  <2>4. a \in Arms
    BY DEF ArmsOf
  <2>5. Len(blockDoc.arm[a]) \in Nat
    BY <2>4, StoredParts, LenProperties DEF Sound
  <2>6. QED
    BY <2>3, <2>4, <2>5 DEF Aims
<1>3. CASE \E h \in blockDoc.handlers : \E k \in {k \in Sockets : k[1] \in Findable(blockDoc, h)} :
             t = [to |-> "socket", h |-> h, key |-> k]
  BY <1>3 DEF Aims
<1>4. t \in {[to |-> "park"], [to |-> "outside"]}
          \/ t \in UNION {UNION {{[to |-> "stack", h |-> h, arm |-> a, index |-> i] :
                                  i \in 0 .. Len(blockDoc.arm[a])} :
                                 a \in ArmsOf(blockDoc, h)} : h \in blockDoc.handlers}
          \/ t \in UNION {{[to |-> "socket", h |-> h, key |-> k] :
                           k \in {k \in Sockets : k[1] \in Findable(blockDoc, h)}} :
                         h \in blockDoc.handlers}
  BY DEF Targets, Outside
<1>5. QED
  BY <1>1, <1>2, <1>3, <1>4

\* Every drop leaves each block in one place.
LEMMA DroppedSound ==
  ASSUME Neat(blockDoc), DragHeld(blockDoc, drag), ~Idle, NEW t, Aims(t),
         drag.from \in {"palette-statement", "palette-reporter"} => Free(drag.shape) # {}
  PROVE  Sound(Dropped(t))
<1>1. PICK d, g : d = blockDoc /\ g = drag
  OBVIOUS
<1>2. /\ Sound(d)
      /\ g.from \in {"palette-statement", "palette-reporter", "script", "parked", "slot"}
      /\ g.from = "slot" => SlotKept(d, g)
      /\ g.from = "parked" => g.offset \in Nat
      /\ g.from \in {"palette-statement", "palette-reporter"} => g.shape \in Shapes /\ Free(g.shape) # {}
      /\ g.from = "palette-reporter" => g.shape \subseteq Expressions
  BY <1>1 DEF Neat, DragHeld, Idle
<1>3. /\ t.to = "stack" => t.arm \in Arms /\ t.index \in Nat
      /\ t.to = "socket" => t.key \in Sockets
  BY DEF Aims
<1>4. g.from \in {"palette-statement", "palette-reporter"} =>
        New(g.shape) \in g.shape /\ New(g.shape) \in Blocks /\ New(g.shape) \notin HeldIn(d)
  BY <1>1, <1>2, NewIs
<1>5. CASE g.from = "palette-statement"
  <2>1. PICK b : b = New(g.shape)
    OBVIOUS
  <2>2. b \in Blocks /\ b \notin HeldIn(d)
    BY <1>4, <1>5, <2>1
  <2>3. Sound(AddParked(d, b)) /\ (t.to = "stack" => Sound(AddStatement(d, t.h, t, b)))
    BY <1>2, <1>3, <2>2, AddParkedSound, AddStatementSound
  <2>4. Sound(DropPaletteStatement(d, g, t))
    BY <1>2, <2>1, <2>3 DEF DropPaletteStatement
  <2>5. Dropped(t) = DropPaletteStatement(d, g, t)
    BY <1>1, <1>5 DEF Dropped
  <2>6. QED
    BY <2>4, <2>5
<1>6. CASE g.from = "palette-reporter"
  <2>1. PICK b : b = New(g.shape)
    OBVIOUS
  <2>2. b \in Blocks /\ b \notin HeldIn(d) /\ b \in Expressions
    BY <1>2, <1>4, <1>6, <2>1
  <2>3. Sound(AddParked(d, b)) /\ (t.to = "socket" => Sound(Wire(d, t, b)))
    BY <1>2, <1>3, <2>2, AddParkedSound, WireSound
  <2>4. Sound(DropPaletteReporter(d, g, t))
    BY <1>2, <2>1, <2>3 DEF DropPaletteReporter
  <2>5. Dropped(t) = DropPaletteReporter(d, g, t)
    BY <1>1, <1>6 DEF Dropped
  <2>6. QED
    BY <2>4, <2>5
<1>7. CASE g.from = "script"
  <2>1. Sound(ParkRun(d, g.h, g.block)) /\ (t.to = "stack" => Sound(MoveRun(d, g.h, g.block, t.h, t)))
    BY <1>2, <1>3, ParkRunSound, MoveRunSound
  <2>2. Sound(DropScript(d, g, t))
    BY <1>2, <2>1 DEF DropScript
  <2>3. Dropped(t) = DropScript(d, g, t)
    BY <1>1, <1>7 DEF Dropped
  <2>4. QED
    BY <2>2, <2>3
<1>8. CASE g.from = "parked"
  <2>1. PICK split : split = SplitParkedRun(d, g.lead, g.offset)
    OBVIOUS
  <2>2. Sound(split)
    BY <1>2, <1>8, <2>1, SplitSound
  <2>3. t.to = "stack" => Sound(AttachParked(d, g.lead, t.h, t)) /\ Sound(AttachParked(split, g.tail, t.h, t))
    BY <1>2, <1>3, <2>2, AttachSound
  <2>4. Sound(DropParked(d, g, t))
    BY <1>2, <2>1, <2>2, <2>3 DEF DropParked
  <2>5. Dropped(t) = DropParked(d, g, t)
    BY <1>1, <1>8 DEF Dropped
  <2>6. QED
    BY <2>4, <2>5
<1>9. CASE g.from = "slot"
  <2>1. Sound(DropSlot(d, g, t))
    BY <1>2, <1>3, <1>9, DropSlotSound
  <2>2. Dropped(t) = DropSlot(d, g, t)
    BY <1>1, <1>9 DEF Dropped
  <2>3. QED
    BY <2>1, <2>2
<1>10. QED
  BY <1>1, <1>2, <1>5, <1>6, <1>7, <1>8, <1>9

\* A commit of a sound program.
LEMMA CommitKeeps ==
  ASSUME Neat(blockDoc), HistoryHeld, NEW new, Sound(new), CommitBlocks(new), Aims(dropTarget')
  PROVE  Neat(blockDoc)' /\ HistoryHeld'
<1>1. blockDoc' = Tidy(new) /\ blockFuture' = <<>>
  BY DEF CommitBlocks
<1>2. Neat(Tidy(new))
  BY Committed
<1>3. blockDoc \in Programs
  BY DEF Programs, Neat, Sound, Stored
<1>4. PICK P : P = Programs
  OBVIOUS
<1>5. blockPast \in Seq(P) /\ blockDoc \in P
  BY <1>3, <1>4 DEF HistoryHeld
<1>6. blockPast' = IF Len(blockPast) < BlockPastCap THEN Append(blockPast, blockDoc)
                   ELSE Append(Tail(blockPast), blockDoc)
  BY DEF CommitBlocks
<1>7. Len(blockPast) < BlockPastCap \/ blockPast # <<>>
  BY <1>5, BlockAssumption
<1>8. blockPast' \in Seq(P)
  BY <1>5, <1>6, <1>7
<1>9. blockFuture' \in Seq(P)
  BY <1>1
<1>10. Programs' = Programs
  OBVIOUS
<1>11. QED
  BY <1>1, <1>2, <1>4, <1>8, <1>9 DEF HistoryHeld

\* A commit while nothing is being dragged.
LEMMA IdleCommit ==
  ASSUME Neat(blockDoc), HistoryHeld, Idle, NEW new, Sound(new), CommitBlocks(new),
         UNCHANGED <<drag, dropTarget, stale>>
  PROVE  BlocksInv'
<1>1. Neat(blockDoc)' /\ HistoryHeld'
  BY CommitKeeps DEF HistoryHeld
<1>2. drag' = NoBlock
  BY DEF Idle
<1>3. DragHeld(blockDoc, drag)'
  BY <1>2 DEF DragHeld
<1>4. QED
  BY <1>1, <1>3 DEF BlocksInv

\* A commit under a drag keeps the packed expression where it was, or away.
LEMMA DraggedCommit ==
  ASSUME Neat(blockDoc), HistoryHeld, DragHeld(blockDoc, drag), NEW new, Sound(new), CommitBlocks(new),
         UNCHANGED <<drag, dropTarget, stale>>,
         ~Idle /\ drag.from = "slot" => SlotKept(Tidy(new), drag)
  PROVE  BlocksInv'
<1>1. Neat(blockDoc)' /\ HistoryHeld'
  BY CommitKeeps DEF HistoryHeld
<1>2. PICK g, t : g = drag /\ t = Tidy(new)
  OBVIOUS
<1>3. blockDoc' = t /\ drag' = g
  BY <1>2 DEF CommitBlocks
<1>4. DragHeld(t, g)
  <2>1. CASE g = NoBlock
    BY <2>1 DEF DragHeld
  <2>2. CASE g # NoBlock
    BY <1>2, <2>2 DEF DragHeld, Idle
  <2>3. QED
    BY <2>1, <2>2
<1>5. DragHeld(blockDoc, drag)' <=> DragHeld(blockDoc', drag')
  OBVIOUS
<1>6. QED
  BY <1>1, <1>3, <1>4, <1>5 DEF BlocksInv

\* A copy or a move takes nothing from under a drag.
LEMMA GrownCommit ==
  ASSUME Neat(blockDoc), HistoryHeld, DragHeld(blockDoc, drag), NEW new, Sound(new), CommitBlocks(new),
         UNCHANGED <<drag, dropTarget, stale>>, NEW F, Grown(blockDoc, new, F),
         \A x \in F : x \in Blocks /\ x \notin HeldIn(blockDoc),
         ~Idle /\ drag.from = "slot" => \A x \in F : x \notin drag.carried /\ x # drag.key[1]
  PROVE  BlocksInv'
<1>1. ASSUME ~Idle, drag.from = "slot" PROVE SlotKept(Tidy(new), drag)
  <2>1. SlotKept(blockDoc, drag)
    BY <1>1 DEF DragHeld, Idle
  <2>2. \A x \in F : x \notin HeldIn(blockDoc) /\ x \notin drag.carried /\ x # drag.key[1]
    BY <1>1
  <2>3. PICK d, g : d = blockDoc /\ g = drag
    OBVIOUS
  <2>4. /\ Sound(d) /\ SlotKept(d, g) /\ F \subseteq Blocks /\ Grown(d, new, F)
        /\ \A x \in F : x \notin HeldIn(d) /\ x \notin g.carried /\ x # g.key[1]
    BY <2>1, <2>2, <2>3 DEF Neat
  <2>5. SlotKept(new, g)
    BY <2>4, SlotGrown
  <2>6. SlotKept(Tidy(new), g)
    BY <2>5, SlotTidied
  <2>7. QED
    BY <2>3, <2>6
<1>2. QED
  BY <1>1, DraggedCommit

\* A block moved among its siblings.
LEMMA ButtonMoveKeeps ==
  ASSUME Neat(blockDoc), HistoryHeld, DragHeld(blockDoc, drag), NEW h, NEW b, NEW step \in {-1, 1},
         CommitBlocks(MoveStatement(blockDoc, h, b, step)), UNCHANGED <<drag, dropTarget, stale>>
  PROVE  BlocksInv'
<1>1. PICK d, n, F : d = blockDoc /\ n = MoveStatement(d, h, b, step) /\ F = {}
  OBVIOUS
<1>2. Sound(d)
  BY <1>1 DEF Neat
<1>3. /\ Sound(n) /\ (\A x : x \in HeldIn(n) <=> x \in HeldIn(d))
      /\ n.handlers = d.handlers /\ n.socket = d.socket
      /\ \A a \in Arms : ToSet(n.arm[a]) = ToSet(d.arm[a])
  BY <1>1, <1>2, MoveStatementSound
<1>4. Grown(d, n, F)
  BY <1>3 DEF Grown
<1>5. CommitBlocks(n)
  BY <1>1
<1>6. Grown(blockDoc, n, F)
  BY <1>1, <1>4
<1>7. \A x : x \notin F
  BY <1>1
<1>8. QED
  BY <1>3, <1>5, <1>6, <1>7, GrownCommit

\* A block or a parked run deleted.
LEMMA ButtonRemoveKeeps ==
  ASSUME Neat(blockDoc), HistoryHeld, DragHeld(blockDoc, drag), NEW h, NEW b,
         CommitBlocks(RemoveBlock(blockDoc, h, b)), UNCHANGED <<drag, dropTarget, stale>>
  PROVE  BlocksInv'
<1>1. PICK d, n, g : d = blockDoc /\ n = RemoveBlock(d, h, b) /\ g = drag
  OBVIOUS
<1>2. Sound(d)
  BY <1>1 DEF Neat
<1>3. Sound(n)
  BY <1>1, <1>2, RemoveBlockSound
<1>4. ASSUME ~Idle, drag.from = "slot" PROVE SlotKept(Tidy(n), drag)
  <2>1. SlotKept(d, g)
    BY <1>1, <1>4 DEF DragHeld, Idle
  <2>2. SlotKept(Tidy(n), g)
    BY <1>1, <1>2, <2>1, SlotRemoved
  <2>3. QED
    BY <1>1, <2>2
<1>5. CommitBlocks(n)
  BY <1>1
<1>6. QED
  BY <1>3, <1>4, <1>5, DraggedCommit

\* Removing a parked run keeps the invariant.
LEMMA RemoveParkedKeeps ==
  ASSUME Neat(blockDoc), HistoryHeld, DragHeld(blockDoc, drag), NEW lead,
         CommitBlocks(RemoveParked(blockDoc, lead)), UNCHANGED <<drag, dropTarget, stale>>
  PROVE  BlocksInv'
<1>1. PICK d, n, F : d = blockDoc /\ n = RemoveParked(d, lead) /\ F = {}
  OBVIOUS
<1>2. Sound(d)
  BY <1>1 DEF Neat
<1>3. /\ Sound(n) /\ (\A x : x \in HeldIn(n) => x \in HeldIn(d))
      /\ n.handlers = d.handlers /\ n.arm = d.arm /\ n.socket = d.socket
  BY <1>1, <1>2, RemoveParkedSound
<1>4. Grown(d, n, F)
  BY <1>3 DEF Grown
<1>5. CommitBlocks(n)
  BY <1>1
<1>6. Grown(blockDoc, n, F)
  BY <1>1, <1>4
<1>7. \A x : x \notin F
  BY <1>1
<1>8. QED
  BY <1>3, <1>5, <1>6, <1>7, GrownCommit

\* A stack or a parked run duplicated.
LEMMA ButtonDuplicateKeeps ==
  ASSUME Neat(blockDoc), HistoryHeld, DragHeld(blockDoc, drag), NEW h, NEW b \in Blocks, CanCopy(BlockTree(blockDoc, {b})),
         CommitBlocks(DuplicateAttached(blockDoc, h, b, CopyOf(BlockTree(blockDoc, {b})))),
         UNCHANGED <<drag, dropTarget, stale>>
  PROVE  BlocksInv'
<1>1. PICK d, tree, copy, n, F :
        /\ d = blockDoc /\ tree = BlockTree(d, {b}) /\ copy = CopyOf(tree)
        /\ n = DuplicateAttached(d, h, b, copy) /\ F = Fresh(copy)
  OBVIOUS
<1>2. Sound(d) /\ {b} \in SUBSET Blocks
  BY <1>1 DEF Neat
<1>3. tree \in SUBSET Blocks /\ CanCopy(tree)
  BY <1>1, <1>2, TreeIs DEF Sound
<1>4. /\ Copies(copy, tree, HeldIn(blockDoc))
      /\ \A x \in F : x \in Blocks /\ x \notin HeldIn(blockDoc)
      /\ ~Idle /\ drag.from = "slot" => \A x \in F : x \notin drag.carried /\ x # drag.key[1]
  BY <1>1, <1>3, CopyIsFresh
<1>5. Copies(copy, BlockTree(d, {b}), HeldIn(d))
  BY <1>1, <1>4
<1>6. Sound(n) /\ Grown(d, n, Fresh(copy))
  BY <1>1, <1>2, <1>5, DuplicateAttachedSound
<1>7. Grown(blockDoc, n, F) /\ CommitBlocks(n)
  BY <1>1, <1>6
<1>8. QED
  BY <1>4, <1>6, <1>7, GrownCommit

\* Duplicating a parked run keeps the invariant.
LEMMA DuplicateParkedKeeps ==
  ASSUME Neat(blockDoc), HistoryHeld, DragHeld(blockDoc, drag), NEW lead, IsLead(blockDoc, lead), NEW tree,
         tree = BlockTree(blockDoc, Range(blockDoc.parked[RunOf(blockDoc, lead)])), CanCopy(tree),
         CommitBlocks(DuplicateParked(blockDoc, lead, CopyOf(tree))),
         UNCHANGED <<drag, dropTarget, stale>>
  PROVE  BlocksInv'
<1>1. PICK d, copy, n, F :
        d = blockDoc /\ copy = CopyOf(tree) /\ n = DuplicateParked(d, lead, copy) /\ F = Fresh(copy)
  OBVIOUS
<1>2. Sound(d) /\ IsLead(d, lead)
  BY <1>1 DEF Neat
<1>9. PICK run : run = d.parked[RunOf(d, lead)]
  OBVIOUS
<1>3. tree \in SUBSET Blocks
  <2>1. run \in Seq(Blocks)
    BY <1>2, <1>9, LeadIs
  <2>2. Range(run) \in SUBSET Blocks
    BY <2>1, RunIsSeq, RangeIsToSet
  <2>3. tree = BlockTree(d, Range(run))
    BY <1>1, <1>9
  <2>4. QED
    BY <1>2, <2>2, <2>3, TreeIs DEF Sound
<1>4. /\ Copies(copy, tree, HeldIn(blockDoc))
      /\ \A x \in F : x \in Blocks /\ x \notin HeldIn(blockDoc)
      /\ ~Idle /\ drag.from = "slot" => \A x \in F : x \notin drag.carried /\ x # drag.key[1]
  BY <1>1, <1>3, CopyIsFresh
<1>5. Copies(copy, tree, HeldIn(d)) /\ tree = BlockTree(d, Range(d.parked[RunOf(d, lead)]))
  BY <1>1, <1>4
<1>6. Sound(n) /\ Grown(d, n, Fresh(copy))
  BY <1>1, <1>2, <1>5, DuplicateParkedSound
<1>7. Grown(blockDoc, n, F) /\ CommitBlocks(n)
  BY <1>1, <1>6
<1>8. QED
  BY <1>4, <1>6, <1>7, GrownCommit

\* A screen is opened with a sound program.
LEMMA BlocksInitHolds == BlocksInit => BlocksInv
<1>1. SUFFICES ASSUME BlocksInit PROVE Neat(blockDoc) /\ HistoryHeld /\ DragHeld(blockDoc, drag)
  BY DEF BlocksInv
<1>2. PICK d : d = blockDoc /\ d \in Loaded /\ drag = NoBlock
  BY <1>1 DEF BlocksInit
<1>3. Stored(d) /\ Unique(d) /\ Tidy(d) = d
  BY <1>2, BlockAssumption
<1>4. Sound(d)
  BY <1>3, UniqueIs DEF Sound
<1>5. Neat(d)
  BY <1>3, <1>4, Committed
<1>6. blockPast \in Seq(Programs) /\ blockFuture \in Seq(Programs) /\ Aims(dropTarget)
  BY <1>1 DEF BlocksInit, Aims, Outside
<1>7. QED
  BY <1>2, <1>5, <1>6 DEF DragHeld, HistoryHeld

\* The side rail, the buttons on the blocks, the keyboard.
LEMMA SideRailKeeps ==
  ASSUME Neat(blockDoc), HistoryHeld, DragHeld(blockDoc, drag), SideRail
  PROVE  BlocksInv'
<1>1. PICK d : d = blockDoc /\ Sound(d)
  BY DEF Neat
<1>2. ASSUME NEW h \in Handlers, AddHandler(h) PROVE BlocksInv'
  <2>1. PICK n, H : n = [d EXCEPT !.handlers = H] /\ H = d.handlers \cup {h}
    OBVIOUS
  <2>2. n = [d EXCEPT !.handlers = @ \cup {h}]
    BY <2>1
  <2>3. H \in SUBSET Handlers
    BY <1>1, <2>1, StoredParts DEF Sound
  <2>4. Sound(n)
    BY <1>1, <2>1, <2>3, HandlersSet
  <2>5. Idle /\ CommitBlocks(n) /\ UNCHANGED <<drag, dropTarget, stale>>
    BY <1>1, <1>2, <2>2 DEF AddHandler
  <2>6. QED
    BY <2>4, <2>5, IdleCommit
<1>3. ASSUME NEW h \in Handlers, RemoveHandler(h) PROVE BlocksInv'
  <2>1. PICK n, H : n = [d EXCEPT !.handlers = H] /\ H = d.handlers \ {h}
    OBVIOUS
  <2>2. n = [d EXCEPT !.handlers = @ \ {h}]
    BY <2>1
  <2>3. H \in SUBSET Handlers
    BY <1>1, <2>1, StoredParts DEF Sound
  <2>4. Sound(n)
    BY <1>1, <2>1, <2>3, HandlersSet
  <2>5. Idle /\ CommitBlocks(n) /\ UNCHANGED <<drag, dropTarget, stale>>
    BY <1>1, <1>3, <2>2 DEF RemoveHandler
  <2>6. QED
    BY <2>4, <2>5, IdleCommit
<1>4. ASSUME NEW h \in Handlers, NEW shape \in {Ifs, Statements}, ClickPalette(h, shape) PROVE BlocksInv'
  <2>1. PICK t, b, n : /\ t = [arm |-> <<h, "body">>, index |-> Len(d.arm[<<h, "body">>])]
                       /\ b = New(shape) /\ n = AddStatement(d, h, t, b)
    OBVIOUS
  <2>2. shape \in Shapes /\ Free(shape) # {}
    BY <1>4 DEF ClickPalette, Shapes
  <2>3. b \in Blocks /\ b \notin HeldIn(d)
    BY <1>1, <2>1, <2>2, NewIs
  <2>4. <<h, "body">> \in Arms
    BY DEF Arms
  <2>5. t.arm \in Arms /\ t.index \in Nat
    BY <1>1, <2>1, <2>4, StoredParts, LenProperties DEF Sound
  <2>6. Sound(n)
    BY <1>1, <2>1, <2>3, <2>5, AddStatementSound
  <2>7. Idle /\ CommitBlocks(n) /\ UNCHANGED <<drag, dropTarget, stale>>
    BY <1>1, <1>4, <2>1 DEF ClickPalette
  <2>8. QED
    BY <2>6, <2>7, IdleCommit
<1>5. QED
  BY <1>2, <1>3, <1>4 DEF SideRail

\* The buttons keep the invariant.
LEMMA ButtonsKeep ==
  ASSUME Neat(blockDoc), HistoryHeld, DragHeld(blockDoc, drag), Buttons
  PROVE  BlocksInv'
<1>1. PICK d : d = blockDoc /\ Sound(d)
  BY DEF Neat
<1>2. ASSUME NEW h \in Handlers, NEW b \in Blocks, RowActions(h, b) PROVE BlocksInv'
  <2>1. UNCHANGED <<drag, dropTarget, stale>>
    BY <1>2 DEF RowActions
  <2>2. ASSUME NEW step \in {-1, 1}, CommitBlocks(MoveStatement(blockDoc, h, b, step)) PROVE BlocksInv'
    BY <2>1, <2>2, ButtonMoveKeeps
  <2>3. ASSUME CanCopy(BlockTree(blockDoc, {b})),
               CommitBlocks(DuplicateAttached(blockDoc, h, b, CopyOf(BlockTree(blockDoc, {b}))))
        PROVE  BlocksInv'
    BY <2>1, <2>3, ButtonDuplicateKeeps
  <2>4. ASSUME CommitBlocks(RemoveBlock(blockDoc, h, b)) PROVE BlocksInv'
    BY <2>1, <2>4, ButtonRemoveKeeps
  <2>5. QED
    BY <1>2, <2>2, <2>3, <2>4 DEF RowActions
<1>3. ASSUME NEW h \in Handlers, NEW k \in Sockets, ClearValue(h, k) PROVE BlocksInv'
  <2>1. PICK n, e : n = SetSlot(d, h, k, e) /\ e = NoBlock
    OBVIOUS
  <2>2. e \in Expressions \cup {NoBlock} /\ e \notin HeldIn(d)
    BY <1>1, <2>1, HeldBlocks
  <2>3. Sound(n)
    BY <1>1, <2>1, <2>2, SetSlotSound
  <2>4. Idle /\ CommitBlocks(n) /\ UNCHANGED <<drag, dropTarget, stale>>
    BY <1>1, <1>3, <2>1 DEF ClearValue
  <2>5. QED
    BY <2>3, <2>4, IdleCommit
<1>4. ASSUME NEW b \in Blocks, ParkedActions(b) PROVE BlocksInv'
  <2>1. UNCHANGED <<drag, dropTarget, stale>> /\ IsLead(blockDoc, b)
    BY <1>4 DEF ParkedActions
  <2>2. PICK tree : tree = BlockTree(blockDoc, Range(blockDoc.parked[RunOf(blockDoc, b)]))
    OBVIOUS
  <2>3. ASSUME CanCopy(tree), CommitBlocks(DuplicateParked(blockDoc, b, CopyOf(tree))) PROVE BlocksInv'
    BY <2>1, <2>2, <2>3, DuplicateParkedKeeps
  <2>4. ASSUME CommitBlocks(RemoveParked(blockDoc, b)) PROVE BlocksInv'
    BY <2>1, <2>4, RemoveParkedKeeps
  <2>5. QED
    BY <1>4, <2>2, <2>3, <2>4 DEF ParkedActions
<1>5. QED
  BY <1>2, <1>3, <1>4 DEF Buttons

\* The keys keep the invariant.
LEMMA KeyboardKeeps ==
  ASSUME Neat(blockDoc), HistoryHeld, DragHeld(blockDoc, drag), Keyboard
  PROVE  BlocksInv'
<1>1. ASSUME NEW b \in Blocks, DeleteSelected(b) PROVE BlocksInv'
  <2>1. UNCHANGED <<drag, dropTarget, stale>>
    BY <1>1 DEF DeleteSelected
  <2>2. PICK h : h = HandlerOf(b)
    OBVIOUS
  <2>3. ASSUME CommitBlocks(RemoveBlock(blockDoc, h, b)) PROVE BlocksInv'
    BY <2>1, <2>3, ButtonRemoveKeeps
  <2>4. ASSUME NEW r \in ParkedIn(b), CommitBlocks(RemoveParked(blockDoc, blockDoc.parked[r][1])) PROVE BlocksInv'
    BY <2>1, <2>4, RemoveParkedKeeps
  <2>5. QED
    BY <1>1, <2>2, <2>3, <2>4 DEF DeleteSelected
<1>2. ASSUME NEW b \in Blocks, DuplicateSelected(b) PROVE BlocksInv'
  <2>1. UNCHANGED <<drag, dropTarget, stale>> /\ CanCopy(BlockTree(blockDoc, {b}))
    BY <1>2 DEF DuplicateSelected
  <2>2. PICK h, tree : h = HandlerOf(b) /\ tree = BlockTree(blockDoc, Range(blockDoc.parked[RunOf(blockDoc, b)]))
    OBVIOUS
  <2>3. ASSUME CommitBlocks(DuplicateAttached(blockDoc, h, b, CopyOf(BlockTree(blockDoc, {b})))) PROVE BlocksInv'
    BY <2>1, <2>3, ButtonDuplicateKeeps
  <2>4. ASSUME IsLead(blockDoc, b), CanCopy(tree), CommitBlocks(DuplicateParked(blockDoc, b, CopyOf(tree)))
        PROVE  BlocksInv'
    BY <2>1, <2>2, <2>4, DuplicateParkedKeeps
  <2>5. QED
    BY <1>2, <2>2, <2>3, <2>4 DEF DuplicateSelected
<1>3. ASSUME NEW b \in Blocks, NEW step \in {-1, 1}, ArrowKey(b, step) PROVE BlocksInv'
  <2>1. PICK h : h = HandlerOf(b)
    OBVIOUS
  <2>2. CommitBlocks(MoveStatement(blockDoc, h, b, step)) /\ UNCHANGED <<drag, dropTarget, stale>>
    BY <1>3, <2>1 DEF ArrowKey
  <2>3. QED
    BY <2>2, ButtonMoveKeeps
<1>4. ASSUME HistoryKey, Neat(blockDoc)',
             blockPast' \in Seq(Programs), blockFuture' \in Seq(Programs)
      PROVE  BlocksInv'
  <2>1. drag' = drag /\ dropTarget' = dropTarget /\ stale' = (stale \/ ~Idle)
    BY <1>4 DEF HistoryKey
  <2>2. HistoryHeld'
    BY <1>4, <2>1 DEF HistoryHeld
  <2>3. CASE Idle
    <3>1. DragHeld(blockDoc, drag)'
      BY <2>1, <2>3 DEF DragHeld, Idle
    <3>2. QED
      BY <1>4, <2>2, <3>1 DEF BlocksInv
  <2>4. CASE ~Idle
    BY <2>1, <2>4 DEF BlocksInv
  <2>5. QED
    BY <2>3, <2>4
<1>5. PICK P : P = Programs
  OBVIOUS
<1>6. blockPast \in Seq(P) /\ blockFuture \in Seq(P) /\ blockDoc \in P
  BY <1>5 DEF HistoryHeld, Programs, Neat, Sound, Stored
<1>7. ASSUME UndoBlocks PROVE BlocksInv'
  <2>1. /\ HistoryKey /\ blockPast # <<>> /\ blockDoc' = blockPast[Len(blockPast)]
        /\ blockPast' = SubSeq(blockPast, 1, Len(blockPast) - 1)
        /\ blockFuture' = <<blockDoc>> \o blockFuture
    BY <1>7 DEF UndoBlocks, Last, Front
  <2>2. blockDoc' \in P
    BY <1>6, <2>1
  <2>3. blockPast' \in Seq(P)
    BY <1>6, <2>1
  <2>4. blockFuture' \in Seq(P)
    BY <1>6, <2>1
  <2>5. Neat(blockDoc)'
    BY <1>5, <2>2 DEF Programs
  <2>6. QED
    BY <1>4, <1>5, <2>1, <2>3, <2>4, <2>5
<1>8. ASSUME RedoBlocks PROVE BlocksInv'
  <2>1. /\ HistoryKey /\ blockFuture # <<>> /\ blockDoc' = blockFuture[1]
        /\ blockPast' = Append(blockPast, blockDoc) /\ blockFuture' = Tail(blockFuture)
    BY <1>8 DEF RedoBlocks
  <2>2. blockDoc' \in P
    BY <1>6, <2>1
  <2>3. blockPast' \in Seq(P) /\ blockFuture' \in Seq(P)
    BY <1>6, <2>1
  <2>4. Neat(blockDoc)'
    BY <1>5, <2>2 DEF Programs
  <2>5. QED
    BY <1>4, <1>5, <2>1, <2>3, <2>4
<1>9. QED
  BY <1>1, <1>2, <1>3, <1>7, <1>8 DEF Keyboard

\* A press packs what it takes, a release puts it in one place.
LEMMA GesturesKeep ==
  ASSUME Neat(blockDoc), HistoryHeld, DragHeld(blockDoc, drag), Gestures
  PROVE  BlocksInv'
<1>1. ASSUME NEW g, Begin(g), DragHeld(blockDoc, g) PROVE BlocksInv'
  <2>1. /\ blockDoc' = blockDoc /\ blockPast' = blockPast /\ blockFuture' = blockFuture
        /\ drag' = g /\ dropTarget' = Outside
    BY <1>1 DEF Begin, blockHistory
  <2>2. HistoryHeld'
    BY <2>1 DEF HistoryHeld, Aims, Outside
  <2>3. Neat(blockDoc)' /\ DragHeld(blockDoc, drag)'
    BY <1>1, <2>1
  <2>4. QED
    BY <2>2, <2>3 DEF BlocksInv
<1>2. ASSUME NEW shape \in Shapes, BeginPalette(shape) PROVE BlocksInv'
  <2>1. PICK g : g = [from |-> IF shape \subseteq Expressions THEN "palette-reporter" ELSE "palette-statement",
                      shape |-> shape]
    OBVIOUS
  <2>2. Begin(g)
    BY <1>2, <2>1 DEF BeginPalette
  <2>3. DragHeld(blockDoc, g)
    BY <2>1 DEF DragHeld
  <2>4. QED
    BY <1>1, <2>2, <2>3
<1>3. ASSUME NEW h \in Handlers, NEW b \in Blocks, BeginScript(h, b) PROVE BlocksInv'
  <2>1. PICK g : g = [from |-> "script", h |-> h, block |-> b]
    OBVIOUS
  <2>2. Begin(g)
    BY <1>3, <2>1 DEF BeginScript
  <2>3. DragHeld(blockDoc, g)
    BY <2>1 DEF DragHeld
  <2>4. QED
    BY <1>1, <2>2, <2>3
<1>4. ASSUME NEW r \in DOMAIN blockDoc.parked, NEW i \in 0..Cardinality(Blocks), BeginParked(r, i) PROVE BlocksInv'
  <2>1. PICK g : g = [from |-> "parked", lead |-> blockDoc.parked[r][1], offset |-> i,
                      tail |-> blockDoc.parked[r][i + 1]]
    OBVIOUS
  <2>2. Begin(g)
    BY <1>4, <2>1 DEF BeginParked
  <2>3. i \in Nat
    OBVIOUS
  <2>4. DragHeld(blockDoc, g)
    BY <2>1, <2>3 DEF DragHeld
  <2>5. QED
    BY <1>1, <2>2, <2>4
<1>5. ASSUME NEW h \in Handlers, NEW k \in Sockets, BeginSlot(h, k) PROVE BlocksInv'
  <2>1. PICK d, e, carried, g :
          /\ d = blockDoc /\ e = d.socket[k] /\ carried = BlockTree(d, {e})
          /\ g = [from |-> "slot", h |-> h, key |-> k, expr |-> e, carried |-> carried,
                  inner |-> [n \in {n \in Sockets : n[1] \in carried} |-> d.socket[n]]]
    OBVIOUS
  <2>2. Begin(g) /\ h \in d.handlers /\ k[1] \in Findable(d, h) /\ e # NoBlock
    BY <1>5, <2>1 DEF BeginSlot
  <2>3. /\ g.h = h /\ g.key = k /\ g.expr = e /\ g.carried = carried
        /\ g.inner = Operands(d, carried)
    BY <2>1 DEF Operands
  <2>4. SlotKept(d, g)
    <3>1. Sound(d) /\ e = d.socket[k] /\ carried = BlockTree(d, {e})
      BY <2>1 DEF Neat
    <3>2. QED
      BY <2>2, <2>3, <3>1, SlotBegins
  <2>5. g.from = "slot"
    BY <2>1
  <2>6. DragHeld(blockDoc, g)
    BY <2>1, <2>4, <2>5 DEF DragHeld
  <2>7. QED
    BY <1>1, <2>2, <2>6
<1>6. ASSUME DropBlock PROVE BlocksInv'
  <2>1. drag' = NoBlock /\ dropTarget' = Outside /\ stale' = stale /\ ~Idle
    BY <1>6 DEF DropBlock
  <2>2. PICK t : t = dropTarget
    OBVIOUS
  <2>3. Sound(Dropped(t))
    BY <1>6, <2>1, <2>2, DroppedSound DEF DropBlock, HistoryHeld
  <2>4. PICK new : new = Tidy(Dropped(t))
    OBVIOUS
  <2>5. Sound(new)
    BY <2>3, <2>4, TidySound
  <2>6. \/ UNCHANGED <<blockDoc, blockPast, blockFuture>>
        \/ CommitBlocks(new)
    BY <1>6, <2>2, <2>4 DEF DropBlock, blockHistory
  <2>7. Aims(dropTarget')
    BY <2>1 DEF Aims, Outside
  <2>8. Neat(blockDoc)' /\ HistoryHeld'
    <3>1. CASE UNCHANGED <<blockDoc, blockPast, blockFuture>>
      BY <2>7, <3>1 DEF HistoryHeld
    <3>2. CASE CommitBlocks(new)
      BY <2>5, <2>7, <3>2, CommitKeeps
    <3>3. QED
      BY <2>6, <3>1, <3>2
  <2>9. DragHeld(blockDoc, drag)'
    BY <2>1 DEF DragHeld
  <2>10. QED
    BY <2>8, <2>9 DEF BlocksInv
<1>7. ASSUME UNCHANGED <<blockDoc, blockPast, blockFuture>>, drag' = drag \/ drag' = NoBlock, Aims(dropTarget')
      PROVE  BlocksInv'
  <2>1. DragHeld(blockDoc, drag)'
    BY <1>7 DEF DragHeld
  <2>2. Neat(blockDoc)' /\ HistoryHeld'
    BY <1>7 DEF HistoryHeld
  <2>3. QED
    BY <2>1, <2>2 DEF BlocksInv
<1>8. ASSUME NEW t \in Targets, PointAt(t) PROVE BlocksInv'
  <2>1. Aims(t)
    BY TargetsAre DEF Neat
  <2>2. QED
    BY <1>7, <1>8, <2>1 DEF PointAt, blockHistory
<1>9. ASSUME Cancel PROVE BlocksInv'
  <2>1. Aims(Outside)
    BY DEF Aims, Outside
  <2>2. QED
    BY <1>7, <1>9, <2>1 DEF Cancel, blockHistory
<1>10. QED
  BY <1>2, <1>3, <1>4, <1>5, <1>6, <1>8, <1>9 DEF Gestures

\* The invariant is inductive.  Undo or redo under a drag leaves it stale for good.
LEMMA BlocksStep == BlocksInv /\ [BlocksNext]_blockVars => BlocksInv'
<1>1. SUFFICES ASSUME BlocksInv, [BlocksNext]_blockVars PROVE BlocksInv'
  OBVIOUS
<1>2. CASE UNCHANGED blockVars
  <2>1. /\ blockDoc' = blockDoc /\ blockPast' = blockPast /\ blockFuture' = blockFuture
        /\ drag' = drag /\ dropTarget' = dropTarget /\ stale' = stale
    BY <1>2 DEF blockVars, blockHistory
  <2>2. QED
    BY <1>1, <2>1 DEF BlocksInv, HistoryHeld
<1>3. CASE BlocksNext /\ stale
  <2>1. stale'
    <3>1. CASE SideRail
      BY <1>3, <3>1 DEF SideRail, AddHandler, RemoveHandler, ClickPalette
    <3>2. CASE Buttons
      BY <1>3, <3>2 DEF Buttons, RowActions, ClearValue, ParkedActions
    <3>3. CASE Keyboard
      BY <1>3, <3>3 DEF Keyboard, DeleteSelected, DuplicateSelected, ArrowKey, UndoBlocks, RedoBlocks, HistoryKey
    <3>4. CASE Gestures
      BY <1>3, <3>4 DEF Gestures, BeginPalette, BeginScript, BeginParked, BeginSlot, Begin, PointAt, DropBlock, Cancel
    <3>5. QED
      BY <1>3, <3>1, <3>2, <3>3, <3>4 DEF BlocksNext
  <2>2. QED
    BY <2>1 DEF BlocksInv
<1>4. CASE BlocksNext /\ ~stale
  BY <1>1, <1>4, SideRailKeeps, ButtonsKeep, KeyboardKeeps, GesturesKeep DEF BlocksInv, BlocksNext
<1>5. QED
  BY <1>1, <1>2, <1>3, <1>4

(* No operation of blocks.ts leaves a block in two places: gestures, buttons and   *)
(* keys in any order, unless undo or redo is pressed under a drag (applyDrop,       *)
(* moveRun, attachParked, parkRun, duplicateBlock, setSlot).                        *)
THEOREM BlocksStayApart == BlocksSpec => []EveryBlockOnce
<1>1. BlocksInit => BlocksInv
  BY BlocksInitHolds
<1>2. BlocksInv /\ [BlocksNext]_blockVars => BlocksInv'
  BY BlocksStep
<1>3. BlocksInv => EveryBlockOnce
  BY UniqueIs DEF BlocksInv, EveryBlockOnce, Neat, Sound
<1>4. QED
  BY <1>1, <1>2, <1>3, PTL DEF BlocksSpec

\* A program that still shows the roots, and what lies in what it shows, shows all.
LEMMA CanvasCovers ==
  ASSUME NEW d, Stored(d), NEW n, Stored(n),
         \A x \in Roots(d) : x \in OnCanvas(n),
         \A x \in OnCanvas(d) : x \in OnCanvas(n) => \A y : Sits(d, x, y) => y \in OnCanvas(n)
  PROVE  OnCanvas(d) \subseteq OnCanvas(n)
<1>1. PICK C, S : C = OnCanvas(d) /\ S = C \cap OnCanvas(n)
  OBVIOUS
<1>2. /\ Roots(d) \subseteq C /\ C \in SUBSET Blocks /\ Closed(d, Full, C)
      /\ Roots(d) \subseteq S /\ Closed(d, Full, S) => C \subseteq S
  BY <1>1, CanvasIs
<1>3. ASSUME NEW x \in S, NEW y \in Inside(d, x, Full) PROVE y \in S
  <2>1. x \in Blocks /\ x \in C /\ y \in C
    BY <1>1, <1>2, <1>3 DEF Closed
  <2>2. Sits(d, x, y)
    BY <1>3, <2>1, SitsIs
  <2>3. QED
    BY <1>1, <1>3, <2>1, <2>2
<1>4. Roots(d) \subseteq S /\ Closed(d, Full, S)
  BY <1>1, <1>2, <1>3 DEF Closed
<1>5. QED
  BY <1>1, <1>2, <1>4

\* The same by arms, sockets and parked runs.
LEMMA CanvasKept ==
  ASSUME NEW d, Stored(d), NEW n, Stored(n), n.handlers = d.handlers,
         NEW C, C = OnCanvas(n),
         \A a \in Arms : \A x \in ToSet(d.arm[a]) : x \in ToSet(n.arm[a]) \/ x \in C,
         \A k \in Sockets : k[1] \in OnCanvas(d) =>
            n.socket[k] = d.socket[k] \/ d.socket[k] = NoBlock \/ d.socket[k] \in C,
         \A x \in Spanned(d.parked) : x \in Spanned(n.parked) \/ x \in C
  PROVE  OnCanvas(d) \subseteq C
<1>1. Roots(n) \subseteq C /\ C \in SUBSET Blocks /\ Closed(n, Full, C)
  BY CanvasIs
<1>2. \A x \in Roots(d) : x \in C
  <2>1. ASSUME NEW h \in d.handlers, <<h, "body">> \in Arms, NEW x \in ToSet(d.arm[<<h, "body">>])
        PROVE  x \in C
    <3>1. x \in ToSet(n.arm[<<h, "body">>]) \/ x \in C
      BY <2>1
    <3>2. QED
      BY <1>1, <2>1, <3>1, RootsAre
  <2>2. ASSUME NEW x \in Spanned(d.parked) PROVE x \in C
    <3>1. x \in Spanned(n.parked) \/ x \in C
      BY <2>2
    <3>2. x \in Spanned(n.parked) => x \in Roots(n)
      BY SpannedIs, RootsAre
    <3>3. QED
      BY <1>1, <3>1, <3>2
  <2>3. QED
    BY <2>1, <2>2, RootsAre, SpannedIs
<1>3. ASSUME NEW x \in OnCanvas(d), x \in C, NEW y, Sits(d, x, y) PROVE y \in C
  <2>1. x \in Blocks
    BY CanvasIs
  <2>2. \A v : <<x, v>>[1] = x
    OBVIOUS
  <2>3. \A k : <<x, k>> \in Sockets =>
            n.socket[<<x, k>>] = d.socket[<<x, k>>] \/ d.socket[<<x, k>>] = NoBlock \/ d.socket[<<x, k>>] \in C
    BY <2>2
  <2>4. \A v : <<x, v>> \in Arms => \A z \in ToSet(d.arm[<<x, v>>]) : z \in ToSet(n.arm[<<x, v>>]) \/ z \in C
    OBVIOUS
  <2>5. y \in C \/ Sits(n, x, y)
    BY <1>3, <2>3, <2>4 DEF Sits
  <2>6. y \in C \/ y \in Inside(n, x, Full)
    BY <2>1, <2>5, SitsIs
  <2>7. QED
    BY <1>1, <1>3, <2>1, <2>6 DEF Closed
<1>4. QED
  BY <1>2, <1>3, CanvasCovers

\* A block that lies directly in another, at its place: an arm or a socket.
LEMMA InsideAt ==
  ASSUME NEW d, Stored(d), NEW b \in Blocks, NEW via \in SUBSET Full, NEW x \in Inside(d, b, via)
  PROVE  \/ \E v \in via \ {"socket"} : b \in Ifs /\ <<b, v>> \in Arms /\ x \in ToSet(d.arm[<<b, v>>])
         \/ \E k \in Keys(b) : "socket" \in via /\ x = d.socket[<<b, k>>] /\ x # NoBlock
<1>1. PICK I : I = Inside(d, b, via)
  OBVIOUS
<1>2. \A y : y \in I <=>
        \/ \E v \in via \ {"socket"} : b \in Ifs /\ <<b, v>> \in Arms /\ y \in ToSet(d.arm[<<b, v>>])
        \/ \E k \in Keys(b) : "socket" \in via /\ y = d.socket[<<b, k>>] /\ y # NoBlock
  BY <1>1, WithinIs
<1>3. QED
  BY <1>1, <1>2

\* What a handler's body reaches, along some kinds of edges, when only sockets change.
LEMMA ReachKept ==
  ASSUME NEW d, Stored(d), NEW n, Stored(n), n.arm = d.arm, NEW h \in d.handlers,
         NEW via \in SUBSET Full, NEW T, Closed(d, via, T),
         NEW D, D = Closure(d, Body(d, h), via), NEW C, C = Closure(n, Body(n, h), via),
         \A k \in Sockets : k[1] \in D \cap C =>
            n.socket[k] = d.socket[k] \/ d.socket[k] = NoBlock \/ d.socket[k] \in T
  PROVE  D \subseteq C \cup T
<1>1. Body(d, h) \in SUBSET Blocks /\ Body(n, h) = Body(d, h)
  <2>1. <<h, "body">> \in Arms
    BY StoredParts DEF Arms
  <2>2. QED
    BY <2>1, StoredParts, RangeIsToSet DEF Body
<1>2. PICK B, S : B = Body(d, h) /\ S = D \cap (C \cup T)
  OBVIOUS
<1>3. /\ B \subseteq D /\ D \in SUBSET Blocks /\ Closed(d, via, D)
      /\ B \subseteq S /\ Closed(d, via, S) => D \subseteq S
  BY <1>1, <1>2, ClosureIs
<1>4. B \subseteq C /\ C \in SUBSET Blocks /\ Closed(n, via, C)
  BY <1>1, <1>2, ClosureIs
<1>5. ASSUME NEW x \in S, NEW y \in Inside(d, x, via) PROVE y \in S
  <2>1. x \in Blocks /\ x \in D /\ y \in D
    BY <1>2, <1>3, <1>5 DEF Closed
  <2>2. CASE x \in T
    BY <1>2, <1>5, <2>1, <2>2 DEF Closed
  <2>3. CASE x \in C
    <3>1. /\ \/ \E v \in via \ {"socket"} : x \in Ifs /\ <<x, v>> \in Arms /\ y \in ToSet(d.arm[<<x, v>>])
             \/ \E k \in Keys(x) : "socket" \in via /\ y = d.socket[<<x, k>>] /\ y # NoBlock
          /\ \A k \in Keys(x) : <<x, k>> \in Sockets
      <4>1. \A k \in Keys(x) : <<x, k>> \in Sockets
        BY <2>1, WithinIs
      <4>2. QED
        BY <1>5, <2>1, <4>1, InsideAt
    <3>2. CASE \E v \in via \ {"socket"} : x \in Ifs /\ <<x, v>> \in Arms /\ y \in ToSet(d.arm[<<x, v>>])
      <4>1. y \in Inside(n, x, via)
        BY <2>1, <3>2, WithinIs
      <4>2. QED
        BY <1>2, <1>4, <2>1, <2>3, <4>1 DEF Closed
    <3>3. CASE \E k \in Keys(x) : "socket" \in via /\ y = d.socket[<<x, k>>] /\ y # NoBlock
      <4>1. PICK k \in Keys(x) : "socket" \in via /\ y = d.socket[<<x, k>>] /\ y # NoBlock
        BY <3>3
      <4>2. PICK l : l = <<x, k>>
        OBVIOUS
      <4>3. l \in Sockets /\ l[1] \in D \cap C /\ y = d.socket[l] /\ y # NoBlock
        BY <2>1, <2>3, <3>1, <4>1, <4>2
      <4>4. n.socket[l] = y \/ y \in T
        BY <4>3
      <4>5. y \in Inside(n, x, via) \/ y \in T
        BY <2>1, <4>1, <4>2, <4>4, WithinIs
      <4>6. QED
        BY <1>2, <1>4, <2>1, <2>3, <4>5 DEF Closed
    <3>4. QED
      BY <3>1, <3>2, <3>3
  <2>4. QED
    BY <1>2, <2>2, <2>3
<1>6. Closed(d, via, S)
  BY <1>5 DEF Closed
<1>7. QED
  BY <1>2, <1>3, <1>4, <1>6

Reaches(d, h, a) == h \in d.handlers /\ (a = <<h, "body">> \/ a[1] \in Findable(d, h))
Extends(d, n) ==
  /\ Sound(n) /\ n.handlers = d.handlers /\ n.parked = d.parked /\ n.socket = d.socket
  /\ \A c \in Arms : ToSet(d.arm[c]) \subseteq ToSet(n.arm[c])
Keeps(d, n) == OnCanvas(d) \subseteq OnCanvas(n)

\* What lies in an arm that can be reached is on the canvas.
LEMMA ArmReached ==
  ASSUME NEW d, Stored(d), NEW h, NEW a \in Arms, Reaches(d, h, a)
  PROVE  ToSet(d.arm[a]) \subseteq OnCanvas(d)
<1>0. h \in d.handlers /\ (a = <<h, "body">> \/ a[1] \in Findable(d, h))
  BY DEF Reaches
<1>1. Roots(d) \subseteq OnCanvas(d) /\ Closed(d, Full, OnCanvas(d)) /\ Findable(d, h) \subseteq OnCanvas(d)
      /\ OnCanvas(d) \in SUBSET Blocks
  BY <1>0, CanvasIs, FindableIs
<1>2. CASE a = <<h, "body">>
  BY <1>0, <1>1, <1>2, RootsAre
<1>3. CASE a[1] \in Findable(d, h)
  <2>1. a[1] \in Blocks
    BY <1>1, <1>3
  <2>2. \A i \in Handlers : i \notin Blocks
    BY BlockAssumption
  <2>3. a \in Ifs \X {"then", "else"}
    BY <2>1, <2>2 DEF Arms
  <2>4. PICK c \in Ifs, v \in {"then", "else"} : a = <<c, v>>
    BY <2>3
  <2>5. \A x \in ToSet(d.arm[a]) : Sits(d, c, x)
    BY <2>4 DEF Sits
  <2>6. c \in OnCanvas(d) /\ c \in Blocks
    BY <1>1, <1>3, <2>1, <2>4
  <2>7. \A x \in ToSet(d.arm[a]) : x \in Inside(d, c, Full)
    BY <2>5, <2>6, SitsIs
  <2>8. QED
    BY <1>1, <2>6, <2>7 DEF Closed
<1>4. QED
  BY <1>0, <1>2, <1>3

\* A run spliced into such an arm.
LEMMA SplicedReached ==
  ASSUME NEW d, Sound(d), NEW a \in Arms, NEW at \in 0..Len(d.arm[a]), NEW run \in Seq(Blocks),
         IsInjective(run), ToSet(run) \cap HeldIn(d) = {},
         NEW n, n = SplicedIn(d, a, at, run),
         NEW h, Reaches(d, h, a)
  PROVE  ToSet(run) \subseteq OnCanvas(n) /\ Extends(d, n)
<1>0. h \in d.handlers /\ (a = <<h, "body">> \/ a[1] \in Findable(d, h))
  BY DEF Reaches
<1>1. /\ Sound(n) /\ n.handlers = d.handlers /\ n.parked = d.parked /\ n.socket = d.socket
      /\ n.arm = [d.arm EXCEPT ![a] = Splice(@, at, run)]
  BY Spliced
<1>2. /\ d.arm \in [Arms -> Seq(Blocks)] /\ d.arm[a] \in Seq(Blocks)
  BY StoredParts DEF Sound
<1>3. ToSet(Splice(d.arm[a], at, run)) = ToSet(d.arm[a]) \cup ToSet(run)
  BY <1>2, SplicedEntries
<1>4. ToSet(n.arm[a]) = ToSet(d.arm[a]) \cup ToSet(run) /\ \A c \in Arms : c # a => n.arm[c] = d.arm[c]
  BY <1>1, <1>2, <1>3
<1>5. \A c \in Arms : ToSet(d.arm[c]) \subseteq ToSet(n.arm[c])
  <2>1. ASSUME NEW c \in Arms PROVE ToSet(d.arm[c]) \subseteq ToSet(n.arm[c])
    <3>1. CASE c = a
      BY <1>4, <3>1
    <3>2. CASE c # a
      BY <1>4, <3>2
    <3>3. QED
      BY <3>1, <3>2
  <2>2. QED
    BY <2>1
<1>6. Findable(d, h) \subseteq Findable(n, h)
  <2>1. PICK T : T = {}
    OBVIOUS
  <2>2. Closed(d, Full, T)
    BY <2>1 DEF Closed
  <2>3. /\ Stored(d) /\ Stored(n) /\ h \in n.handlers
        /\ \A c \in Arms : c[1] \in {h} \cup Findable(d, h) => ToSet(d.arm[c]) \subseteq ToSet(n.arm[c]) \cup T
        /\ \A k \in Sockets : k[1] \in Findable(d, h) => n.socket[k] = d.socket[k]
    BY <1>0, <1>1, <1>5 DEF Sound
  <2>4. Findable(d, h) \subseteq Findable(n, h) \cup T
    BY <1>0, <2>2, <2>3, FindableKept
  <2>5. QED
    BY <2>1, <2>4
<1>7. Stored(n) /\ Reaches(n, h, a)
  BY <1>0, <1>1, <1>6 DEF Sound, Reaches
<1>8. ToSet(n.arm[a]) \subseteq OnCanvas(n)
  BY <1>7, ArmReached
<1>9. ToSet(run) \subseteq OnCanvas(n)
  BY <1>4, <1>8
<1>10. QED
  BY <1>1, <1>5, <1>9 DEF Extends

\* A run parked behind the others.
ParkedOn(d, run, n) ==
  /\ Sound(n) /\ n.handlers = d.handlers /\ n.arm = d.arm /\ n.socket = d.socket
  /\ \A x : x \in Spanned(n.parked) <=> x \in Spanned(d.parked) \/ x \in ToSet(run)

\* What it holds is then parked.
LEMMA ParkedReached ==
  ASSUME NEW d, Sound(d), NEW run \in Seq(Blocks), run # <<>>, IsInjective(run),
         ToSet(run) \cap HeldIn(d) = {}, NEW Q \in SUBSET Blocks, NEW n, n = ParkedBehind(d, run, Q)
  PROVE  ParkedOn(d, run, n)
<1>1. PICK P : P = Append(d.parked, run)
  OBVIOUS
<1>2. d.parked \in ParkedRuns /\ RunsApart(d.parked)
  BY StoredParts DEF Sound, OnceIn, ParkedRuns
<1>3. ToSet(run) \cap Spanned(d.parked) = {}
  BY HeldIs, SpannedIs
<1>5. P \in ParkedRuns /\ RunsApart(P) /\ \A x : x \in Spanned(P) <=> x \in Spanned(d.parked) \/ x \in ToSet(run)
  BY <1>1, <1>2, <1>3, RunsAppended
<1>6. \A x \in Spanned(P) : x \in Spanned(d.parked) \/ x \notin HeldIn(d)
  BY <1>5
<1>7. n = RunsSet(d, P, Q)
  BY <1>1 DEF RunsSet, ParkedBehind
<1>8. Sound(n) /\ n.handlers = d.handlers /\ n.parked = P /\ n.arm = d.arm /\ n.socket = d.socket
  BY <1>5, <1>6, <1>7, RunsPut
<1>9. QED
  BY <1>5, <1>8 DEF ParkedOn

\* A block added to a stack, or parked.
LEMMA AddStatementKeeps ==
  ASSUME NEW d, Sound(d), NEW h, NEW t, t.arm \in Arms, t.index \in Nat,
         NEW b \in Blocks, b \notin HeldIn(d)
  PROVE  Keeps(d, AddStatement(d, h, t, b))
<1>1. CASE TargetExists(d, h, t)
  <2>1. PICK a, run, at : a = t.arm /\ run = <<b>> /\ at = Clamp(t.index, d.arm[a])
    OBVIOUS
  <2>2. a \in Arms /\ at \in 0..Len(d.arm[a])
    BY <2>1, StoredParts, ClampIs DEF Sound
  <2>3. run \in Seq(Blocks) /\ IsInjective(run) /\ ToSet(run) \cap HeldIn(d) = {}
    BY <2>1, OneRun
  <2>4. PICK n : n = SplicedIn(d, a, at, run)
    OBVIOUS
  <2>5. AddStatement(d, h, t, b) = n
    BY <1>1, <2>1, <2>4 DEF AddStatement, SplicedIn
  <2>6. Reaches(d, h, a)
    BY <1>1, <2>1 DEF TargetExists, Reaches
  <2>7. /\ Sound(n) /\ n.handlers = d.handlers /\ n.parked = d.parked /\ n.socket = d.socket
        /\ \A c \in Arms : ToSet(d.arm[c]) \subseteq ToSet(n.arm[c])
    <3>1. Extends(d, n)
      BY <2>2, <2>3, <2>4, <2>6, SplicedReached
    <3>2. QED
      BY <3>1 DEF Extends
  <2>8. PICK C : C = OnCanvas(n)
    OBVIOUS
  <2>9. OnCanvas(d) \subseteq C
    BY <2>7, <2>8, CanvasKept DEF Sound
  <2>10. QED
    BY <2>5, <2>8, <2>9 DEF Keeps
<1>2. CASE ~TargetExists(d, h, t)
  BY <1>2 DEF AddStatement, Keeps
<1>3. QED
  BY <1>1, <1>2

\* A single block parked.
LEMMA AddParkedIs ==
  ASSUME NEW d, Sound(d), NEW b \in Blocks, b \notin HeldIn(d), NEW n, n = AddParked(d, b)
  PROVE  /\ Sound(n) /\ n.handlers = d.handlers /\ n.arm = d.arm /\ n.socket = d.socket
         /\ \A x : x \in Spanned(n.parked) <=> x \in Spanned(d.parked) \/ x = b
<1>1. PICK run, Q : run = <<b>> /\ Q = d.placed \cup {b}
  OBVIOUS
<1>2. run \in Seq(Blocks) /\ run # <<>> /\ IsInjective(run) /\ ToSet(run) = {b} /\ ToSet(run) \cap HeldIn(d) = {}
  BY <1>1, OneRun
<1>3. Q \in SUBSET Blocks
  BY <1>1, StoredParts DEF Sound
<1>4. n = ParkedBehind(d, run, Q)
  BY <1>1 DEF AddParked, ParkedBehind
<1>5. ParkedOn(d, run, n)
  BY <1>2, <1>3, <1>4, ParkedReached
<1>6. QED
  BY <1>2, <1>5 DEF ParkedOn

\* Which takes nothing from the canvas.
LEMMA AddParkedKeeps ==
  ASSUME NEW d, Sound(d), NEW b \in Blocks, b \notin HeldIn(d)
  PROVE  Keeps(d, AddParked(d, b))
<1>1. PICK n, C : n = AddParked(d, b) /\ C = OnCanvas(n)
  OBVIOUS
<1>2. /\ Sound(n) /\ n.handlers = d.handlers /\ n.arm = d.arm /\ n.socket = d.socket
      /\ \A x \in Spanned(d.parked) : x \in Spanned(n.parked)
  BY <1>1, AddParkedIs
<1>3. OnCanvas(d) \subseteq C
  BY <1>1, <1>2, CanvasKept DEF Sound
<1>4. QED
  BY <1>1, <1>3 DEF Keeps

\* A run cut from its arm: the rest of the program is as it was.
LEMMA RunCutIs ==
  ASSUME NEW d, Sound(d), NEW b, InArm(d, b), NEW a, a = ArmOf(d, b), NEW run, run = RunFrom(d, b),
         NEW n, n = ArmSet(d, a, Above(d, b))
  PROVE  /\ Sound(n) /\ ToSet(run) \cap HeldIn(n) = {} /\ n.parked = d.parked
         /\ n.placed = d.placed /\ n.handlers = d.handlers /\ n.socket = d.socket
         /\ \A c \in Arms : \A x \in ToSet(d.arm[c]) : x \in ToSet(n.arm[c]) \/ x \in ToSet(run)
<1>1. /\ Sound(n) /\ ToSet(run) \cap HeldIn(n) = {} /\ n.parked = d.parked
      /\ n.placed = d.placed /\ n.handlers = d.handlers /\ n.socket = d.socket
  BY RunCut
<1>2. PICK front : front = Above(d, b)
  OBVIOUS
<1>3. a \in Arms /\ front \in Seq(Blocks) /\ IsInjective(front) /\ ToSet(front) \cup ToSet(run) = ToSet(d.arm[a])
  BY <1>2, RunFromIs
<1>4. n.arm = [d.arm EXCEPT ![a] = front]
  <2>1. \A x \in ToSet(front) : x \in ToSet(d.arm[a]) \/ x \notin HeldIn(d)
    BY <1>3
  <2>2. n = ArmSet(d, a, front)
    BY <1>2
  <2>3. QED
    BY <1>3, <2>1, <2>2, ArmPut
<1>5. d.arm \in [Arms -> Seq(Blocks)]
  BY StoredParts DEF Sound
<1>6. ASSUME NEW c \in Arms, NEW x \in ToSet(d.arm[c]) PROVE x \in ToSet(n.arm[c]) \/ x \in ToSet(run)
  <2>1. CASE c = a
    BY <1>3, <1>4, <1>5, <1>6, <2>1
  <2>2. CASE c # a
    BY <1>4, <1>5, <1>6, <2>2
  <2>3. QED
    BY <2>1, <2>2
<1>7. QED
  BY <1>1, <1>6

\* A stack dragged onto another.
LEMMA MoveRunKeeps ==
  ASSUME NEW d, Sound(d), NEW h, NEW b, NEW th, NEW t, t.arm \in Arms, t.index \in Nat
  PROVE  Keeps(d, MoveRun(d, h, b, th, t))
<1>1. CASE Locates(d, h, b) /\ t.arm[1] \notin Range(RunFrom(d, b))
  <2>1. PICK a, s, i, run, front : /\ a = ArmOf(d, b) /\ s = d.arm[a] /\ i = At(s, b) - 1
                                   /\ run = RunFrom(d, b) /\ front = SubSeq(s, 1, i)
    OBVIOUS
  <2>2. PICK cut : cut = ArmSet(d, a, front)
    OBVIOUS
  <2>3. PICK index : index = IF t.arm = a /\ i < t.index
                             THEN IF t.index < Len(run) THEN 0 ELSE t.index - Len(run)
                             ELSE t.index
    OBVIOUS
  <2>4. MoveRun(d, h, b, th, t) = IF TargetExists(cut, th, t)
                                  THEN [cut EXCEPT !.arm[t.arm] = Splice(@, Clamp(index, @), run)]
                                  ELSE d
    BY <1>1, <2>1, <2>2, <2>3 DEF MoveRun, ArmSet
  <2>5. InArm(d, b)
    BY <1>1 DEF Locates
  <2>6. run \in Seq(Blocks) /\ IsInjective(run) /\ Len(run) \in Nat
    BY <2>1, <2>5, RunFromIs, LenProperties
  <2>7. cut = ArmSet(d, a, Above(d, b))
    BY <2>1, <2>2 DEF Above
  <2>8. /\ Sound(cut) /\ ToSet(run) \cap HeldIn(cut) = {} /\ cut.parked = d.parked
        /\ cut.handlers = d.handlers /\ cut.socket = d.socket
        /\ \A c \in Arms : \A x \in ToSet(d.arm[c]) : x \in ToSet(cut.arm[c]) \/ x \in ToSet(run)
    BY <2>1, <2>5, <2>7, RunCutIs
  <2>9. index \in Nat
    BY <2>3, <2>6
  <2>10. PICK c, at, n : c = t.arm /\ at = Clamp(index, cut.arm[c]) /\ n = SplicedIn(cut, c, at, run)
    OBVIOUS
  <2>11. c \in Arms /\ at \in 0..Len(cut.arm[c])
    BY <2>8, <2>9, <2>10, StoredParts, ClampIs DEF Sound
  <2>12. CASE TargetExists(cut, th, t)
    <3>1. MoveRun(d, h, b, th, t) = n
      BY <2>4, <2>10, <2>12 DEF SplicedIn
    <3>2. Reaches(cut, th, c)
      BY <2>10, <2>12 DEF TargetExists, Reaches
    <3>3. ToSet(run) \subseteq OnCanvas(n) /\ Extends(cut, n)
      BY <2>6, <2>8, <2>10, <2>11, <3>2, SplicedReached
    <3>4. PICK C : C = OnCanvas(n)
      OBVIOUS
    <3>5. /\ Stored(n) /\ n.handlers = d.handlers /\ n.socket = d.socket /\ n.parked = d.parked
          /\ \A e \in Arms : \A x \in ToSet(d.arm[e]) : x \in ToSet(n.arm[e]) \/ x \in C
      BY <2>8, <3>3, <3>4 DEF Extends, Sound
    <3>6. OnCanvas(d) \subseteq C
      BY <3>4, <3>5, CanvasKept DEF Sound
    <3>7. QED
      BY <3>1, <3>4, <3>6 DEF Keeps
  <2>13. CASE ~TargetExists(cut, th, t)
    BY <2>4, <2>13 DEF Keeps
  <2>14. QED
    BY <2>12, <2>13
<1>2. CASE ~(Locates(d, h, b) /\ t.arm[1] \notin Range(RunFrom(d, b)))
  BY <1>2 DEF MoveRun, Keeps
<1>3. QED
  BY <1>1, <1>2

\* A stack dropped on the free canvas.
LEMMA ParkRunKeeps ==
  ASSUME NEW d, Sound(d), NEW h, NEW b
  PROVE  Keeps(d, ParkRun(d, h, b))
<1>1. CASE Locates(d, h, b)
  <2>1. PICK a, s, i, run, front : /\ a = ArmOf(d, b) /\ s = d.arm[a] /\ i = At(s, b)
                                   /\ run = RunFrom(d, b) /\ front = SubSeq(s, 1, i - 1)
    OBVIOUS
  <2>2. InArm(d, b)
    BY <1>1 DEF Locates
  <2>3. /\ a \in Arms /\ Len(s) \in Nat /\ i \in 1..Len(s) /\ b \in Blocks
        /\ run \in Seq(Blocks) /\ run # <<>> /\ IsInjective(run) /\ Len(run) = Len(s) - i + 1
    BY <2>1, <2>2, RunFromIs
  <2>4. Len(s) - Len(run) = i - 1
    BY <2>3
  <2>5. PICK cut, Q, n : cut = ArmSet(d, a, front) /\ Q = d.placed \cup {b} /\ n = ParkedBehind(cut, run, Q)
    OBVIOUS
  <2>6. cut = ArmSet(d, a, Above(d, b))
    BY <2>1, <2>5 DEF Above
  <2>7. /\ Sound(cut) /\ ToSet(run) \cap HeldIn(cut) = {} /\ cut.parked = d.parked /\ cut.placed = d.placed
        /\ cut.handlers = d.handlers /\ cut.socket = d.socket
        /\ \A c \in Arms : \A x \in ToSet(d.arm[c]) : x \in ToSet(cut.arm[c]) \/ x \in ToSet(run)
    BY <2>1, <2>2, <2>6, RunCutIs
  <2>8. Q \in SUBSET Blocks
    BY <2>3, <2>5, StoredParts DEF Sound
  <2>9. /\ Sound(n) /\ n.handlers = cut.handlers /\ n.arm = cut.arm /\ n.socket = cut.socket
        /\ \A x : x \in Spanned(n.parked) <=> x \in Spanned(cut.parked) \/ x \in ToSet(run)
    <3>1. ParkedOn(cut, run, n)
      BY <2>3, <2>5, <2>7, <2>8, ParkedReached
    <3>2. QED
      BY <3>1 DEF ParkedOn
  <2>10. PICK C : C = OnCanvas(n)
    OBVIOUS
  <2>11. \A x \in ToSet(run) : x \in C
    <3>1. \A x \in ToSet(run) : x \in Roots(n)
      BY <2>9, SpannedIs, RootsAre DEF Sound
    <3>2. QED
      BY <2>9, <2>10, <3>1, CanvasIs DEF Sound
  <2>12. OnCanvas(d) \subseteq C
    <3>1. /\ Stored(d) /\ Stored(n) /\ n.handlers = d.handlers /\ n.socket = d.socket
          /\ \A c \in Arms : \A x \in ToSet(d.arm[c]) : x \in ToSet(n.arm[c]) \/ x \in C
          /\ \A x \in Spanned(d.parked) : x \in Spanned(n.parked)
      BY <2>7, <2>9, <2>11 DEF Sound
    <3>2. QED
      BY <2>10, <3>1, CanvasKept
  <2>13. ParkRun(d, h, b) = [d EXCEPT !.arm[a] = front, !.parked = Append(@, run), !.placed = @ \cup {b}]
    BY <1>1, <2>1, <2>4 DEF ParkRun
  <2>14. [d EXCEPT !.arm[a] = front, !.parked = Append(@, run), !.placed = @ \cup {b}]
           = [cut EXCEPT !.parked = Append(@, run), !.placed = Q]
    BY <2>5, StoredParts DEF Sound, ArmSet
  <2>15. QED
    BY <2>5, <2>10, <2>12, <2>13, <2>14 DEF ParkedBehind, Keeps
<1>2. CASE ~Locates(d, h, b)
  BY <1>2 DEF ParkRun, Keeps
<1>3. QED
  BY <1>1, <1>2

\* A parked run split, and attached to a stack.
LEMMA SplitKeeps ==
  ASSUME NEW d, Sound(d), NEW lead, NEW offset \in Nat
  PROVE  Keeps(d, SplitParkedRun(d, lead, offset))
<1>1. CASE IsLead(d, lead) /\ offset > 0 /\ offset < Len(d.parked[RunOf(d, lead)])
  <2>1. PICK r, tail, P, Q, n :
          /\ r = RunOf(d, lead) /\ tail = TailFrom(d.parked[r], offset) /\ P = CutRun(d.parked, r, offset, tail)
          /\ Q = d.placed \cup {tail[1]} /\ n = RunsSet(d, P, Q)
    OBVIOUS
  <2>2. d.parked \in ParkedRuns /\ RunsApart(d.parked) /\ r \in 1..Len(d.parked) /\ Len(d.parked[r]) \in Nat
    BY <1>1, <2>1, LeadIs
  <2>3. offset \in 1..Len(d.parked[r]) - 1
    BY <1>1, <2>1, <2>2
  <2>4. P \in ParkedRuns /\ RunsApart(P) /\ (\A x : x \in Spanned(P) <=> x \in Spanned(d.parked)) /\ tail[1] \in Blocks
    BY <2>1, <2>2, <2>3, RunsSplit
  <2>5. (\A x \in Spanned(P) : x \in Spanned(d.parked) \/ x \notin HeldIn(d)) /\ Q \in SUBSET Blocks
    BY <2>1, <2>4, StoredParts DEF Sound
  <2>6. Sound(n) /\ n.handlers = d.handlers /\ n.parked = P /\ n.arm = d.arm /\ n.socket = d.socket
    BY <2>1, <2>4, <2>5, RunsPut
  <2>7. SplitParkedRun(d, lead, offset) = [d EXCEPT !.parked = CutRun(@, r, offset, tail), !.placed = @ \cup {tail[1]}]
    BY <1>1, <2>1 DEF SplitParkedRun, CutRun, TailFrom
  <2>8. SplitParkedRun(d, lead, offset) = n
    BY <2>1, <2>7 DEF RunsSet
  <2>9. PICK C : C = OnCanvas(n)
    OBVIOUS
  <2>10. OnCanvas(d) \subseteq C
    <3>1. /\ Stored(d) /\ Stored(n) /\ n.handlers = d.handlers /\ n.socket = d.socket /\ n.arm = d.arm
          /\ \A x \in Spanned(d.parked) : x \in Spanned(n.parked)
      BY <2>4, <2>6 DEF Sound
    <3>2. QED
      BY <2>9, <3>1, CanvasKept
  <2>11. QED
    BY <2>8, <2>9, <2>10 DEF Keeps
<1>2. CASE ~(IsLead(d, lead) /\ offset > 0 /\ offset < Len(d.parked[RunOf(d, lead)]))
  BY <1>2 DEF SplitParkedRun, Keeps
<1>3. QED
  BY <1>1, <1>2

\* The other parked runs stay.
LEMMA UnparkedIs ==
  ASSUME NEW d, Sound(d), NEW lead, IsLead(d, lead), NEW r, r = RunOf(d, lead),
         NEW Q \in SUBSET Blocks, NEW n, n = RunsSet(d, RemoveAt(d.parked, r), Q)
  PROVE  \A x \in Spanned(d.parked) : x \in Spanned(n.parked) \/ x \in ToSet(d.parked[r])
<1>1. d.parked \in ParkedRuns /\ RunsApart(d.parked) /\ r \in 1..Len(d.parked)
  BY LeadIs
<1>2. PICK P : P = RemoveAt(d.parked, r)
  OBVIOUS
<1>3. \A x : x \in Spanned(P) <=> x \in Spanned(d.parked) \ ToSet(d.parked[r])
  BY <1>1, <1>2, RunsRemoved
<1>4. n.parked = P
  <2>1. d = [handlers |-> d.handlers, arm |-> d.arm, socket |-> d.socket, parked |-> d.parked, placed |-> d.placed]
    BY StoredParts DEF Sound
  <2>2. QED
    BY <1>2, <2>1 DEF RunsSet
<1>5. QED
  BY <1>3, <1>4

\* The same arms reach the same.
LEMMA SameReach ==
  ASSUME NEW d, Sound(d), NEW n, Sound(n), n.handlers = d.handlers, n.arm = d.arm, n.socket = d.socket,
         NEW h, NEW a, Reaches(d, h, a)
  PROVE  Reaches(n, h, a)
<1>1. h \in d.handlers /\ (a = <<h, "body">> \/ a[1] \in Findable(d, h))
  BY DEF Reaches
<1>2. PICK T : T = {}
  OBVIOUS
<1>3. Closed(d, Full, T)
  BY <1>2 DEF Closed
<1>4. Findable(d, h) \subseteq Findable(n, h) \cup T
  BY <1>1, <1>3, FindableKept DEF Sound
<1>5. QED
  BY <1>1, <1>2, <1>4 DEF Reaches

\* A parked run dropped on a stack.
LEMMA AttachKeeps ==
  ASSUME NEW d, Sound(d), NEW lead, NEW h, NEW t, t.arm \in Arms, t.index \in Nat
  PROVE  Keeps(d, AttachParked(d, lead, h, t))
<1>1. CASE IsLead(d, lead) /\ TargetExists(d, h, t)
  <2>1. PICK r, Q, run, cut : /\ r = RunOf(d, lead) /\ Q = d.placed \ {lead} /\ run = d.parked[r]
                              /\ cut = RunsSet(d, RemoveAt(d.parked, r), Q)
    OBVIOUS
  <2>2. Q \in SUBSET Blocks
    BY <2>1, StoredParts DEF Sound
  <2>3. /\ Sound(cut) /\ ToSet(run) \cap HeldIn(cut) = {}
        /\ cut.arm = d.arm /\ cut.handlers = d.handlers /\ cut.socket = d.socket
    BY <1>1, <2>1, <2>2, Unparked
  <2>4. \A x \in Spanned(d.parked) : x \in Spanned(cut.parked) \/ x \in ToSet(run)
    BY <1>1, <2>1, <2>2, UnparkedIs
  <2>5. run \in Seq(Blocks) /\ IsInjective(run)
    BY <1>1, <2>1, LeadIs
  <2>6. PICK c, at, n : c = t.arm /\ at = Clamp(t.index, cut.arm[c]) /\ n = SplicedIn(cut, c, at, run)
    OBVIOUS
  <2>7. c \in Arms /\ at \in 0..Len(cut.arm[c])
    BY <2>3, <2>6, StoredParts, ClampIs DEF Sound
  <2>8. Reaches(cut, h, c)
    <3>1. Reaches(d, h, c)
      BY <1>1, <2>6 DEF TargetExists, Reaches
    <3>2. QED
      BY <2>3, <3>1, SameReach
  <2>9. ToSet(run) \subseteq OnCanvas(n) /\ Extends(cut, n)
    BY <2>3, <2>5, <2>6, <2>7, <2>8, SplicedReached
  <2>10. PICK C : C = OnCanvas(n)
    OBVIOUS
  <2>11. OnCanvas(d) \subseteq C
    <3>1. /\ Stored(d) /\ Stored(n) /\ n.handlers = d.handlers /\ n.socket = d.socket
          /\ \A e \in Arms : \A x \in ToSet(d.arm[e]) : x \in ToSet(n.arm[e])
          /\ \A x \in Spanned(d.parked) : x \in Spanned(n.parked) \/ x \in C
      BY <2>3, <2>4, <2>9, <2>10 DEF Sound, Extends
    <3>2. QED
      BY <2>10, <3>1, CanvasKept
  <2>12. AttachParked(d, lead, h, t) = [d EXCEPT !.parked = RemoveAt(@, r),
                !.arm[t.arm] = Splice(@, at, run), !.placed = Q]
    BY <1>1, <2>1, <2>3, <2>6 DEF AttachParked
  <2>13. [d EXCEPT !.parked = RemoveAt(@, r), !.arm[t.arm] = Splice(@, at, run), !.placed = Q]
           = [cut EXCEPT !.arm[t.arm] = Splice(@, at, run)]
    BY <2>1, StoredParts DEF Sound, RunsSet
  <2>14. QED
    BY <2>6, <2>10, <2>11, <2>12, <2>13 DEF SplicedIn, Keeps
<1>2. CASE ~(IsLead(d, lead) /\ TargetExists(d, h, t))
  BY <1>2 DEF AttachParked, Keeps
<1>3. QED
  BY <1>1, <1>2

\* A program less one wired expression.
Lifted(d, p, e) ==
  /\ Sound(p) /\ p.handlers = d.handlers /\ p.arm = d.arm /\ p.parked = d.parked
  /\ \A k \in Sockets : k[1] \in OnCanvas(d) => p.socket[k] = d.socket[k] \/ d.socket[k] = e

\* A block whose own socket is filled is still where it was.
LEMMA OwnerReached ==
  ASSUME NEW p, Sound(p), NEW h \in p.handlers, NEW k \in Sockets, k[1] \in Findable(p, h),
         NEW n, Stored(n), n.handlers = p.handlers, n.arm = p.arm,
         \A l \in Sockets : l # k => n.socket[l] = p.socket[l]
  PROVE  k[1] \in Findable(n, h)
<1>1. SUFFICES ASSUME k[1] \notin Findable(n, h) PROVE FALSE
  OBVIOUS
<1>2. PICK T, D, C, via : T = {} /\ via = Full /\ D = Closure(p, Body(p, h), via) /\ C = Closure(n, Body(n, h), via)
  OBVIOUS
<1>3. D = Findable(p, h) /\ C = Findable(n, h) /\ via \in SUBSET Full
  BY <1>2 DEF Findable, BlockTree, Full
<1>4. Closed(p, via, T)
  BY <1>2 DEF Closed
<1>5. \A l \in Sockets : l[1] \in D \cap C =>
        n.socket[l] = p.socket[l] \/ p.socket[l] = NoBlock \/ p.socket[l] \in T
  BY <1>1, <1>3
<1>6. D \subseteq C \cup T
  <2>1. Stored(p)
    BY DEF Sound
  <2>2. D = Closure(p, Body(p, h), via) /\ C = Closure(n, Body(n, h), via)
    BY <1>2
  <2>3. QED
    BY <1>3, <1>4, <1>5, <2>1, <2>2, ReachKept
<1>7. QED
  BY <1>1, <1>2, <1>3, <1>6

\* Wiring it in parks what the socket holds, where findBlock sees it.
LEMMA WireCovers ==
  ASSUME NEW d, Sound(d), NEW p, NEW e \in Expressions, Lifted(d, p, e), e \notin HeldIn(p),
         NEW t, t.h \in d.handlers, t.key \in Sockets, t.key[1] \in Findable(p, t.h),
         t.key[1] \in Walked(p, t.h) \/ p.socket[t.key] = NoBlock
  PROVE  Keeps(d, Wire(p, t, e))
<1>1. PICK h, k, x, w, n : /\ h = t.h /\ k = t.key /\ x = p.socket[k] /\ w = SetSlot(p, h, k, e)
                           /\ n = IF x = NoBlock THEN w ELSE AddParked(w, x)
  OBVIOUS
<1>2. /\ Sound(p) /\ p.handlers = d.handlers /\ p.arm = d.arm /\ p.parked = d.parked
      /\ \A l \in Sockets : l[1] \in OnCanvas(d) => p.socket[l] = d.socket[l] \/ d.socket[l] = e
      /\ h \in p.handlers /\ k \in Sockets /\ k[1] \in Findable(p, h)
  BY <1>1 DEF Lifted
<1>3. Wire(p, t, e) = n
  <2>1. PICK y : y = IF t.h \in p.handlers /\ t.key[1] \in Walked(p, t.h)
                     THEN p.socket[t.key] ELSE NoBlock
    OBVIOUS
  <2>2. y = x
    BY <1>1, <1>2, <2>1
  <2>3. Wire(p, t, e) = IF y = NoBlock THEN SetSlot(p, t.h, t.key, e)
                        ELSE AddParked(SetSlot(p, t.h, t.key, e), y)
    BY <2>1 DEF Wire
  <2>4. QED
    BY <1>1, <2>2, <2>3
<1>4. e \in Expressions \cup {NoBlock} /\ e # NoBlock
  BY BlockAssumption DEF Blocks
<1>5. /\ Sound(w) /\ w.handlers = d.handlers /\ w.arm = d.arm /\ w.parked = d.parked
      /\ w.socket = [p.socket EXCEPT ![k] = e]
      /\ \A y : y \in HeldIn(w) <=> y \in HeldIn(p) \ {x} \/ y \in {e} \ {NoBlock}
  <2>1. Sound(w) /\ w.handlers = p.handlers /\ w.arm = p.arm /\ w.parked = p.parked
    BY ZenonT(40), <1>1, <1>2, <1>4, SetSlotSound
  <2>2. w.socket = [p.socket EXCEPT ![k] = e]
    <3>1. w = SocketSet(p, k, e)
      BY <1>1, <1>2 DEF SetSlot, SocketSet
    <3>2. p = [handlers |-> p.handlers, arm |-> p.arm, socket |-> p.socket, parked |-> p.parked, placed |-> p.placed]
      BY <1>2, StoredParts DEF Sound
    <3>3. QED
      BY <3>1, <3>2 DEF SocketSet
  <2>3. \A y : y \in HeldIn(w) <=> y \in HeldIn(p) \ {x} \/ y \in {e} \ {NoBlock}
    <3>1. h \in p.handlers /\ k[1] \in Findable(p, h) =>
             \A y : y \in HeldIn(w) <=> y \in HeldIn(p) \ {p.socket[k]} \/ y \in {e} \ {NoBlock}
      <4>1. w = SetSlot(p, h, k, e) /\ Sound(p) /\ k \in Sockets /\ e \in Expressions \cup {NoBlock}
        BY <1>1, <1>2, <1>4
      <4>2. e \notin HeldIn(p)
        OBVIOUS
      <4>3. QED
        BY <4>1, <4>2, SetSlotSound
    <3>2. QED
      BY <1>1, <1>2, <3>1
  <2>4. QED
    BY <1>2, <2>1, <2>2, <2>3
<1>6. p.socket \in [Sockets -> Expressions \cup {NoBlock}] /\ x \in Expressions \cup {NoBlock}
  BY <1>1, <1>2, StoredParts DEF Sound
<1>7. w.socket[k] = e /\ \A l \in Sockets : l # k => w.socket[l] = p.socket[l]
  BY <1>2, <1>5, <1>6
<1>8. /\ Sound(n) /\ n.handlers = d.handlers /\ n.arm = d.arm /\ n.socket = w.socket
      /\ \A y \in Spanned(d.parked) : y \in Spanned(n.parked)
      /\ x # NoBlock => x \in Spanned(n.parked)
  <2>1. CASE x = NoBlock
    BY <1>1, <1>5, <2>1
  <2>2. CASE x # NoBlock
    <3>1. x \notin HeldIn(w)
      <4>1. x \in HeldIn(p)
        BY <1>1, <1>2, <2>2, HeldIs
      <4>2. QED
        BY <1>5, <4>1
    <3>2. x \in Blocks /\ n = AddParked(w, x)
      BY <1>1, <1>6, <2>2 DEF Blocks
    <3>3. /\ Sound(n) /\ n.handlers = w.handlers /\ n.arm = w.arm /\ n.socket = w.socket
          /\ \A y : y \in Spanned(n.parked) <=> y \in Spanned(w.parked) \/ y = x
      BY <1>5, <3>1, <3>2, AddParkedIs
    <3>4. QED
      BY <1>5, <3>3
  <2>3. QED
    BY <2>1, <2>2
<1>9. PICK C : C = OnCanvas(n)
  OBVIOUS
<1>10. Roots(n) \subseteq C /\ Closed(n, Full, C) /\ Findable(n, h) \subseteq C
  BY <1>2, <1>8, <1>9, CanvasIs, FindableIs DEF Sound
<1>11. e \in C
  <2>1. n.handlers = p.handlers /\ n.arm = p.arm /\ Stored(n) /\ \A l \in Sockets : l # k => n.socket[l] = p.socket[l]
    BY <1>2, <1>7, <1>8 DEF Sound
  <2>2. k[1] \in Findable(n, h)
    BY <1>2, <2>1, OwnerReached
  <2>3. n.socket[k] = e
    BY <1>7, <1>8
  <2>4. k[1] \in Blocks /\ e \in Inside(n, k[1], Full)
    BY <1>2, <1>4, <2>1, <2>3, SocketHolds
  <2>5. QED
    BY <1>10, <2>2, <2>4 DEF Closed
<1>12. x # NoBlock => x \in C
  BY <1>8, <1>10, SpannedIs, RootsAre DEF Sound
<1>13. ASSUME NEW l \in Sockets, l[1] \in OnCanvas(d)
       PROVE  n.socket[l] = d.socket[l] \/ d.socket[l] = NoBlock \/ d.socket[l] \in C
  <2>1. p.socket[l] = d.socket[l] \/ d.socket[l] = e
    BY <1>2, <1>13
  <2>2. CASE l = k
    BY <1>1, <1>11, <1>12, <2>1, <2>2
  <2>3. CASE l # k
    BY <1>7, <1>8, <1>11, <2>1, <2>3
  <2>4. QED
    BY <2>2, <2>3
<1>14. Stored(d) /\ Stored(n) /\ n.handlers = d.handlers /\ n.arm = d.arm
  BY <1>8 DEF Sound
<1>15. OnCanvas(d) \subseteq C
  BY <1>8, <1>9, <1>13, <1>14, CanvasKept
<1>16. QED
  BY <1>3, <1>9, <1>15 DEF Keeps

\* The same dropped on the free canvas.
LEMMA ParkCovers ==
  ASSUME NEW d, Sound(d), NEW p, NEW e \in Expressions, Lifted(d, p, e), e \notin HeldIn(p)
  PROVE  Keeps(d, AddParked(p, e))
<1>1. PICK n, C : n = AddParked(p, e) /\ C = OnCanvas(n)
  OBVIOUS
<1>2. /\ Sound(p) /\ p.handlers = d.handlers /\ p.arm = d.arm /\ p.parked = d.parked
      /\ \A l \in Sockets : l[1] \in OnCanvas(d) => p.socket[l] = d.socket[l] \/ d.socket[l] = e
  BY DEF Lifted
<1>3. e \in Blocks
  BY DEF Blocks
<1>4. /\ Sound(n) /\ n.handlers = p.handlers /\ n.arm = p.arm /\ n.socket = p.socket
      /\ \A y : y \in Spanned(n.parked) <=> y \in Spanned(p.parked) \/ y = e
  BY <1>1, <1>2, <1>3, AddParkedIs
<1>5. e \in C
  BY <1>1, <1>4, SpannedIs, RootsAre, CanvasIs DEF Sound
<1>6. OnCanvas(d) \subseteq C
  <2>1. /\ Stored(d) /\ Stored(n) /\ n.handlers = d.handlers /\ n.arm = d.arm
        /\ \A y \in Spanned(d.parked) : y \in Spanned(n.parked)
    BY <1>2, <1>4 DEF Sound
  <2>2. \A l \in Sockets : l[1] \in OnCanvas(d) => n.socket[l] = d.socket[l] \/ d.socket[l] = NoBlock \/ d.socket[l] \in C
    BY <1>2, <1>4, <1>5
  <2>3. QED
    BY <1>1, <2>1, <2>2, CanvasKept
<1>7. QED
  BY <1>1, <1>6 DEF Keeps

\* Fewer kinds of edges reach less.
LEMMA InsideLess ==
  ASSUME NEW d, Stored(d), NEW via \in SUBSET Full, NEW x \in Blocks, NEW y \in Inside(d, x, via)
  PROVE  y \in Inside(d, x, Full)
<1>1. \/ \E v \in via \ {"socket"} : x \in Ifs /\ <<x, v>> \in Arms /\ y \in ToSet(d.arm[<<x, v>>])
      \/ \E k \in Keys(x) : "socket" \in via /\ y = d.socket[<<x, k>>] /\ y # NoBlock
  BY WithinIs DEF Full
<1>2. \A k \in Keys(x) : <<x, k>> \in Sockets
  BY DEF Sockets
<1>3. via \ {"socket"} \subseteq {"then", "else"}
  BY DEF Full
<1>4. Sits(d, x, y)
  BY <1>1, <1>2, <1>3 DEF Sits
<1>5. QED
  BY <1>4, SitsIs

\* And a set closed under all is closed under some.
LEMMA ClosedLess ==
  ASSUME NEW d, Stored(d), NEW via \in SUBSET Full, NEW S, Closed(d, Full, S)
  PROVE  Closed(d, via, S)
<1>1. ASSUME NEW x \in S \cap Blocks, NEW y \in Inside(d, x, via) PROVE y \in S
  <2>1. x \in Blocks /\ x \in S
    OBVIOUS
  <2>2. y \in Inside(d, x, Full)
    BY <1>1, <2>1, InsideLess
  <2>3. QED
    BY <2>1, <2>2 DEF Closed
<1>2. QED
  BY <1>1 DEF Closed

\* A packed expression that is still wired is closed.
LEMMA CarriedClosed ==
  ASSUME NEW d, Stored(d), NEW g, Packed(g), Wired(d, g)
  PROVE  Closed(d, Full, g.carried)
<1>1. ASSUME NEW x \in g.carried \cap Blocks, NEW y \in Inside(d, x, Full) PROVE y \in g.carried
  <2>1. x \in Expressions
    BY DEF Packed
  <2>2. PICK k \in Sockets : k[1] = x /\ y = d.socket[k] /\ y # NoBlock
    BY <2>1, ExpressionsHold DEF Within
  <2>3. k \in DOMAIN g.inner
    BY <2>2 DEF Packed
  <2>4. y = g.inner[k]
    BY <2>2, <2>3 DEF Wired
  <2>5. QED
    BY <2>2, <2>3, <2>4 DEF Packed
<1>2. QED
  BY <1>1 DEF Closed

\* What the rest of the program reaches once an expression is out of it.
Ready(d, cut, p, g) ==
  /\ Lifted(d, p, g.expr) /\ g.expr \notin HeldIn(p)
  /\ \A i \in d.handlers : /\ Findable(d, i) \subseteq Findable(cut, i) \cup g.carried
                           /\ Findable(d, i) \subseteq Findable(p, i) \cup g.carried
                           /\ Walked(d, i) \subseteq Walked(p, i) \cup g.carried

\* It reaches what it reached, but for what was taken out.
LEMMA ReachLifted ==
  ASSUME NEW d, Sound(d), NEW p, NEW e, Lifted(d, p, e), NEW T, Closed(d, Full, T),
         \A l \in Sockets : l[1] \in OnCanvas(d) =>
            p.socket[l] = d.socket[l] \/ d.socket[l] = NoBlock \/ d.socket[l] \in T,
         NEW i \in d.handlers
  PROVE  /\ Findable(d, i) \subseteq Findable(p, i) \cup T
         /\ Walked(d, i) \subseteq Walked(p, i) \cup T
<1>1. Stored(d) /\ Stored(p) /\ p.arm = d.arm
  BY DEF Sound, Lifted
<1>2. Findable(d, i) \subseteq OnCanvas(d) /\ Walked(d, i) \subseteq OnCanvas(d)
  BY <1>1, FindableIs
<1>3. ASSUME NEW via \in SUBSET Full, NEW D, D = Closure(d, Body(d, i), via),
             NEW C, C = Closure(p, Body(p, i), via), D \subseteq OnCanvas(d)
      PROVE  D \subseteq C \cup T
  <2>1. Closed(d, via, T)
    BY <1>1, <1>3, ClosedLess
  <2>2. \A l \in Sockets : l[1] \in D \cap C =>
            p.socket[l] = d.socket[l] \/ d.socket[l] = NoBlock \/ d.socket[l] \in T
    BY <1>3
  <2>3. QED
    BY <1>1, <1>3, <2>1, <2>2, ReachKept
<1>4. {"then", "socket"} \in SUBSET Full /\ {"then", "else", "socket"} \in SUBSET Full
  BY DEF Full
<1>5. Findable(d, i) \subseteq Findable(p, i) \cup T
  BY <1>2, <1>3, <1>4 DEF Findable, BlockTree
<1>6. Walked(d, i) \subseteq Walked(p, i) \cup T
  BY <1>2, <1>3, <1>4 DEF Walked
<1>7. QED
  BY <1>5, <1>6

\* Taken from the socket it is wired in.
LEMMA WiredReady ==
  ASSUME NEW d, Sound(d), NEW g, Packed(g), Wired(d, g), NEW cut, cut = SetSlot(d, g.h, g.key, NoBlock),
         NEW p, p = Unpack(cut, g.inner)
  PROVE  Ready(d, cut, p, g)
<1>1. PICK e, h, k, V : e = g.expr /\ h = g.h /\ k = g.key /\ V = g.carried
  OBVIOUS
<1>2. /\ e \in V /\ V \subseteq Expressions /\ k \in Sockets /\ k[1] \notin V
      /\ DOMAIN g.inner = {n \in Sockets : n[1] \in V}
      /\ h \in d.handlers /\ k[1] \in Findable(d, h) /\ d.socket[k] = e
      /\ \A n \in DOMAIN g.inner : d.socket[n] = g.inner[n]
  BY <1>1 DEF Packed, Wired
<1>3. cut = SocketSet(d, k, NoBlock)
  BY <1>1, <1>2 DEF SetSlot, SocketSet
<1>4. /\ Sound(cut) /\ cut.handlers = d.handlers /\ cut.parked = d.parked /\ cut.arm = d.arm
      /\ cut.socket = [d.socket EXCEPT ![k] = NoBlock] /\ e \notin HeldIn(cut)
  <2>1. PICK empty : empty = NoBlock
    OBVIOUS
  <2>2. empty \in Expressions \cup {NoBlock} /\ empty \notin HeldIn(d) /\ cut = SocketSet(d, k, empty)
    BY <1>3, <2>1, HeldBlocks
  <2>7. k \in Sockets
    BY <1>2
  <2>3. Sound(cut) /\ cut.handlers = d.handlers /\ cut.parked = d.parked /\ cut.arm = d.arm
    <3>1. Sound(cut)
      BY ZenonT(40), <2>2, <2>7, SocketPut
    <3>2. d = [handlers |-> d.handlers, arm |-> d.arm, socket |-> d.socket, parked |-> d.parked, placed |-> d.placed]
      BY StoredParts DEF Sound
    <3>3. cut.handlers = d.handlers /\ cut.parked = d.parked /\ cut.arm = d.arm
      BY <2>2, <3>2 DEF SocketSet
    <3>4. QED
      BY <3>1, <3>3
  <2>4. cut.socket = [d.socket EXCEPT ![k] = empty]
    BY <2>2, <2>7, SocketPut
  <2>5. \A x : x \in HeldIn(cut) <=> x \in HeldIn(d) \ {d.socket[k]} \/ x \in {empty} \ {NoBlock}
    BY ZenonT(40), <2>2, <2>7, SocketPut
  <2>6. QED
    BY <1>2, <2>1, <2>3, <2>4, <2>5
<1>5. d.socket \in [Sockets -> Expressions \cup {NoBlock}]
  BY StoredParts DEF Sound
<1>6. /\ cut.socket \in [Sockets -> Expressions \cup {NoBlock}]
      /\ cut = [handlers |-> cut.handlers, arm |-> cut.arm, socket |-> cut.socket,
             parked |-> cut.parked, placed |-> cut.placed]
  BY <1>4, StoredParts DEF Sound
<1>7. \A n \in DOMAIN g.inner : cut.socket[n] = g.inner[n]
  BY <1>2, <1>4, <1>5
<1>8. p = cut
  <2>1. PICK K : K = [n \in Sockets |-> IF n \in DOMAIN g.inner THEN g.inner[n] ELSE cut.socket[n]]
    OBVIOUS
  <2>2. K = cut.socket
    BY <1>6, <1>7, <2>1
  <2>3. p = [cut EXCEPT !.socket = K]
    BY <2>1 DEF Unpack
  <2>4. QED
    BY <1>6, <2>2, <2>3
<1>9. \A l \in Sockets : l # k => cut.socket[l] = d.socket[l]
  BY <1>4, <1>5
<1>10. Lifted(d, cut, e)
  BY <1>2, <1>4, <1>9 DEF Lifted
<1>11. \A l \in Sockets : l[1] \in OnCanvas(d) =>
            cut.socket[l] = d.socket[l] \/ d.socket[l] = NoBlock \/ d.socket[l] \in V
  BY <1>2, <1>9
<1>12. Closed(d, Full, V)
  BY <1>1, CarriedClosed DEF Sound
<1>13. \A i \in d.handlers : /\ Findable(d, i) \subseteq Findable(cut, i) \cup V
                             /\ Walked(d, i) \subseteq Walked(cut, i) \cup V
  BY <1>10, <1>11, <1>12, ReachLifted
<1>14. QED
  BY <1>1, <1>4, <1>8, <1>10, <1>13 DEF Ready

\* Brought back after it, and the block it was taken from, are gone.
LEMMA GoneReady ==
  ASSUME NEW d, Sound(d), NEW g, Packed(g), Gone(d, g), NEW cut, cut = SetSlot(d, g.h, g.key, NoBlock),
         NEW p, p = Unpack(cut, g.inner)
  PROVE  Ready(d, cut, p, g)
<1>1. PICK e, V, inner : e = g.expr /\ V = g.carried \ {e} /\ inner = g.inner
  OBVIOUS
<1>2. /\ e \in g.carried /\ g.carried \subseteq Expressions
      /\ DOMAIN inner = {n \in Sockets : n[1] \in g.carried}
      /\ \A n \in DOMAIN inner : inner[n] \in V \cup {NoBlock}
      /\ \A n, o \in DOMAIN inner : inner[n] = inner[o] /\ inner[n] # NoBlock => n = o
      /\ (\A x \in g.carried : x \notin HeldIn(d)) /\ g.key[1] \notin HeldIn(d)
  BY <1>1 DEF Packed, Gone
<1>3. \A x : x \in OnCanvas(d) => x \in HeldIn(d)
  BY CanvasHeld
<1>4. cut = d
  <2>1. g.h \in d.handlers => Findable(d, g.h) \subseteq OnCanvas(d)
    BY FindableIs DEF Sound
  <2>2. QED
    BY <1>2, <1>3, <2>1 DEF SetSlot
<1>5. /\ DOMAIN inner \subseteq Sockets /\ V \subseteq Expressions
      /\ (\A x \in V : x \notin HeldIn(d)) /\ e \notin HeldIn(d) /\ e \notin V
      /\ p = Unpack(d, inner)
  BY <1>1, <1>2, <1>4
<1>6. Sound(p) /\ p.handlers = d.handlers /\ \A x : x \in HeldIn(p) => x \in HeldIn(d) \/ x \in V
  BY <1>2, <1>5, UnpackSound
<1>7. PICK K : K = [l \in Sockets |-> IF l \in DOMAIN inner THEN inner[l] ELSE d.socket[l]]
  OBVIOUS
<1>8. p = [handlers |-> d.handlers, arm |-> d.arm, socket |-> K, parked |-> d.parked, placed |-> d.placed]
  <2>1. p = [d EXCEPT !.socket = K]
    BY <1>5, <1>7 DEF Unpack
  <2>2. QED
    BY <2>1, StoredParts DEF Sound
<1>9. p.arm = d.arm /\ p.parked = d.parked /\ p.socket = K
  BY <1>8
<1>10. \A l \in Sockets : l[1] \in OnCanvas(d) => p.socket[l] = d.socket[l]
  <2>1. \A l \in Sockets : l[1] \in OnCanvas(d) => l \notin DOMAIN inner
    BY <1>2, <1>3
  <2>2. QED
    BY <1>7, <1>9, <2>1
<1>11. Lifted(d, p, e)
  BY <1>6, <1>9, <1>10 DEF Lifted
<1>12. PICK T : T = {}
  OBVIOUS
<1>13. Closed(d, Full, T)
  BY <1>12 DEF Closed
<1>14. \A i \in d.handlers : Findable(d, i) \subseteq Findable(p, i) \cup T /\ Walked(d, i) \subseteq Walked(p, i) \cup T
  BY <1>10, <1>11, <1>13, ReachLifted
<1>15. e \notin HeldIn(p)
  BY <1>5, <1>6
<1>16. QED
  BY <1>1, <1>4, <1>11, <1>12, <1>14, <1>15 DEF Ready

\* A dragged expression dropped where it loses nothing.
LEMMA DropSlotKeeps ==
  ASSUME NEW d, Sound(d), NEW g, SlotKept(d, g), NEW t,
         t.to = "socket" =>
           /\ t.h \in d.handlers /\ t.key \in Sockets /\ t.key[1] \in Findable(d, t.h)
           /\ t.key[1] \in Walked(d, t.h) \/ d.socket[t.key] = NoBlock
           /\ t.key[1] \notin g.carried
  PROVE  Keeps(d, DropSlot(d, g, t))
<1>1. PICK e, cut, p, n : /\ cut = SetSlot(d, g.h, g.key, NoBlock) /\ p = Unpack(cut, g.inner) /\ e = g.expr
                          /\ n = DropSlot(d, g, t)
  OBVIOUS
<1>2. Ready(d, cut, p, g) /\ e \in Expressions
  <2>1. Packed(g) /\ (Wired(d, g) \/ Gone(d, g))
    BY DEF SlotKept
  <2>2. e \in Expressions
    BY <1>1, <2>1 DEF Packed
  <2>3. QED
    BY <1>1, <2>1, <2>2, WiredReady, GoneReady
<1>3. /\ Lifted(d, p, e) /\ e \notin HeldIn(p)
      /\ \A i \in d.handlers : /\ Findable(d, i) \subseteq Findable(cut, i) \cup g.carried
                               /\ Findable(d, i) \subseteq Findable(p, i) \cup g.carried
                               /\ Walked(d, i) \subseteq Walked(p, i) \cup g.carried
  BY <1>1, <1>2 DEF Ready
<1>4. n = CASE t.to = "socket" /\ t.h = g.h /\ t.key = g.key -> d
            [] t.to = "socket" /\ ~(t.h = g.h /\ t.key = g.key) ->
                 IF t.h \in d.handlers /\ t.key[1] \in Findable(cut, t.h) THEN Wire(p, t, e) ELSE cut
            [] t.to = "park" -> AddParked(p, e)
            [] OTHER -> d
  BY <1>1 DEF DropSlot, Unpack
<1>5. Keeps(d, AddParked(p, e))
  BY <1>2, <1>3, ParkCovers
<1>6. ASSUME t.to = "socket" PROVE t.key[1] \in Findable(cut, t.h) /\ Keeps(d, Wire(p, t, e))
  <2>1. PICK k, h : k = t.key /\ h = t.h
    OBVIOUS
  <2>2. /\ h \in d.handlers /\ k \in Sockets /\ k[1] \in Findable(d, h)
        /\ k[1] \in Walked(d, h) \/ d.socket[k] = NoBlock
        /\ k[1] \notin g.carried
    BY <1>6, <2>1
  <2>3. k[1] \in Findable(cut, h) /\ k[1] \in Findable(p, h) /\ (k[1] \in Walked(d, h) => k[1] \in Walked(p, h))
    BY <1>3, <2>2
  <2>4. k[1] \in Walked(p, h) \/ p.socket[k] = NoBlock
    <3>1. k[1] \in OnCanvas(d)
      BY <2>2, FindableIs DEF Sound
    <3>2. p.socket[k] = d.socket[k] \/ d.socket[k] = e
      BY <1>3, <2>2, <3>1 DEF Lifted
    <3>3. e # NoBlock
      BY <1>2, BlockAssumption DEF Blocks
    <3>4. QED
      BY <2>2, <2>3, <3>2, <3>3
  <2>5. Keeps(d, Wire(p, t, e))
    <3>1. /\ t.h \in d.handlers /\ t.key \in Sockets /\ t.key[1] \in Findable(p, t.h)
          /\ t.key[1] \in Walked(p, t.h) \/ p.socket[t.key] = NoBlock
      BY <2>1, <2>2, <2>3, <2>4
    <3>2. QED
      BY <1>2, <1>3, <3>1, WireCovers
  <2>6. QED
    BY <2>1, <2>3, <2>5
<1>7. Keeps(d, d)
  BY DEF Keeps
<1>8. QED
  BY <1>1, <1>4, <1>5, <1>6, <1>7

\* A palette block wired into a socket.
LEMMA WireKeeps ==
  ASSUME NEW d, Sound(d), NEW e \in Expressions, e \notin HeldIn(d), NEW t, t.key \in Sockets,
         t.h \in d.handlers /\ t.key[1] \in Findable(d, t.h) =>
           t.key[1] \in Walked(d, t.h) \/ d.socket[t.key] = NoBlock
  PROVE  Keeps(d, Wire(d, t, e))
<1>1. Lifted(d, d, e)
  BY DEF Lifted
<1>2. CASE t.h \in d.handlers /\ t.key[1] \in Findable(d, t.h)
  BY <1>1, <1>2, WireCovers
<1>3. CASE ~(t.h \in d.handlers /\ t.key[1] \in Findable(d, t.h))
  <2>1. ~(t.h \in d.handlers /\ t.key[1] \in Walked(d, t.h))
    BY <1>3, FindableIs DEF Sound
  <2>2. SetSlot(d, t.h, t.key, e) = d
    BY <1>3 DEF SetSlot
  <2>3. QED
    BY <2>1, <2>2 DEF Wire, Keeps
<1>4. QED
  BY <1>2, <1>3

\* A drop that is not one of the losing ones keeps the canvas.
LEMMA DroppedKeeps ==
  ASSUME Neat(blockDoc), DragHeld(blockDoc, drag), ~Idle, NEW t, Aims(t), ~LosesAnExpression(t),
         drag.from \in {"palette-statement", "palette-reporter"} => Free(drag.shape) # {}
  PROVE  Keeps(blockDoc, Dropped(t))
<1>1. PICK d, g : d = blockDoc /\ g = drag
  OBVIOUS
<1>2. /\ Sound(d)
      /\ g.from \in {"palette-statement", "palette-reporter", "script", "parked", "slot"}
      /\ g.from = "slot" => SlotKept(d, g)
      /\ g.from = "parked" => g.offset \in Nat
      /\ g.from \in {"palette-statement", "palette-reporter"} => g.shape \in Shapes /\ Free(g.shape) # {}
      /\ g.from = "palette-reporter" => g.shape \subseteq Expressions
  BY <1>1 DEF Neat, DragHeld, Idle
<1>3. /\ t.to = "stack" => t.arm \in Arms /\ t.index \in Nat
      /\ t.to = "socket" => t.key \in Sockets
  BY DEF Aims
<1>4. t.to = "socket" =>
        /\ t.h \in d.handlers /\ t.key[1] \in Findable(d, t.h) =>
             t.key[1] \in Walked(d, t.h) \/ d.socket[t.key] = NoBlock
        /\ g.from = "slot" => /\ t.key[1] \notin g.carried
                              /\ t.h \in d.handlers /\ t.key[1] \in Findable(d, t.h)
  BY <1>1 DEF LosesAnExpression
<1>5. g.from \in {"palette-statement", "palette-reporter"} =>
        New(g.shape) \in g.shape /\ New(g.shape) \in Blocks /\ New(g.shape) \notin HeldIn(d)
  BY <1>1, <1>2, NewIs
<1>6. Keeps(d, d)
  BY DEF Keeps
<1>7. CASE g.from = "palette-statement"
  <2>1. PICK b : b = New(g.shape)
    OBVIOUS
  <2>2. b \in Blocks /\ b \notin HeldIn(d)
    BY <1>5, <1>7, <2>1
  <2>3. Keeps(d, AddParked(d, b)) /\ (t.to = "stack" => Keeps(d, AddStatement(d, t.h, t, b)))
    BY <1>2, <1>3, <2>2, AddParkedKeeps, AddStatementKeeps
  <2>4. Keeps(d, DropPaletteStatement(d, g, t))
    BY <1>6, <2>1, <2>3 DEF DropPaletteStatement
  <2>5. Dropped(t) = DropPaletteStatement(d, g, t)
    BY <1>1, <1>7 DEF Dropped
  <2>6. QED
    BY <1>1, <2>4, <2>5
<1>8. CASE g.from = "palette-reporter"
  <2>1. PICK b : b = New(g.shape)
    OBVIOUS
  <2>2. b \in Blocks /\ b \notin HeldIn(d) /\ b \in Expressions
    BY <1>2, <1>5, <1>8, <2>1
  <2>3. Keeps(d, AddParked(d, b)) /\ (t.to = "socket" => Keeps(d, Wire(d, t, b)))
    BY <1>2, <1>3, <1>4, <2>2, AddParkedKeeps, WireKeeps
  <2>4. Keeps(d, DropPaletteReporter(d, g, t))
    BY <1>6, <2>1, <2>3 DEF DropPaletteReporter
  <2>5. Dropped(t) = DropPaletteReporter(d, g, t)
    BY <1>1, <1>8 DEF Dropped
  <2>6. QED
    BY <1>1, <2>4, <2>5
<1>9. CASE g.from = "script"
  <2>1. Keeps(d, ParkRun(d, g.h, g.block)) /\ (t.to = "stack" => Keeps(d, MoveRun(d, g.h, g.block, t.h, t)))
    BY <1>2, <1>3, ParkRunKeeps, MoveRunKeeps
  <2>2. Keeps(d, DropScript(d, g, t))
    BY <1>6, <2>1 DEF DropScript
  <2>3. Dropped(t) = DropScript(d, g, t)
    BY <1>1, <1>9 DEF Dropped
  <2>4. QED
    BY <1>1, <2>2, <2>3
<1>10. CASE g.from = "parked"
  <2>1. PICK split, attached : /\ split = SplitParkedRun(d, g.lead, g.offset)
                               /\ attached = AttachParked(split, g.tail, t.h, t)
    OBVIOUS
  <2>2. Sound(split) /\ Keeps(d, split)
    BY <1>2, <1>10, <2>1, SplitSound, SplitKeeps
  <2>3. t.to = "stack" => Keeps(d, AttachParked(d, g.lead, t.h, t)) /\ Keeps(split, attached)
    BY <1>2, <1>3, <2>1, <2>2, AttachKeeps
  <2>4. t.to = "stack" => Keeps(d, attached)
    BY <2>2, <2>3 DEF Keeps
  <2>5. Keeps(d, DropParked(d, g, t))
    BY <1>6, <2>1, <2>2, <2>3, <2>4 DEF DropParked
  <2>6. Dropped(t) = DropParked(d, g, t)
    BY <1>1, <1>10 DEF Dropped
  <2>7. QED
    BY <1>1, <2>5, <2>6
<1>11. CASE g.from = "slot"
  <2>1. Keeps(d, DropSlot(d, g, t))
    BY <1>2, <1>3, <1>4, <1>11, DropSlotKeeps
  <2>2. Dropped(t) = DropSlot(d, g, t)
    BY <1>1, <1>11 DEF Dropped
  <2>3. QED
    BY <1>1, <2>1, <2>2
<1>12. QED
  BY <1>2, <1>7, <1>8, <1>9, <1>10, <1>11

\* The release of a drag.
LEMMA ReleaseKeeps ==
  ASSUME Neat(blockDoc), HistoryHeld, DragHeld(blockDoc, drag), DropBlock,
         ~LosesAnExpression(dropTarget), blockEdits' # blockEdits
  PROVE  OnCanvas(blockDoc) \subseteq OnCanvas(blockDoc')
<1>1. PICK t, d, n, new : t = dropTarget /\ d = blockDoc /\ n = Dropped(t) /\ new = Tidy(n)
  OBVIOUS
<1>2. Sound(n) /\ Keeps(d, n)
  <2>1. ~Idle /\ Aims(t) /\ ~LosesAnExpression(t)
    BY <1>1 DEF DropBlock, HistoryHeld
  <2>2. drag.from \in {"palette-statement", "palette-reporter"} => Free(drag.shape) # {}
    BY DEF DropBlock
  <2>3. QED
    BY <1>1, <2>1, <2>2, DroppedSound, DroppedKeeps
<1>3. CommitBlocks(new)
  BY <1>1 DEF DropBlock
<1>4. Sound(new) /\ OnCanvas(n) \subseteq OnCanvas(new)
  BY <1>1, <1>2, TidySound, TidyKeeps DEF Sound
<1>5. OnCanvas(new) \subseteq OnCanvas(Tidy(new))
  BY <1>4, TidyKeeps DEF Sound
<1>6. blockDoc' = Tidy(new)
  BY <1>3 DEF CommitBlocks
<1>7. QED
  BY <1>1, <1>2, <1>4, <1>5, <1>6 DEF Keeps

(* A drag rearranges: but for the three drops that lose an expression (onto an     *)
(* occupied socket inside an else arm; of a wired expression onto an operand of its *)
(* own, or onto a block deleted since the pointer moved) and for an undo or redo    *)
(* under the drag, what was on the canvas before a release is on it after           *)
(* (applyDrop, moveRun, parkRun, splitParkedRun, attachParked, wire).               *)
THEOREM DropsRearrange == BlocksSpec => DropsKeepBlocks
<1> DEFINE Released == ~Idle /\ drag' = NoBlock /\ blockEdits' # blockEdits /\ ~stale
           Kept == OnCanvas(blockDoc) \subseteq OnCanvas(blockDoc')
                     \/ LosesAnExpression(dropTarget)
<1>1. BlocksInit => BlocksInv
  BY BlocksInitHolds
<1>2. BlocksInv /\ [BlocksNext]_blockVars => BlocksInv'
  BY BlocksStep
<1>3. ASSUME BlocksInv, [BlocksNext]_blockVars, Released PROVE Kept
  <2>1. Neat(blockDoc) /\ HistoryHeld /\ DragHeld(blockDoc, drag)
    BY <1>3 DEF BlocksInv
  <2>2. drag # NoBlock /\ drag' # drag /\ BlocksNext
    BY <1>3 DEF Idle, blockVars
  <2>3. ~SideRail
    BY <2>2 DEF SideRail, AddHandler, RemoveHandler, ClickPalette
  <2>4. ~Buttons
    BY <2>2 DEF Buttons, RowActions, ClearValue, ParkedActions
  <2>5. ~Keyboard
    BY <2>2 DEF Keyboard, DeleteSelected, DuplicateSelected, ArrowKey, UndoBlocks, RedoBlocks, HistoryKey
  <2>6. DropBlock
    BY <1>3, <2>2, <2>3, <2>4, <2>5
       DEF BlocksNext, Gestures, BeginPalette, BeginScript, BeginParked, BeginSlot, Begin, Idle, PointAt, Cancel
  <2>7. QED
    BY <1>3, <2>1, <2>6, ReleaseKeeps
<1>4. BlocksInv /\ [BlocksNext]_blockVars => [Released => Kept]_blockVars
  BY <1>3
<1>5. QED
  BY <1>1, <1>2, <1>4, PTL DEF BlocksSpec, DropsKeepBlocks
=============================================================================
