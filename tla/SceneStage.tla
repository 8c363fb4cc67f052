----------------------------- MODULE SceneStage -----------------------------
(***************************************************************************)
(* The 2D scene loop on top of a run: keys and on-screen buttons become    *)
(* actions, each frame dispatches the actions pressed since the last one,  *)
(* compares what the player overlaps with what it overlapped, drains the   *)
(* queues that blocks filled and steps the state machines. Positions are   *)
(* abstracted to which entities the player's body overlaps in a frame.     *)
(***************************************************************************)
EXTENDS AppRuntime

VARIABLES
  stage,   \* the mounted stage
  keys,    \* the keys held down on the keyboard
  heard,   \* entities whose last contact event was not an exit
  said,    \* the contact events of the last frame, in order
  spent,   \* actions dispatched since one of their keys last moved
  torn     \* actions of which two keys or buttons were held at once

stageVars == <<stage, keys, heard, said, spent, torn>>
vars == <<runtimeVars, stageVars>>

Entities == {"player", "platform", "coin", "enemy", "trigger", "sprite",
             "camera", "light", "emitter", "tilemap"}
IsScene(screen) == \E c \in Range(screen.components) : c.type \in Entities
HasPlayer(screen) == \E c \in Range(screen.components) : c.type = "player"
Others(screen) ==
  SelectSeq(screen.components,
            LAMBDA c : c.type \in Entities \ {"player", "camera"})

Collidable(props, c) ==
  /\ c.type \notin {"camera", "light", "emitter"}
  /\ Get(props, <<c.id, "visible">>) # Boolean(FALSE)
  /\ Get(props, <<c.id, "collider">>) # Boolean(FALSE)

-----------------------------------------------------------------------------
(* Mounting *)

NoStage == [on |-> FALSE, key |-> 0, screen |-> None, pressed |-> {},
            edges |-> {}, touching |-> {}, machines |-> <<>>, shaking |-> FALSE]

\* The state machines start in their default states.
SeedMachines(a, screen) ==
  [c \in {d.id : d \in {e \in Range(screen.components) : e.id \in DOMAIN a.machines}} |->
     [state |-> a.machines[c].default, paused |-> FALSE]]

\* A stage is mounted for each run of a page whose screen is a scene.
Mounted(key, screen) ==
  [NoStage EXCEPT !.on = TRUE, !.key = key, !.screen = screen.id,
                  !.machines = SeedMachines(Apps[app'], screen)]

\* What React keeps after a step: a stage is remounted for a new run, kept
\* when the page goes from one scene to another, and dropped otherwise. The
\* key listeners follow the screen drawn and forget the keys when its
\* actions differ.
Remount(old) ==
  LET screen == ScreenOf(Apps[app'], shown')
      key == Len(runs')
  IN IF key = 0 \/ fault' \/ runs'[key].gone \/ ~IsScene(screen) THEN NoStage
     ELSE IF ~old.on \/ old.key # key THEN Mounted(key, screen)
     ELSE IF screen.actions # ScreenOf(Apps[app], shown).actions
     THEN [old EXCEPT !.pressed = {}, !.edges = {}]
     ELSE old

SamePlay ==
  /\ stage.on /\ stage'.on /\ stage'.key = stage.key
  /\ ScreenOf(Apps[app], shown').actions = ScreenOf(Apps[app], shown).actions

\* A step of the page: the stage and what was heard on it follow.
PageStep ==
  /\ RuntimeNext
  /\ stage' = Remount(stage)
  /\ keys' = keys /\ said' = <<>>
  /\ IF SamePlay THEN UNCHANGED <<heard, spent>> ELSE heard' = {} /\ spent' = {}
  /\ torn' = torn

-----------------------------------------------------------------------------
(* Input *)

\* The actions a key stands for on the screen that is drawn.
KeyIndex(k) ==
  {a.id : a \in {b \in Range(ScreenOf(Apps[app], shown).actions) : b.enabled /\ k \in b.keys}}

\* Press a set of actions: those that were not pressed get an edge.
Press(ids) ==
  stage' = [stage EXCEPT !.pressed = @ \cup ids,
                         !.edges = @ \cup (ids \ stage.pressed)]

InputStep == stage.on /\ said' = <<>> /\ UNCHANGED <<runtimeVars, heard>>

Keys == UNION {UNION {b.keys : b \in Range(s.actions)} : s \in Range(Apps[app].screens)}

Buttons == [left_button |-> "move-left", jump_button |-> "jump"]

\* The keys and buttons held that stand for an action.
Holders(a) ==
  {k \in keys \cap Keys : a \in KeyIndex(k)} \cup
  {b \in keys \cap DOMAIN Buttons : Buttons[b] = a}

KeyDown ==
  /\ InputStep
  /\ \E k \in Keys \ keys :
       /\ keys' = keys \cup {k}
       /\ Press(KeyIndex(k))
       /\ spent' = spent \ KeyIndex(k)
       /\ torn' = torn \cup {a \in KeyIndex(k) : Holders(a) # {}}

\* A key held down repeats.
KeyRepeat ==
  /\ InputStep
  /\ \E k \in keys \cap Keys : Press(KeyIndex(k))
  /\ UNCHANGED <<keys, spent, torn>>

KeyUp ==
  /\ InputStep
  /\ \E k \in keys \cap Keys :
       /\ keys' = keys \ {k}
       /\ stage' = [stage EXCEPT !.pressed = @ \ KeyIndex(k)]
       /\ spent' = spent \ KeyIndex(k)
  /\ torn' = torn

\* The on-screen buttons press through setAction, as keys do.
ButtonDown ==
  /\ InputStep /\ HasPlayer(ScreenOf(Apps[app], shown))
  /\ \E b \in DOMAIN Buttons \ keys :
       /\ keys' = keys \cup {b}
       /\ Press({Buttons[b]})
       /\ spent' = spent \ {Buttons[b]}
       /\ torn' = torn \cup {a \in {Buttons[b]} : Holders(a) # {}}

\* Only the buttons that move the player do something when they are released.
ButtonUp ==
  /\ InputStep
  /\ \E b \in keys \cap DOMAIN Buttons :
       /\ keys' = keys \ {b}
       /\ stage' = IF b = "jump_button" THEN stage
                   ELSE [stage EXCEPT !.pressed = @ \ {Buttons[b]}]
       /\ spent' = spent \ {Buttons[b]}
  /\ torn' = torn

-----------------------------------------------------------------------------
(* One frame *)

\* The actions pressed since the last frame, in the order of the screen the
\* loop was mounted on.
ActionEvents(st) ==
  FoldLeft(LAMBDA s, a : IF a.id \in stage.edges THEN DispatchActionPressed(s, a.id)
                         ELSE s,
           st, ScreenOf(Apps[app], stage.screen).actions)

PlayerOf(screen) == SelectSeq(screen.components, LAMBDA c : c.type = "player")[1].id

\* One entity of the contact pass. acc has the run, what is still touched and
\* what was said; over is what the body overlaps and was what it overlapped.
Contact(acc, c, over, was, stay) ==
  LET player == PlayerOf(ScreenOf(Apps[app], stage.screen))
      Fire(kind) == [acc EXCEPT !.st = Dispatch(@, player, <<kind, c.id>>),
                                !.said = Append(@, <<kind, c.id>>),
                                !.still = IF c.id \in over THEN @ \cup {c.id} ELSE @]
  IN CASE ~Collidable(acc.st.run.props, c) -> acc
       [] c.id \in over /\ c.id \notin was -> Fire("touches")
       [] c.id \in over /\ stay -> Fire("touching")
       [] c.id \in over -> [acc EXCEPT !.still = @ \cup {c.id}]
       [] c.id \in was -> Fire("touches-exit")
       [] OTHER -> acc

\* Mutant of Contacts: what was touched is not asked.
ContactsWithoutMemory(st, over, was, stay) ==
  FoldLeft(LAMBDA acc, c : Contact(acc, c, over, {c.id}, stay),
           [st |-> st, still |-> {}, said |-> <<>>],
           Others(ScreenOf(Apps[app], stage.screen)))

\* The contact pass over every other entity, in order.
Contacts(st, over, was, stay) ==
  FoldLeft(LAMBDA acc, c : Contact(acc, c, over, was, stay),
           [st |-> st, still |-> {}, said |-> <<>>],
           Others(ScreenOf(Apps[app], stage.screen)))

\* The animation pass: one queued command, for the machine of its component.
AnimationCommand(machines, command) ==
  IF command.component \notin DOMAIN machines THEN machines
  ELSE [machines EXCEPT ![command.component] =
         CASE command.op = "play-animation" -> [@ EXCEPT !.paused = FALSE]
           [] command.op = "stop-animation" -> [@ EXCEPT !.paused = TRUE]
           [] command.op = "trigger-animation-param" ->
                [@ EXCEPT !.fired = @ \cup {command.name}]
           [] OTHER -> @]

\* The first transition, in order, from the present state or from any, whose
\* exit time is reached and whose conditions hold.
Transition(a, c, m, holds, ended) ==
  LET from == SelectSeq(a.machines[c].transitions, LAMBDA t :
                /\ t.from \in {m.state, "*"}
                /\ t.exit => ended
                /\ t.conds \subseteq (holds \cup m.fired))
  IN IF from = <<>> THEN m.state ELSE from[1].to

\* One switch at most, then every trigger is forgotten, taken or not.
StepMachine(a, c, m, holds, ended) ==
  LET to == Transition(a, c, m, holds, ended)
  IN [state |-> to, paused |-> IF to = m.state THEN m.paused ELSE FALSE]

Untriggered(machines) ==
  [c \in DOMAIN machines |-> [state |-> machines[c].state,
                              paused |-> machines[c].paused, fired |-> {}]]

\* Mutant of AfterFrame: the edges are left for the next frame.
AfterFrameKeepingEdges(st, still, holds, ended) ==
  [stage EXCEPT
     !.touching = still,
     !.shaking = IF st.run.camera # <<>> THEN TRUE ELSE @,
     !.machines =
        LET fed == FoldLeft(AnimationCommand, Untriggered(@), st.run.animation)
        IN [c \in DOMAIN fed |-> StepMachine(Apps[app], c, fed[c], holds, ended)]]

\* The stage after a frame.
AfterFrame(st, still, holds, ended) ==
  [stage EXCEPT
     !.edges = {},
     !.touching = still,
     !.shaking = IF st.run.camera # <<>> THEN TRUE ELSE @,
     !.machines =
        LET fed == FoldLeft(AnimationCommand, Untriggered(@), st.run.animation)
        IN [c \in DOMAIN fed |-> StepMachine(Apps[app], c, fed[c], holds, ended)]]

Drained(st) ==
  [st EXCEPT !.run.camera = <<>>, !.run.animation = <<>>, !.run.particle = <<>>]

ContactAfter(events_, before) ==
  FoldLeft(LAMBDA h, e : IF e[1] = "touches-exit" THEN h \ {e[2]} ELSE h \cup {e[2]},
           before, events_)

\* What the machines of an app look at, besides triggers.
Watches(a, name) ==
  \E c \in DOMAIN a.machines : \E k \in DOMAIN a.machines[c].transitions :
    LET t == a.machines[c].transitions[k]
    IN IF name = "exit" THEN t.exit ELSE name \in t.conds
Seen(name) == IF Watches(Apps[app], name) THEN BOOLEAN ELSE {FALSE}

\* step: over is what the body overlaps, fell whether the player dropped out
\* of the stage, stay whether this frame repeats the contacts.
Frame(over, fell, stay, grounded, ended) ==
  LET acted == ActionEvents(At(live))
      was == IF fell THEN {} ELSE stage.touching
      contacts == Contacts(acted, over, was, stay)
      moving == stage.pressed \cap {"move-left", "move-right"} # {}
      holds == (IF moving THEN {"speed"} ELSE {}) \cup
               (IF grounded THEN {"isGrounded"} ELSE {})
      after == AfterFrame(contacts.st, contacts.still, holds, ended)
  IN /\ Deliver(live, Drained(contacts.st))
     /\ stage' = Remount(after)
     /\ said' = contacts.said
     /\ IF SamePlay
        THEN /\ heard' = ContactAfter(contacts.said, heard)
             /\ spent' = spent \cup stage.edges
        ELSE heard' = {} /\ spent' = {}
     /\ UNCHANGED <<keys, torn>>

Tick ==
  /\ stage.on /\ live # 0
  /\ HasPlayer(ScreenOf(Apps[app], stage.screen))
  /\ \E over \in SUBSET {c.id : c \in Range(Others(ScreenOf(Apps[app], stage.screen)))} :
     \E how \in {"moved", "fell", "stayed"} :
     \E grounded \in Seen("isGrounded"), ended \in Seen("exit") :
       Frame(over, how = "fell", how = "stayed", grounded, ended)

Init ==
  /\ RuntimeInit
  /\ stage = NoStage /\ keys = {} /\ heard = {} /\ said = <<>> /\ spent = {}
  /\ torn = {}

Next ==
  \/ PageStep
  \/ KeyDown \/ KeyRepeat \/ KeyUp \/ ButtonDown \/ ButtonUp
  \/ Tick

Spec == Init /\ [][Next]_vars

-----------------------------------------------------------------------------
(* Properties *)

TypeOK ==
  /\ live \in 0..Len(runs) /\ Len(runs) <= MaxRuns
  /\ shown \in ScreenIds(Apps[app])
  /\ \A i \in DOMAIN runs :
       /\ runs[i].stage \in {"ready", "disposed", "orphan"}
       /\ runs[i].screen \in ScreenIds(Apps[app])
       /\ runs[i].current \in 0..Len(runs[i].playing)
  /\ \A k \in DOMAIN asks : asks[k].run \in DOMAIN runs
  /\ events \in 0..MaxEvents
  /\ stage.on => stage.screen \in ScreenIds(Apps[app]) /\ stage.key = Len(runs)

\* The page draws the screen its run is on, and block code and the person
\* agree on where they are, unless a run that is not the page's moved the
\* screen: an "initialize" handler that navigates, which start overrides, or
\* a late answer to a disposed run.
ShownScreenIsTheRuns == live # 0 /\ ~strayed => runs[live].screen = shown

\* Blocks hear that the player left an entity only after they heard that it
\* touched it, whatever was hidden, shown, respawned or restarted between.
ExitFollowsEnter ==
  [][\A k \in DOMAIN said' :
       said'[k][1] = "touches-exit" => said'[k][2] \in heard]_vars

\* One press is one action event: an action that was dispatched is pressed
\* again only after one of its keys or buttons has moved, however long a key
\* repeats and however many frames go by, unless two of them were held at
\* once: releasing one of two lets the other's repeats press again.
OneDispatchPerPress == stage.edges \cap spent \subseteq torn
=============================================================================
