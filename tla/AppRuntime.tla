----------------------------- MODULE AppRuntime -----------------------------
(***************************************************************************)
(* An Ideaven app running in the browser: the block interpreter that       *)
(* createRuntime makes (variables, component properties, clocks, sensors,  *)
(* sounds, requests and the queues the scene loop drains), and the two     *)
(* surfaces that start runs of it, the builder's preview and the published *)
(* page.                                                                   *)
(*                                                                         *)
(* An app is a value: its screens in order, each with its components and   *)
(* its handlers, and the screen it starts on. An event is a tuple, such as *)
(* <<"click">> or <<"touches", "coin">>; a handler of no component belongs *)
(* to the component "screen".                                              *)
(***************************************************************************)
EXTENDS Integers, Sequences, SequencesExt, FiniteSets, TLC

CONSTANTS
  Apps,        \* the apps there are, by name
  MaxRuns,     \* bound on the runs a behaviour starts
  MaxEvents,   \* bound on the events a behaviour delivers
  MaxNumber,   \* the largest number a block computes
  MaxAsks,     \* bound on the requests that wait for an answer
  None

ASSUME RuntimeBounds == MaxRuns \in Nat \ {0} /\ MaxEvents \in Nat

VARIABLES
  surface,     \* "preview" or "published"
  app,         \* the name of the page's app
  runs,        \* every run made on this page, the dead ones too
  live,        \* runtimeRef: the run the page talks to, 0 for none
  shown,       \* the screen the page draws
  failed,      \* runError: what the badge says
  fault,       \* the error boundary caught a fault
  db,          \* local storage: <<scope, key>> to a value and its writer
  asks,        \* requests without an answer yet
  events,      \* events delivered so far
  strayed      \* a run moved the screen while it was not the page's

page == <<surface, app, live, shown, failed, fault>>
world == <<runs, db, asks>>
runtimeVars == <<page, world, events, strayed>>

-----------------------------------------------------------------------------
(* Values and expressions *)

Text(s) == [type |-> "text", text |-> s]
Number(n) == [type |-> "number", text |-> ToString(n)]
Boolean(b) == [type |-> "boolean", text |-> IF b THEN "true" ELSE "false"]

AsNumber(v) ==
  CASE v.type = "boolean" -> IF v.text = "true" THEN 1 ELSE 0
    [] \E n \in 0..MaxNumber : ToString(n) = v.text ->
         CHOOSE n \in 0..MaxNumber : ToString(n) = v.text
    [] OTHER -> 0

IsTruthy(v) ==
  CASE v.type = "boolean" -> v.text = "true"
    [] v.type = "number" -> v.text # "0"
    [] OTHER -> v.text # ""

Put(f, k, v) == [x \in DOMAIN f \cup {k} |-> IF x = k THEN v ELSE f[x]]
Get(f, k) == IF k \in DOMAIN f THEN f[k] ELSE Text("")

\* TinyDB keys carry the project's id; the published page passes none.
Scope(st) == IF st.published THEN "preview" ELSE st.app.name

\* What an expression says in a run. The branches are the vocabulary;
\* clock-now is left out, and a screen's location is the sensor's property.
RECURSIVE Eval(_, _)
Eval(st, e) ==
  CASE e.type \in {"text", "number", "boolean"} -> e.value
    [] e.type = "get-variable" -> Get(st.run.vars, e.name)
    [] e.type = "get-property" -> Get(st.run.props, <<e.component, e.name>>)
    [] e.type = "join" ->
         Text(Eval(st, e.a).text \o Eval(st, e.b).text)
    [] e.type = "equals" ->
         Boolean(Eval(st, e.a).text = Eval(st, e.b).text)
    [] e.type = "add" ->
         Number(AsNumber(Eval(st, e.a)) + AsNumber(Eval(st, e.b)))
    [] e.type = "tinydb-get" ->
         IF <<Scope(st), e.name>> \in DOMAIN st.db
         THEN Text(st.db[<<Scope(st), e.name>>].value.text)
         ELSE Text("")
    [] OTHER -> Text("")

RECURSIVE ReadsStore(_)
ReadsStore(e) ==
  \/ e.type = "tinydb-get"
  \/ e.type \in {"join", "equals", "add"} /\ (ReadsStore(e.a) \/ ReadsStore(e.b))

-----------------------------------------------------------------------------
(* A run *)

ComponentsOf(a) == FlattenSeq([i \in DOMAIN a.screens |-> a.screens[i].components])
OfType(a, type) == SelectSeq(ComponentsOf(a), LAMBDA c : c.type = type)
ScreenIds(a) == {a.screens[i].id : i \in DOMAIN a.screens}
ScreenOf(a, id) ==
  IF id \in ScreenIds(a)
  THEN CHOOSE s \in Range(a.screens) : s.id = id
  ELSE a.screens[1]

\* createRuntime up to its first dispatch: empty variables, the components'
\* properties as the model has them, empty queues, no sound.
NewRun(a, screen) ==
  [stage |-> "creating", screen |-> screen, vars |-> <<>>, props |-> a.props,
   clocks |-> {}, motion |-> FALSE, playing |-> <<>>, current |-> 0,
   camera |-> <<>>, animation |-> <<>>, particle |-> <<>>,
   skipped |-> {}, moved |-> FALSE, gone |-> FALSE]

\* Every clock of every screen that is enabled and has a usable interval.
StartClocks(r, a) ==
  [r EXCEPT !.clocks = {c.id : c \in {d \in Range(OfType(a, "clock")) :
      IsTruthy(Get(r.props, <<d.id, "enabled">>))}}]

\* dispose stops the clocks and the motion listener; requests and sounds go on.
Dispose(r) == [r EXCEPT !.stage = "disposed", !.motion = FALSE, !.clocks = {}]

SetComponentProps(st, c, name, v) ==
  IF \E d \in Range(ComponentsOf(st.app)) : d.id = c
  THEN [st EXCEPT !.run.props = Put(@, <<c, name>>, v)]
  ELSE st

Targets(a, type) == [i \in DOMAIN OfType(a, type) |-> OfType(a, type)[i].id]

SetCameraTarget(st, c) ==
  FoldLeft(LAMBDA s, cam : SetComponentProps(s, cam, "followTarget", Text(c)),
           st, Targets(st.app, "camera"))

\* playSound starts one more sound and only remembers the last one.
PlaySound(st, name) ==
  IF name \in st.app.sounds
  THEN [st EXCEPT !.run.playing = Append(@, name),
                  !.run.current = Len(st.run.playing) + 1]
  ELSE st

StopSound(st) ==
  IF st.run.current = 0 THEN st
  ELSE [st EXCEPT !.run.playing[st.run.current] = None, !.run.current = 0]

StoreValue(st, key, v) ==
  [st EXCEPT !.db = Put(@, <<Scope(st), key>>, [value |-> v, by |-> st.app.name])]

Ask(st, kind, url) ==
  IF Len(st.asks) >= MaxAsks THEN st
  ELSE [st EXCEPT !.asks = Append(@, [run |-> st.id, kind |-> kind, url |-> url])]

\* webGet clears the first web component's response and sends the request.
WebGet(st, url) ==
  IF OfType(st.app, "web") = <<>> THEN st
  ELSE Ask(SetComponentProps(st, Targets(st.app, "web")[1], "response", Text("")),
           "web", url)

RequestLocation(st) == Ask(st, "location", None)

Navigate(st, target) ==
  IF target \in ScreenIds(st.app) /\ target # st.run.screen
  THEN [st EXCEPT !.run.screen = target, !.shown = target, !.run.moved = TRUE]
  ELSE st

SkippedExtension(st, type) == [st EXCEPT !.run.skipped = @ \cup {type}]

\* The helpers that are declared below the first dispatch: a block that needs
\* one of them while the run is created throws.
TooEarly(st, b) ==
  /\ st.run.stage # "ready" /\ st.run.stage # "disposed"
  /\ \/ b.type \in {"tinydb-store", "web-get", "location-request", "tts-speak"}
     \/ "value" \in DOMAIN b /\ ReadsStore(b.value)

RECURSIVE ExecuteBody(_, _)

\* executeBlock: what one statement does to the run and to the page.
ExecuteBlock(st, b) ==
  CASE st.threw -> st
    [] TooEarly(st, b) -> [st EXCEPT !.threw = TRUE]
    [] b.type = "extension" -> SkippedExtension(st, b.name)
    [] b.type = "set-property" ->
         SetComponentProps(st, b.component, b.name, Eval(st, b.value))
    [] b.type = "set-variable" ->
         [st EXCEPT !.run.vars = Put(@, b.name, Eval(st, b.value))]
    [] b.type = "change-variable" ->
         [st EXCEPT !.run.vars = Put(@, b.name,
            Number(AsNumber(Get(st.run.vars, b.name)) + AsNumber(Eval(st, b.value))))]
    [] b.type \in {"play-animation", "stop-animation", "set-animation-param",
                   "trigger-animation-param"} ->
         [st EXCEPT !.run.animation = Append(@,
            [component |-> b.component, op |-> b.type, name |-> b.name])]
    [] b.type = "burst-particle" -> [st EXCEPT !.run.particle = Append(@, b.component)]
    [] b.type = "camera-shake" -> [st EXCEPT !.run.camera = Append(@, "shake")]
    [] b.type = "camera-set-target" -> SetCameraTarget(st, b.component)
    [] b.type = "play-sound" -> PlaySound(st, b.name)
    [] b.type = "stop-sound" -> StopSound(st)
    [] b.type = "tinydb-store" -> StoreValue(st, b.name, Eval(st, b.value))
    [] b.type = "web-get" -> WebGet(st, b.name)
    [] b.type = "location-request" -> RequestLocation(st)
    [] b.type = "navigate" -> Navigate(st, b.name)
    [] b.type = "if" ->
         ExecuteBody(st, IF IsTruthy(Eval(st, b.value)) THEN b.then ELSE b.else)
    [] OTHER -> st

ExecuteBody(st, body) == FoldLeft(ExecuteBlock, st, body)

\* Every handler of the event, over all screens, in order.
HandlersFor(a, component, event) ==
  SelectSeq(FlattenSeq([i \in DOMAIN a.screens |-> a.screens[i].handlers]),
            LAMBDA h : h.component = component /\ h.event = event)

Dispatch(st, component, event) ==
  FoldLeft(LAMBDA s, h : ExecuteBody(s, h.body), st,
           HandlersFor(st.app, component, event))

\* The handlers of an action: the live screen's own, then those of the live
\* screen's components, wherever the handlers are kept.
DispatchActionPressed(st, action) ==
  LET event == <<"action-pressed", action>>
      screen == ScreenOf(st.app, st.run.screen)
      own == SelectSeq(screen.handlers,
                       LAMBDA h : h.component = "screen" /\ h.event = event)
  IN FoldLeft(LAMBDA s, c : Dispatch(s, c.id, event),
              FoldLeft(LAMBDA s, h : ExecuteBody(s, h.body), st, own),
              screen.components)

-----------------------------------------------------------------------------
(* The page around a run *)

\* What a dispatch on run i may change.
At(i) == [id |-> i, app |-> Apps[app], run |-> runs[i], shown |-> shown, db |-> db,
          asks |-> asks, threw |-> FALSE, published |-> surface = "published"]

\* The step that runs st on run i: a screen change reaches the page whichever
\* of its runs asks for it.
Deliver(i, st) ==
  /\ events < MaxEvents
  /\ events' = events + 1
  /\ runs' = [runs EXCEPT ![i] = st.run]
  /\ shown' = IF st.run.gone THEN shown ELSE st.shown
  /\ db' = st.db /\ asks' = st.asks
  /\ strayed' = (strayed \/ (shown' # shown /\ i # live))
  /\ UNCHANGED <<surface, app, live, failed, fault>>

\* createRuntime: the clocks are armed, then "initialize" is dispatched.
Created(old) ==
  LET r == StartClocks(NewRun(Apps[app], Apps[app].start), Apps[app])
      st == [id |-> Len(old) + 1, app |-> Apps[app], run |-> r, shown |-> shown,
             db |-> db, asks |-> asks, threw |-> FALSE,
             published |-> surface = "published"]
  IN Dispatch(st, "screen", <<"initialize">>)

\* start: dispose the old run and create a new one. A run that throws while
\* it is created leaves the page with the old, disposed one.
StartIn(old, i) ==
  LET ended == IF i = 0 THEN old ELSE [old EXCEPT ![i] = Dispose(@)]
      st == Created(old)
      listens == OfType(Apps[app], "accelerometer-sensor") # <<>>
  IN /\ Len(old) < MaxRuns
     /\ db' = st.db /\ asks' = st.asks
     /\ fault' = FALSE
     /\ \/ /\ st.threw
           /\ runs' = Append(ended, [st.run EXCEPT !.stage = "orphan"])
           /\ live' = i /\ shown' = st.shown /\ failed' = TRUE
           /\ strayed' = (strayed \/ i # 0)
        \/ /\ ~st.threw
           /\ runs' = Append(ended, [st.run EXCEPT !.stage = "ready",
                                                   !.motion = listens])
           /\ live' = Len(old) + 1 /\ shown' = Apps[app].start /\ failed' = FALSE
           /\ strayed' = st.run.moved
     /\ UNCHANGED events

\* The preview: entering it, Restart, a changed model or viewport.
StartPreview == StartIn(runs, live) /\ UNCHANGED <<surface, app>>

\* The published page: opening it and Restart.
StartPublished == StartIn(runs, live) /\ UNCHANGED <<surface, app>>

\* Stop: the preview unmounts and disposes its run. What an older run still
\* asks of the page is lost.
Leave ==
  /\ runs # <<>>
  /\ runs' = [i \in DOMAIN runs |->
       [(IF i = live THEN Dispose(runs[i]) ELSE runs[i]) EXCEPT !.gone = TRUE]]
  /\ live' = 0 /\ shown' = Apps[app].start
  /\ failed' = FALSE /\ fault' = FALSE /\ strayed' = FALSE
  /\ UNCHANGED <<surface, app, db, asks, events>>

\* The visitor opens another app, or the author another project: a page is
\* loaded.
Visit ==
  /\ app' \in DOMAIN Apps \ {app}
  /\ runs' = <<>> /\ live' = 0 /\ asks' = <<>>
  /\ failed' = FALSE /\ fault' = FALSE /\ strayed' = FALSE
  /\ shown' = Apps[app'].start
  /\ UNCHANGED <<surface, db, events>>

\* The boundary catches a fault of the drawing: the run goes on behind it.
RenderFault ==
  /\ live # 0 /\ ~fault /\ events < MaxEvents
  /\ fault' = TRUE /\ events' = events + 1
  /\ UNCHANGED <<surface, app, live, shown, failed, world, strayed>>

\* Mutant of JumpToScreen: the run is not told.
JumpOnThePageOnly ==
  /\ live # 0 /\ ~fault
  /\ shown' \in ScreenIds(Apps[app]) \ {shown}
  /\ events < MaxEvents /\ events' = events + 1
  /\ UNCHANGED <<surface, app, runs, live, failed, fault, db, asks, strayed>>

\* The preview's screen menu.
JumpToScreen ==
  /\ live # 0 /\ ~fault
  /\ \E s \in ScreenIds(Apps[app]) \ {shown} :
       /\ shown' = s
       /\ runs' = [runs EXCEPT ![live].screen = s]
  /\ events < MaxEvents /\ events' = events + 1
  /\ UNCHANGED <<surface, app, live, failed, fault, db, asks, strayed>>

\* What a person does to a component: the property it writes, if any, and the
\* event that follows.
Gesture(type) ==
  CASE type = "button" -> [prop |-> None, event |-> <<"click">>]
    [] type = "text-input" -> [prop |-> "value", event |-> <<"change">>]
    [] type = "checkbox" -> [prop |-> "checked", event |-> <<"change">>]
    [] type = "switch" -> [prop |-> "on", event |-> <<"change">>]
    [] type = "listview" -> [prop |-> "selection", event |-> <<"itemClick">>]
    [] type = "canvas" -> [prop |-> "lastX", event |-> <<"touch">>]
    [] OTHER -> [prop |-> None, event |-> <<>>]

Interact ==
  /\ live # 0 /\ ~fault
  /\ \E c \in Range(ScreenOf(Apps[app], shown).components) :
       LET g == Gesture(c.type)
           set == IF g.prop = None THEN At(live)
                  ELSE SetComponentProps(At(live), c.id, g.prop, Text("input"))
       IN g.event # <<>> /\ Deliver(live, Dispatch(set, c.id, g.event))

\* An interval fires, on whichever run still has it.
ClockTick ==
  \E i \in DOMAIN runs : \E c \in runs[i].clocks :
    Deliver(i, Dispatch(At(i), c, <<"timer">>))

\* A shaken device: the reading on every accelerometer, then their handlers.
MotionSample ==
  \E i \in DOMAIN runs :
    /\ runs[i].motion
    /\ Deliver(i,
         FoldLeft(LAMBDA s, c : Dispatch(s, c, <<"shake">>),
           FoldLeft(LAMBDA s, c : SetComponentProps(s, c, "available", Boolean(TRUE)),
                    At(i), Targets(Apps[app], "accelerometer-sensor")),
           Targets(Apps[app], "accelerometer-sensor")))

\* Answers may come in any order and after the run that asked is disposed.
WebAnswered ==
  \E k \in DOMAIN asks :
    /\ asks[k].kind = "web"
    /\ LET st == At(asks[k].run)
       IN Deliver(asks[k].run,
            [SetComponentProps(st, Targets(Apps[app], "web")[1], "response",
                               Text(asks[k].url)) EXCEPT !.asks = RemoveAt(asks, k)])

LocationAnswered ==
  \E k \in DOMAIN asks :
    /\ asks[k].kind = "location"
    /\ LET st == [At(asks[k].run) EXCEPT !.asks = RemoveAt(asks, k)]
           fixed == FoldLeft(LAMBDA s, c : SetComponentProps(s, c, "latitude", Number(1)),
                             st, Targets(Apps[app], "location-sensor"))
       IN Deliver(asks[k].run,
            FoldLeft(LAMBDA s, c : Dispatch(s, c, <<"location">>), fixed,
                     Targets(Apps[app], "location-sensor")))

RuntimeInit ==
  /\ surface \in {"preview", "published"}
  /\ app \in DOMAIN Apps
  /\ runs = <<>> /\ live = 0 /\ shown = Apps[app].start
  /\ failed = FALSE /\ fault = FALSE /\ strayed = FALSE
  /\ db = <<>> /\ asks = <<>> /\ events = 0

\* The toolbar and the surface of the preview, and those of the live page.
PreviewPage ==
  /\ surface = "preview"
  /\ StartPreview \/ Leave \/ JumpToScreen \/ Interact

PublishedPage ==
  /\ surface = "published"
  /\ StartPublished \/ Interact

RuntimeNext ==
  \/ PreviewPage \/ PublishedPage \/ Visit \/ RenderFault
  \/ ClockTick \/ MotionSample \/ WebAnswered \/ LocationAnswered
=============================================================================
