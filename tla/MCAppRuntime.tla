---------------------------- MODULE MCAppRuntime ----------------------------
(* Three apps: a form with a clock, sensors and a request; a game of two    *)
(* scenes; and one whose "initialize" needs TinyDB.                         *)
(* A behaviour is one of a run of an app, or one of a 3D scene alone, whose *)
(* world the app's handlers do not change.                                  *)
EXTENDS SceneStage, MCPhysics3D

VARIABLE dimension

Const(v) == [type |-> v.type, value |-> v]
Var(x) == [type |-> "get-variable", name |-> x]
On(c, e, body) == [component |-> c, event |-> e, body |-> body]
C(id, type) == [id |-> id, type |-> type]
Set(c, p, v) == [type |-> "set-property", component |-> c, name |-> p, value |-> v]
Change(x, v) == [type |-> "change-variable", name |-> x, value |-> v]
Go(s) == [type |-> "navigate", name |-> s]
Do(type, x) == [type |-> type, name |-> x]
To(type, c, x) == [type |-> type, component |-> c, name |-> x]
If(c, then, else) == [type |-> "if", value |-> c, then |-> then, else |-> else]

Props(on) == [p \in on |-> Boolean(TRUE)]

form ==
  [name |-> "form", start |-> "one", sounds |-> {"beep"}, machines |-> <<>>,
   props |-> Props({<<"k", "enabled">>}),
   screens |-> <<
     [id |-> "one", actions |-> <<>>,
      components |-> <<C("b", "button"), C("k", "clock"), C("w", "web"),
                       C("g", "location-sensor"), C("m", "accelerometer-sensor")>>,
      handlers |-> <<
        On("screen", <<"initialize">>, <<Do("extension", "x")>>),
        On("b", <<"click">>, <<Do("location-request", ""), Do("web-get", "u")>>),
        On("m", <<"shake">>, <<Do("play-sound", "beep"), Do("play-sound", "beep"),
                               Do("stop-sound", "")>>),
        On("k", <<"timer">>, <<Change("n", Const(Number(1))),
           If([type |-> "equals", a |-> Var("n"), b |-> Const(Number(2))],
              <<Go("two")>>, <<>>)>>),
        On("g", <<"location">>, <<Go("two")>>)>>],
     [id |-> "two", actions |-> <<>>, components |-> <<C("t", "text-input")>>,
      handlers |-> <<On("t", <<"change">>, <<Go("one")>>)>>]>>]

play == <<[id |-> "move-left", keys |-> {"a"}, enabled |-> TRUE],
          [id |-> "jump", keys |-> {}, enabled |-> TRUE]>>

game ==
  [name |-> "game", start |-> "level", sounds |-> {},
   machines |-> [p |-> [default |-> "idle", transitions |->
       <<[from |-> "idle", to |-> "hit", exit |-> FALSE, conds |-> {"ouch"}],
         [from |-> "*", to |-> "run", exit |-> FALSE, conds |-> {"speed"}],
         [from |-> "hit", to |-> "idle", exit |-> TRUE, conds |-> {}]>>]],
   props |-> Props({<<"c", "visible">>}),
   screens |-> <<
     [id |-> "level", actions |-> play,
      components |-> <<C("p", "player"), C("c", "coin"), C("v", "camera")>>,
      handlers |-> <<
        On("screen", <<"action-pressed", "jump">>,
           <<Set("c", "visible", Const(Boolean(TRUE)))>>),
        On("p", <<"touches", "c">>,
           <<Set("c", "visible", Const(Boolean(FALSE))), Do("camera-shake", ""),
             To("trigger-animation-param", "p", "ouch")>>),
        On("p", <<"touches-exit", "c">>, <<Go("bonus")>>)>>],
     [id |-> "bonus", actions |-> play, components |-> <<C("q", "player")>>,
      handlers |-> <<>>]>>]

early ==
  [name |-> "early", start |-> "main", sounds |-> {}, machines |-> <<>>,
   props |-> Props({<<"k", "enabled">>}),
   screens |-> <<
     [id |-> "main", actions |-> <<>>, components |-> <<C("k", "clock"), C("b", "button")>>,
      handlers |-> <<
        On("screen", <<"initialize">>, <<Do("other", ""), Go("end"),
          [type |-> "if", value |-> Const(Text("")), then |-> <<>>,
           else |-> <<[type |-> "tinydb-store", name |-> "score",
                       value |-> Const(Number(1))]>>]>>),
        On("k", <<"timer">>, <<Go("main")>>)>>],
     [id |-> "end", actions |-> <<>>, components |-> <<>>, handlers |-> <<>>]>>]

MCApps == [form |-> form, game |-> game, early |-> early]

PlayInit ==
  /\ dimension \in {"app", "world"}
  /\ Init /\ PhysicsInit
  /\ dimension = "world" => surface = "published" /\ app = "form"

PlayNext ==
  /\ UNCHANGED dimension
  /\ \/ dimension = "app" /\ Next
     \/ dimension = "world" /\ PhysicsNext
  /\ dimension = "app" => UNCHANGED physicsVars
  /\ dimension = "world" => UNCHANGED vars

PlaySpec == PlayInit /\ [][PlayNext]_<<dimension, vars, physicsVars>>
=============================================================================
