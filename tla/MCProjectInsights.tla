------------------------- MODULE MCProjectInsights -------------------------
(* A 2D project of two screens with something wrong in most places, a 3D   *)
(* one with a chain of parents, a cycle and too many controllers, and an   *)
(* empty one.                                                              *)
EXTENDS ProjectInsights

Thing(s, t, props, odd) == [screen |-> s, type |-> t, props |-> props, odd |-> odd, machine |-> <<>>]
When(id, s, on, action, blocks) == [id |-> id, screen |-> s, on |-> on, action |-> action, blocks |-> blocks]
Does(t, to) == [type |-> t, to |-> to]
Control(id, keys) == [id |-> id, keys |-> keys, enabled |-> TRUE]
Hero == [clips |-> {"walk"}, states |-> [s1 |-> "walk", s2 |-> "gone"], default |-> "s3",
         transitions |-> {[from |-> "*", to |-> "s2", conds |-> {"hit", "speed"}],
                          [from |-> "s1", to |-> "s9", conds |-> {}]}, params |-> {}]
scrolling ==
  [type |-> "2d", tabs |-> <<"home", "level">>, order |-> <<>>, vars |-> {"score"}, assets |-> {"logo"},
   layers |-> [home |-> {}, level |-> {"Front"}],
   actions |-> [home |-> <<>>, level |-> <<Control("move-left", {"a"}), Control("move-right", {"a"}), Control("jump", {"w"})>>],
   comps |-> [pic |-> Thing("home", "image", [src |-> "logo"], {}),
              hero |-> [Thing("level", "player", [src |-> "logo", layer |-> "Front"], {}) EXCEPT !.machine = <<Hero>>],
              coin |-> Thing("level", "sprite", [layer |-> "Sky"], {}),
              eye |-> Thing("level", "camera", [follow |-> "hero"], {"bounds"}),
              lamp |-> Thing("level", "light", <<>>, {"radius"}),
              fire |-> Thing("level", "emitter", <<>>, {"rate"})],
   handlers |-> {When("h1", "home", "pic", "none", {Does("navigate", "level"), Does("set-property", "coin")}),
                 When("h2", "level", "hero", "none", {Does("get-variable", "score"), Does("extension", "none")}),
                 When("h3", "level", "screen", "jump", {Does("get-property", "pic"), Does("set-variable", "score"), Does("navigate", "home")}),
                 When("h4", "home", "screen", "none", {})}]
spatial ==
  [type |-> "3d", tabs |-> <<"world", "sky">>, order |-> <<"d", "a", "b", "x", "c", "y">>, vars |-> {}, assets |-> {},
   layers |-> [world |-> {}, sky |-> {}], actions |-> [world |-> <<>>, sky |-> <<>>],
   comps |-> [a |-> Thing("world", "cube3d", [parent |-> "b", body |-> "dynamic", controller |-> "yes"], {"mass", "moveSpeed"}),
              b |-> Thing("world", "cube3d", [parent |-> "c", controller |-> "yes"], {"color"}),
              c |-> Thing("world", "camera3d", <<>>, {"fov", "near"}),
              d |-> Thing("world", "light3d", [parent |-> "a"], {"intensity"}),
              x |-> Thing("world", "light3d", [parent |-> "y"], {}),
              y |-> Thing("world", "cube3d", [parent |-> "x"], {})],
   handlers |-> {When("h5", "world", "a", "none", {Does("navigate", "sky")})}]
blank == [type |-> "2d", tabs |-> <<"home">>, order |-> <<>>, vars |-> {}, assets |-> {},
          layers |-> [home |-> {}], actions |-> [home |-> <<>>], comps |-> <<>>, handlers |-> {}]
MCProjects == {scrolling, spatial, blank}
MCFiles == <<"f1", "f2">>
=============================================================================
