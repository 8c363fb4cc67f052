----------------------------- MODULE MCSurfaces -----------------------------
(***************************************************************************)
(* The surfaces of the builder that share no state: the scene canvas, the  *)
(* inspector, the Asset Studio, the frame of menus and panels, and the     *)
(* menus that publish and export, each from its own initial state.  A      *)
(* behaviour is one of one of them (surface), the others stand still.      *)
(***************************************************************************)
EXTENDS SceneCanvas, SceneInspector, SpriteStudio, BuilderShell, ReleaseMenus

VARIABLE surface

MCLayerNames == <<"World", "Characters", "Effects", "Sky">>
MCClips == <<"walk", "run">>

(* Two entities, and a tilemap of four cells. *)
MCStageIds == {"hero", "coin", "map", "copy1", "copy2"}
MCStage ==
  "hero" :> [at |-> 0, size |-> 2, tiles |-> <<>>]
  @@ "coin" :> [at |-> 3, size |-> 1, tiles |-> <<>>]
  @@ "map" :> [at |-> 1, size |-> 3, tiles |-> [c \in Cells |-> IF c = <<1, 0>> THEN 0 ELSE 1]]
MCShifts == {-1}
MCSweeps == {<<0, 6>>, <<6, 6>>}

(* A game of two scenes, the second with a component and a handler, and a  *)
(* third scene that may be added.                                          *)
MCShellScreens == <<"s1", "s2", "s3">>
MCShellItems == "c" :> [screen |-> "s2", handler |-> FALSE]
                @@ "h" :> [screen |-> "s2", handler |-> TRUE]

(* Of builds and publications, two in all are asked for. *)
MenuClicks == publishing.clicks + Cardinality({b \in Builds : builds[b] # NoBuild})

SurfaceInit ==
  /\ surface \in {"inspector", "sprite", "canvas", "shell", "release"}
  /\ InspectorInit /\ SpriteInit /\ CanvasInit /\ ShellInit /\ ReleaseInit
  /\ surface # "inspector" => scene.clips = SpriteClips /\ scene.machine = NoMachine
  /\ surface # "shell" => opened = {}
  /\ surface # "release" => published = NoRelease

Still(s, its) == surface # s => UNCHANGED its

SurfaceNext ==
  /\ UNCHANGED surface
  /\ \/ surface = "inspector" /\ InspectorNext
     \/ surface = "sprite" /\ SpriteNext
     \/ surface = "canvas" /\ CanvasNext
     \/ surface = "shell" /\ ShellNext
     \/ surface = "release" /\ ReleaseNext /\ MenuClicks' <= 2
  /\ Still("inspector", inspectorVars) /\ Still("sprite", spriteVars)
  /\ Still("canvas", canvasVars) /\ Still("shell", shellVars)
  /\ Still("release", releaseVars)

surfaceVars == <<surface, inspectorVars, spriteVars, canvasVars, shellVars, releaseVars>>

SurfaceSpec == SurfaceInit /\ [][SurfaceNext]_surfaceVars
=============================================================================
