-------------------------- MODULE ExtensionStudio --------------------------
(***************************************************************************)
(* The studio of one extension in the browser: the editors of its texts    *)
(* and their saves (extension-studio.tsx), and the build panel with its    *)
(* event stream, its history retries and "Fix with AI" (build-panel.tsx).  *)
(*                                                                         *)
(* Only the open tab is mounted: leaving the build tab forgets the panel's *)
(* state and not its stream, which goes on calling the studio.  Answers to *)
(* requests arrive later and in any order.                                 *)
(***************************************************************************)
EXTENDS Naturals, Sequences, FiniteSets, TLC

CONSTANTS StudioTexts,     \* what an editor may hold
          BadText,         \* one of them, which is not valid JSON
          BuildVersions,   \* versions the author builds
          MaxBuilds,       \* bound on the streams of a behaviour
          MaxStudioMoves   \* bound on what the author does

VARIABLES
  studioTab,   \* the open tab
  editors,     \* manifestText, sourceText
  stored,      \* the server's texts
  studioCalls, \* requests under way: loads, saves, fixes and their application
  artifact,    \* the version in the studio's download bar
  released,    \* the server's recorded versions
  panel,       \* the mounted build panel
  streams,     \* every stream started: mount, version, last event
  moves

editorVars == <<editors, stored, studioCalls>>
studioVars == <<studioTab, editorVars, artifact, released, panel, streams, moves>>

EditorTargets == {"manifest", "source"}
Tabs == EditorTargets \cup {"versions", "build"}
Phases == <<"validating", "packaging">>
ResultTold == Len(Phases) + 1
Ended == Len(Phases) + 2
NoVersion == "none"
NoFix == [target |-> "none", text |-> BadText]

\* The panel as it mounts, for the n-th time.
FreshPanel(n) ==
  [mount |-> n, state |-> "idle", stream |-> 0, version |-> NoVersion, built |-> NoVersion,
   conflict |-> FALSE, buildId |-> FALSE, fixing |-> FALSE, proposal |-> NoFix,
   applied |-> NoFix]

Shown == studioTab = "build"

StudioInit ==
  /\ studioTab = "manifest"
  /\ \E t \in StudioTexts \ {BadText} : editors = [k \in EditorTargets |-> t]
  /\ stored = editors
  /\ studioCalls = {} /\ artifact = NoVersion /\ released = {}
  /\ panel = FreshPanel(0) /\ streams = <<>> /\ moves = 0

Moves == moves < MaxStudioMoves /\ moves' = moves + 1

Call(kind, target, text) == [kind |-> kind, target |-> target, text |-> text,
                             mount |-> panel.mount]

-----------------------------------------------------------------------------
(* The editors *)

\* Another tab: the build panel mounts afresh, or is forgotten.
OpenTab(t) ==
  /\ Moves /\ t # studioTab
  /\ studioTab' = t
  /\ panel' = IF t = "build" THEN FreshPanel(panel.mount + 1) ELSE panel
  /\ UNCHANGED <<editorVars, artifact, released, streams>>

\* Typing, or resetting a manifest to the example.
EditText ==
  /\ Moves /\ studioTab \in EditorTargets
  /\ \E x \in StudioTexts : editors' = [editors EXCEPT ![studioTab] = x]
  /\ UNCHANGED <<studioTab, stored, studioCalls, artifact, released, panel, streams>>

\* save: the open tab's text, unless a save is under way or a manifest does not parse.
SaveText ==
  /\ Moves /\ studioTab \in EditorTargets
  /\ \A c \in studioCalls : c.kind # "save"
  /\ studioTab = "manifest" => editors[studioTab] # BadText
  /\ studioCalls' = studioCalls \cup {Call("save", studioTab, editors[studioTab])}
  /\ UNCHANGED <<studioTab, editors, stored, artifact, released, panel, streams>>

\* load: the server reads both texts ...
LoadServed(c) ==
  /\ c.kind = "load"
  /\ studioCalls' = (studioCalls \ {c}) \cup {[kind |-> "loaded", texts |-> stored]}
  /\ UNCHANGED <<studioTab, editors, stored, artifact, released, panel, streams, moves>>

\* ... and its answer replaces both editors' texts, edited meanwhile or not.
LoadArrives(c) ==
  /\ c.kind = "loaded"
  /\ editors' = c.texts
  /\ studioCalls' = studioCalls \ {c}
  /\ UNCHANGED <<studioTab, stored, artifact, released, panel, streams, moves>>

\* VersionsPanel: a version recorded by hand reloads the studio.
SaveVersion ==
  /\ Moves /\ studioTab = "versions"
  /\ \E v \in BuildVersions \ released : released' = released \cup {v}
  /\ studioCalls' = studioCalls \cup {Call("load", "source", BadText)}
  /\ UNCHANGED <<studioTab, editors, stored, artifact, panel, streams>>

-----------------------------------------------------------------------------
(* The build panel and its stream *)

\* Mutant of StartBuild: a second press starts a second stream.
StartBuildTwice(v) ==
  /\ Moves /\ Shown /\ Len(streams) < MaxBuilds
  /\ panel' = [FreshPanel(panel.mount) EXCEPT !.stream = Len(streams) + 1, !.version = v,
                                              !.fixing = panel.fixing]
  /\ streams' = Append(streams, [mount |-> panel.mount, version |-> v, last |-> 0])
  /\ UNCHANGED <<studioTab, editorVars, artifact, released>>

\* startBuild: nothing while the panel's stream is open, and otherwise a run
\* that forgets the last one.
StartBuild(v) ==
  /\ Moves /\ Shown /\ Len(streams) < MaxBuilds
  /\ panel.stream = 0
  /\ panel' = [FreshPanel(panel.mount) EXCEPT !.stream = Len(streams) + 1, !.version = v,
                                              !.fixing = panel.fixing]
  /\ streams' = Append(streams, [mount |-> panel.mount, version |-> v, last |-> 0])
  /\ UNCHANGED <<studioTab, editorVars, artifact, released>>

\* What a stream tells goes to the panel that started it, while it is mounted.
Tells(n) == Shown /\ streams[n].mount = panel.mount

Running(n) == streams[n].last <= Len(Phases)

\* A worker whose stream was cut may still record its version.
MayRecord(v) == released' = released \/ released' = released \cup {v}

\* A state event: the phase the worker entered.
PhaseArrives(n) ==
  /\ Running(n) /\ streams[n].last < Len(Phases)
  /\ streams' = [streams EXCEPT ![n].last = @ + 1]
  /\ panel' = IF Tells(n) THEN [panel EXCEPT !.state = Phases[streams[n].last + 1],
                                             !.buildId = TRUE] ELSE panel
  /\ UNCHANGED <<studioTab, editorVars, artifact, released, moves>>

\* The result: a version recorded, which the studio is told of even when the
\* panel is gone, a conflict with a recorded one, or a failure.
ResultArrives(n) ==
  /\ Running(n) /\ streams[n].last = Len(Phases)
  /\ LET v == streams[n].version
         tell(p) == panel' = IF Tells(n) THEN p ELSE panel IN
     \/ /\ v \notin released
        /\ released' = released \cup {v}
        /\ artifact' = v
        /\ studioCalls' = studioCalls \cup {Call("load", "source", BadText)}
        /\ tell([panel EXCEPT !.state = "success", !.built = v])
     \/ /\ v \in released
        /\ tell([panel EXCEPT !.state = "failed", !.conflict = TRUE])
        /\ UNCHANGED <<released, artifact, studioCalls>>
     \/ /\ tell([panel EXCEPT !.state = "failed"])
        /\ UNCHANGED <<released, artifact, studioCalls>>
  /\ streams' = [streams EXCEPT ![n].last = ResultTold]
  /\ UNCHANGED <<studioTab, editors, stored, moves>>

\* The stream ends after its result, or without one: cancelled.
StreamEnds(n) ==
  /\ streams[n].last < Ended
  /\ streams' = [streams EXCEPT ![n].last = Ended]
  /\ panel' = IF Tells(n)
              THEN [panel EXCEPT !.stream = 0,
                                 !.state = IF @ \in {"success", "failed"} THEN @ ELSE "cancelled"]
              ELSE panel
  /\ UNCHANGED <<studioTab, editorVars, artifact, released, moves>>

\* The stream breaks: the run failed, whatever it said before.
StreamBreaks(n) ==
  /\ streams[n].last < Ended
  /\ streams' = [streams EXCEPT ![n].last = Ended]
  /\ panel' = IF Tells(n) THEN [panel EXCEPT !.stream = 0, !.state = "failed"] ELSE panel
  /\ MayRecord(streams[n].version)
  /\ UNCHANGED <<studioTab, editorVars, artifact, moves>>

\* Cancel aborts the request: the catch says "cancelled".
CancelBuild ==
  /\ Moves /\ Shown /\ panel.stream # 0
  /\ streams' = [streams EXCEPT ![panel.stream].last = Ended]
  /\ panel' = [panel EXCEPT !.stream = 0, !.state = "cancelled"]
  /\ MayRecord(panel.version)
  /\ UNCHANGED <<studioTab, editorVars, artifact>>

\* "Change version" puts the conflict away.
ChangeVersion ==
  /\ Moves /\ Shown /\ panel.conflict
  /\ panel' = [panel EXCEPT !.conflict = FALSE, !.state = "idle"]
  /\ UNCHANGED <<studioTab, editorVars, artifact, released, streams>>

-----------------------------------------------------------------------------
(* Fix with AI *)

Failed == Shown /\ panel.state = "failed" /\ ~panel.conflict

RequestFix ==
  /\ Moves /\ Failed /\ ~panel.fixing /\ panel.buildId
  /\ panel' = [panel EXCEPT !.fixing = TRUE, !.proposal = NoFix, !.applied = NoFix]
  /\ studioCalls' = studioCalls \cup {Call("fix", "source", BadText)}
  /\ UNCHANGED <<studioTab, editors, stored, artifact, released, streams>>

\* applyFix and undoFix: the editor takes the text at once and the update goes
\* out, unless the text is a manifest that does not parse.
Apply(kind, fix) ==
  /\ Moves /\ Failed /\ fix # NoFix
  /\ \A c \in studioCalls : c.kind \notin {"apply", "undo"}
  /\ editors' = [editors EXCEPT ![fix.target] = fix.text]
  /\ studioCalls' = IF fix.target = "manifest" /\ fix.text = BadText THEN studioCalls
                     ELSE studioCalls \cup {Call(kind, fix.target, fix.text)
                                             @@ [before |-> editors[fix.target]]}
  /\ UNCHANGED <<studioTab, stored, artifact, released, panel, streams>>

ApplyFix == panel.applied = NoFix /\ Apply("apply", panel.proposal)
UndoFix == Apply("undo", panel.applied)

\* An answer to the panel that asked, if it is still there.
Answer(c, p) == panel' = IF Shown /\ c.mount = panel.mount THEN p ELSE panel

\* The assistant proposes a text, or there is none (no credits, a failure).
FixArrives(c) ==
  /\ c.kind = "fix"
  /\ \/ \E k \in EditorTargets, x \in StudioTexts \ {BadText} :
          Answer(c, [panel EXCEPT !.fixing = FALSE, !.proposal = [target |-> k, text |-> x]])
     \/ Answer(c, [panel EXCEPT !.fixing = FALSE])
  /\ studioCalls' = studioCalls \ {c}
  /\ UNCHANGED <<studioTab, editors, stored, artifact, released, streams, moves>>

\* The server takes a text, or refuses it: an editor keeps what was applied.
UpdateArrives(c) ==
  /\ c.kind \in {"save", "apply", "undo"}
  /\ studioCalls' = studioCalls \ {c}
  /\ \/ /\ stored' = [stored EXCEPT ![c.target] = c.text]
        /\ CASE c.kind = "apply" ->
                  Answer(c, [panel EXCEPT !.applied = [target |-> c.target, text |-> c.before]])
             [] c.kind = "undo" ->
                  Answer(c, [panel EXCEPT !.applied = NoFix, !.proposal = NoFix])
             [] OTHER -> UNCHANGED panel
     \/ UNCHANGED <<stored, panel>>
  /\ UNCHANGED <<studioTab, editors, artifact, released, streams, moves>>

-----------------------------------------------------------------------------
StreamEvents == \E n \in 1..Len(streams) :
  PhaseArrives(n) \/ ResultArrives(n) \/ StreamEnds(n) \/ StreamBreaks(n)
StudioAnswers == \E c \in studioCalls :
  LoadServed(c) \/ LoadArrives(c) \/ FixArrives(c) \/ UpdateArrives(c)
BuildForm == (\E v \in BuildVersions : StartBuild(v)) \/ CancelBuild \/ ChangeVersion
FixPanel == RequestFix \/ ApplyFix \/ UndoFix
TextTabs == EditText \/ SaveText \/ (\E t \in Tabs : OpenTab(t))

StudioNext ==
  TextTabs \/ SaveVersion \/ BuildForm \/ FixPanel \/ StreamEvents \/ StudioAnswers

StudioSpec == StudioInit /\ [][StudioNext]_studioVars

-----------------------------------------------------------------------------
(* Properties *)

\* "A phase is never shown active until the worker itself emits it"
\* (build-panel.tsx, startBuild): whatever runs were cancelled, retried from
\* the history or left behind with an earlier mount, the phase shown is the
\* last one of the open stream, and a success shown is of a recorded version.
PanelShowsItsRun ==
  Shown =>
    /\ panel.state \in {Phases[i] : i \in 1..Len(Phases)} =>
         /\ panel.stream # 0
         /\ streams[panel.stream].last \in 1..Len(Phases)
         /\ panel.state = Phases[streams[panel.stream].last]
    /\ panel.state = "success" => panel.built \in released /\ panel.built = panel.version
=============================================================================
