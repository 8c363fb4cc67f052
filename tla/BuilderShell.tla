---------------------------- MODULE BuilderShell ----------------------------
(***************************************************************************)
(* The frame of the web builder (builder.tsx, top-bar.tsx, history-panel,  *)
(* command-palette.tsx): its modes, menus, drawers and slide-overs, what   *)
(* is selected in them, the jumps of the command palette, restoring a      *)
(* version, and creating a project of another type.                        *)
(*                                                                         *)
(* Of the document only its screens count, with one component or handler   *)
(* of some of them; a version is a document the server once stored.        *)
(***************************************************************************)
EXTENDS Naturals, Sequences, SequencesExt, FiniteSets

CONSTANTS ShellScreens,  \* ids of screens, in the order they are handed out
          ShellItems,    \* a screen's component or handler: [screen, handler]
          ProjectKinds,  \* types of projects: an application, a 2D or 3D game
          ShellKind,     \* this project's type
          Nobody,        \* no screen, item, type or document
          MaxShellMoves, \* bound: keys, presses and clicks
          MaxShellDocs   \* bound: documents undo can go back to, and versions

ASSUME ShellAssumption ==
  /\ ShellScreens \in Seq(ToSet(ShellScreens))
  /\ IsInjective(ShellScreens) /\ Len(ShellScreens) > 1
  /\ \A i \in DOMAIN ShellItems : ShellItems[i].screen \in ToSet(ShellScreens)
  /\ ShellKind \in ProjectKinds
  /\ Nobody \notin ToSet(ShellScreens) \cup DOMAIN ShellItems \cup ProjectKinds
  /\ MaxShellMoves \in Nat /\ MaxShellDocs \in Nat

VARIABLES line,      \* the documents: those before, the present one, those undone
          versions,  \* the versions the server keeps, the newest last
          view,      \* [mode, screen, selected, handler]
          opened,    \* the menus, drawers and panels that are open
          hits,      \* the document the command palette has indexed
          restoring, \* the version being fetched
          balance,   \* the credits the top bar shows
          pendingEnv,\* the type whose creation waits for confirmation
          creating,  \* that creation: "no", "asked" or "made"
          born,      \* projects created, and answers to it that were lost
          away,      \* the page has been left for the new project
          shellMoves

shellVars == <<line, versions, view, opened, hits, restoring, balance, pendingEnv,
               creating, born, away, shellMoves>>
documents == <<line, versions, restoring>>
creation  == <<pendingEnv, creating, born, away>>

-----------------------------------------------------------------------------
(* Documents. *)

Document == line.doc
ItemsOf(d) == {i \in d.items : ShellItems[i].screen \in ToSet(d.screens)}

\* Mutant of ShownScreen: the screen chosen last, whether it exists or not.
ShownScreenAsChosen == view.screen

\* The context falls back to the start screen when the chosen one is gone.
ShownScreen ==
  IF view.screen \in ToSet(Document.screens) THEN view.screen
  ELSE IF Document.start # Nobody THEN Document.start ELSE Document.screens[1]

CommitDocument(d) ==
  /\ Len(line.past) < MaxShellDocs
  /\ line' = [past |-> Append(line.past, Document), doc |-> d, future |-> <<>>]

ShellUndo ==
  /\ line.past # <<>>
  /\ line' = [past |-> Front(line.past), doc |-> Last(line.past),
              future |-> <<Document>> \o line.future]
ShellRedo ==
  /\ line.future # <<>>
  /\ line' = [past |-> Append(line.past, Document), doc |-> Head(line.future),
              future |-> Tail(line.future)]

Selecting(item) == view' = [view EXCEPT !.selected = item]
Showing(screen) == view' = [view EXCEPT !.screen = screen, !.selected = Nobody]

Moving ==
  /\ ~away /\ UNCHANGED away
  /\ shellMoves < MaxShellMoves
  /\ shellMoves' = shellMoves + 1

\* The document with the first screen it does not have yet.
Grown ==
  LET free == {i \in DOMAIN ShellScreens : ShellScreens[i] \notin ToSet(Document.screens)} IN
  {[Document EXCEPT !.screens = Append(@, ShellScreens[i])] :
     i \in {i \in free : \A j \in free : i <= j}}

\* The screen added becomes the chosen one.
AddScreenHere ==
  \E d \in Grown : CommitDocument(d) /\ Showing(Last(d.screens))

WithoutScreen(d, k) ==
  LET s == d.screens[k]
      rest == RemoveAt(d.screens, k) IN
  [d EXCEPT !.screens = rest, !.start = IF @ = s THEN rest[1] ELSE @,
            !.items = {i \in @ : ShellItems[i].screen # s}]

DeleteScreenHere ==
  \E k \in DOMAIN Document.screens :
    /\ Len(Document.screens) > 1
    /\ CommitDocument(WithoutScreen(Document, k))
    /\ Showing(IF view.screen = Document.screens[k] THEN line'.doc.screens[1] ELSE view.screen)

\* The components of the shown screen, where a panel lists them: in design, and
\* in a game's palette drawer, which a change of mode leaves open.
Listed ==
  IF view.mode # "design" /\ ~(ShellKind = "game" /\ "palette" \in opened) THEN {}
  ELSE {i \in ItemsOf(Document) :
          ~ShellItems[i].handler /\ ShellItems[i].screen = ShownScreen}

\* Delete and Backspace remove the selected component, on whatever screen; a
\* panel's cross removes the one of its row.
DeleteItem ==
  \E i \in {view.selected} \cup Listed :
    /\ i # Nobody
    /\ IF i \in Document.items
       THEN CommitDocument([Document EXCEPT !.items = @ \ {i}])
       ELSE UNCHANGED line
    /\ Selecting(Nobody)

\* A changeset of Ask AI is one commit.  Its operations create screens and
\* delete components and handlers; none deletes a screen.
AIChange ==
  /\ "ai" \in opened
  /\ \/ \E d \in Grown : CommitDocument(d)
     \/ \E i \in Document.items : CommitDocument([Document EXCEPT !.items = @ \ {i}])
  /\ view' = [view EXCEPT !.selected = Nobody, !.handler = Nobody]

EditDocument ==
  /\ Moving
  /\ AddScreenHere \/ DeleteScreenHere \/ DeleteItem \/ AIChange
  /\ UNCHANGED <<versions, restoring, opened, hits, balance, pendingEnv, creating, born>>

\* By the keyboard, a button of the bar, or an entry of its overflow menu,
\* which it closes.
UndoOrRedo ==
  /\ Moving
  /\ ShellUndo \/ ShellRedo
  /\ Selecting(Nobody)
  /\ opened' \in {opened, opened \ {"more"}}
  /\ UNCHANGED <<versions, restoring, hits, balance, pendingEnv, creating, born>>

\* A screen, from the screens panel, an issue or the map.
PickScreen ==
  \E s \in ToSet(Document.screens) :
    view' = [view EXCEPT !.screen = s, !.selected = Nobody, !.handler = Nobody]

PickComponent == \E i \in Listed : Selecting(i)

PickHandler ==
  /\ view.mode = "blocks"
  /\ \E i \in ItemsOf(Document) :
       /\ ShellItems[i].handler /\ ShellItems[i].screen = ShownScreen
       /\ view' = [view EXCEPT !.handler = i]

Pick ==
  /\ Moving
  /\ PickScreen \/ PickComponent \/ PickHandler
  /\ UNCHANGED <<documents, opened, hits, balance, pendingEnv, creating, born>>

\* A save stores the document and keeps it as a version.
VersionKept ==
  /\ ~away
  /\ Last(versions) # Document
  /\ Len(versions) <= MaxShellDocs
  /\ versions' = Append(versions, Document)
  /\ UNCHANGED <<line, restoring, view, opened, hits, balance, creation, shellMoves>>

-----------------------------------------------------------------------------
(* Modes, menus, drawers and panels. *)

Modes   == {"design", "blocks", "code", "preview", "insights"}
Drawers == {"palette", "inspector"}
Slides  == {"assets", "history"}

Toggled(p) == IF p \in opened THEN opened \ {p} ELSE opened \cup {p}

\* These lie over the whole page; a pointer reaches nothing below them.
Covering == pendingEnv # Nobody \/ opened \cap (Drawers \cup {"command", "purchase"}) # {}

\* A tab, Alt and a digit, or the command palette, which clicks the tab.
SwitchMode ==
  /\ Moving
  /\ \E m \in Modes \ {view.mode} : view' = [view EXCEPT !.mode = m]
  /\ \/ opened' \in {opened, opened \ {"command"}}
     \/ ~Covering /\ opened' = opened \ {"more"}
  /\ UNCHANGED <<documents, hits, balance, pendingEnv, creating, born>>

\* Ask AI, or buying credits when none are left.
AskAI == IF balance = "empty" THEN opened \cup {"purchase"} ELSE Toggled("ai")

\* The buttons of the bar that are always there.  One pressed by a pointer
\* closes the overflow menu, which closes on a press outside it.
PressBar ==
  LET pressed == \/ \E p \in Slides \cup {"env", "more"} : opened' = Toggled(p)
                 \/ opened' = AskAI
      pointed == \/ \E p \in Slides \cup {"env"} : opened' = Toggled(p) \ {"more"}
                 \/ opened' = AskAI \ {"more"}
  IN /\ Moving
     /\ pressed \/ (~Covering /\ pointed)
     /\ UNCHANGED <<documents, view, hits, balance, pendingEnv, creating, born>>

\* An entry of the overflow menu closes it and does what its button does.
PickFromMenu ==
  /\ Moving
  /\ "more" \in opened
  /\ \/ \E p \in Slides : opened' = Toggled(p) \ {"more"}
     \/ opened' = AskAI \ {"more"}
  /\ UNCHANGED <<documents, view, hits, balance, pendingEnv, creating, born>>

\* A press beside the menus.  While a creation waits for confirmation the
\* menu of environments stays.
PressOutside ==
  /\ Moving
  /\ opened \cap {"env", "more"} # {}
  /\ opened' = opened \ ({"more"} \cup IF pendingEnv = Nobody THEN {"env"} ELSE {})
  /\ UNCHANGED <<documents, view, hits, balance, pendingEnv, creating, born>>

\* A drawer takes the place of the other one and of the slide-overs.
OpenDrawer(d) == opened' = (opened \ (Drawers \cup Slides)) \cup {d}

\* Its button is not there in a preview, the inspector's only in design.
PressDrawer ==
  /\ Moving
  /\ \E d \in Drawers :
       /\ view.mode # "preview" /\ (d = "inspector" => view.mode = "design")
       /\ OpenDrawer(d)
  /\ UNCHANGED <<documents, view, hits, balance, pendingEnv, creating, born>>

\* The cross of a panel, or a press on what it darkens.  Closing the history
\* does not stop a restore.
ClosePanel ==
  /\ Moving
  /\ \E p \in opened \ {"env", "more"} : opened' = opened \ {p}
  /\ UNCHANGED <<documents, view, hits, balance, pendingEnv, creating, born>>

\* Escape reaches every listener there is: drawers, both menus, the palette,
\* the purchase, the confirmation unless it is being carried out.  The
\* selection goes when the key was not pressed in a field.
PressEscape ==
  LET confirming == pendingEnv # Nobody /\ creating = "no" IN
  /\ Moving
  /\ pendingEnv' = IF confirming THEN Nobody ELSE pendingEnv
  /\ opened' = opened \ (Drawers \cup {"more", "command", "purchase"}
                         \cup IF confirming THEN {} ELSE {"env"})
  /\ \/ UNCHANGED view
     \/ "command" \notin opened /\ Selecting(Nobody)
  /\ UNCHANGED <<documents, hits, balance, creating, born>>

\* Diagnostics ask the AI for a fix; the AI is refused for want of credits.
OpenedByPanel ==
  /\ Moving
  /\ \/ opened' = opened \cup {"ai"}
     \/ "ai" \in opened /\ opened' = opened \cup {"purchase"}
  /\ UNCHANGED <<documents, view, hits, balance, pendingEnv, creating, born>>

\* The balance as some answer gave it: when the page opens and after every
\* verified purchase it is asked for again.
BalanceArrives ==
  /\ Moving
  /\ balance' \in {"some", "empty"} \ {balance}
  /\ UNCHANGED <<documents, view, opened, hits, pendingEnv, creating, born>>

-----------------------------------------------------------------------------
(* The command palette. *)

PressCommandKey ==
  /\ Moving
  /\ opened' = Toggled("command")
  /\ UNCHANGED <<documents, view, hits, balance, pendingEnv, creating, born>>

\* It indexes the project the server has, not the one on the page.
IndexArrives ==
  /\ ~away /\ "command" \in opened
  /\ hits # Last(versions)
  /\ hits' = Last(versions)
  /\ UNCHANGED <<documents, view, opened, balance, creation, shellMoves>>

\* A failure empties the index even after the palette was closed.
IndexFails ==
  /\ ~away /\ hits # Nobody
  /\ hits' = Nobody
  /\ UNCHANGED <<documents, view, opened, balance, creation, shellMoves>>

JumpedTo(i) ==
  IF ShellItems[i].handler
  THEN [mode |-> "blocks", screen |-> ShellItems[i].screen, selected |-> Nobody, handler |-> i]
  ELSE [mode |-> "design", screen |-> ShellItems[i].screen, selected |-> i, handler |-> Nobody]

\* A jump goes where the index says, whether that still exists or not.
Jump ==
  /\ Moving
  /\ "command" \in opened /\ hits # Nobody
  /\ opened' = opened \ {"command"}
  /\ \/ \E s \in ToSet(hits.screens) :
          view' = [view EXCEPT !.screen = s, !.mode = "design"]
     \/ \E i \in ItemsOf(hits) : view' = JumpedTo(i)
  /\ UNCHANGED <<documents, hits, balance, pendingEnv, creating, born>>

\* "Open Assets" and "Ask AI" click the button of that name: Ask AI's own
\* shows the balance instead, once there is one.
PressNamed ==
  /\ Moving
  /\ "command" \in opened
  /\ \/ opened' = Toggled("assets") \ {"command"}
     \/ opened' = (IF balance = "unknown" THEN Toggled("ai") ELSE opened) \ {"command"}
  /\ UNCHANGED <<documents, view, hits, balance, pendingEnv, creating, born>>

-----------------------------------------------------------------------------
(* Restoring a version. *)

\* One at a time in a panel.  (Closed and opened again, the panel would start
\* another one beside it: not modelled.)
Restore ==
  /\ Moving
  /\ "history" \in opened /\ restoring = Nobody
  /\ \E v \in ToSet(versions) : restoring' = v
  /\ UNCHANGED <<line, versions, view, opened, hits, balance, pendingEnv, creating, born>>

\* Its model is committed over whatever the document is by then.
RestoreArrives ==
  /\ ~away /\ restoring # Nobody
  /\ restoring' = Nobody
  /\ CommitDocument(restoring)
  /\ Selecting(Nobody)
  /\ UNCHANGED <<versions, opened, hits, balance, creation, shellMoves>>

RestoreFails ==
  /\ ~away /\ restoring # Nobody
  /\ restoring' = Nobody
  /\ UNCHANGED <<line, versions, view, opened, hits, balance, creation, shellMoves>>

-----------------------------------------------------------------------------
(* A new project of another type. *)

ChooseEnvironment ==
  /\ Moving
  /\ "env" \in opened
  /\ opened' = opened \ {"env"}
  /\ pendingEnv' \in ProjectKinds \ {ShellKind}
  /\ UNCHANGED <<documents, view, hits, balance, creating, born>>

\* Cancel, or a press beside the dialog.
CancelEnvironment ==
  /\ Moving
  /\ pendingEnv # Nobody /\ creating = "no"
  /\ pendingEnv' = Nobody
  /\ UNCHANGED <<documents, view, opened, hits, balance, creating, born>>

\* One at a time: envCreatingRef is set before anything is awaited.
CreateEnvironment ==
  /\ Moving
  /\ pendingEnv # Nobody /\ creating = "no"
  /\ creating' = "asked"
  /\ UNCHANGED <<documents, view, opened, hits, balance, pendingEnv, born>>

ProjectCreated ==
  /\ ~away /\ creating = "asked"
  /\ creating' = "made"
  /\ born' = [born EXCEPT !.projects = @ + 1]
  /\ UNCHANGED <<documents, view, opened, hits, balance, pendingEnv, away, shellMoves>>

\* The answer takes the page to the new project ...
CreationAnswered ==
  /\ ~away /\ creating = "made"
  /\ away' = TRUE
  /\ UNCHANGED <<documents, view, opened, hits, balance, pendingEnv, creating, born, shellMoves>>

\* ... and a failure, or an answer that is lost, leaves the dialog to retry.
CreationFails ==
  /\ ~away /\ creating # "no"
  /\ creating' = "no"
  /\ born' = [born EXCEPT !.lost = @ + IF creating = "made" THEN 1 ELSE 0]
  /\ UNCHANGED <<documents, view, opened, hits, balance, pendingEnv, away, shellMoves>>

-----------------------------------------------------------------------------
\* A project of two screens whose second starts, opened by itself or by the
\* return from a hosted checkout.
ShellInit ==
  /\ line = [past |-> <<>>, future |-> <<>>,
             doc |-> [screens |-> SubSeq(ShellScreens, 1, 2), start |-> ShellScreens[2],
                      items |-> {i \in DOMAIN ShellItems :
                                   ShellItems[i].screen \in ToSet(SubSeq(ShellScreens, 1, 2))}]]
  /\ versions = <<line.doc>>
  /\ view = [mode |-> "design", screen |-> line.doc.start, selected |-> Nobody,
             handler |-> Nobody]
  /\ opened \in {{}, {"purchase"}} /\ hits = Nobody /\ restoring = Nobody /\ balance = "unknown"
  /\ pendingEnv = Nobody /\ creating = "no" /\ born = [projects |-> 0, lost |-> 0]
  /\ away = FALSE /\ shellMoves = 0

ShellNext ==
  \/ EditDocument \/ UndoOrRedo \/ Pick \/ VersionKept
  \/ SwitchMode \/ PressBar \/ PickFromMenu \/ PressOutside \/ PressDrawer \/ ClosePanel
  \/ PressEscape \/ OpenedByPanel \/ BalanceArrives
  \/ PressCommandKey \/ IndexArrives \/ IndexFails \/ Jump \/ PressNamed
  \/ Restore \/ RestoreArrives \/ RestoreFails
  \/ ChooseEnvironment \/ CancelEnvironment \/ CreateEnvironment
  \/ ProjectCreated \/ CreationAnswered \/ CreationFails

ShellSpec == ShellInit /\ [][ShellNext]_shellVars

-----------------------------------------------------------------------------
(* Properties. *)

ShownScreenExists == ShownScreen \in ToSet(Document.screens)
OneDrawer == Cardinality(opened \cap Drawers) <= 1
CreationIsShown == creating # "no" => pendingEnv # Nobody
OneProjectPerIntent == born.projects <= 1 + born.lost

\* Whatever is undone, restored, rewritten or jumped to, the panels work on a
\* screen the document has; one drawer is open at a time; a project being
\* created keeps its dialog, and only a lost answer makes a second one
\* (builder.tsx, contextValue and openPaletteDrawer; top-bar.tsx,
\* createInEnvironment).
ShellIsSound ==
  ShownScreenExists /\ OneDrawer /\ CreationIsShown /\ OneProjectPerIntent
=============================================================================
