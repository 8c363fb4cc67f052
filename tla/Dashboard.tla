----------------------------- MODULE Dashboard -----------------------------
(***************************************************************************)
(* The pages of the dashboard (app/dashboard, components/extensions): the  *)
(* library of projects over useProjects, the creation hub, the template    *)
(* gallery and the shelves of extensions.  Each keeps a copy of what the   *)
(* server answered, asks again after each of its own actions, and lets     *)
(* several actions be under way at once.                                   *)
(*                                                                         *)
(* A search text either is empty or matches some of the names, and sorting *)
(* is left out: it asks for a list just as the status tabs do.             *)
(***************************************************************************)
EXTENDS Naturals, FiniteSets, FiniteSetsExt, Functions, TLC

CONSTANTS ProjectIds,    \* ids of project rows, stored ones and free ones
          StartRows,     \* the rows stored at the start
          Templates,     \* the type of each built-in template
          ProjectTypes,
          Extensions,    \* published extensions, by everyone
          Unchosen,      \* no project, type, template or extension
          MaxLists,      \* bound: lists asked for
          MaxChoices,    \* bound: lists asked for when the toolbar is last used
          MaxActions     \* bound: actions started

ASSUME DashboardAssumption ==
  /\ DOMAIN StartRows \subseteq ProjectIds
  /\ Range(Templates) \subseteq ProjectTypes
  /\ Unchosen \notin ProjectIds \cup ProjectTypes \cup DOMAIN Templates \cup Extensions
  /\ {MaxLists, MaxChoices, MaxActions} \subseteq Nat

VARIABLES page,      \* the page shown, or "away" in the builder
          rows,      \* the projects stored, [status, hit]: does its name match the search
          installs,  \* the extensions stored as installed: "no", "on" or "off"
          authored,  \* the extensions stored as the user's own
          toolbar,   \* the library's filter: is a text searched for, and the status tab
          dialogs,   \* the library's dialogs: which project, and is it busy
          grid,      \* the rows shown
          loadError,
          lists,     \* lists asked for and not yet arrived, [seq, filter, got]
          seqRef,    \* number of the latest list asked for
          asked,     \* its filter
          actions,   \* actions under way, [n, kind, id, filter, state, list]
          hub,       \* the creation hub
          shelf,     \* the shelves shown
          fetches,   \* shelves asked for and not yet arrived, [n, of, got]
          refreshes, \* times they were asked for
          extBusy,   \* the extension whose buttons are disabled
          candidate, \* the extension whose uninstall waits for confirmation
          stale,     \* a copy may be stale: an answer was lost or shelves overlapped
          started    \* actions started so far (bookkeeping of the bounds)

storedVars  == <<rows, installs, authored>>
listVars    == <<grid, loadError, lists, seqRef, asked>>
libraryVars == <<toolbar, dialogs, listVars>>
shelfVars   == <<shelf, fetches, refreshes, extBusy, candidate>>
dashboardVars == <<page, storedVars, libraryVars, actions, hub, shelfVars, stale, started>>

-----------------------------------------------------------------------------
(* The library's list. *)

Statuses == [active |-> {"draft", "published"}, archived |-> {"archived"},
             all |-> {"draft", "published", "archived"}]
Matching(filter) ==
  Restrict(rows, {p \in DOMAIN rows : rows[p].status \in Statuses[filter.status]
                                      /\ (filter.search => rows[p].hit)})

NotServed == [served |-> FALSE, rows |-> <<>>]

\* load: a number of its own, and the error is forgotten.  Each change of the
\* filter makes a new one; an action holds the one of its click.
Load(filter) ==
  /\ seqRef < MaxLists
  /\ seqRef' = seqRef + 1
  /\ asked' = filter
  /\ lists' = lists \cup {[seq |-> seqRef + 1, filter |-> filter, got |-> NotServed]}
  /\ loadError' = FALSE
  /\ stale' = FALSE

OnLibrary == page = "projects" /\ UNCHANGED <<page, installs, authored, hub, shelfVars>>

\* A dialog covers the page, its toolbar and its cards.
Uncovered == dialogs.renaming = Unchosen /\ dialogs.deleting = Unchosen

\* The search text counts once it has rested for 300 ms.
ChooseFilter ==
  /\ OnLibrary /\ Uncovered
  /\ seqRef < MaxChoices
  /\ \/ toolbar' = [toolbar EXCEPT !.search = ~@]
     \/ \E s \in DOMAIN Statuses \ {toolbar.status} : toolbar' = [toolbar EXCEPT !.status = s]
  /\ Load(toolbar')
  /\ UNCHANGED <<rows, dialogs, grid, actions, started>>

TryAgain ==
  /\ OnLibrary
  /\ loadError /\ Uncovered
  /\ Load(toolbar)
  /\ UNCHANGED <<rows, toolbar, dialogs, grid, actions, started>>

ServeList ==
  /\ OnLibrary
  /\ \E l \in lists :
       /\ ~l.got.served
       /\ lists' = (lists \ {l}) \cup
            {[l EXCEPT !.got = [served |-> TRUE, rows |-> Matching(l.filter)]]}
  /\ UNCHANGED <<rows, toolbar, dialogs, grid, loadError, seqRef, asked, actions, stale, started>>

\* Mutant of ListShown: an older list than the latest is shown too.
ListShownAnyway(l, failed) ==
  IF failed THEN grid' = <<>> /\ loadError' = TRUE
  ELSE grid' = l.got.rows /\ loadError' = FALSE

\* Only the latest list is shown; a failed one empties the grid.
ListShown(l, failed) ==
  IF l.seq # seqRef THEN UNCHANGED <<grid, loadError>>
  ELSE IF failed THEN grid' = <<>> /\ loadError' = TRUE
  ELSE grid' = l.got.rows /\ UNCHANGED loadError

\* A list arrives or fails; the action that awaited it, shown or not, ends.
\* Ending a rename or a deletion closes the dialog open by then; a deletion
\* that went well leaves the dialog busy for the next one.
ListArrives ==
  /\ OnLibrary
  /\ \E l \in lists : \E failed \in BOOLEAN :
       /\ failed = ~l.got.served
       /\ ListShown(l, failed)
       /\ lists' = lists \ {l}
       /\ LET ended == {a \in actions : a.state = "reloading" /\ a.list = l.seq}
              Ends(kind) == \E a \in ended : a.kind = kind IN
          /\ actions' = actions \ ended
          /\ dialogs' = [dialogs EXCEPT
                           !.renaming = IF Ends("rename") THEN Unchosen ELSE @,
                           !.saving = @ /\ ~Ends("rename"),
                           !.deleting = IF Ends("delete") THEN Unchosen ELSE @]
  /\ UNCHANGED <<rows, toolbar, seqRef, asked, stale, started>>

-----------------------------------------------------------------------------
(* The library's actions. *)

OpenRename ==
  /\ OnLibrary /\ Uncovered
  /\ \E p \in DOMAIN grid : dialogs' = [dialogs EXCEPT !.renaming = p]
  /\ UNCHANGED <<rows, toolbar, listVars, actions, stale, started>>

OpenDelete ==
  /\ OnLibrary /\ Uncovered
  /\ \E p \in DOMAIN grid : dialogs' = [dialogs EXCEPT !.deleting = p]
  /\ UNCHANGED <<rows, toolbar, listVars, actions, stale, started>>

\* Escape, the cross and the backdrop close a dialog, busy or not.
CloseDialog ==
  /\ OnLibrary
  /\ \/ dialogs.renaming # Unchosen /\ dialogs' = [dialogs EXCEPT !.renaming = Unchosen]
     \/ dialogs.deleting # Unchosen /\ dialogs' = [dialogs EXCEPT !.deleting = Unchosen]
  /\ UNCHANGED <<rows, toolbar, listVars, actions, stale, started>>

Start(kind, id) ==
  /\ started < MaxActions
  /\ started' = started + 1
  /\ actions' = actions \cup {[n |-> started, kind |-> kind, id |-> id, filter |-> toolbar,
                               state |-> "asked", list |-> 0]}

\* A card's menu.
ProjectCard ==
  /\ OnLibrary /\ Uncovered
  /\ \E p \in DOMAIN grid : \/ Start("duplicate", p)
                            \/ grid[p].status = "archived" /\ Start("restore", p)
                            \/ grid[p].status # "archived" /\ Start("archive", p)
  /\ UNCHANGED <<rows, toolbar, dialogs, listVars, stale>>

\* RenameDialog and DeleteDialog: one request each at a time.
SaveRename ==
  /\ OnLibrary
  /\ dialogs.renaming # Unchosen /\ ~dialogs.saving
  /\ Start("rename", dialogs.renaming)
  /\ dialogs' = [dialogs EXCEPT !.saving = TRUE]
  /\ UNCHANGED <<rows, toolbar, listVars, stale>>

ConfirmDelete ==
  /\ OnLibrary
  /\ dialogs.deleting # Unchosen /\ ~dialogs.removing
  /\ Start("delete", dialogs.deleting)
  /\ dialogs' = [dialogs EXCEPT !.removing = TRUE]
  /\ UNCHANGED <<rows, toolbar, listVars, stale>>

Free == ProjectIds \ DOMAIN rows
Fresh == [status |-> "draft", hit |-> FALSE]

\* What the server makes of an action: a copy is a draft of the same name, and
\* restoring makes a draft of whatever was archived.
ActionEffect(a) ==
  CASE a.kind = "duplicate" -> \E q \in Free : rows' = rows @@ (q :> [rows[a.id] EXCEPT !.status = "draft"])
    [] a.kind = "archive" -> rows' = [rows EXCEPT ![a.id].status = "archived"]
    [] a.kind = "restore" -> rows' = [rows EXCEPT ![a.id].status = "draft"]
    [] a.kind = "rename"  -> rows' = [rows EXCEPT ![a.id].hit = ~@]
    [] a.kind = "delete"  -> rows' = Restrict(rows, DOMAIN rows \ {a.id})

ServeAction ==
  /\ OnLibrary
  /\ \E a \in actions :
       /\ a.state = "asked" /\ a.id \in DOMAIN rows
       /\ ActionEffect(a)
       /\ actions' = (actions \ {a}) \cup {[a EXCEPT !.state = "done"]}
  /\ UNCHANGED <<toolbar, dialogs, listVars, stale, started>>

\* A success asks for the list again, with the filter of the click.
ActionReloads ==
  /\ OnLibrary
  /\ \E a \in actions :
       /\ a.state = "done"
       /\ Load(a.filter)
       /\ actions' = (actions \ {a}) \cup {[a EXCEPT !.state = "reloading", !.list = seqRef']}
  /\ UNCHANGED <<rows, toolbar, dialogs, grid, started>>

\* An action that is refused, or whose answer is lost after its effect.
ActionFails ==
  /\ OnLibrary
  /\ \E a \in actions :
       /\ a.state # "reloading"
       /\ actions' = actions \ {a}
       /\ dialogs' = [dialogs EXCEPT !.saving = @ /\ a.kind # "rename",
                                     !.removing = @ /\ a.kind # "delete"]
       /\ stale' = (stale \/ a.state = "done")
  /\ UNCHANGED <<rows, toolbar, listVars, started>>

LibraryNext == \/ ChooseFilter \/ TryAgain \/ ServeList \/ ListArrives
               \/ OpenRename \/ OpenDelete \/ CloseDialog
               \/ ProjectCard \/ SaveRename \/ ConfirmDelete
               \/ ServeAction \/ ActionReloads \/ ActionFails

-----------------------------------------------------------------------------
(* The creation hub and the template gallery. *)

AtHub == page = "new" /\ UNCHANGED <<page, storedVars, libraryVars, actions, shelfVars, stale, started>>

ChooseEnvironment ==
  /\ AtHub
  /\ hub.step = 1
  /\ \E t \in ProjectTypes :
       hub' = [hub EXCEPT !.type = t, !.method = "none", !.template = Unchosen, !.step = 2]

\* The second step.  "Blank project" keeps a template chosen before it.
ChooseMethod ==
  /\ AtHub
  /\ hub.step = 2
  /\ \/ hub' = [hub EXCEPT !.method = "blank", !.step = 3]
     \/ hub' = [hub EXCEPT !.method = "template"]
     \/ \E t \in DOMAIN Templates :
          /\ hub.method = "template" /\ Templates[t] = hub.type
          /\ hub' = [hub EXCEPT !.template = t, !.step = 3]
     \/ hub' = [hub EXCEPT !.step = 1]

Back ==
  /\ AtHub
  /\ hub.step = 3 /\ ~hub.creating
  /\ hub' = [hub EXCEPT !.step = 2]

\* One creation at a time, however often the form is submitted.
CreateProject ==
  /\ AtHub
  /\ hub.step = 3 /\ ~hub.creating
  /\ hub' = [hub EXCEPT !.creating = TRUE]

\* A card of the gallery creates its project at once.
UseTemplate ==
  /\ page = "templates" /\ ~hub.creating
  /\ \E t \in DOMAIN Templates :
       hub' = [hub EXCEPT !.template = t, !.type = Templates[t], !.creating = TRUE]
  /\ UNCHANGED <<page, storedVars, libraryVars, actions, shelfVars, stale, started>>

\* The server refuses a template of another type.  A success opens the
\* builder; after a failure, which the row may have survived, the form is
\* there again.
CreateEnds ==
  /\ page \in {"new", "templates"} /\ hub.creating
  /\ LET fits == hub.template # Unchosen => Templates[hub.template] = hub.type IN
     \/ /\ fits
        /\ \E q \in Free : rows' = rows @@ (q :> Fresh)
        /\ \/ page' = "away" /\ UNCHANGED hub
           \/ UNCHANGED page /\ hub' = [hub EXCEPT !.creating = FALSE]
     \/ UNCHANGED <<rows, page>> /\ hub' = [hub EXCEPT !.creating = FALSE]
  /\ UNCHANGED <<installs, authored, libraryVars, actions, shelfVars, stale, started>>

CreationNext == ChooseEnvironment \/ ChooseMethod \/ Back \/ CreateProject \/ UseTemplate \/ CreateEnds

-----------------------------------------------------------------------------
(* The shelves of extensions.  What is published does not change here. *)

OnShelves == page = "extensions" /\ UNCHANGED <<page, rows, libraryVars, hub>>

Installed == Restrict(installs, {e \in Extensions : installs[e] # "no"})
Stored(of) == IF of = "installed" THEN Installed ELSE [e \in authored |-> "own"]

\* refresh: every shelf is asked for, without a number to tell a late answer.
Refresh ==
  /\ refreshes < MaxLists
  /\ refreshes' = refreshes + 1
  /\ fetches' = fetches \cup {[n |-> refreshes, of |-> of, got |-> <<>>] : of \in DOMAIN shelf}
  /\ stale' = (fetches # {})

ServeShelf ==
  /\ OnShelves
  /\ \E f \in fetches :
       /\ f.got = <<>>
       /\ fetches' = (fetches \ {f}) \cup {[f EXCEPT !.got = <<Stored(f.of)>>]}
  /\ UNCHANGED <<installs, authored, shelf, refreshes, extBusy, candidate, actions, stale, started>>

\* Whatever arrives last is shown; a failure shows an empty shelf.
ShelfArrives ==
  /\ OnShelves
  /\ \E f \in fetches :
       /\ fetches' = fetches \ {f}
       /\ \/ f.got # <<>> /\ shelf' = [shelf EXCEPT ![f.of] = f.got[1]] /\ UNCHANGED stale
          \/ shelf' = [shelf EXCEPT ![f.of] = <<>>] /\ stale' = TRUE
  /\ UNCHANGED <<installs, authored, refreshes, extBusy, candidate, actions, started>>

\* An extension of the Explore shelf is installed unless the shelves know it,
\* an installed one is turned off or on, or its use asked for; only the
\* buttons of the one last clicked are disabled.
ClickExtension ==
  /\ OnShelves /\ candidate = Unchosen
  /\ \E e \in Extensions \ {extBusy} :
       /\ \/ e \notin DOMAIN shelf.installed \cup DOMAIN shelf.yours /\ Start("install", e)
          \/ e \in DOMAIN shelf.installed /\ Start(IF shelf.installed[e] = "off" THEN "enable" ELSE "disable", e)
          \/ e \in DOMAIN shelf.installed /\ Start("usage", e)
       /\ extBusy' = e
  /\ UNCHANGED <<installs, authored, shelf, fetches, refreshes, candidate, stale>>

ConfirmUninstall ==
  /\ OnShelves
  /\ candidate \notin {Unchosen, extBusy}
  /\ Start("uninstall", candidate)
  /\ extBusy' = candidate
  /\ UNCHANGED <<installs, authored, shelf, fetches, refreshes, candidate, stale>>

DismissUninstall ==
  /\ OnShelves
  /\ candidate # Unchosen /\ candidate' = Unchosen
  /\ UNCHANGED <<installs, authored, shelf, fetches, refreshes, extBusy, actions, stale, started>>

\* The form of the Yours shelf, one creation at a time.
CreateExtension ==
  /\ OnShelves /\ candidate = Unchosen
  /\ \A a \in actions : a.kind # "create"
  /\ \E e \in Extensions \ authored : Start("create", e)
  /\ UNCHANGED <<installs, authored, shelfVars, stale>>

\* Installing again keeps an install turned off; turning one that is gone off
\* or on is refused.
Install(e) == installs' = [installs EXCEPT ![e] = IF @ = "no" THEN "on" ELSE @] /\ UNCHANGED authored
SetInstallEnabled(e, to) ==
  installs[e] # "no" /\ installs' = [installs EXCEPT ![e] = to] /\ UNCHANGED authored
Uninstall(e) == installs' = [installs EXCEPT ![e] = "no"] /\ UNCHANGED authored
ServeExtension ==
  /\ OnShelves
  /\ \E a \in actions :
       /\ a.state = "asked"
       /\ \/ a.kind = "usage" /\ UNCHANGED <<installs, authored>>
          \/ a.kind = "install" /\ Install(a.id)
          \/ a.kind = "enable" /\ SetInstallEnabled(a.id, "on")
          \/ a.kind = "disable" /\ SetInstallEnabled(a.id, "off")
          \/ a.kind = "uninstall" /\ Uninstall(a.id)
          \/ a.kind = "create" /\ authored' = authored \cup {a.id} /\ UNCHANGED installs
       /\ actions' = (actions \ {a}) \cup {[a EXCEPT !.state = "done"]}
  /\ UNCHANGED <<shelfVars, stale, started>>

\* A success refreshes the shelves, save that the use asked for, known or
\* not, asks for confirmation; whatever ends makes every button usable again.
ExtensionAnswers ==
  /\ OnShelves
  /\ \E a \in actions :
       /\ actions' = actions \ {a}
       /\ extBusy' = IF a.kind = "create" THEN extBusy ELSE Unchosen
       /\ \/ /\ a.kind = "usage"
             /\ candidate' = a.id
             /\ UNCHANGED <<fetches, refreshes, stale>>
          \/ /\ a.kind # "usage" /\ a.state = "done"
             /\ Refresh
             /\ candidate' = IF a.kind = "uninstall" THEN Unchosen ELSE candidate
          \/ /\ a.kind # "usage"
             /\ stale' = (stale \/ a.state = "done")
             /\ UNCHANGED <<fetches, refreshes, candidate>>
  /\ UNCHANGED <<installs, authored, shelf, started>>

ShelvesNext == \/ ServeShelf \/ ShelfArrives
               \/ ClickExtension \/ ConfirmUninstall \/ DismissUninstall \/ CreateExtension
               \/ ServeExtension \/ ExtensionAnswers

-----------------------------------------------------------------------------
\* Each page has been mounted and its first lists have come; the hub may have
\* its environment from the link.
DashboardInit ==
  /\ page \in {"projects", "new", "templates", "extensions"}
  /\ rows = StartRows
  /\ installs = [e \in Extensions |-> "no"] /\ authored = {}
  /\ toolbar = [search |-> FALSE, status |-> "active"]
  /\ dialogs = [renaming |-> Unchosen, saving |-> FALSE, deleting |-> Unchosen, removing |-> FALSE]
  /\ seqRef = 1 /\ asked = toolbar /\ lists = {}
  /\ grid = Matching(toolbar) /\ loadError = FALSE
  /\ actions = {}
  /\ \E t \in {Unchosen} \cup ProjectTypes :
       /\ page # "new" => t = Unchosen
       /\ hub = [step |-> IF t = Unchosen THEN 1 ELSE 2, type |-> t, method |-> "none",
                 template |-> Unchosen, creating |-> FALSE]
  /\ shelf = [of \in {"installed", "yours"} |-> Stored(of)]
  /\ refreshes = 1 /\ fetches = {}
  /\ extBusy = Unchosen /\ candidate = Unchosen
  /\ stale = FALSE /\ started = 0

DashboardNext == LibraryNext \/ CreationNext \/ ShelvesNext

DashboardSpec == DashboardInit /\ [][DashboardNext]_dashboardVars

-----------------------------------------------------------------------------
(* Properties *)

\* When nothing is under way, a page shows what is stored: the grid exactly
\* the projects of the filter asked for last, and the shelves the installs,
\* whatever actions ran at once and in whatever order lists and answers came.
\* Excepted are the answers lost after their effect, failed lists (an error
\* or an empty shelf shows), and shelves asked for while others were under
\* way, which nothing orders.
ListsAreCurrent ==
  actions = {} /\ ~stale =>
    /\ page = "projects" /\ lists = {} /\ ~loadError => grid = Matching(asked)
    /\ page = "extensions" /\ fetches = {} => shelf = [of \in DOMAIN shelf |-> Stored(of)]

\* No creation is sent with a template of another type than the environment
\* chosen, however the user went back and forth (the server would refuse it,
\* and the form shows neither).
TemplatesFitTheirType ==
  hub.creating /\ hub.template # Unchosen => Templates[hub.template] = hub.type

\* What the dashboard's pages show and send is what is stored and chosen
\* (use-projects.ts, extensions-client.tsx, create-project-client.tsx).
DashboardIsCurrent == ListsAreCurrent /\ TemplatesFitTheirType
=============================================================================
