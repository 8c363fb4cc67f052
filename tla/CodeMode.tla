------------------------------ MODULE CodeMode ------------------------------
(***************************************************************************)
(* Code mode of the builder: the TypeScript generated from a screen's      *)
(* blocks (lib/project-model/codegen.ts), the conversion of edited text    *)
(* back into blocks (code-sync.ts) and the editor that holds the draft     *)
(* (code-mode.tsx).                                                        *)
(*                                                                         *)
(* A program is a tree: Node(t, v, a, kids, alt) is a block of type t or a *)
(* call of method t, with its literal inputs v, its argument expressions a *)
(* and, for an if, its two arms.  The text of a file is modelled by the    *)
(* syntax tree the TypeScript parser makes of it; layout, names and        *)
(* comments (which the parser drops) are left out.  A literal is one of    *)
(* "str", "num" and "neg" (a negative number, which the parser reads as a  *)
(* minus sign applied to a literal).                                       *)
(***************************************************************************)
EXTENDS Naturals, Sequences, SequencesExt

CONSTANTS CodeScreens,   \* the screens of the project
          SeedPrograms,  \* the block programs a screen may start with
          TypedCalls,    \* the statements the user may type into a handler
          MaxEdits,      \* bound: edits the user types
          MaxSyncs       \* bound: syncs awaiting the parser at once

ASSUME CodeBoundsAssumption == MaxEdits \in Nat /\ MaxSyncs \in Nat

Node(t, v, a) ==
  [t |-> t, v |-> v, a |-> a, kids |-> <<>>, alt |-> <<>>, arm |-> "none"]
Empty == Node("empty", <<>>, <<>>)                      \* a slot nothing sits in
NoText == [parses |-> FALSE, api |-> FALSE, top |-> <<>>] \* null
IfNode(cond, kids, alt, arm) ==
  [t |-> "if", v |-> <<>>, a |-> <<cond>>, kids |-> kids, alt |-> alt, arm |-> arm]
\* A handler: the screen's own (owner "screen") or a component's.
HandlerOn(owner, event, body) == [owner |-> owner, event |-> event, body |-> body]

(***************************************************************************)
(* Blocks to text.                                                         *)
(***************************************************************************)
\* The method each statement block is emitted as.
StatementMethod ==
  [set_property |-> "setProperty", set_variable |-> "setVariable",
   change_variable |-> "changeVariable", play_sound |-> "playSound",
   stop_sound |-> "stopSound", tinydb_store |-> "storeValue",
   notifier_alert |-> "notify", web_get |-> "webGet",
   location_request |-> "requestLocation", tts_speak |-> "speak",
   canvas_clear |-> "canvasClear", canvas_draw_circle |-> "drawCircle",
   show_message |-> "show", camera_shake |-> "shakeCamera",
   camera_set_target |-> "setCameraTarget", play_animation |-> "playAnimation",
   stop_animation |-> "stopAnimation", set_animation_param |-> "setAnimationParam",
   trigger_animation_param |-> "triggerAnimationParam",
   burst_particle |-> "burstParticle", navigate |-> "navigate"]

ExpressionMethod ==
  [get_property |-> "getProperty", get_variable |-> "getVariable",
   join |-> "join", equals |-> "equals", add |-> "+", tinydb_get |-> "getValue",
   clock_now |-> "now", location_latitude |-> "latitude",
   location_longitude |-> "longitude"]

\* A negative number is written with a minus sign, an empty slot as "".
RECURSIVE EmitExpression(_)
EmitExpression(b) ==
  CASE b = Empty -> Node("string", <<"str">>, <<>>)
    [] b.t = "text" -> Node("string", <<"str">>, <<>>)
    [] b.t = "number" ->
         IF b.v[1] = "neg" THEN Node("minus", <<>>, <<Node("numeric", <<"num">>, <<>>)>>)
         ELSE Node("numeric", <<"num">>, <<>>)
    [] b.t = "boolean" -> Node(b.v[1], <<>>, <<>>)
    [] b.t \in DOMAIN ExpressionMethod ->
         Node(ExpressionMethod[b.t], b.v, [i \in DOMAIN b.a |-> EmitExpression(b.a[i])])
    [] OTHER -> Node("null", <<>>, <<>>)

\* An else arm is written only when it holds something; a block of a type the
\* generator does not know becomes a comment, which is no statement at all.
RECURSIVE EmitStatements(_)
EmitStatements(body) ==
  FlattenSeq([i \in DOMAIN body |->
    LET b == body[i] IN
    IF b.t = "if" THEN
      <<IfNode(EmitExpression(b.a[1]), EmitStatements(b.kids), EmitStatements(b.alt),
               IF b.alt = <<>> THEN "none" ELSE "block")>>
    ELSE IF b.t \in DOMAIN StatementMethod THEN
      <<Node(StatementMethod[b.t], b.v, [j \in DOMAIN b.a |-> EmitExpression(b.a[j])])>>
    ELSE <<>>])

\* The text of a screen.  The registration of a handler without statements is
\* never closed: "() => {}" is emitted without its ");".
ScreenToTypeScript(handlers) ==
  [parses |-> \A i \in DOMAIN handlers : handlers[i].body # <<>>,
   api    |-> TRUE,
   top    |-> [i \in DOMAIN handlers |->
                 [handlers[i] EXCEPT !.body = EmitStatements(handlers[i].body)]]]

(***************************************************************************)
(* Text to blocks.                                                         *)
(***************************************************************************)
Stmt(type, strings, numbers, exprs) ==
  [type |-> type, strings |-> strings, numbers |-> numbers, exprs |-> exprs]

\* The calls the converter knows: how many string literals, number literals
\* and expressions each takes, and the block it becomes.
KnownStatement ==
  [setProperty |-> Stmt("set_property", 2, 0, 1),
   setVariable |-> Stmt("set_variable", 1, 0, 1),
   changeVariable |-> Stmt("change_variable", 1, 0, 1),
   playSound |-> Stmt("play_sound", 1, 0, 0),
   stopSound |-> Stmt("stop_sound", 0, 0, 0),
   storeValue |-> Stmt("tinydb_store", 1, 0, 1),
   notify |-> Stmt("notifier_alert", 0, 0, 1),
   webGet |-> Stmt("web_get", 1, 0, 0),
   requestLocation |-> Stmt("location_request", 0, 0, 0),
   speak |-> Stmt("tts_speak", 0, 0, 1),
   canvasClear |-> Stmt("canvas_clear", 0, 0, 0),
   drawCircle |-> Stmt("canvas_draw_circle", 1, 3, 0),
   show |-> Stmt("show_message", 0, 0, 1),
   navigate |-> Stmt("navigate", 1, 0, 0)]

KnownExpression ==
  [getProperty |-> Stmt("get_property", 2, 0, 0),
   getVariable |-> Stmt("get_variable", 1, 0, 0),
   join |-> Stmt("join", 0, 0, 2), equals |-> Stmt("equals", 0, 0, 2)]

\* Mutant of Fits: the numbers of a call are read as its strings are.
FitsStrings(row, call) ==
  /\ Len(call.a) = row.exprs
  /\ Len(call.v) = row.strings + row.numbers
  /\ \A i \in DOMAIN call.v : call.v[i] = "str"

\* A call has the literals and the number of arguments its row asks for.
Fits(row, call) ==
  /\ Len(call.a) = row.exprs
  /\ Len(call.v) = row.strings + row.numbers
  /\ \A i \in DOMAIN call.v : call.v[i] = IF i <= row.numbers THEN "num" ELSE "str"

\* The block an expression becomes, or Empty when it is outside the subset.
RECURSIVE ConvertExpression(_)
ConvertExpression(e) ==
  LET args == [i \in DOMAIN e.a |-> ConvertExpression(e.a[i])] IN
  CASE e.t = "string" -> Node("text", <<"str">>, <<>>)
    [] e.t = "numeric" -> Node("number", <<"num">>, <<>>)
    [] e.t \in {"true", "false"} -> Node("boolean", <<e.t>>, <<>>)
    [] e.t \in DOMAIN KnownExpression ->
         IF Fits(KnownExpression[e.t], e) /\ \A i \in DOMAIN args : args[i] # Empty
         THEN Node(KnownExpression[e.t].type, e.v, args) ELSE Empty
    [] OTHER -> Empty

Unsupported == Node("unsupported", <<>>, <<>>)

\* The block a statement becomes.  An else arm that is not a block ("else if")
\* is left out without a mark.
RECURSIVE ConvertStatements(_)
ConvertStatements(body) ==
  [i \in DOMAIN body |->
    LET s == body[i]
        args == [j \in DOMAIN s.a |-> ConvertExpression(s.a[j])]
        converted == \A j \in DOMAIN args : args[j] # Empty IN
    IF s.t = "if" /\ converted THEN
      IfNode(args[1], ConvertStatements(s.kids),
             IF s.arm = "block" THEN ConvertStatements(s.alt) ELSE <<>>,
             "none")
    ELSE IF s.t \in DOMAIN KnownStatement /\ converted THEN
      IF Fits(KnownStatement[s.t], s)
      THEN Node(KnownStatement[s.t].type, s.v, args) ELSE Unsupported
    ELSE Unsupported]

RECURSIVE HasUnsupported(_)
HasUnsupported(body) ==
  \E i \in DOMAIN body :
    \/ body[i] = Unsupported
    \/ HasUnsupported(body[i].kids) \/ HasUnsupported(body[i].alt)

\* Only registrations become handlers; anything else at the top is a mark.
CollectStatement(top) ==
  [i \in DOMAIN top |->
    IF top[i].owner = "other" THEN Unsupported
    ELSE [top[i] EXCEPT !.body = ConvertStatements(top[i].body)]]

\* The whole conversion: the status and, for "visual", the new program.
SyncScreenCode(text) ==
  LET collected == CollectStatement(text.top)
      handlers  == SelectSeq(collected, LAMBDA h : h # Unsupported)
      marked    == Len(handlers) < Len(collected)
                   \/ \E i \in DOMAIN handlers : HasUnsupported(handlers[i].body) IN
  IF ~text.parses THEN [status |-> "invalid", handlers |-> <<>>]
  ELSE IF ~text.api THEN [status |-> "code-only", handlers |-> <<>>]
  ELSE IF marked THEN
    [status |-> IF handlers = <<>> THEN "code-only" ELSE "mixed", handlers |-> handlers]
  ELSE [status |-> "visual", handlers |-> handlers]

-----------------------------------------------------------------------------
VARIABLES codeLogic,   \* screen -> its handler program
          codeParked,  \* screen -> whether its logic holds parked drafts
          codeText,    \* screen -> its custom code, or NoText
          codeActive,  \* the screen Code mode shows
          codeDraft,   \* the edited text, or NoText
          codeJobs,    \* the syncs awaiting the parser, oldest first
          codeEdits    \* the edits typed so far (bookkeeping of the bound)

codeVars == <<codeLogic, codeParked, codeText, codeActive, codeDraft, codeJobs, codeEdits>>

\* What the editor shows.
CodeValue ==
  IF codeDraft # NoText THEN codeDraft
  ELSE IF codeText[codeActive] # NoText THEN codeText[codeActive]
  ELSE ScreenToTypeScript(codeLogic[codeActive])

CodeInit ==
  /\ codeLogic \in [CodeScreens -> SeedPrograms]
  /\ codeParked = [s \in CodeScreens |-> TRUE]
  /\ codeText = [s \in CodeScreens |-> NoText]
  /\ codeActive \in CodeScreens
  /\ codeDraft = NoText
  /\ codeJobs = <<>>
  /\ codeEdits = 0

\* Another screen is opened: neither the draft nor a pending sync is reset.
SwitchCodeScreen ==
  /\ \E s \in CodeScreens \ {codeActive} : codeActive' = s
  /\ UNCHANGED <<codeLogic, codeParked, codeText, codeDraft, codeJobs, codeEdits>>

\* The edits the user makes to a text: append a statement to its first
\* handler, drop that handler's last one, add a line outside every handler,
\* leave the syntax broken or mend it.
Edits(text) ==
  (IF text.top = <<>> THEN {} ELSE
     {[text EXCEPT !.top[1].body = Append(@, c)] : c \in TypedCalls}
     \cup {[text EXCEPT !.top[1].body = IF @ = <<>> THEN @ ELSE Front(@)]})
  \cup {[text EXCEPT !.parses = ~@]}
  \cup {[text EXCEPT !.top = IF \E i \in DOMAIN @ : @[i].owner = "other" THEN @
                             ELSE Append(@, HandlerOn("other", "none", <<>>))]}

TypeCode ==
  /\ codeEdits < MaxEdits
  /\ \E text \in Edits(CodeValue) : codeDraft' = text
  /\ codeEdits' = codeEdits + 1
  /\ UNCHANGED <<codeLogic, codeParked, codeText, codeActive, codeJobs>>

\* "Sync to blocks": disabled without a draft and while this editor parses.
ClickSync ==
  /\ codeDraft # NoText
  /\ ~ \E i \in DOMAIN codeJobs : codeJobs[i].mine
  /\ Len(codeJobs) < MaxSyncs
  /\ codeJobs' = Append(codeJobs, [screen |-> codeActive, text |-> codeDraft, mine |-> TRUE])
  /\ UNCHANGED <<codeLogic, codeParked, codeText, codeActive, codeDraft, codeEdits>>

\* ops.replaceScreenLogic and ops.setScreenCode, as applyCodeSync joins them.
ReplaceScreenLogic(s, handlers) ==
  /\ codeLogic' = [codeLogic EXCEPT ![s] = handlers]
  /\ codeParked' = [codeParked EXCEPT ![s] = FALSE]
SetScreenCode(s, text) == codeText' = [codeText EXCEPT ![s] = text]
ApplyCodeSync(s, handlers) == ReplaceScreenLogic(s, handlers) /\ SetScreenCode(s, NoText)

\* The parser answers: the rest of the click runs with the screen and the text
\* it closed over.
FinishSync ==
  /\ codeJobs # <<>>
  /\ LET job == Head(codeJobs)
         sync == SyncScreenCode(job.text) IN
     /\ IF sync.status = "visual" THEN ApplyCodeSync(job.screen, sync.handlers)
        ELSE IF sync.status = "invalid" THEN UNCHANGED <<codeLogic, codeParked, codeText>>
        ELSE SetScreenCode(job.screen, job.text) /\ UNCHANGED <<codeLogic, codeParked>>
     /\ codeDraft' = IF job.mine /\ sync.status # "invalid" THEN NoText ELSE codeDraft
  /\ codeJobs' = Tail(codeJobs)
  /\ UNCHANGED <<codeActive, codeEdits>>

\* "Remove custom code" returns to the generated text.
RemoveCustom ==
  /\ codeText[codeActive] # NoText
  /\ SetScreenCode(codeActive, NoText)
  /\ codeDraft' = NoText
  /\ UNCHANGED <<codeLogic, codeParked, codeActive, codeJobs, codeEdits>>

\* Leaving Code mode unmounts the editor: its draft is gone, a pending sync
\* still lands.
LeaveCodeMode ==
  /\ codeDraft # NoText
  /\ codeDraft' = NoText
  /\ codeJobs' = [i \in DOMAIN codeJobs |-> [codeJobs[i] EXCEPT !.mine = FALSE]]
  /\ UNCHANGED <<codeLogic, codeParked, codeText, codeActive, codeEdits>>

CodeNext ==
  \/ SwitchCodeScreen \/ TypeCode \/ ClickSync \/ FinishSync
  \/ RemoveCustom \/ LeaveCodeMode

CodeSpec == CodeInit /\ [][CodeNext]_codeVars

-----------------------------------------------------------------------------
(***************************************************************************)
(* Properties.                                                             *)
(***************************************************************************)
\* A program inside the visual subset: no handler is empty, every block is one
\* the converter knows and no number is negative.
RECURSIVE SubsetExpression(_)
SubsetExpression(b) ==
  \/ b = Empty
  \/ /\ b # Empty
     /\ b.t \in {"text", "number", "boolean", "get_property", "get_variable", "join", "equals"}
     /\ \A i \in DOMAIN b.v : b.v[i] # "neg"
     /\ \A i \in DOMAIN b.a : SubsetExpression(b.a[i])

RECURSIVE SubsetBody(_)
SubsetBody(body) ==
  \A i \in DOMAIN body :
    LET b == body[i] IN
    /\ b.t \in {"if", "set_property", "set_variable", "change_variable", "play_sound",
                "stop_sound", "tinydb_store", "notifier_alert", "web_get",
                "location_request", "tts_speak", "canvas_clear", "canvas_draw_circle",
                "show_message", "navigate"}
    /\ \A j \in DOMAIN b.v : b.v[j] # "neg"
    /\ \A j \in DOMAIN b.a : SubsetExpression(b.a[j])
    /\ SubsetBody(b.kids) /\ SubsetBody(b.alt)

\* The same program with every empty slot filled by the empty text.
RECURSIVE FilledExpression(_)
FilledExpression(b) ==
  IF b = Empty THEN Node("text", <<"str">>, <<>>)
  ELSE [b EXCEPT !.a = [i \in DOMAIN b.a |-> FilledExpression(b.a[i])]]
RECURSIVE Filled(_)
Filled(body) ==
  [i \in DOMAIN body |->
    [body[i] EXCEPT !.a = [j \in DOMAIN @ |-> FilledExpression(@[j])],
                    !.kids = Filled(@), !.alt = Filled(@)]]

\* The generated text of every program inside the subset converts back to that
\* very program: its blocks, their inputs, their order and both arms of every
\* if, with empty slots as empty texts (codegen.ts and code-sync.ts are two
\* hand-written halves that only a round trip relates).
GeneratedCodeSyncsBack ==
  \A s \in CodeScreens :
    (\A i \in DOMAIN codeLogic[s] : codeLogic[s][i].body # <<>> /\ SubsetBody(codeLogic[s][i].body))
    => LET back == SyncScreenCode(ScreenToTypeScript(codeLogic[s])) IN
       /\ back.status = "visual"
       /\ back.handlers = [i \in DOMAIN codeLogic[s] |->
                             [codeLogic[s][i] EXCEPT !.body = Filled(@)]]
=============================================================================
