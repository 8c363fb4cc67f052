----------------------------- MODULE MCWebPanels -----------------------------
(***************************************************************************)
(* The panels and pages of the web client that share no state, each from   *)
(* its own initial state: a behaviour is one of one of them (aspect), the  *)
(* others stand still.                                                     *)
(***************************************************************************)
EXTENDS MCProjectInsights, Accounts, CodeMode, CommunityPages, CreditCheckout, Dashboard,
        ExtensionStudio

VARIABLE aspect

Call1(t, v) == Node(t, v, <<>>)
Str == Call1("text", <<"str">>)
Num == Call1("number", <<"num">>)

\* A handler of every statement and expression both converters know, an empty
\* handler, and one with a negative number and an unknown block.
MCSeeds == {
  <<HandlerOn("screen", "open",
       <<IfNode(Node("equals", <<>>, <<Call1("get_variable", <<"str">>), Num>>),
                <<Call1("navigate", <<"str">>), Node("show_message", <<>>, <<Empty>>)>>,
                <<Call1("stop_sound", <<>>)>>, "none"),
         Node("set_property", <<"str", "str">>, <<Call1("boolean", <<"true">>)>>),
         Node("set_variable", <<"str">>, <<Node("join", <<>>, <<Str, Num>>)>>),
         Node("change_variable", <<"str">>, <<Call1("get_property", <<"str", "str">>)>>),
         Call1("play_sound", <<"str">>), Call1("web_get", <<"str">>),
         Node("tinydb_store", <<"str">>, <<Str>>), Node("notifier_alert", <<>>, <<Str>>),
         Node("tts_speak", <<>>, <<Str>>), Call1("location_request", <<>>),
         Call1("canvas_clear", <<>>),
         Call1("canvas_draw_circle", <<"num", "num", "num", "str">>)>>)>>,
  <<HandlerOn("button", "tap", <<>>)>>,
  <<HandlerOn("button", "tap",
       <<Node("set_variable", <<"str">>, <<Call1("number", <<"neg">>)>>),
         Call1("ext", <<>>)>>)>>}

MCTyped == {
  Node("show", <<>>, <<Call1("string", <<"str">>)>>),
  Call1("foo", <<>>),
  IfNode(Call1("true", <<>>), <<Call1("stopSound", <<>>)>>,
         <<Call1("canvasClear", <<>>)>>, "if")}

(* A project in the library, and a template of each type. *)
MCRows == "p1" :> [status |-> "draft", hit |-> TRUE]
MCTemplates == "t1" :> "app" @@ "t2" :> "game"

WebInit ==
  /\ aspect \in {"accounts", "code", "community", "checkout", "studio", "insights", "dashboard"}
  /\ AccountInit /\ CodeInit /\ CommunityInit /\ CheckoutInit /\ StudioInit
  /\ InsightsInit /\ DashboardInit
  /\ aspect # "accounts" => cookie[CHOOSE b \in Browsers : TRUE] = 1
  /\ aspect # "code" => /\ codeActive = CHOOSE s \in CodeScreens : TRUE
                        /\ codeLogic = [s \in CodeScreens |-> CHOOSE p \in SeedPrograms : p[1].body = <<>>]
  /\ aspect # "community" => written = {CHOOSE r \in ReplyIds : TRUE}
  /\ aspect # "checkout" => provider
  /\ aspect # "insights" => refModel = blank
  /\ aspect # "dashboard" => page = "templates"
  /\ aspect # "studio" => editors["manifest"] = CHOOSE t \in StudioTexts \ {BadText} : TRUE

Frozen(a, its) == aspect # a => UNCHANGED its

WebNext ==
  /\ UNCHANGED aspect
  /\ \/ aspect = "accounts" /\ AccountNext
     \/ aspect = "code" /\ CodeNext
     \/ aspect = "community" /\ CommunityNext
     \/ aspect = "checkout" /\ CheckoutNext
     \/ aspect = "studio" /\ StudioNext
     \/ aspect = "insights" /\ InsightsNext
     \/ aspect = "dashboard" /\ DashboardNext
  /\ Frozen("accounts", accountVars) /\ Frozen("code", codeVars)
  /\ Frozen("community", communityVars) /\ Frozen("checkout", checkoutVars)
  /\ Frozen("studio", studioVars)
  /\ Frozen("insights", insightVars) /\ Frozen("dashboard", dashboardVars)

webVars == <<aspect, accountVars, codeVars, communityVars, checkoutVars, studioVars,
             insightVars, dashboardVars>>

WebSpec == WebInit /\ [][WebNext]_webVars
=============================================================================
