-------------------------------- MODULE Startup --------------------------------
(***************************************************************************)
(* main of cmd/mouse, with config.Load, EnsureRuntimeDirs, SetWebhook and  *)
(* gateway.NewServer: the order in which a start validates, creates,       *)
(* registers, opens, mounts and runs the parts, and what is left behind    *)
(* when it ends on the way. The disk and the webhook that Telegram has on  *)
(* record outlive the process; the configuration is edited between starts. *)
(***************************************************************************)
EXTENDS Naturals, Sequences

CONSTANTS
  Configs,    \* what config/mouse.yaml may hold, its env: values looked up
  Segments,   \* the host and the path segments of URLs; " " for spaces
  NoWebhook,  \* Telegram has no webhook on record
  MaxStarts   \* bound: starts of the program

\* A string that is tested for "" and, trimmed, for "" again.
Texts == {"empty", "blank", "set"}

\* The blank text among URLs and paths; the empty one is <<>>.
Spaces == <<" ">>

Config ==
  [basics : BOOLEAN,           \* app.name, app.workspace, both stores, binds
   telegram : BOOLEAN,
   webhook : BOOLEAN,
   token : Texts,
   allow : BOOLEAN,            \* allow_from has an entry
   publicURL : Seq(Segments),  \* the host first, no trailing slash
   path : Seq(Segments),
   secret : {"empty", "blank", "s1", "s2"},
   sessionsDir : Texts,
   sqlitePath : Texts,
   sandbox : BOOLEAN,
   image : Texts,
   cron : BOOLEAN,
   schedules : BOOLEAN,        \* every schedule parses
   watch : BOOLEAN]            \* a directory is watched

Webhooks == [url : Seq(Segments), secret : {"empty", "s1", "s2"}]

ASSUME StartupAssumption ==
  /\ Configs \subseteq Config
  /\ NoWebhook \notin Webhooks
  /\ {" ", "health", "approvals", "submit", "tools", "run", "index", "search",
      "reindex"} \subseteq Segments
  /\ MaxStarts \in Nat

VARIABLES
  pc,          \* the next step; "serving"; "down"
  cfg,         \* the configuration this start has read
  check,       \* the flag -check
  status,      \* how the last start ended
  dirs,        \* directories that exist
  migrated,    \* the SQLite file has its tables
  registered,  \* the webhook Telegram has on record
  routes,      \* the paths of the mux
  running,     \* goroutines that work in the background
  faulted,     \* history: a call of this start failed that another day succeeds
  starts

vars == <<pc, cfg, check, status, dirs, migrated, registered, routes, running,
          faulted, starts>>
run == <<cfg, check, starts>>
disk == <<dirs, migrated>>
memory == <<routes, running>>

StartSteps == {"load", "dirs", "log", "webhook", "sqlite", "telegram",
               "sandbox", "cron", "indexer", "listen"}

-----------------------------------------------------------------------------
(* What the code makes of a configuration *)

\* Config.Validate
Valid(c) ==
  /\ c.basics
  /\ c.telegram => /\ c.token # "empty"
                   /\ c.allow
                   /\ c.webhook => c.path # <<>> /\ c.publicURL # <<>>
  /\ c.sandbox => c.image # "empty"

RuntimeDirs == <<"workspace", "sessions", "memory", "sqlite">>

\* The first n of the runtime directories, without those that have no name.
DirsMade(c, n) ==
  {RuntimeDirs[i] : i \in 1..n}
    \ ((IF c.sessionsDir = "empty" THEN {"sessions"} ELSE {})
         \cup (IF c.sqlitePath # "set" THEN {"sqlite"} ELSE {}))

\* The payload of setWebhook: the URL is public_url and path end to end, and
\* a secret of spaces is left out.
Registration(c) ==
  [url |-> c.publicURL \o c.path,
   secret |-> IF c.secret = "blank" THEN "empty" ELSE c.secret]

ToolsRun == <<"tools", "run">>
BuiltIn == {<<"health">>, <<"approvals", "submit">>}
IndexRoutes == {<<"index", "search">>, <<"index", "reindex">>}

-----------------------------------------------------------------------------
Init ==
  /\ pc = "down"
  /\ cfg \in Configs
  /\ check = FALSE
  /\ status = "none"
  /\ dirs = {}
  /\ migrated = FALSE
  /\ registered = NoWebhook
  /\ routes = {}
  /\ running = {}
  /\ faulted = FALSE
  /\ starts = 0

Launch(c, flag) ==
  /\ pc = "down"
  /\ starts < MaxStarts
  /\ pc' = "load"
  /\ cfg' = c
  /\ check' = flag
  /\ status' = "none"
  /\ faulted' = FALSE
  /\ starts' = starts + 1
  /\ UNCHANGED <<disk, registered, memory>>

\* The process ends, and its mux and goroutines with it.
End(how) ==
  /\ pc' = "down"
  /\ status' = how
  /\ routes' = {}
  /\ running' = {}

\* os.Exit(1), or a panic of the mux, for what the configuration holds.
Refuse == End("failed") /\ UNCHANGED faulted

\* os.Exit(1) for a file, a database or a network that failed this time.
Fault == End("failed") /\ faulted' = TRUE

Goto(step) == pc' = step /\ UNCHANGED <<status, faulted>>

\* A part that is disabled is passed over.
Pass(step) == Goto(step) /\ UNCHANGED memory

-----------------------------------------------------------------------------
(* main *)

Load ==
  /\ pc = "load"
  /\ \/ Valid(cfg) /\ Pass("dirs")
     \/ ~Valid(cfg) /\ Refuse
     \/ Fault
  /\ UNCHANGED <<run, disk, registered>>

\* Mutant: -check is asked for later.
EnsureRuntimeDirs_NoCheck ==
  /\ pc = "dirs"
  /\ \/ dirs' = dirs \cup DirsMade(cfg, 4) /\ Pass("log")
     \/ (\E n \in 0..3 : dirs' = dirs \cup DirsMade(cfg, n)) /\ Fault
  /\ UNCHANGED <<run, migrated, registered>>

\* EnsureRuntimeDirs, which may fail with the first directories made; -check
\* ends the program behind it.
EnsureRuntimeDirs ==
  /\ pc = "dirs"
  /\ \/ /\ dirs' = dirs \cup DirsMade(cfg, 4)
        /\ \/ check /\ End("checked") /\ UNCHANGED faulted
           \/ ~check /\ Pass("log")
     \/ (\E n \in 0..3 : dirs' = dirs \cup DirsMade(cfg, n)) /\ Fault
  /\ UNCHANGED <<run, migrated, registered>>

SetFile ==
  /\ pc = "log"
  /\ dirs' \in {dirs, dirs \cup {"logs"}}
  /\ \/ "logs" \in dirs' /\ Pass("webhook")
     \/ Fault
  /\ UNCHANGED <<run, migrated, registered>>

\* Mutant: an error of setWebhook is logged and the start goes on.
SetWebhook_ErrorLogged ==
  /\ pc = "webhook"
  /\ Pass("sqlite")
  /\ \/ cfg.telegram /\ cfg.webhook /\ registered' = Registration(cfg)
     \/ UNCHANGED registered
  /\ UNCHANGED <<run, disk>>

\* The checks of SetWebhook, which trims what Validate compares with "".
Registrable(c) == c.token # "blank" /\ Spaces \notin {c.publicURL, c.path}

\* SetWebhook: Telegram may register the URL and the response be lost.
SetWebhook ==
  /\ pc = "webhook"
  /\ IF ~(cfg.telegram /\ cfg.webhook) THEN Pass("sqlite") /\ UNCHANGED registered
     ELSE IF ~Registrable(cfg) THEN Refuse /\ UNCHANGED registered
     ELSE \/ registered' = Registration(cfg) /\ (Pass("sqlite") \/ Fault)
          \/ Fault /\ UNCHANGED registered
  /\ UNCHANGED <<run, disk>>

-----------------------------------------------------------------------------
(* NewServer *)

\* sqlite.Open and the first two routes.
OpenSQLite ==
  /\ pc = "sqlite"
  /\ \/ /\ cfg.sqlitePath = "set"
        /\ migrated' = TRUE
        /\ routes' = routes \cup BuiltIn
        /\ Goto("telegram")
        /\ UNCHANGED running
     \/ cfg.sqlitePath # "set" /\ Refuse /\ UNCHANGED migrated
     \/ cfg.sqlitePath = "set" /\ Fault /\ UNCHANGED migrated
  /\ UNCHANGED <<run, dirs, registered>>

\* Goroutines are started and paths mounted; mux.Handle panics when a path
\* has a handler.
Install(parts, paths, step) ==
  \/ /\ paths \cap routes = {}
     /\ running' = running \cup parts
     /\ routes' = routes \cup paths
     /\ Goto(step)
  \/ paths \cap routes # {} /\ Refuse

\* orchestrator.New (NewStore, NewSender; a model client that cannot be made
\* is only warned of, and replaced by one that fails) and the webhook's
\* handler. A path of spaces is no pattern: mux.Handle panics.
InitTelegram ==
  /\ pc = "telegram"
  /\ IF ~(cfg.telegram /\ cfg.path # <<>>) THEN Pass("sandbox")
     ELSE IF cfg.sessionsDir # "set" \/ cfg.token # "set" \/ cfg.path = Spaces
     THEN Refuse
     ELSE Install({}, {cfg.path}, "sandbox")
  /\ UNCHANGED <<run, disk, registered>>

InitSandbox ==
  /\ pc = "sandbox"
  /\ IF ~cfg.sandbox THEN Pass("cron")
     ELSE IF cfg.image # "set" THEN Refuse
     ELSE Install({}, {ToolsRun}, "cron")
  /\ UNCHANGED <<run, disk, registered>>

\* Mutant: a schedule that does not parse is reported and passed over.
InitCron_SkipsBad ==
  /\ pc = "cron"
  /\ IF ~cfg.cron THEN Pass("indexer")
     ELSE IF cfg.sessionsDir # "set" THEN Refuse
     ELSE Install({"cron"}, {}, "indexer") \/ Fault
  /\ UNCHANGED <<run, disk, registered>>

\* NewStore, cron.New and Start; CronScheduler has them in detail.
InitCron ==
  /\ pc = "cron"
  /\ IF ~cfg.cron THEN Pass("indexer")
     ELSE IF cfg.sessionsDir # "set" \/ ~cfg.schedules THEN Refuse
     ELSE Install({"cron"}, {}, "indexer") \/ Fault
  /\ UNCHANGED <<run, disk, registered>>

\* indexer.New, Start and its two routes.
InitIndexer ==
  /\ pc = "indexer"
  /\ IF ~cfg.watch THEN Pass("listen")
     ELSE Install({"indexer"}, IndexRoutes, "listen")
  /\ UNCHANGED <<run, disk, registered>>

\* Mutant: when the address is taken the server is built anew.
Listen_Rebuilds ==
  /\ pc = "listen"
  /\ \/ Pass("serving")
     \/ Goto("sqlite") /\ routes' = {} /\ running' = {}
  /\ UNCHANGED <<run, disk, registered>>

\* ListenAndServe: the address may be taken.
Listen ==
  /\ pc = "listen"
  /\ Pass("serving") \/ Fault
  /\ UNCHANGED <<run, disk, registered>>

Start ==
  \/ Load
  \/ EnsureRuntimeDirs
  \/ SetFile
  \/ SetWebhook
  \/ OpenSQLite
  \/ InitTelegram
  \/ InitSandbox
  \/ InitCron
  \/ InitIndexer
  \/ Listen

Crash ==
  /\ pc # "down"
  /\ End("killed")
  /\ UNCHANGED <<run, disk, registered, faulted>>

\* No start is left.
Quiet == pc = "down" /\ starts = MaxStarts /\ UNCHANGED vars

Next ==
  \/ \E c \in Configs, flag \in BOOLEAN : Launch(c, flag)
  \/ Start
  \/ Crash
  \/ Quiet

\* The steps of a start return: setWebhook has a time limit of 10 s.
Fairness == WF_vars(Start)

Spec == Init /\ [][Next]_vars
FairSpec == Spec /\ Fairness

-----------------------------------------------------------------------------
TypeOK ==
  /\ pc \in StartSteps \cup {"down", "serving"}
  /\ cfg \in Configs
  /\ check \in BOOLEAN
  /\ status \in {"none", "checked", "failed", "killed"}
  /\ dirs \in SUBSET {"workspace", "sessions", "memory", "sqlite", "logs"}
  /\ migrated \in BOOLEAN
  /\ registered \in Webhooks \cup {NoWebhook}
  /\ routes \in SUBSET Seq(Segments)
  /\ running \in SUBSET {"cron", "indexer"}
  /\ faulted \in BOOLEAN
  /\ starts \in 0..MaxStarts

ServingWebhook == pc = "serving" /\ cfg.telegram /\ cfg.webhook

\* A post of Telegram, to the URL and with the secret it has on record, is
\* routed to the webhook's handler and passes its test of the secret.
Reached ==
  /\ registered # NoWebhook
  /\ cfg.path \in routes
  /\ Tail(registered.url) = cfg.path
  /\ cfg.secret \in {"empty", registered.secret}

(* A process that serves with the webhook enabled is reached by Telegram,  *)
(* whatever earlier starts with other configurations, secrets and failures *)
(* left on record there, exactly when public_url has no path of its own    *)
(* and the secret is not made of spaces.                                   *)
PostsReachHandler ==
  ServingWebhook => (Reached <=> Len(cfg.publicURL) = 1 /\ cfg.secret # "blank")

\* What a configuration has to have for the program to start with it.
Startable(c) ==
  /\ Valid(c)
  /\ c.sqlitePath = "set"
  /\ c.telegram /\ c.webhook => c.publicURL # Spaces
  /\ c.telegram /\ c.path # <<>> =>
       /\ c.token = "set"
       /\ c.sessionsDir = "set"
       /\ c.path # Spaces
       /\ c.path \notin BuiltIn
       /\ c.sandbox => c.path # ToolsRun
       /\ c.watch => c.path \notin IndexRoutes
  /\ c.sandbox => c.image = "set"
  /\ c.cron => c.sessionsDir = "set" /\ c.schedules

(* The program comes to serve only what is Startable, and a start of what  *)
(* is Startable ends only because something around it failed: what one     *)
(* step lets pass (Validate a blank text) a later one refuses, before      *)
(* anything is served. The model's settings are not part of it: a client   *)
(* that cannot be made is warned of, and the program serves.               *)
OnlyStartableServes ==
  /\ pc = "serving" => Startable(cfg)
  /\ status = "failed" /\ ~faulted => ~Startable(cfg)

(* The gate runs -check with made-up tokens, beside a deployment: it makes *)
(* directories, and neither changes the webhook on record nor opens the    *)
(* database nor starts a part. Nor does a configuration that Validate      *)
(* refuses; one that a later part refuses, for a schedule, an image or a   *)
(* route, has registered its webhook and made the tables by then.          *)
CheckOnlyMakesDirs ==
  [][check \/ ~Valid(cfg) =>
       UNCHANGED <<migrated, registered>> /\ routes' = {} /\ running' = {}]_vars

(* Every start comes to serve or to an end.                                *)
StartsEnd == pc \in StartSteps ~> pc \in {"serving", "down"}

(* README.md lists POST /telegram-webhook among the endpoints: with the    *)
(* webhook enabled, what Telegram posts gets there.                        *)
WebhookWorks == ServingWebhook => Reached
=============================================================================
