----------------------------- MODULE StartupProofs -----------------------------
(***************************************************************************)
(* What a start of mouse comes to, for every set of configurations and     *)
(* every number of starts: it serves what is Startable, with a webhook     *)
(* that reaches it, and fails of itself with what is not.                  *)
(***************************************************************************)
EXTENDS Startup, SequenceTheorems, TLAPS

\* The steps behind a step, and the state they lead to.
PastListen == {"serving"}
PastIndexer == PastListen \cup {"listen"}
PastCron == PastIndexer \cup {"indexer"}
PastSandbox == PastCron \cup {"cron"}
PastTelegram == PastSandbox \cup {"sandbox"}
PastSQLite == PastTelegram \cup {"telegram"}
PastWebhook == PastSQLite \cup {"sqlite"}
PastLog == PastWebhook \cup {"webhook"}
PastDirs == PastLog \cup {"log"}
PastLoad == PastDirs \cup {"dirs"}

HasHandler(c) == c.telegram /\ c.path # <<>>

\* The routes of the parts in the order in which they are mounted.
WebhookRoute(c) == IF HasHandler(c) THEN {c.path} ELSE {}
ToolsRoute(c) == IF c.sandbox THEN {ToolsRun} ELSE {}

RoutesOK ==
  /\ pc = "sqlite" => routes = {}
  /\ pc = "telegram" => routes = BuiltIn
  /\ pc = "sandbox" => routes = BuiltIn \cup WebhookRoute(cfg)
  /\ pc \in {"cron", "indexer"} =>
       routes = BuiltIn \cup WebhookRoute(cfg) \cup ToolsRoute(cfg)
  /\ pc \in PastTelegram => WebhookRoute(cfg) \subseteq routes
  /\ pc \notin PastSQLite => routes = {} /\ running = {}
  /\ pc \in PastSQLite => pc \in PastCron \/ running = {}

\* What a start has found out about its configuration on the way.
PassedOK ==
  /\ pc \in PastLoad => Valid(cfg)
  /\ pc \in PastDirs => ~check
  /\ pc \in PastWebhook /\ cfg.telegram /\ cfg.webhook =>
       registered = Registration(cfg) /\ cfg.publicURL # Spaces
  /\ pc \in PastSQLite => cfg.sqlitePath = "set"
  /\ pc \in PastTelegram /\ HasHandler(cfg) =>
       /\ cfg.token = "set" /\ cfg.sessionsDir = "set"
       /\ cfg.path # Spaces /\ cfg.path \notin BuiltIn
  /\ pc \in PastSandbox /\ cfg.sandbox =>
       cfg.image = "set" /\ (HasHandler(cfg) => cfg.path # ToolsRun)
  /\ pc \in PastCron /\ cfg.cron => cfg.sessionsDir = "set" /\ cfg.schedules
  /\ pc \in PastIndexer /\ cfg.watch /\ HasHandler(cfg) =>
       cfg.path \notin IndexRoutes

FailedOK == status = "failed" /\ ~faulted => ~Startable(cfg)

TypesOK ==
  /\ cfg \in Configs
  /\ pc \in PastLoad \cup {"load", "down"}

\* The inductive invariant.
IInv == TypesOK /\ RoutesOK /\ PassedOK /\ FailedOK

USE DEF PastListen, PastIndexer, PastCron, PastSandbox, PastTelegram,
        PastSQLite, PastWebhook, PastLog, PastDirs, PastLoad

-----------------------------------------------------------------------------
(* The routes of the other parts are none of each other's. *)
LEMMA RoutesDiffer ==
  /\ ToolsRun \notin BuiltIn
  /\ ToolsRun \notin IndexRoutes
  /\ BuiltIn \cap IndexRoutes = {}
  <1>1. /\ <<"tools", "run">> # <<"health">>
        /\ <<"tools", "run">> # <<"approvals", "submit">>
        /\ <<"tools", "run">> # <<"index", "search">>
        /\ <<"tools", "run">> # <<"index", "reindex">>
        /\ <<"health">> # <<"index", "search">>
        /\ <<"health">> # <<"index", "reindex">>
        /\ <<"approvals", "submit">> # <<"index", "search">>
        /\ <<"approvals", "submit">> # <<"index", "reindex">>
    OBVIOUS
  <1> QED
    BY <1>1 DEF ToolsRun, BuiltIn, IndexRoutes

(* A start that ends leaves nothing to show but a refused configuration. *)
LEMMA EndStep ==
  ASSUME IInv, NEW how, End(how), UNCHANGED cfg,
         how = "failed" /\ ~faulted' => ~Startable(cfg)
  PROVE  IInv'
  BY DEF IInv, TypesOK, RoutesOK, PassedOK, FailedOK, End, Startable,
         HasHandler, Valid

LEMMA LaunchStep ==
  ASSUME IInv, NEW c \in Configs, NEW flag \in BOOLEAN, Launch(c, flag)
  PROVE  IInv'
  BY DEF IInv, TypesOK, RoutesOK, PassedOK, FailedOK, Launch, memory

LEMMA LoadStep ==
  ASSUME IInv, Load
  PROVE  IInv'
  <1>1. CASE Valid(cfg) /\ Pass("dirs")
    BY <1>1 DEF IInv, TypesOK, RoutesOK, PassedOK, FailedOK, Load, Pass, Goto,
                run, memory, Startable, Valid
  <1>2. CASE ~Valid(cfg) /\ Refuse
    BY <1>2, EndStep DEF Load, Refuse, run, Startable
  <1>3. CASE Fault
    BY <1>3, EndStep DEF Load, Fault, run
  <1> QED
    BY <1>1, <1>2, <1>3 DEF Load

LEMMA DirsStep ==
  ASSUME IInv, EnsureRuntimeDirs
  PROVE  IInv'
  <1>1. CASE ~check /\ Pass("log")
    BY <1>1 DEF IInv, TypesOK, RoutesOK, PassedOK, FailedOK, EnsureRuntimeDirs,
                Pass, Goto, run, memory, Startable, Valid
  <1>2. CASE End("checked")
    BY <1>2, EndStep DEF EnsureRuntimeDirs, run
  <1>3. CASE Fault
    BY <1>3, EndStep DEF EnsureRuntimeDirs, Fault, run
  <1> QED
    BY <1>1, <1>2, <1>3 DEF EnsureRuntimeDirs

LEMMA LogStep ==
  ASSUME IInv, SetFile
  PROVE  IInv'
  <1>1. CASE Pass("webhook")
    BY <1>1 DEF IInv, TypesOK, RoutesOK, PassedOK, FailedOK, SetFile,
                Pass, Goto, run, memory, Startable, Valid
  <1>2. CASE Fault
    BY <1>2, EndStep DEF SetFile, Fault, run
  <1> QED
    BY <1>1, <1>2 DEF SetFile

LEMMA WebhookStep ==
  ASSUME IInv, SetWebhook
  PROVE  IInv'
  <1>0. pc = "webhook" /\ UNCHANGED run
    BY DEF SetWebhook
  <1>1. CASE /\ Pass("sqlite")
             /\ cfg.telegram /\ cfg.webhook =>
                  registered' = Registration(cfg) /\ cfg.publicURL # Spaces
    <2>1. pc' = "sqlite" /\ UNCHANGED <<status, faulted, routes, running, cfg, check>>
      BY <1>0, <1>1 DEF Pass, Goto, run, memory
    <2>2. Registration(cfg)' = Registration(cfg)
      BY <2>1 DEF Registration
    <2>3. RoutesOK' /\ TypesOK'
      BY <1>0, <2>1 DEF IInv, TypesOK, RoutesOK
    <2>4. PassedOK'
      BY <1>0, <1>1, <2>1, <2>2 DEF IInv, PassedOK, Valid
    <2>5. FailedOK'
      BY <2>1 DEF IInv, FailedOK, Startable, Valid
    <2> QED
      BY <2>3, <2>4, <2>5 DEF IInv
  <1>2. CASE Refuse /\ cfg.telegram /\ cfg.webhook /\ ~Registrable(cfg)
    <2>1. ~Startable(cfg)
      BY <1>0, <1>2 DEF IInv, PassedOK, Startable, Valid, Registrable
    <2> QED
      BY <1>0, <1>2, <2>1, EndStep DEF Refuse, run
  <1>3. CASE Fault
    BY <1>0, <1>3, EndStep DEF Fault, run
  <1> QED
    BY <1>1, <1>2, <1>3 DEF SetWebhook, Registrable

LEMMA SQLiteStep ==
  ASSUME IInv, OpenSQLite
  PROVE  IInv'
  <1>1. CASE /\ cfg.sqlitePath = "set"
             /\ routes' = routes \cup BuiltIn
             /\ Goto("telegram")
             /\ UNCHANGED running
    BY <1>1 DEF IInv, TypesOK, RoutesOK, PassedOK, FailedOK, OpenSQLite,
                Goto, run, Startable, Valid, Registration
  <1>2. CASE cfg.sqlitePath # "set" /\ Refuse
    BY <1>2, EndStep DEF OpenSQLite, Refuse, run, Startable
  <1>3. CASE Fault
    BY <1>3, EndStep DEF OpenSQLite, Fault, run
  <1> QED
    BY <1>1, <1>2, <1>3 DEF OpenSQLite

LEMMA TelegramStep ==
  ASSUME IInv, InitTelegram
  PROVE  IInv'
  <1>0. pc = "telegram" /\ UNCHANGED <<run, registered>>
    BY DEF InitTelegram
  <1>1. CASE ~HasHandler(cfg) /\ Pass("sandbox")
    BY <1>0, <1>1 DEF IInv, TypesOK, RoutesOK, PassedOK, FailedOK, Pass, Goto,
       run, memory, Startable, Valid, Registration, HasHandler, WebhookRoute
  <1>2. CASE /\ HasHandler(cfg)
             /\ cfg.sessionsDir = "set" /\ cfg.token = "set" /\ cfg.path # Spaces
             /\ {cfg.path} \cap routes = {}
             /\ running' = running /\ routes' = routes \cup {cfg.path}
             /\ Goto("sandbox")
    BY <1>0, <1>2 DEF IInv, TypesOK, RoutesOK, PassedOK, FailedOK, Goto,
       run, Startable, Valid, Registration, HasHandler, WebhookRoute
  <1>3. CASE /\ HasHandler(cfg) /\ Refuse
             /\ \/ cfg.sessionsDir # "set" \/ cfg.token # "set" \/ cfg.path = Spaces
                \/ {cfg.path} \cap routes # {}
    <2>1. ~Startable(cfg)
      BY <1>0, <1>3 DEF IInv, RoutesOK, Startable, HasHandler
    <2> QED
      BY <1>0, <1>3, <2>1, EndStep DEF Refuse, run
  <1> QED
    BY <1>1, <1>2, <1>3 DEF InitTelegram, Install, HasHandler

LEMMA SandboxStep ==
  ASSUME IInv, InitSandbox
  PROVE  IInv'
  <1>0. pc = "sandbox" /\ UNCHANGED <<run, registered>>
    BY DEF InitSandbox
  <1>1. CASE ~cfg.sandbox /\ Pass("cron")
    BY <1>0, <1>1 DEF IInv, TypesOK, RoutesOK, PassedOK, FailedOK, Pass, Goto,
       run, memory, Startable, Valid, Registration, HasHandler, WebhookRoute,
       ToolsRoute
  <1>2. CASE /\ cfg.sandbox /\ cfg.image = "set"
             /\ {ToolsRun} \cap routes = {}
             /\ running' = running /\ routes' = routes \cup {ToolsRun}
             /\ Goto("cron")
    BY <1>0, <1>2 DEF IInv, TypesOK, RoutesOK, PassedOK, FailedOK, Goto,
       run, Startable, Valid, Registration, HasHandler, WebhookRoute, ToolsRoute
  <1>3. CASE /\ cfg.sandbox /\ Refuse
             /\ cfg.image # "set" \/ {ToolsRun} \cap routes # {}
    <2>1. ~Startable(cfg)
      BY <1>0, <1>3, RoutesDiffer
      DEF IInv, RoutesOK, Startable, HasHandler, WebhookRoute
    <2> QED
      BY <1>0, <1>3, <2>1, EndStep DEF Refuse, run
  <1> QED
    BY <1>1, <1>2, <1>3 DEF InitSandbox, Install

LEMMA CronStep ==
  ASSUME IInv, InitCron
  PROVE  IInv'
  <1>0. pc = "cron" /\ UNCHANGED <<run, registered>>
    BY DEF InitCron
  <1>1. CASE ~cfg.cron /\ Pass("indexer")
    BY <1>0, <1>1 DEF IInv, TypesOK, RoutesOK, PassedOK, FailedOK, Pass, Goto,
       run, memory, Startable, Valid, Registration, HasHandler, WebhookRoute,
       ToolsRoute
  <1>2. CASE /\ cfg.cron /\ cfg.sessionsDir = "set" /\ cfg.schedules
             /\ routes' = routes
             /\ Goto("indexer")
    BY <1>0, <1>2 DEF IInv, TypesOK, RoutesOK, PassedOK, FailedOK, Goto,
       run, Startable, Valid, Registration, HasHandler, WebhookRoute, ToolsRoute
  <1>3. CASE /\ cfg.cron /\ Refuse
             /\ cfg.sessionsDir # "set" \/ ~cfg.schedules
    BY <1>0, <1>3, EndStep DEF Refuse, run, Startable
  <1>4. CASE Fault
    BY <1>0, <1>4, EndStep DEF Fault, run
  <1> QED
    BY <1>1, <1>2, <1>3, <1>4 DEF InitCron, Install, Refuse

LEMMA IndexerStep ==
  ASSUME IInv, InitIndexer
  PROVE  IInv'
  <1>0. pc = "indexer" /\ UNCHANGED <<run, registered>>
    BY DEF InitIndexer
  <1>1. CASE ~cfg.watch /\ Pass("listen")
    BY <1>0, <1>1 DEF IInv, TypesOK, RoutesOK, PassedOK, FailedOK, Pass, Goto,
       run, memory, Startable, Valid, Registration, HasHandler, WebhookRoute,
       ToolsRoute
  <1>2. CASE /\ cfg.watch
             /\ IndexRoutes \cap routes = {}
             /\ routes' = routes \cup IndexRoutes
             /\ Goto("listen")
    BY <1>0, <1>2 DEF IInv, TypesOK, RoutesOK, PassedOK, FailedOK, Goto,
       run, Startable, Valid, Registration, HasHandler, WebhookRoute, ToolsRoute
  <1>3. CASE cfg.watch /\ Refuse /\ IndexRoutes \cap routes # {}
    <2>1. ~Startable(cfg)
      BY <1>0, <1>3, RoutesDiffer
      DEF IInv, RoutesOK, Startable, HasHandler, WebhookRoute, ToolsRoute
    <2> QED
      BY <1>0, <1>3, <2>1, EndStep DEF Refuse, run
  <1> QED
    BY <1>1, <1>2, <1>3 DEF InitIndexer, Install

LEMMA ListenStep ==
  ASSUME IInv, Listen
  PROVE  IInv'
  <1>1. CASE Pass("serving")
    BY <1>1 DEF IInv, TypesOK, RoutesOK, PassedOK, FailedOK, Listen, Pass, Goto,
       run, memory, Startable, Valid, Registration, HasHandler, WebhookRoute
  <1>2. CASE Fault
    BY <1>2, EndStep DEF Listen, Fault, run
  <1> QED
    BY <1>1, <1>2 DEF Listen

LEMMA NextInv == IInv /\ [Next]_vars => IInv'
  <1> SUFFICES ASSUME IInv, [Next]_vars PROVE IInv'
    OBVIOUS
  <1>1. CASE \E c \in Configs, flag \in BOOLEAN : Launch(c, flag)
    BY <1>1, LaunchStep
  <1>2. CASE Start
    BY <1>2, LoadStep, DirsStep, LogStep, WebhookStep, SQLiteStep,
       TelegramStep, SandboxStep, CronStep, IndexerStep, ListenStep DEF Start
  <1>3. CASE Crash
    BY <1>3, EndStep DEF Crash, run
  <1>4. CASE UNCHANGED vars
    <2>1. /\ pc' = pc /\ cfg' = cfg /\ check' = check /\ status' = status
          /\ registered' = registered /\ routes' = routes
          /\ running' = running /\ faulted' = faulted
      BY <1>4 DEF vars
    <2>2. TypesOK' /\ RoutesOK'
      BY <2>1 DEF IInv, TypesOK, RoutesOK, WebhookRoute, ToolsRoute, HasHandler
    <2>3. PassedOK'
      BY <2>1 DEF IInv, PassedOK, Valid, Registration, HasHandler
    <2>4. FailedOK'
      BY <2>1 DEF IInv, FailedOK, Startable, Valid
    <2> QED
      BY <2>2, <2>3, <2>4 DEF IInv
  <1> QED
    BY <1>1, <1>2, <1>3, <1>4 DEF Next, Quiet

LEMMA InitInv == Init => IInv
  BY DEF Init, IInv, TypesOK, RoutesOK, PassedOK, FailedOK

(* The inductive invariant holds of every start.                           *)
THEOREM Invariance == Spec => []IInv
  BY InitInv, NextInv, PTL DEF Spec

(* Only what is Startable serves, and what is Startable fails only for     *)
(* something around it: Startable is what Validate and the parts ask of a  *)
(* configuration, blank texts included, and nothing else decides.          *)
THEOREM StartableServes == Spec => []OnlyStartableServes
  <1>1. ASSUME IInv, pc = "serving" PROVE Startable(cfg)
    <2>1. PassedOK
      BY <1>1 DEF IInv
    <2>2. Valid(cfg) /\ cfg.sqlitePath = "set"
      BY <1>1, <2>1 DEF PassedOK
    <2>3. ASSUME HasHandler(cfg)
          PROVE  /\ cfg.token = "set" /\ cfg.sessionsDir = "set"
                 /\ cfg.path # Spaces /\ cfg.path \notin BuiltIn
                 /\ cfg.sandbox => cfg.path # ToolsRun
                 /\ cfg.watch => cfg.path \notin IndexRoutes
      BY <1>1, <2>1, <2>3 DEF PassedOK
    <2>4. /\ cfg.sandbox => cfg.image = "set"
          /\ cfg.cron => cfg.sessionsDir = "set" /\ cfg.schedules
          /\ cfg.telegram /\ cfg.webhook => cfg.publicURL # Spaces
      BY <1>1, <2>1 DEF PassedOK
    <2> QED
      BY <2>2, <2>3, <2>4 DEF Startable, HasHandler
  <1>2. ASSUME IInv PROVE FailedOK
    BY <1>2 DEF IInv
  <1>3. IInv => OnlyStartableServes
    BY <1>1, <1>2 DEF FailedOK, OnlyStartableServes
  <1> QED
    BY <1>3, Invariance, PTL

(* A run with -check, or of a configuration that Validate refuses, touches *)
(* neither the webhook on record nor the database, and starts no part.     *)
THEOREM ChecksAreHarmless == Spec => CheckOnlyMakesDirs
  <1> DEFINE Harmless == /\ UNCHANGED <<migrated, registered>>
                         /\ routes' = {} /\ running' = {}
  <1>1. ASSUME IInv, Next, check \/ ~Valid(cfg) PROVE Harmless
    <2>1. pc \in {"load", "dirs", "down"}
      BY <1>1 DEF IInv, TypesOK, PassedOK
    <2>2. routes = {} /\ running = {}
      BY <1>1, <2>1 DEF IInv, RoutesOK
    <2>3. CASE \E c \in Configs, flag \in BOOLEAN : Launch(c, flag)
      BY <2>2, <2>3 DEF Launch, disk, memory
    <2>4. CASE Load
      BY <2>2, <2>4 DEF Load, Pass, Refuse, Fault, End, disk, memory
    <2>5. CASE EnsureRuntimeDirs
      BY <2>2, <2>5 DEF EnsureRuntimeDirs, Pass, Fault, End, memory
    <2>6. CASE Crash
      BY <2>6 DEF Crash, End, disk
    <2>7. CASE Quiet
      BY <2>2, <2>7 DEF Quiet, vars
    <2>8. Start => Load \/ EnsureRuntimeDirs
      BY <2>1 DEF Start, SetFile, SetWebhook, OpenSQLite, InitTelegram,
                  InitSandbox, InitCron, InitIndexer, Listen
    <2> QED
      BY <1>1, <2>3, <2>4, <2>5, <2>6, <2>7, <2>8 DEF Next
  <1>2. IInv /\ [Next]_vars => [check \/ ~Valid(cfg) => Harmless]_vars
    BY <1>1
  <1> QED
    BY <1>2, Invariance, PTL DEF Spec, CheckOnlyMakesDirs

(* A URL without its host is its path, and no longer path is the path.     *)
LEMMA PathOfURL ==
  ASSUME NEW u \in Seq(Segments), NEW p \in Seq(Segments), u # <<>>
  PROVE  Tail(u \o p) = p <=> Len(u) = 1
  <1>1. /\ u \o p \in Seq(Segments)
        /\ Len(u \o p) = Len(u) + Len(p)
        /\ Len(u) \in Nat /\ Len(p) \in Nat /\ Len(u) > 0
    OBVIOUS
  <1>2. u \o p # <<>>
    BY <1>1
  <1>3. /\ Tail(u \o p) \in Seq(Segments)
        /\ Len(Tail(u \o p)) = Len(u) + Len(p) - 1
    BY <1>1, <1>2
  <1>4. ASSUME Len(u) = 1 PROVE Tail(u \o p) = p
    <2>1. \A i \in 1..Len(p) : Tail(u \o p)[i] = p[i]
      BY <1>1, <1>2, <1>4
    <2> QED
      BY <1>1, <1>3, <1>4, <2>1
  <1>5. ASSUME Tail(u \o p) = p PROVE Len(u) = 1
    <2>1. \A a, b \in Nat : a + b - 1 = b => a = 1
      OBVIOUS
    <2>2. Len(u) + Len(p) - 1 = Len(p)
      BY <1>3, <1>5
    <2>3. Len(u) \in Nat /\ Len(p) \in Nat
      BY <1>1
    <2> QED
      BY <2>1, <2>2, <2>3
  <1> QED
    BY <1>4, <1>5

(* A process that serves with the webhook enabled is reached by Telegram   *)
(* exactly when public_url has no path and the secret is not of spaces.    *)
THEOREM TelegramReaches == Spec => []PostsReachHandler
  <1>1. ASSUME IInv, ServingWebhook
        PROVE  Reached <=> Len(cfg.publicURL) = 1 /\ cfg.secret # "blank"
    <2>1. /\ cfg \in Config
          /\ Valid(cfg)
          /\ registered = Registration(cfg)
          /\ cfg.path \in routes
      BY <1>1, StartupAssumption
      DEF IInv, TypesOK, RoutesOK, PassedOK, ServingWebhook, WebhookRoute,
          HasHandler, Valid
    <2>2. /\ cfg.publicURL \in Seq(Segments) /\ cfg.publicURL # <<>>
          /\ cfg.path \in Seq(Segments)
          /\ registered.url = cfg.publicURL \o cfg.path
      BY <1>1, <2>1 DEF Config, Valid, ServingWebhook, Registration
    <2>3. Tail(registered.url) = cfg.path <=> Len(cfg.publicURL) = 1
      BY <2>2, PathOfURL
    <2>4. cfg.secret \in {"empty", registered.secret} <=> cfg.secret # "blank"
      BY <2>1 DEF Registration
    <2>5. registered # NoWebhook
      <3>1. registered.url \in Seq(Segments)
        BY <2>2
      <3>2. Registration(cfg) \in Webhooks
        BY <2>1, <2>2, <3>1 DEF Registration, Webhooks, Config
      <3> QED
        BY <2>1, <3>2, StartupAssumption
    <2> QED
      BY <2>1, <2>3, <2>4, <2>5 DEF Reached
  <1> QED
    BY <1>1, Invariance, PTL DEF PostsReachHandler

(* Each step of a start keeps the types of the variables it assigns.       *)
LEMMA TypeStep ==
  ASSUME TypeOK, [Next]_vars
  PROVE  TypeOK'
  <1>. USE DEF TypeOK, StartSteps, run, disk, memory
  <1>1. cfg \in Config
    BY StartupAssumption
  <1>2. ASSUME NEW how \in {"checked", "failed", "killed"}, End(how),
               cfg' = cfg, check' = check, starts' = starts,
               dirs' \in SUBSET {"workspace", "sessions", "memory", "sqlite", "logs"},
               migrated' \in BOOLEAN, registered' \in Webhooks \cup {NoWebhook},
               faulted' \in BOOLEAN
        PROVE  TypeOK'
    BY <1>2 DEF End
  <1>3. \A n \in 0..4 :
          DirsMade(cfg, n) \subseteq {"workspace", "sessions", "memory", "sqlite"}
    <2>1. \A i \in 1..4 : RuntimeDirs[i] \in {"workspace", "sessions", "memory", "sqlite"}
      BY DEF RuntimeDirs
    <2>. QED  BY <2>1 DEF DirsMade
  <1>4. ASSUME NEW how, NEW step \in StartSteps,
               End(how) \/ Pass(step), how \in {"checked", "failed"},
               cfg' = cfg, check' = check, starts' = starts,
               dirs' \in SUBSET {"workspace", "sessions", "memory", "sqlite", "logs"},
               migrated' \in BOOLEAN, registered' \in Webhooks \cup {NoWebhook},
               faulted' \in BOOLEAN
        PROVE  TypeOK'
    BY <1>4 DEF End, Pass, Goto
  <1>5. CASE \E c \in Configs, flag \in BOOLEAN : Launch(c, flag)
    <2>1. starts' \in 0..MaxStarts
      <3>1. MaxStarts \in Nat
        BY StartupAssumption
      <3>. QED  BY <1>5, <3>1 DEF Launch
    <2>. QED  BY <1>5, <2>1 DEF Launch
  <1>6. CASE Load
    BY <1>4, <1>6 DEF Load, Pass, Goto, Refuse, Fault
  <1>7. CASE EnsureRuntimeDirs
    <2>1. PICK n \in 0..4 : dirs' = dirs \cup DirsMade(cfg, n)
      BY <1>7 DEF EnsureRuntimeDirs
    <2>2. dirs' \in SUBSET {"workspace", "sessions", "memory", "sqlite", "logs"}
      BY <2>1, <1>3
    <2>3. /\ UNCHANGED <<run, migrated, registered>> /\ faulted' \in BOOLEAN
          /\ End("checked") \/ Pass("log") \/ End("failed")
      BY <1>7 DEF EnsureRuntimeDirs, Pass, Goto, Fault
    <2>4. CASE End("checked")
      BY <1>2, <2>2, <2>3, <2>4
    <2>5. CASE Pass("log") \/ End("failed")
      BY <1>4, <2>2, <2>3, <2>5
    <2>. QED  BY <2>3, <2>4, <2>5
  <1>8. CASE SetFile
    BY <1>4, <1>8 DEF SetFile, Pass, Goto, Fault
  <1>9. CASE SetWebhook
    <2>1. Registration(cfg) \in Webhooks
      BY <1>1 DEF Registration, Webhooks, Config
    <2>. QED  BY <1>4, <1>9, <2>1 DEF SetWebhook, Pass, Goto, Refuse, Fault
  <1>10. /\ {ToolsRun, <<"health">>, <<"approvals", "submit">>} \subseteq Seq(Segments)
         /\ BuiltIn \subseteq Seq(Segments) /\ IndexRoutes \subseteq Seq(Segments)
         /\ cfg.path \in Seq(Segments)
    <2>1. /\ "health" \in Segments /\ "approvals" \in Segments /\ "submit" \in Segments
          /\ "tools" \in Segments /\ "run" \in Segments /\ "index" \in Segments
          /\ "search" \in Segments /\ "reindex" \in Segments
      BY StartupAssumption
    <2>. QED  BY <1>1, <2>1 DEF ToolsRun, BuiltIn, IndexRoutes, Config
  <1>11. CASE OpenSQLite
    BY <1>2, <1>10, <1>11 DEF OpenSQLite, Goto, Refuse, Fault
  <1>12. ASSUME NEW parts \in SUBSET {"cron", "indexer"}, NEW paths \in SUBSET Seq(Segments),
                NEW step \in {"sandbox", "cron", "indexer", "listen"},
                \/ Pass(step) \/ Refuse \/ Fault \/ Install(parts, paths, step),
                UNCHANGED <<run, disk, registered>>
         PROVE  TypeOK'
    BY <1>2, <1>12 DEF Pass, Refuse, Fault, Install, Goto
  <1>13. CASE InitTelegram
    BY <1>10, <1>12, <1>13 DEF InitTelegram
  <1>14. CASE InitSandbox
    BY <1>10, <1>12, <1>14 DEF InitSandbox
  <1>15. CASE InitCron
    BY <1>10, <1>12, <1>15 DEF InitCron
  <1>16. CASE InitIndexer
    BY <1>10, <1>12, <1>16 DEF InitIndexer
  <1>17. CASE Listen
    BY <1>2, <1>17 DEF Listen, Pass, Goto, Fault
  <1>18. CASE Crash
    BY <1>2, <1>18 DEF Crash
  <1>19. CASE UNCHANGED vars
    BY <1>19 DEF vars
  <1>. QED  BY <1>5, <1>6, <1>7, <1>8, <1>9, <1>11, <1>13, <1>14, <1>15, <1>16,
               <1>17, <1>18, <1>19 DEF Next, Start, Quiet

(* Type correctness of a start.                                            *)
THEOREM TypeCorrect == Spec => []TypeOK
  <1>1. Init => TypeOK
    <2>. SUFFICES ASSUME Init PROVE TypeOK
      OBVIOUS
    <2>1. MaxStarts \in Nat
      BY StartupAssumption
    <2>2. registered \in Webhooks \cup {NoWebhook} /\ routes \in SUBSET Seq(Segments)
      BY DEF Init
    <2>3. 0 \in 0..MaxStarts
      BY <2>1
    <2>. QED  BY <2>2, <2>3 DEF Init, TypeOK
  <1>. QED  BY <1>1, TypeStep, PTL DEF Spec

-----------------------------------------------------------------------------
(* What of StartsEnd is safety. *)

\* The number of steps that a start may still take.
StepsLeft ==
  [p \in StartSteps \cup {"down", "serving"} |->
     CASE p = "load" -> 10
       [] p = "dirs" -> 9
       [] p = "log" -> 8
       [] p = "webhook" -> 7
       [] p = "sqlite" -> 6
       [] p = "telegram" -> 5
       [] p = "sandbox" -> 4
       [] p = "cron" -> 3
       [] p = "indexer" -> 2
       [] p = "listen" -> 1
       [] OTHER -> 0]

(* Every step of main and NewServer brings the start nearer to its end, so *)
(* that no call is made twice; and a process that serves, or has ended,    *)
(* takes none.                                                             *)
THEOREM StartsAreFinite ==
  Spec => [][/\ Start => StepsLeft[pc'] < StepsLeft[pc]
             /\ StepsLeft[pc] = 0 => pc' \in {pc, "down", "load"}]_vars
  <1>1. ASSUME TypeOK, Start
        PROVE  StepsLeft[pc'] < StepsLeft[pc]
    <2>. USE DEF StepsLeft, StartSteps, Pass, Goto, Refuse, Fault, End, Install
    <2>1. CASE Load
      BY <2>1 DEF Load
    <2>2. CASE EnsureRuntimeDirs
      BY <2>2 DEF EnsureRuntimeDirs
    <2>3. CASE SetFile
      BY <2>3 DEF SetFile
    <2>4. CASE SetWebhook
      BY <2>4 DEF SetWebhook
    <2>5. CASE OpenSQLite
      BY <2>5 DEF OpenSQLite
    <2>6. CASE InitTelegram
      BY <2>6 DEF InitTelegram
    <2>7. CASE InitSandbox
      BY <2>7 DEF InitSandbox
    <2>8. CASE InitCron
      BY <2>8 DEF InitCron
    <2>9. CASE InitIndexer
      BY <2>9 DEF InitIndexer
    <2>10. CASE Listen
      BY <2>10 DEF Listen
    <2>. QED  BY <1>1, <2>1, <2>2, <2>3, <2>4, <2>5, <2>6, <2>7, <2>8, <2>9, <2>10 DEF Start
  <1>2. ASSUME TypeOK, [Next]_vars, StepsLeft[pc] = 0
        PROVE  pc' \in {pc, "down", "load"}
    <2>1. pc \in {"down", "serving"}
      BY <1>2 DEF TypeOK, StartSteps, StepsLeft
    <2>2. ~Start
      BY <2>1 DEF Start, Load, EnsureRuntimeDirs, SetFile, SetWebhook, OpenSQLite,
         InitTelegram, InitSandbox, InitCron, InitIndexer, Listen
    <2>. QED  BY <1>2, <2>2 DEF Next, Launch, Crash, End, Quiet, vars
  <1>3. TypeOK /\ [Next]_vars =>
          [/\ Start => StepsLeft[pc'] < StepsLeft[pc]
           /\ StepsLeft[pc] = 0 => pc' \in {pc, "down", "load"}]_vars
    BY <1>1, <1>2
  <1>. QED  BY <1>3, TypeCorrect, PTL DEF Spec
=============================================================================
