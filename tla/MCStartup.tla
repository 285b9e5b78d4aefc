------------------------------- MODULE MCStartup -------------------------------
(* The configuration of config/mouse.yaml with a public_url without a path, *)
(* and what an edit or a missing environment variable makes of it.          *)
EXTENDS Startup

Working ==
  [basics |-> TRUE, telegram |-> TRUE, webhook |-> TRUE, token |-> "set",
   allow |-> TRUE, publicURL |-> <<"host">>, path |-> <<"telegram-webhook">>,
   secret |-> "s1", sessionsDir |-> "set", sqlitePath |-> "set",
   sandbox |-> TRUE, image |-> "set", cron |-> TRUE, schedules |-> TRUE,
   watch |-> TRUE]

\* config/mouse.yaml as it is.
Yaml == [Working EXCEPT !.publicURL = <<"host", "telegram-webhook">>]

MCConfigs ==
  {Working,
   Yaml,
   [Working EXCEPT !.secret = "s2"],
   [Working EXCEPT !.secret = "blank"],
   [Working EXCEPT !.secret = "empty", !.publicURL = <<"host2">>],
   [Working EXCEPT !.token = "empty"],
   [Working EXCEPT !.token = "blank"],
   [Working EXCEPT !.publicURL = Spaces],
   [Working EXCEPT !.publicURL = Spaces, !.webhook = FALSE],
   [Working EXCEPT !.path = Spaces],
   [Working EXCEPT !.path = Spaces, !.webhook = FALSE],
   [Working EXCEPT !.path = <<"tools", "run">>],
   [Working EXCEPT !.path = <<"health">>],
   [Working EXCEPT !.webhook = FALSE, !.path = <<"index", "search">>],
   [Working EXCEPT !.telegram = FALSE, !.sessionsDir = "blank"],
   [Working EXCEPT !.telegram = FALSE, !.cron = FALSE, !.sandbox = FALSE,
                   !.watch = FALSE, !.sessionsDir = "empty"],
   [Working EXCEPT !.schedules = FALSE],
   [Working EXCEPT !.sqlitePath = "empty"],
   [Working EXCEPT !.image = "blank"],
   [Working EXCEPT !.basics = FALSE]}

MCYaml == {Yaml}

MCSegments == {" ", "host", "host2", "telegram-webhook", "tools", "run", "health",
               "approvals", "submit", "index", "search", "reindex"}
=============================================================================
