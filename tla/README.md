# Verification of mouse

mouse is a personal agent runtime in Go: a gateway receives Telegram updates,
an orchestrator stores the conversation, asks a language model and replies, a
scheduler runs jobs at set times of day, and an indexer keeps a search index
of the Markdown files. This directory holds TLA+ modules that model it, TLC
configurations that check them on small instances, and proofs checked by
TLAPS. `PROJECT.json` maps every definition to the lines it models.

    cd tla
    tlc -workers 2 -config Cron.cfg MCCronScheduler.tla    # a run
    tlapm ConversationProofs.tla                            # the proofs

## 1. The system

| component | code | state | operations | models |
|---|---|---|---|---|
| Webhook receiver | `internal/telegram/telegram.go`, `allow.go` | none of its own | `ServeHTTP`: method, secret, body, allowlist, `Process`, status | `Conversation` |
| Orchestrator | `internal/orchestrator` | none of its own | `Process`: Markdown, row, model, Markdown, row, send | `Conversation` |
| Telegram sender | `internal/telegram/sender.go` | none | `SendMessage`: own checks, two turns | `Conversation` |
| Session store | `internal/sessions/store.go` | Markdown files | `Append`, `sanitizeID` | `SessionFile`, `SessionLog`, `SessionNames` |
| SQLite | `internal/sqlite` | `session_messages`, `index_entries`, `cron_jobs`, `memory_notes` | one statement per call | in the module of the caller |
| Language model client | `internal/llm` | none | `Complete`, with a time limit | a step of `Conversation`, `CronScheduler` |
| Cron scheduler | `internal/cron` | due times in memory, rows of `cron_jobs` | `New`/`loadJobs`, ticker, `tick`, `runJob`, `next` | `CronScheduler` |
| Indexer | `internal/indexer/indexer.go` | `index_entries` | `Start`, `ScanOnce`, `Search` | `IndexSync`, `IndexSearch` |
| Index handlers | `internal/indexer/handler.go` | none | `POST /index/reindex`, `GET /index/search` | `IndexSync`, `IndexSearch` |
| Gateway, `main` | `internal/gateway`, `cmd/mouse` | mux, what has been started | load, validate, directories, webhook, server | `Startup` |
| Configuration | `internal/config` | none | `Load`, `Validate`, `EnsureRuntimeDirs` | `Startup` |
| Webhook registration | `internal/telegram/webhook.go` | at Telegram | `SetWebhook` | `Startup` |
| Tools API, sandbox | `internal/tools`, `internal/sandbox` | a docker client per run, containers | policy, `docker run`, answer | `ToolRun` |
| Approvals API | `internal/approvals` | none | logs and answers | `ToolRun` |
| Logging | `internal/logging` | a file | `write`, in two parts | `ToolRun`; `SetFile` in `Startup` |
| mousectl | `cmd/mousectl` | none | `run`, `approve`, `search`, `reindex`; reads of files | `ToolRun`, `IndexSearch`, `IndexSync` |

How they interact. Telegram posts an update; `net/http` starts a goroutine for
it, which runs `ServeHTTP` and `Process` to the end. The scheduler and the
indexer have a goroutine each, and each request to the tools, approvals and
index handlers (mousectl sends them) has one of its own. All of them write to the same Markdown files and
the same SQLite database; no lock spans two steps of any of them, and only the
scheduler has one at all. The indexer's watched directories hold the session
files the others append to.

What is hard in it:

* requests of one chat overlap, because Telegram delivers an update again when
  the first request is slow, and the first keeps running: its context is
  cancelled some time after Telegram has given up on it;
* every turn is written to two stores, with an error return, a cancellation or
  a kill possible between the two writes;
* a reply may arrive at Telegram and be reported as failed;
* first appends race to create a session file and to write its header;
* due times are kept in memory, jobs run one after the other and slowly, and
  the next due time is computed from the time the tick began;
* scans overlap with each other and with edits of the files: a scan reads,
  compares and writes in separate steps, and deletes what it has not seen;
* a cancelled tool run kills the docker client and not the container, and
  whoever reads the answer or the log has only the client's word for it;
* a line of the log is printed without the lock and written to the file under
  it, and the error of that write is ignored;
* a search sees the 200 rows written last, by a text of the time whose order is
  not that of time;
* two session ids may become one file name;
* a start registers the webhook before it builds the server, and many later
  steps may refuse the configuration: the registration outlives the process.

`PROJECT.json` lists these hazards with their lines and the properties that
would catch them going wrong.

What makes each component correct:

* *Session store*: an entry of a call that returned is in its file once; of a
  failed call, nowhere; a header only when the file was created.
* *Conversation*: SQLite never ahead of Markdown; a reply that was sent, and an
  update Telegram holds for done, are recorded in both stores; nothing of a
  stranger is stored; only requests that overlap are mixed up; everything ends.
* *Scheduler*: no due time served twice, early, or lost while the process runs;
  a job's failure does not keep the others from their turn.
* *Indexer*: an undisturbed scan leaves the index equal to the files; no scan
  deletes the row of a file that was there all along; after the last edit the
  index becomes equal to the files.
* *Start-up*: what Telegram has on record leads to the handler that is mounted;
  only a configuration every part accepts comes to serve; a start with `-check`,
  or of what `Validate` refuses, leaves a deployment alone.
* *Tools*: only permitted tools start a container; the answer and the line in
  the log are true of it; one is left behind only if somebody hung up or the
  process was killed.
* *Search*: what it leaves out has been beaten, by score or by time; the score
  is the share of words in common.
* *Session names*: they are safe file names, and it is known which ids share one.

## 2. The modules

`SessionLog` is the abstract specification of the session store: each file is
a log, and a call puts its entry at the end in one step, once, or fails.
Anything else that gets into a file (headers, torn writes) is noise.

`SessionFile` is `Store.Append` call by call: `Stat` (with `MkdirAll`), `Open`
(`O_CREATE|O_APPEND`), `WriteHeader` when the stat found no file, `WriteEntry`.
Each may fail (`Fail`), a write may leave a part (`TearWrite`), the process may
be killed (`Crash`). The model has no lock, as the code has none. An entry is
named by its call. The refinement to `SessionLog` maps the items of a file to
the log; the entry's write is the step at which a call takes effect.

`SessionNames` is `sanitizeID` and the blank id's replacement. A rune is kept,
lowered, or becomes a dash; the name is trimmed and cut. Its state is the ids
that came so far (`sessions`): chat numbers and the free text of the
configuration. `MCSessionFile` puts the two modules together. A name depends on its
id alone and the appends do not depend on the letters of a name, so a behaviour
of its `MCSpec` is either one of appends to files that have their names
(`FilesAreNamed`) or one of names only; all pairs of ids come in the second.

`Conversation` is the life of an update: Telegram's side (`Post`,
`PostRefused`, `TakeReply`, `HangUp`, all external), one request goroutine per
delivery, `net/http` (`Cancel`), and the process (`Crash`, `Restart`). `Handle(d)` is the request
step by step, in the order of `ServeHTTP` and `Process`:

| `pc` | step | code |
|---|---|---|
| `received` | `Admit` | `telegram.go:55-111`, `allow.go`, `orchestrator.go:61-72` |
| `user_md`, `assistant_md` | `AppendMarkdown` | `sessions.Append` at `orchestrator.go:73,87` |
| `user_db`, `assistant_db` | `InsertRow` | `AppendSessionMessage` at `orchestrator.go:77,91` |
| `llm` | `Complete` | `llm.Complete` |
| `send`, `resend` | `SendMessage` | the two turns of `sender.go` |
| `200`, `400`, `403`, `500` | | the status of the answer |
| `dead` | | killed with the process |

An append to a Markdown session is one step here, which `SessionFile`
justifies, and `UsesLog` shows that the requests use the session files as
`SessionLog` allows, so the two modules compose at that interface. That
Telegram gives up (`HangUp`) and that `net/http` notices and cancels
`r.Context()` (`Cancel`) are two events: in between, and for ever if it never
notices, the request works on as if somebody waited. `net/http` watches a
connection once the body is read; until then the end of the connection shows
in `Admit`, which cannot read the body. A cancelled context (`cancelled`)
makes the insert, the model's call and the send fail, and leaves the Markdown
append alone, which takes no context; it ends with its request. An insert that
SQLite commits although the context was cancelled in the meantime is the
behaviour insert, cancellation, failure of the next step, which the model has.
`past` is a history variable: which requests were over when a delivery came
in. No action reads it; `OnlyOverlapsMix` does. Requests that are not
Telegram's (another method, a wrong secret, no JSON) change nothing and are
left out. A session file is named by `sanitizeID` of the decimal chat id:
a leading `-` is trimmed, so the chats *n* and *-n* share a file
(`SessionNames`); rows of SQLite keep the two apart.

`CronScheduler` is `cron.New`, the ticker's goroutine and `runJob` step by
step. Time is counted in units on which every schedule falls, a day has
`Hours * Minutes` of them. `Pass` lets time go by between any two steps, so
runs and ticks may be as slow as they like. `LoadJob` is a turn of `loadJobs`;
it ends the process when a schedule does not parse or the row cannot be
written, for `NewServer` and `main` return that error. A tick visits the jobs
in any order, for the code ranges over a map. `Crash` and `Restart` lose the
due times, and the configuration may be edited in between (`cfg' \in Configs`).
An entry carries its job and the due time it was run for. Through `UsesLog` the
session files are used as `SessionLog` allows: a call there is an entry a job may post
for a due time, and is over once the job is due later. So both writers of
session files, requests and jobs, compose with `SessionFile`.

`IndexSync` is `ScanOnce` for the worker and for each reindex request: a
directory read, a file read, a comparison with the row, an upsert, the listing
of the rows and each deletion are steps of their own. `Edit` changes a file
between any two of them. Contents stand for hashes. `Fault` is any failed read
or database call and a cancelled request; the first error ends a scan.

`IndexSearch` is the other side of the table: what `UpsertIndexEntry` puts into
a row (the tokens and the time as text), `ListIndexEntries` with its order and
its limit (`Newest`), `tokenize`, `similarity` and the ranking, and the default
of a request's limit. A time is its second and the digits of its fraction, and
`Written` is what RFC3339Nano makes of them: trailing zeros go, and the "Z"
that follows compares as greater than a digit. A search is one query and a
computation, so it is one step, and the loops of `tokenize` and `unique` are
recursive functions over positions; equal texts and equal scores come in any
order. The clock is assumed not to go back. Snippets are left out.

`ToolRun` is a request to `/tools/run` (or `/approvals/submit`) from its
arrival to its answer, and everything it starts: `Receive`, `AskPolicy`,
`StartClient` and `Wait` (`runner.go`), `PrintLine` and `WriteLine` (the two
halves of `Logger.write`), `Answer`. Docker is external: `Launch`,
`ContainerEnds` and `ClientEnds` say what a client and its container do, of
which the second outlives the first. `HangUp` may come at any time; that
`KillClient` follows rests on `net/http`, which watches a connection once
the body is read (the handlers decode it whole first), and on
`exec.CommandContext`. `ClientEnds` assumes of Docker that a client always
learns how its container ended: one that loses the daemon, or fails by itself
while the container runs, is not modelled, and would be another way to a
container nobody waits for. A `Crash` leaves clients and containers running. A wrong
method (405), a runner that is not set up (503; `NewServer` mounts the handler only with one)
and an undecodable body are one kind of request, `Invalid`: refused at once,
without a line of the log. Tool names are told apart by their normal forms. Through
`UsesLog` the log file is an append-only log of `SessionLog` like a session file.

`Startup` is `main`: `Load`, `EnsureRuntimeDirs`, `SetFile`, `SetWebhook`, the
parts of `NewServer` in their order (`OpenSQLite`, `InitTelegram`,
`InitSandbox`, `InitCron`, `InitIndexer`) and `Listen`. Each may end the
process: for what the configuration holds (`Refuse`, which includes the mux's
panic on a path that has a handler, or that is no pattern) or for something
around it (`Fault`). The
directories, the tables and the webhook at Telegram outlive the process; each
`Launch` may have another configuration, as an edit of the file or of the
environment gives. A configuration is a record of what the steps ask of it: a
string that is compared with `""` in one place and trimmed in another is
"empty", "blank" or "set"; a URL is its host and path segments, and `Spaces`
is one made of spaces: `Validate` lets it pass, `SetWebhook` refuses it
(`webhook.go:21-26`), and without a webhook `mux.Handle` panics on such a path.
Other paths are taken to be well-formed patterns that do not end in `/`. A model client that cannot be
made is no reason to end: `orchestrator.New` and `NewServer` warn of it and go
on with one whose calls fail. `CronScheduler` and `IndexSync` go on where
`InitCron` and `InitIndexer` put their goroutines into `running`.

`MC*` modules give the constants their values. Operators named `X_Fault`
(`Admit_Anyone`, `Skip_Returns`, ...) stand before the definition `X` they
vary; nothing uses them in the specifications. Each is a plausible slip in the
code, and putting it in the place of `X` makes a property of a run fail:
`PROJECT.json` lists which. They show that the properties are about the code.

## 3. What TLC checks

| run | instance | properties | states |
|---|---|---|---|
| `session_file` | 4 calls, 3 of them on one new file; or all pairs of ids of up to 4 of 5 runes, names of 3 bytes | `UntitledHasCause`, `TitledOnce`, `ImplementsLog`; `FileNamesSafe`, `ChatsKeepApart`, `SharedIffAlike` | 662 211 |
| `conversation_overlap` | 2 updates of two chats that share a file, 1 delivery each, 1 kill | `TypeOK`, `TurnsInOrder`, `RowsFollowMarkdown`, `UsesLog` | 55 372 |
| `conversation_retry` | 1 update, 2 deliveries, 2 kills | `SentIsRecorded`, `SettledIsComplete`, `GapIsFailure`, `OnlyOverlapsMix`, `EveryUpdateEnds`, `RequestsEnd` | 46 949 |
| `conversation_kinds` | 5 updates, one of each kind `Admit` tells apart | `AllowlistHolds` | 249 120 |
| `conversation_mirror` | 1 update, 1 delivery | `MirrorsMarkdown` is violated | |
| `cron` | a daily job and one at the minute `*` without a prompt, or one without a session, or one with a bad schedule; times 0 to 5 of days of 4; 1 kill; the configuration may change at a restart | `OncePerOccurrence`, `RunsWhenDue`, `NoneLostWhileUp`, `RepliesFollowPrompts`, `UpMeansLoaded`, `DueJobsRun`, `UsesLog` | 781 876 |
| `index_overlap` | the worker and 1 request, 2 directories with a file each, 2 contents, any initial files and index, 1 edit, 1 failure or kill | `CleanScanSyncs`, `PresentFilesKeepRows`, `Converges` | 251 623 |
| `index_missing_root` | as above with a directory that does not exist | `Converges` is violated | |
| `search` | 3 files, 3 texts, 5 questions, 3 limits, a window of 2 rows, 2 seconds of 4 readings | `MissedMatchIsExplained`, `ScoreIsShare` | 85 206 |
| `startup` | 20 configurations around `config/mouse.yaml`, 3 starts, with and without `-check`, any faults and kills | `PostsReachHandler`, `OnlyStartableServes`, `CheckOnlyMakesDirs`, `StartsEnd` | 11 781 |
| `startup_yaml` | `config/mouse.yaml`, 1 start | `WebhookWorks` is violated | |
| `tool_run` | 2 requests of 5 kinds, 3 policies, 1 failed write to the log, 1 kill | `OrphansHaveCause`, `AnswerIsTrue`, `RunsAreAudited`, `FileFollowsOutput`, `PolicyHolds`, `RequestsEnd`, `UsesLog` | 323 665 |

The type invariant of `Conversation` is checked in a run, those of the other
modules by their theorems. Deadlock is checked in every run: where a behaviour ends by
itself, a `Quiet` action says when.

Why the bounds are enough for the questions asked.

* Two racing creators show every outcome of `stat`/`open`/header; the third
  call comes late, after the file exists, or fails in between; the fourth shows
  that files do not disturb each other.
* Two deliveries of one update overlap at any two steps, or one comes when the
  other is over; more of them would be further pairs, as no step of a request
  reads what another stored, and the proofs are about any number. Two updates
  are the least that share a file or a chat. One kill meets every step of every
  request; the second meets the retry, or the time when nobody listens.
* Two due times of each job fall within the clock's bound, so that a run may
  start late, span the second due time, and be killed before, between and after.
* Ids of four runes are longer than names of three bytes, so that trimming, cut
  and mapping meet in every order; two ids are all that a claim of sharing needs.
* Two jobs are enough for one to hold the other up; the job `*` has a time of
  day of its own, and one with a bad schedule is loaded with nobody beside it.
* Three files and a window of two rows leave one out; with two binary digits of
  a second there are times whose texts are in another order than they are.
* Two requests are what an interleaving of two halves of a log line needs.
* One edit may fall between a scan's read and its write, behind a scan, or
  between two scans; the initial index, which is arbitrary, stands for what
  earlier edits left.
* A start meets what an earlier one left at Telegram and on the disk; three
  starts allow two registrations and a failed start between them.

Fairness. `Conversation`: Telegram goes on delivering and reads the answers it
gets (the documented behaviour of a webhook); the calls of SQLite and of files
return, which are local; a supervisor restarts the process. It is not assumed
that the model or `sendMessage` ever answers: a request is fair in the steps
that need nobody (`~Answered`), and goes on by the errors of its clients, among
them the time limits of 30 s (`llm.go:53`) and 15 s (`sender.go`). Without the
first, a request waits for ever (`Complete_NoTimeout`). `CronScheduler`: the ticker goes on and a job's calls return, for
the same reasons; nothing is assumed of restarts, and no run is assumed to be
quick. `IndexSync`: the worker's ticker goes on and a scan's calls return; no
request has to come. `Startup`: the steps of a start return, `setWebhook` has a
limit of 10 s (`webhook.go:38`); nobody has to start the program. `ToolRun`: the goroutine of a request goes on,
a closed connection is noticed and the client killed, and docker does what it is
asked; it is not assumed that a command ends, for nothing in the code makes it,
so `RequestsEnd` speaks of requests whose command ends or whose sender hangs up. Nothing is
assumed strongly fair.

What was found:

* `conversation_mirror`: `docs/SECURITY.md:20` says that SQLite mirrors the
  data. A request that fails, is cancelled or is killed between the two appends
  leaves a message in Markdown only, and nothing inserts it later.
* `index_missing_root`: `config/mouse.yaml:45` watches a directory `notes` that
  `EnsureRuntimeDirs` does not create. Every scan ends there with an error before it
  removes rows: the row of a deleted file stays for ever, and every reindex
  request fails. `ScansStop` and `MissingRootKeepsRows` prove both of every watch
  list with a directory that is missing.
* `startup_yaml`: `SetWebhook` appends `webhook.path` to `public_url`
  (`webhook.go:27`), and `config/mouse.yaml:10-11` has the path in both. Telegram
  posts to `/telegram-webhook/telegram-webhook`, which no handler serves.

## 4. What is proved

Proofs hold for every number of updates, deliveries, calls, jobs, scans,
requests and kills, and rest on the named assumptions of the modules only
(`ConversationAssumption`, `SessionFileAssumption`, ...), which TLC evaluates
in the runs. Every safety property of the passing runs is proved. Almost none is inductive by itself; each module of proofs names its
inductive invariant `IInv` and has a lemma for each action.

*`ConversationProofs`*: `TypeOK`, `SentIsRecorded`, `SettledIsComplete`,
`RowsFollowMarkdown`, `GapIsFailure`, `AllowlistHolds`, `TurnsInOrder`,
`OnlyOverlapsMix`, and `UsesLog`: the requests implement `SessionLog`. That a reply was sent says nothing of how the request got there,
so the invariant (`IInv` in `Conversation`) adds `StageOK`, what the
step of a request has put into the two stores and what not yet; `SentOK`, the
replies sent at each step; `EntriesAllowed`; and `TelegramOK`, which ties the
state of an update to its latest delivery. These speak of membership, by what an
append does to it (`InAppend`, `MdAppend`, `DbAppend`). `TurnsInOrder` speaks of
positions: it is kept because an entry is appended only by the request that has
its question behind it and the entry itself not yet (`AppendInTurn`).
`OnlyOverlapsMix` needs that a delivery has no entry before it comes in
(`Fresh`) and that what is over stays so (`PastIsOver`). For
`UsesLog` a step is mapped to a write, a failed call or a stutter; that an
entry once written or given up stays so is `NoWayBack`. Of the liveness
properties two parts are proved that are not about fairness: `RequestsAreFinite`, each step
of a request lowers a variant (`StepsLeft`) that nothing raises, and
`NoUpdateIsLost`, an update always has something left that moves it on.

*`SessionFileProofs`*: `TypeOK`, `UntitledHasCause`, `EachEntryOnce`,
`TitledOnce`, and that `SessionFile` implements `SessionLog`. The invariant
says which calls know their file to exist (`OpenedExists`), that a file
without a header has a creator on the way to it or failed (`CreatorIsKnown`,
which is `UntitledHasCause` from the moment the file is created), and that the
files hold an entry once exactly when its call returned (`EntriesOK`).

*`SessionNamesProofs`*: `FileNamesSafe`, `ChatsKeepApart` and `SharedIffAlike`
for every alphabet, id and length of a name. The state adds nothing here; the
work is in `Trim` (`TrimEnds`, `TrimKeeps`), in the names that `sanitizeID`
leaves alone (`SanitizeKeeps`), and in `NameHolds`: a name holds what
`Alike` compares, rune for rune.

*`CronProofs`*: `TypeOK`, `OncePerOccurrence`, `RunsWhenDue`,
`NoneLostWhileUp`, `RepliesFollowPrompts` and `UpMeansLoaded`, for every
length of a day. `NextAfterIsNext` is the arithmetic: the next due time is the
first occurrence strictly after the time given. The invariant says of each
loaded job that its next due time is an occurrence after the time it was
loaded, that what was posted for it was due before (`PostedBefore`), and that
no occurrence in between is without its run (`Covered`); of the stores, that
nothing is posted for a time to come (`PostedLate`), which is what a restart
needs; and of the run under way, how far it has come in both stores (`RunOK`).
`UsesLog` rests on two facts: a later due time never comes before an earlier one
(`NextAfterMonotone`), and none is later than the next occurrence after the time it is
now (`NotAhead`), so that a call that is over stays so over restarts and
edits of the configuration; `PostOrNot` maps each step. `TicksLeaveNoneDue` is
the part of `DueJobsRun` that needs no fairness: at the end of a tick no job is due
that was due when it began.

*`IndexProofs`*: `TypeOK`, `CleanScanSyncs` and `PresentFilesKeepRows`. The
invariant says of every scan that it has seen, or will, the files that existed
all along in the directories it has entered, so that what it will delete was
absent at some time (`CoverOK`); of an undisturbed one that it is alone, that
what it read is what the file holds (`FreshOK`), and that the rows of all it
has seen are right (`SyncOK`). For as long as no file changes after such a
scan (`Calm`), the index is equal to the files: later scans, overlapping as
they like, read what the index has and delete nothing.

What `Converges` says is proved but for the fairness. `Fresh` holds when no scan
under way has anything from before the last edit in its hands; while no file changes it
is kept, a scan that begins is `OnTrack`, and one that ends well leaves the
index right whatever overlaps with it (`QuietScansSync`). A right index stays right
as long as the files stay (`SyncStays`). With a missing directory no scan
succeeds (`ScansStop`) and no row is ever removed (`MissingRootKeepsRows`).

*`IndexSearchProofs`*: `MissedMatchIsExplained` and `ScoreIsShare`, for every set of files, limit,
window and precision of the clock, whatever the tokens are. A row outside of a
full window has as many others no older by a second (`WindowIsFull`); a
ranking is a permutation of the matches (`RankingIsComplete`), so what a limit
cuts off scores no higher than what it leaves (`CutOffIsLower`). With no more
files than the window holds, only scores decide (`OnlyScoresDecide`). For
`ScoreIsShare` one has to know what the loops compute for every text:
`ScanFindsWords` and `TokenizeFindsWords` show it of the positions of a text by
a least counterexample (`NoLeast`), `SimilarityIsShare` of the counts.

*`ToolRunProofs`*: `TypeOK`, `OrphansHaveCause`, `AnswerIsTrue`,
`RunsAreAudited`, `FileFollowsOutput`, `PolicyHolds`, and `UsesLog`. The
invariant gives for each step of a request what became of the client and its
container (`DockerOK`), what the outcome says of them (`OutcomeOK`), where the
line stands in both outputs (`LinesOK`), and that the policy was asked before
(`PermitOK`). Of `RequestsEnd`, which TLC checks, two parts are proved: nothing is done
twice (`RequestsAreFinite`), and what a waiting request waits for is either
about to happen or a command that runs while its sender is there (`OnlyCommandsBlock`).

*`StartupProofs`*: `TypeOK`, `OnlyStartableServes`, `CheckOnlyMakesDirs` and
`PostsReachHandler`, for every set of configurations and number of starts. The
invariant says which routes the mux has at each step (`RoutesOK`), and which
demands on the configuration each step has passed (`PassedOK`).
`PostsReachHandler` needs besides that a URL without its host is the path
exactly when it had no path before (`PathOfURL`). `StartsAreFinite` is the
variant behind `StartsEnd`.

What stays with TLC is liveness under fairness and ENABLED (`EveryUpdateEnds`,
both `RequestsEnd`, `DueJobsRun`, `Converges`, `StartsEnd`), which the prover
does not handle. What the proofs contribute to each is named above: that steps are
finitely many, that nothing waits for what cannot come, and that what was reached
stays. That the steps are enabled and taken is TLC's part.

## 5. Not modelled

* The memory operations of SQLite, `ListSessionMessages` and `DeleteSession`:
  nothing calls them.
* `mousectl status` and `logs`, the health handler: they read and print.
* Requests of a wrong method or with a wrong secret, which change no state, and the
  lines of the log that parts other than the tools and approvals handlers write:
  nothing reads them but a person.
* The arguments of `docker run`, snippets of a search, the wording of prompts,
  logs and responses, the syntax of the configuration file.
* Rows of jobs that were taken out of the configuration stay in `cron_jobs`: the model
  keeps them too, but nothing reads the table, so no property could tell.

What could be added: the lines the other parts log, as further calls of the
log that `ToolRun` uses; and a composition of `Conversation` with `IndexSync`,
in which an edit of a watched file is an append of a request. `IndexSync` has
that behaviour already, with any edit at any time.
