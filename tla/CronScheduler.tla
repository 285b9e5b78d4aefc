----------------------------- MODULE CronScheduler -----------------------------
(***************************************************************************)
(* cron.Scheduler: New loads the configured jobs and computes when each is *)
(* due next; a ticker wakes one goroutine, which runs the due jobs one     *)
(* after the other and reschedules each from the time its tick began. The  *)
(* due times live in memory: a restarted process computes them anew.       *)
(*                                                                         *)
(* Time is counted in units in which every schedule falls on a whole unit; *)
(* a day has Hours * Minutes of them, and starts at a multiple of that.    *)
(***************************************************************************)
EXTENDS Integers, Sequences

CONSTANTS
  Jobs,         \* the ids of jobs
  Configs,      \* the sets of jobs cron.jobs may hold; edited between starts
  Minute,       \* the first field of each job's schedule
  Hour,         \* the second field
  Star,         \* the field "*"
  Blank,        \* jobs with an empty prompt
  Sessionless,  \* jobs with an empty session id
  Hours,        \* of a day
  Minutes,      \* of an hour
  NoJob,        \* no job is running
  MaxTime,      \* bound: the clock stops here
  MaxCrashes    \* bound: how often the process is killed

ASSUME CronAssumption ==
  /\ NoJob \notin Jobs
  /\ Configs \subseteq SUBSET Jobs
  /\ Minute \in [Jobs -> Int \cup {Star}]
  /\ Hour \in [Jobs -> Int \cup {Star}]
  /\ Hours \in Nat \ {0}
  /\ Minutes \in Nat \ {0}
  /\ MaxTime \in Nat
  /\ MaxCrashes \in Nat

VARIABLES
  now,       \* time.Now().UTC()
  cfg,       \* the jobs of the configuration the process has read
  phase,     \* of the process: "down", "loading" in New, "up"
  left,      \* jobs that New, or the tick under way, has still to visit
  next,      \* when each job is due next
  tickAt,    \* the time the tick under way read when it began
  running,   \* the job being run
  step,      \* its next step
  md,        \* entries of the Markdown sessions, in the order of the appends
  db,        \* rows of session_messages
  table,     \* the jobs in the cron_jobs table
  crashes,
  loadedAt,  \* history: the time from which New computed a job's due time
  runs       \* history: the runs begun, with the due time and the tick's time

vars == <<now, cfg, phase, left, next, tickAt, running, step, md, db, table,
          crashes, loadedAt, runs>>
worker == <<left, next, tickAt, running, step>>
stores == <<md, db, table>>
history == <<loadedAt, runs>>

Day == Hours * Minutes

Steps == {"prompt_md", "prompt_db", "llm", "reply_md", "reply_db"}

-----------------------------------------------------------------------------
(* Schedules *)

\* parseField: the field is "*" or a number in range. A "*" stands for 0,
\* not for every minute or hour.
FieldParses(field, size) == field = Star \/ field \in 0..(size - 1)
FieldValue(field) == IF field = Star THEN 0 ELSE field

\* parseSchedule
Parses(j) == FieldParses(Minute[j], Minutes) /\ FieldParses(Hour[j], Hours)

\* The time of day a schedule stands for.
TimeOfDay(j) == FieldValue(Hour[j]) * Minutes + FieldValue(Minute[j])

Today(j, t) == (t \div Day) * Day + TimeOfDay(j)

\* Mutant: the test is !next.Before(now).
NextAfter_NotStrict(j, t) ==
  IF Today(j, t) >= t THEN Today(j, t) ELSE Today(j, t) + Day

\* schedule.next: the first time after t, and not t, at that time of day.
NextAfter(j, t) ==
  IF Today(j, t) > t THEN Today(j, t) ELSE Today(j, t) + Day

\* The times a job is meant to run at.
IsOccurrence(j, t) == t % Day = TimeOfDay(j)

-----------------------------------------------------------------------------
Init ==
  /\ now = 0
  /\ phase = "loading"
  /\ cfg \in Configs
  /\ left = cfg
  /\ next = [j \in Jobs |-> 0]
  /\ tickAt = 0
  /\ running = NoJob
  /\ step = "prompt_md"
  /\ md = <<>>
  /\ db = <<>>
  /\ table = {}
  /\ crashes = 0
  /\ loadedAt = [j \in Jobs |-> 0]
  /\ runs = {}

Pass ==
  /\ now < MaxTime
  /\ now' = now + 1
  /\ UNCHANGED <<cfg, phase, worker, stores, crashes, history>>

\* The process ends; its memory is lost and its stores stay.
Die == phase' = "down" /\ left' = {} /\ running' = NoJob

-----------------------------------------------------------------------------
(* cron.New *)

\* Mutant: a job whose schedule does not parse is left out with a warning.
LoadJob_SkipsBad(j) ==
  /\ phase = "loading"
  /\ j \in left
  /\ left' = left \ {j}
  /\ IF Parses(j)
     THEN /\ next' = [next EXCEPT ![j] = NextAfter(j, now)]
          /\ table' = table \cup {j}
     ELSE UNCHANGED <<next, table>>
  /\ UNCHANGED <<now, cfg, phase, tickAt, running, step, md, db, crashes, history>>

\* One turn of loadJobs: parse, put the job into the map, write its row. An
\* error of the first or the last ends New, and with it the process.
LoadJob(j) ==
  /\ phase = "loading"
  /\ j \in left
  /\ \/ ~Parses(j) /\ Die /\ UNCHANGED <<next, loadedAt, table>>
     \/ /\ Parses(j)
        /\ next' = [next EXCEPT ![j] = NextAfter(j, now)]
        /\ loadedAt' = [loadedAt EXCEPT ![j] = now]
        /\ \/ /\ table' = table \cup {j}
              /\ left' = left \ {j}
              /\ UNCHANGED <<phase, running>>
           \/ Die /\ UNCHANGED table
  /\ UNCHANGED <<now, cfg, tickAt, step, md, db, crashes, runs>>

\* New returns and Start starts the ticker.
Start ==
  /\ phase = "loading"
  /\ left = {}
  /\ phase' = "up"
  /\ UNCHANGED <<now, cfg, worker, stores, crashes, history>>

-----------------------------------------------------------------------------
(* The goroutine of Start *)

Idle == left = {} /\ running = NoJob

\* The ticker fires: tick takes the lock and reads the clock.
Tick ==
  /\ phase = "up"
  /\ Idle
  /\ tickAt' = now
  /\ left' = cfg
  /\ UNCHANGED <<now, cfg, phase, next, running, step, stores, crashes, history>>

\* Mutant: return in the place of continue.
Skip_Returns(j) ==
  /\ phase = "up" /\ running = NoJob /\ j \in left
  /\ next[j] > tickAt
  /\ left' = {}
  /\ UNCHANGED <<now, cfg, phase, next, tickAt, running, step, stores, crashes, history>>

\* The job is not due at the time of the tick.
Skip(j) ==
  /\ phase = "up" /\ running = NoJob /\ j \in left
  /\ next[j] > tickAt
  /\ left' = left \ {j}
  /\ UNCHANGED <<now, cfg, phase, next, tickAt, running, step, stores, crashes, history>>

\* Mutant: every job is run on every tick.
Begin_NotDue(j) ==
  /\ phase = "up" /\ running = NoJob /\ j \in left
  /\ running' = j
  /\ step' = "prompt_md"
  /\ runs' = runs \cup {[job |-> j, due |-> next[j], at |-> tickAt]}
  /\ UNCHANGED <<now, cfg, phase, left, next, tickAt, stores, crashes, loadedAt>>

\* The job is due: runJob.
Begin(j) ==
  /\ phase = "up" /\ running = NoJob /\ j \in left
  /\ next[j] <= tickAt
  /\ running' = j
  /\ step' = "prompt_md"
  /\ runs' = runs \cup {[job |-> j, due |-> next[j], at |-> tickAt]}
  /\ UNCHANGED <<now, cfg, phase, left, next, tickAt, stores, crashes, loadedAt>>

\* Mutant: the next due time is computed from the clock and not from the
\* time the tick began.
Finish_ReadsClock ==
  /\ running' = NoJob
  /\ left' = left \ {running}
  /\ next' = [next EXCEPT ![running] = NextAfter(running, now)]
  /\ UNCHANGED step

\* runJob returned, with an error or without: the job is rescheduled. (Its
\* schedule parsed when it was loaded, so it parses again.)
Finish ==
  /\ running' = NoJob
  /\ left' = left \ {running}
  /\ next' = [next EXCEPT ![running] = NextAfter(running, tickAt)]
  /\ UNCHANGED step

Goto(s) == step' = s /\ UNCHANGED <<running, left, next>>

Entry(role) == [job |-> running, due |-> next[running], role |-> role]

\* sessions.Append of the prompt; a job without a prompt does nothing.
AppendPrompt ==
  /\ step = "prompt_md"
  /\ \/ running \in Blank /\ Finish /\ UNCHANGED md
     \/ /\ running \notin Blank
        /\ md' = Append(md, Entry("system"))
        /\ Goto("prompt_db")
     \/ running \notin Blank /\ Finish /\ UNCHANGED md
  /\ UNCHANGED db

\* Mutant: a failed insert is logged and the run goes on.
InsertRow_ErrorLogged(role, at, then) ==
  /\ step = at
  /\ \/ running \notin Sessionless /\ db' = Append(db, Entry(role))
     \/ UNCHANGED db
  /\ then
  /\ UNCHANGED md

\* AppendSessionMessage, which wants a session id.
InsertRow(role, at, then) ==
  /\ step = at
  /\ \/ /\ running \notin Sessionless
        /\ db' = Append(db, Entry(role))
        /\ then
     \/ Finish /\ UNCHANGED db
  /\ UNCHANGED md

\* The model answers, or fails, or runs into its time limit.
Complete ==
  /\ step = "llm"
  /\ Goto("reply_md") \/ Finish
  /\ UNCHANGED <<md, db>>

AppendReply ==
  /\ step = "reply_md"
  /\ \/ md' = Append(md, Entry("assistant")) /\ Goto("reply_db")
     \/ Finish /\ UNCHANGED md
  /\ UNCHANGED db

\* runJob, step by step.
Run ==
  /\ phase = "up"
  /\ running # NoJob
  /\ \/ AppendPrompt
     \/ InsertRow("system", "prompt_db", Goto("llm"))
     \/ Complete
     \/ AppendReply
     \/ InsertRow("assistant", "reply_db", Finish)
  /\ UNCHANGED <<now, cfg, phase, tickAt, table, crashes, history>>

-----------------------------------------------------------------------------
(* The process *)

Crash ==
  /\ phase # "down"
  /\ crashes < MaxCrashes
  /\ crashes' = crashes + 1
  /\ Die
  /\ UNCHANGED <<now, cfg, next, tickAt, step, stores, history>>

Restart ==
  /\ phase = "down"
  /\ phase' = "loading"
  /\ cfg' \in Configs
  /\ left' = cfg'
  /\ UNCHANGED <<now, next, tickAt, running, step, stores, crashes, history>>

Next ==
  \/ Pass
  \/ \E j \in Jobs : LoadJob(j) \/ Skip(j) \/ Begin(j)
  \/ Start
  \/ Tick
  \/ Run
  \/ Crash
  \/ Restart

\* The ticker goes on; a run's calls return, for the model's client has a
\* time limit of 30 s. Nothing is assumed of restarts, nor of how long a
\* run or a tick takes.
Fairness ==
  /\ WF_vars(Tick)
  /\ WF_vars(Run)
  /\ \A j \in Jobs : WF_vars(Skip(j)) /\ WF_vars(Begin(j))

Spec == Init /\ [][Next]_vars
FairSpec == Spec /\ Fairness

-----------------------------------------------------------------------------
Occurrences == 0..(MaxTime + Day)

Entries ==
  [job : Jobs, due : Occurrences, role : {"system", "assistant"}]

TypeOK ==
  /\ now \in 0..MaxTime
  /\ cfg \in Configs
  /\ phase \in {"down", "loading", "up"}
  /\ left \in SUBSET Jobs
  /\ next \in [Jobs -> Occurrences]
  /\ tickAt \in 0..MaxTime
  /\ running \in Jobs \cup {NoJob}
  /\ step \in Steps
  /\ md \in Seq(Entries)
  /\ db \in Seq(Entries)
  /\ table \in SUBSET Jobs
  /\ crashes \in 0..MaxCrashes
  /\ loadedAt \in [Jobs -> 0..MaxTime]
  /\ runs \in SUBSET [job : Jobs, due : Occurrences, at : 0..MaxTime]

(* A job posts to its session once at most for each time it is due, in     *)
(* whatever way ticks, failures, crashes and restarts fall: next is        *)
(* strictly after the tick's time, and after the restart's.                *)
OncePerOccurrence ==
  /\ \A i, k \in 1..Len(md) : md[i] = md[k] => i = k
  /\ \A i, k \in 1..Len(db) : db[i] = db[k] => i = k

(* No run begins early, or at a time of day that is not the schedule's.    *)
RunsWhenDue ==
  \A r \in runs : IsOccurrence(r.job, r.due) /\ r.due <= r.at /\ r.at <= now

(* Of the times a job was due while the process was up, none is lost: each *)
(* is followed by a run of a tick that began at that time or later. A slow *)
(* run, of this job or of another that holds the lock, only lets one run   *)
(* stand for several due times.                                            *)
NoneLostWhileUp ==
  phase = "up" =>
    \A j \in cfg, t \in Occurrences :
      IsOccurrence(j, t) /\ loadedAt[j] < t /\ t < next[j] =>
        \E r \in runs : r.job = j /\ r.due <= t /\ t <= r.at

HasEntry(seq, j, due, role) ==
  \E i \in 1..Len(seq) : seq[i] = [job |-> j, due |-> due, role |-> role]

(* A reply in the Markdown session stands behind its prompt, and the       *)
(* prompt is in SQLite too; a row of SQLite is in the Markdown session.    *)
RepliesFollowPrompts ==
  /\ \A i \in 1..Len(md) : md[i].role = "assistant" =>
       /\ HasEntry(SubSeq(md, 1, i - 1), md[i].job, md[i].due, "system")
       /\ HasEntry(db, md[i].job, md[i].due, "system")
  /\ \A i \in 1..Len(db) : HasEntry(md, db[i].job, db[i].due, db[i].role)

(* A process that runs has loaded every job in this life of it: each is in *)
(* the cron_jobs table, and none was due before it was loaded, so that a   *)
(* restart never repeats or catches up on what was due before it. One      *)
(* schedule that does not parse keeps the process from running, and every  *)
(* other job with it, until the configuration is edited.                   *)
UpMeansLoaded ==
  phase = "up" =>
    \A j \in cfg : Parses(j) /\ j \in table /\ next[j] > loadedAt[j]

(* While the process stays up, a job that is due gets its run, for every   *)
(* time it is due: no failure of a job and no slow job keeps the others    *)
(* from their turn.                                                        *)
DueJobsRun ==
  \A j \in Jobs : \A t \in {x \in 1..MaxTime : Parses(j) /\ IsOccurrence(j, x)} :
    (phase = "up" /\ j \in cfg /\ next[j] = t /\ now >= t) ~>
      (phase # "up" \/ next[j] # t)

-----------------------------------------------------------------------------
(* The session files as the append-only log of SessionLog, with a call for *)
(* each entry that a job may post for a time it is due. A call is over,    *)
(* with or without its entry, once the job is due at a later time.         *)
Calls == {c \in Entries : Parses(c.job) /\ IsOccurrence(c.job, c.due)}

Posted ==
  [c \in Calls |->
     IF \E i \in DOMAIN md : md[i] = c THEN "written"
     ELSE IF c.due < next[c.job] THEN "failed" ELSE "pending"]

Log == INSTANCE SessionLog
         WITH Calls <- Calls, Files <- {"sessions"}, Noise <- {},
              FileOf <- [c \in Calls |-> "sessions"],
              log <- [f \in {"sessions"} |-> md], outcome <- Posted

(* The scheduler uses the session store as SessionLog allows: an entry is  *)
(* posted once at most, for a time its job is due, and never after the job *)
(* was rescheduled from that time, in the same life of the process or      *)
(* after a restart.                                                        *)
UsesLog == Log!Spec
=============================================================================
