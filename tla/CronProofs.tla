------------------------------- MODULE CronProofs -------------------------------
(***************************************************************************)
(* What TLAPS proves of the scheduler, for every set of jobs and of        *)
(* configurations, every length of a day, and any number of crashes.       *)
(***************************************************************************)
EXTENDS CronScheduler, TLAPS

-----------------------------------------------------------------------------
(* The arithmetic of days.                                                 *)

LEMMA Quotient ==
  ASSUME NEW t \in Int, NEW d \in Nat \ {0}, NEW q \in Int, NEW r \in Int,
         q = t \div d, r = t % d
  PROVE  t = q * d + r /\ 0 <= r /\ r < d
<1>1. t = d * q + r
  OBVIOUS
<1>2. 0 <= r /\ r < d
  OBVIOUS
<1>. QED  BY <1>1, <1>2

LEMMA Division ==
  ASSUME NEW t \in Int, NEW d \in Nat \ {0}
  PROVE  \E q \in Int, r \in 0..(d - 1) :
           q = t \div d /\ r = t % d /\ t = q * d + r
<1>1. t \div d \in Int /\ t % d \in Int /\ t % d \in 0..(d - 1)
  OBVIOUS
<1>2. PICK q \in Int, r \in Int : q = t \div d /\ r = t % d
  BY <1>1
<1>. QED  BY <1>1, <1>2, Quotient

LEMMA Remainder ==
  ASSUME NEW q \in Int, NEW r \in Int, NEW d \in Nat \ {0}, 0 <= r, r < d
  PROVE  (q * d + r) % d = r
BY Z3

LEMMA Product ==
  ASSUME NEW a \in Int, NEW b \in Int, NEW d \in Nat \ {0}
  PROVE  /\ a * d \in Int
         /\ (a + 1) * d = a * d + d
         /\ a <= b => a * d <= b * d
         /\ a * d < b * d => a < b
OBVIOUS

LEMMA DayIsPositive == Day \in Nat \ {0} /\ Minutes \in Nat \ {0} /\ Hours \in Nat \ {0}
<1>1. \A a, b \in Nat \ {0} : a * b \in Nat \ {0}
  OBVIOUS
<1>. QED  BY <1>1, CronAssumption DEF Day

(* The time of day of a schedule that parses lies within the day.          *)
LEMMA TimeOfDayInDay ==
  ASSUME NEW j \in Jobs, Parses(j)
  PROVE  TimeOfDay(j) \in 0..(Day - 1)
<1>. DEFINE h == FieldValue(Hour[j])
            m == FieldValue(Minute[j])
<1>1. Minutes \in Nat \ {0} /\ Hours \in Nat \ {0}
  BY DayIsPositive
<1>2. h \in 0..(Hours - 1) /\ m \in 0..(Minutes - 1)
  BY <1>1 DEF Parses, FieldParses, FieldValue
<1>3. TimeOfDay(j) = h * Minutes + m
  BY DEF TimeOfDay
<1>. HIDE DEF h, m
<1>4. (h + 1) * Minutes <= Hours * Minutes /\ (h + 1) * Minutes = h * Minutes + Minutes
  BY <1>1, <1>2, Product
<1>5. 0 <= h * Minutes /\ h * Minutes \in Int
  BY <1>1, <1>2
<1>6. Day \in Int /\ Day = Hours * Minutes
  BY DayIsPositive DEF Day
<1>. QED  BY <1>1, <1>2, <1>3, <1>4, <1>5, <1>6

(* schedule.next returns the first time after t at the schedule's time of  *)
(* day: it is later than t, by a day at most, and it passes none over.     *)
LEMMA NextAfterIsNext ==
  ASSUME NEW j \in Jobs, Parses(j), NEW t \in Nat
  PROVE  /\ NextAfter(j, t) \in Nat
         /\ t < NextAfter(j, t) /\ NextAfter(j, t) <= t + Day
         /\ IsOccurrence(j, NextAfter(j, t))
         /\ \A u \in Int : IsOccurrence(j, u) /\ t < u => NextAfter(j, t) <= u
<1>. DEFINE d == TimeOfDay(j)
            n == NextAfter(j, t)
<1>1. Day \in Nat \ {0} /\ d \in 0..(Day - 1)
  BY DayIsPositive, TimeOfDayInDay
<1>2. PICK q \in Int, r \in 0..(Day - 1) : q = t \div Day /\ t = q * Day + r
  BY <1>1, Division
<1>3. Today(j, t) = q * Day + d
  BY <1>2 DEF Today
<1>4. n = (IF q * Day + d > t THEN q * Day + d ELSE q * Day + d + Day)
  BY <1>3 DEF NextAfter
<1>5. \A u \in Int : IsOccurrence(j, u) <=> u % Day = d
  BY DEF IsOccurrence
<1>. HIDE DEF d, n
<1>6. /\ q * Day \in Int /\ (q + 1) * Day = q * Day + Day
  BY <1>1, Product
<1>7. /\ (q * Day + d) % Day = d
      /\ ((q + 1) * Day + d) % Day = d
  BY <1>1, Remainder
<1>8. n \in Int /\ t < n /\ n <= t + Day
  BY <1>1, <1>2, <1>4, <1>6
<1>9. n % Day = d
  BY <1>1, <1>2, <1>4, <1>6, <1>7
<1>10. ASSUME NEW u \in Int, u % Day = d, t < u
       PROVE  n <= u
  <2>1. PICK p \in Int : u = p * Day + d
    BY <1>1, <1>10, Division
  <2>2. p * Day \in Int /\ (p + 1) * Day = p * Day + Day
    BY <1>1, Product
  <2>3. CASE q * Day + d > t
    <3>1. q * Day < (p + 1) * Day
      BY <1>1, <1>2, <1>6, <1>10, <2>1, <2>2
    <3>2. q < p + 1
      BY <1>1, <3>1, Product
    <3>3. q * Day <= p * Day
      BY <1>1, <3>2, Product
    <3>. QED  BY <1>1, <1>4, <1>6, <2>1, <2>2, <2>3, <3>3
  <2>4. CASE ~(q * Day + d > t)
    <3>1. q * Day < p * Day
      BY <1>1, <1>2, <1>6, <1>10, <2>1, <2>2, <2>4
    <3>2. q < p
      BY <1>1, <3>1, Product
    <3>3. (q + 1) * Day <= p * Day
      BY <1>1, <3>2, Product
    <3>. QED  BY <1>1, <1>4, <1>6, <2>1, <2>2, <2>4, <3>3
  <2>. QED  BY <2>3, <2>4
<1>11. n \in Int /\ IsOccurrence(j, n)
  BY <1>5, <1>8, <1>9
<1>12. \A u \in Int : IsOccurrence(j, u) /\ t < u => n <= u
  BY <1>5, <1>10
<1>. QED  BY <1>8, <1>11, <1>12 DEF n

-----------------------------------------------------------------------------
(* The inductive invariant.                                                *)

Roles == {"system", "assistant"}

ProcessOK ==
  /\ phase = "down" => left = {} /\ running = NoJob
  /\ phase = "loading" => left \subseteq cfg /\ running = NoJob
  /\ phase = "up" => left \subseteq cfg /\ running \in left \cup {NoJob}
  /\ tickAt <= now
  /\ \A j \in Jobs : loadedAt[j] <= now

\* The jobs whose due time is of this life of the process.
Loaded(j) == phase # "down" /\ j \in cfg /\ (phase = "loading" => j \notin left)

\* No time from loading to the next due time is without its run.
Covered(j) ==
  \A t \in Occurrences :
    IsOccurrence(j, t) /\ loadedAt[j] < t /\ t < next[j] =>
      \E r \in runs : r.job = j /\ r.due <= t /\ t <= r.at

\* What is posted of a job was due before, but for what its run posts.
PostedBefore(j) ==
  \A due \in Occurrences, role \in Roles :
    HasEntry(md, j, due, role) => due < next[j] \/ (j = running /\ due = next[j])

JobOK(j) ==
  Loaded(j) =>
    /\ Parses(j)
    /\ j \in table
    /\ loadedAt[j] < next[j]
    /\ IsOccurrence(j, next[j])
    /\ PostedBefore(j)
    /\ Covered(j)

\* Nothing is posted for a time to come.
PostedLate ==
  \A j \in Jobs, due \in Occurrences, role \in Roles :
    HasEntry(md, j, due, role) => due <= now

\* How far the run under way has come, in both stores.
RunOK ==
  running # NoJob =>
    LET inMd(role) == HasEntry(md, running, next[running], role)
        inDb(role) == HasEntry(db, running, next[running], role)
    IN  /\ next[running] <= tickAt
        /\ [job |-> running, due |-> next[running], at |-> tickAt] \in runs
        /\ step = "prompt_md" => ~inMd("system")
        /\ step # "prompt_md" => inMd("system")
        /\ step \in {"prompt_md", "prompt_db"} => ~inDb("system")
        /\ step \in {"llm", "reply_md", "reply_db"} => inDb("system")
        /\ step # "reply_db" => ~inMd("assistant")
        /\ step = "reply_db" => inMd("assistant")
        /\ ~inDb("assistant")

Stores == OncePerOccurrence /\ RepliesFollowPrompts

IInv ==
  /\ TypeOK
  /\ ProcessOK
  /\ \A j \in Jobs : JobOK(j)
  /\ PostedLate
  /\ RunOK
  /\ RunsWhenDue
  /\ Stores

-----------------------------------------------------------------------------
(* What one more entry does to a store.                                    *)
LEMMA AppendEntry ==
  ASSUME NEW seq \in Seq(Entries), NEW e \in Entries,
         NEW j, NEW due, NEW role
  PROVE  HasEntry(Append(seq, e), j, due, role) <=>
           HasEntry(seq, j, due, role) \/ e = [job |-> j, due |-> due, role |-> role]
<1>1. /\ Len(Append(seq, e)) = Len(seq) + 1 /\ Len(seq) \in Nat
      /\ Append(seq, e)[Len(seq) + 1] = e
      /\ \A i \in 1..Len(seq) : Append(seq, e)[i] = seq[i]
  OBVIOUS
<1>2. \A i \in 1..(Len(seq) + 1) : i \in 1..Len(seq) \/ i = Len(seq) + 1
  BY <1>1
<1>3. Len(seq) + 1 \in 1..(Len(seq) + 1) /\ \A i \in 1..Len(seq) : i \in 1..(Len(seq) + 1)
  BY <1>1
<1>. DEFINE x == [job |-> j, due |-> due, role |-> role]
<1>. HIDE DEF x
<1>4. (\E i \in 1..Len(Append(seq, e)) : Append(seq, e)[i] = x)
        <=> (\E i \in 1..Len(seq) : seq[i] = x) \/ e = x
  BY <1>1, <1>2, <1>3
<1>. QED  BY <1>4 DEF HasEntry, x

(* A new entry is the only one of its kind.                                *)
LEMMA AppendOnce ==
  ASSUME NEW seq \in Seq(Entries), NEW e \in Entries,
         ~HasEntry(seq, e.job, e.due, e.role),
         \A i, k \in 1..Len(seq) : seq[i] = seq[k] => i = k
  PROVE  \A i, k \in 1..Len(Append(seq, e)) :
           Append(seq, e)[i] = Append(seq, e)[k] => i = k
<1>1. /\ Len(Append(seq, e)) = Len(seq) + 1 /\ Len(seq) \in Nat
      /\ Append(seq, e)[Len(seq) + 1] = e
      /\ \A i \in 1..Len(seq) : Append(seq, e)[i] = seq[i]
  OBVIOUS
<1>2. e = [job |-> e.job, due |-> e.due, role |-> e.role]
  BY DEF Entries
<1>3. \A i \in 1..Len(seq) : seq[i] # e
  BY <1>2 DEF HasEntry
<1>4. \A i \in 1..(Len(seq) + 1) : i \in 1..Len(seq) \/ i = Len(seq) + 1
  BY <1>1
<1>. QED  BY <1>1, <1>3, <1>4

(* The prefixes of a store are those it had before the last append.        *)
LEMMA AppendPrefix ==
  ASSUME NEW seq \in Seq(Entries), NEW e \in Entries
  PROVE  /\ \A i \in 1..Len(seq) : SubSeq(Append(seq, e), 1, i - 1) = SubSeq(seq, 1, i - 1)
         /\ SubSeq(Append(seq, e), 1, Len(seq)) = seq
<1>1. /\ Len(Append(seq, e)) = Len(seq) + 1 /\ Len(seq) \in Nat
      /\ \A i \in 1..Len(seq) : Append(seq, e)[i] = seq[i]
      /\ Append(seq, e) \in Seq(Entries)
  OBVIOUS
<1>2. ASSUME NEW i \in 1..Len(seq)
      PROVE  SubSeq(Append(seq, e), 1, i - 1) = SubSeq(seq, 1, i - 1)
  BY <1>1, <1>2
<1>3. SubSeq(Append(seq, e), 1, Len(seq)) = seq
  BY <1>1
<1>. QED  BY <1>2, <1>3

LEMMA BoundsAreNumbers ==
  MaxTime \in Nat /\ MaxCrashes \in Nat /\ NoJob \notin Jobs /\ Configs \subseteq SUBSET Jobs
BY CronAssumption

\* Rows are in the Markdown session too.
LEMMA RowsInMarkdown ==
  ASSUME TypeOK, RepliesFollowPrompts, NEW j, NEW due, NEW role,
         HasEntry(db, j, due, role)
  PROVE  HasEntry(md, j, due, role)
<1>1. PICK i \in 1..Len(db) : db[i] = [job |-> j, due |-> due, role |-> role]
  BY DEF HasEntry
<1>2. HasEntry(md, db[i].job, db[i].due, db[i].role)
  BY <1>1 DEF RepliesFollowPrompts
<1>. QED  BY <1>1, <1>2

\* The due time of a job is a time the bounds leave room for.
LEMMA NextAfterBounded ==
  ASSUME NEW j \in Jobs, Parses(j), NEW t \in 0..MaxTime
  PROVE  NextAfter(j, t) \in Occurrences
<1>1. NextAfter(j, t) \in Nat /\ NextAfter(j, t) <= t + Day
  BY NextAfterIsNext, BoundsAreNumbers
<1>. QED  BY <1>1, DayIsPositive, BoundsAreNumbers DEF Occurrences

\* A job that the step leaves alone, and that is not given a new due time.
LEMMA KeepsJob ==
  ASSUME NEW j \in Jobs, JobOK(j), Loaded(j)' => Loaded(j),
         next'[j] = next[j], loadedAt'[j] = loadedAt[j],
         j \in table => j \in table', runs \subseteq runs',
         j = running => j = running',
         \A due \in Occurrences, role \in Roles :
           HasEntry(md', j, due, role) =>
             HasEntry(md, j, due, role) \/ (j = running' /\ due = next[j])
  PROVE  JobOK(j)'
<1>. SUFFICES ASSUME Loaded(j)' PROVE JobOK(j)'
  BY DEF JobOK
<1>1. /\ Parses(j) /\ j \in table /\ loadedAt[j] < next[j]
      /\ IsOccurrence(j, next[j]) /\ PostedBefore(j) /\ Covered(j)
  BY DEF JobOK
<1>2. PostedBefore(j)'
  BY <1>1 DEF PostedBefore
<1>3. Covered(j)'
  BY <1>1 DEF Covered
<1>. QED  BY <1>1, <1>2, <1>3 DEF JobOK

\* The job that gets a new due time, from a time that nothing is missing at.
LEMMA Rescheduled ==
  ASSUME TypeOK, NEW j \in Jobs, Parses(j), NEW t \in 0..MaxTime,
         next'[j] = NextAfter(j, t), j \in table',
         loadedAt'[j] \in Nat, loadedAt'[j] <= t,
         \A due \in Occurrences, role \in Roles :
           HasEntry(md', j, due, role) => due <= t,
         \A u \in Occurrences : IsOccurrence(j, u) /\ loadedAt'[j] < u /\ u <= t =>
           \E r \in runs' : r.job = j /\ r.due <= u /\ u <= r.at
  PROVE  JobOK(j)'
<1>1. /\ NextAfter(j, t) \in Nat /\ t < NextAfter(j, t)
      /\ IsOccurrence(j, NextAfter(j, t))
      /\ \A u \in Int : IsOccurrence(j, u) /\ t < u => NextAfter(j, t) <= u
  BY NextAfterIsNext, BoundsAreNumbers
<1>2. Occurrences \subseteq Nat /\ t \in Nat
  BY BoundsAreNumbers, DayIsPositive DEF Occurrences
<1>3. PostedBefore(j)'
  BY <1>1, <1>2 DEF PostedBefore
<1>4. Covered(j)'
  <2>1. ASSUME NEW u \in Occurrences, IsOccurrence(j, u), u < NextAfter(j, t)
        PROVE  u <= t
    BY <1>1, <1>2, <2>1
  <2>. QED  BY <2>1 DEF Covered
<1>5. loadedAt'[j] < next'[j] /\ IsOccurrence(j, next'[j])
  BY <1>1, <1>2
<1>. QED  BY <1>3, <1>4, <1>5 DEF JobOK

\* Steps that write to neither store.
LEMMA SameStores ==
  ASSUME IInv, UNCHANGED <<md, db>>, now <= now', now' \in Nat
  PROVE  Stores' /\ PostedLate'
<1>1. OncePerOccurrence'
  BY DEF IInv, Stores, OncePerOccurrence
<1>2. RepliesFollowPrompts'
  BY DEF IInv, Stores, RepliesFollowPrompts
<1>3. Occurrences \subseteq Nat /\ now \in Nat
  BY BoundsAreNumbers, DayIsPositive DEF Occurrences, IInv, TypeOK
<1>4. PostedLate'
  BY <1>3 DEF IInv, PostedLate
<1>. QED  BY <1>1, <1>2, <1>4 DEF Stores

-----------------------------------------------------------------------------
(* Each step keeps the invariant.                                          *)

LEMMA PassStep ==
  ASSUME IInv, Pass
  PROVE  IInv'
<1>. USE DEF Pass, worker, stores, history
<1>1. now' \in 0..MaxTime /\ now <= now' /\ now' \in Nat /\ now \in Nat
  BY BoundsAreNumbers DEF IInv, TypeOK
<1>2. TypeOK'
  BY <1>1 DEF IInv, TypeOK
<1>3. ProcessOK'
  BY <1>1, BoundsAreNumbers DEF IInv, TypeOK, ProcessOK
<1>4. \A j \in Jobs : JobOK(j)'
  BY KeepsJob DEF IInv, Loaded
<1>5. RunOK'
  BY DEF IInv, RunOK
<1>6. RunsWhenDue'
  BY <1>1, BoundsAreNumbers DEF IInv, TypeOK, RunsWhenDue
<1>. QED  BY <1>1, <1>2, <1>3, <1>4, <1>5, <1>6, SameStores DEF IInv

LEMMA LoadJobStep ==
  ASSUME IInv, NEW j \in Jobs, LoadJob(j)
  PROVE  IInv'
<1>. USE DEF LoadJob, Die
<1>1. /\ next' \in [Jobs -> Occurrences] /\ loadedAt' \in [Jobs -> 0..MaxTime]
  <2>1. Parses(j) => NextAfter(j, now) \in Occurrences
    BY NextAfterBounded DEF IInv, TypeOK
  <2>. QED  BY <2>1 DEF IInv, TypeOK
<1>2. TypeOK'
  BY <1>1 DEF IInv, TypeOK
<1>3. ProcessOK'
  <2>1. \A k \in Jobs : loadedAt'[k] <= now
    <3>1. now <= now /\ \A k \in Jobs : loadedAt[k] <= now
      BY BoundsAreNumbers DEF IInv, TypeOK, ProcessOK
    <3>. QED  BY <3>1 DEF IInv, TypeOK
  <2>. QED  BY <2>1 DEF IInv, ProcessOK
<1>4. ASSUME NEW k \in Jobs
      PROVE  JobOK(k)'
  <2>1. CASE phase' = "down"
    BY <2>1 DEF JobOK, Loaded
  <2>2. CASE phase' # "down" /\ k # j
    <3>1. next'[k] = next[k] /\ loadedAt'[k] = loadedAt[k] /\ Parses(j)
      BY <2>2 DEF IInv, TypeOK
    <3>2. Loaded(k)' => Loaded(k)
      BY <2>2 DEF Loaded
    <3>3. running' = running /\ table \subseteq table' /\ UNCHANGED <<md, runs>>
      BY <2>2
    <3>. QED  BY <3>1, <3>2, <3>3, KeepsJob DEF IInv
  <2>3. CASE phase' # "down" /\ k = j
    <3>1. /\ Parses(j) /\ next'[j] = NextAfter(j, now) /\ loadedAt'[j] = now
          /\ j \in table' /\ now \in 0..MaxTime /\ md' = md
      BY <2>3 DEF IInv, TypeOK
    <3>2. now \in Nat /\ now <= now
      BY <3>1, BoundsAreNumbers
    <3>3. \A u \in Occurrences : ~(now < u /\ u <= now)
      BY <3>2, BoundsAreNumbers, DayIsPositive DEF Occurrences
    <3>4. \A due \in Occurrences, role \in Roles : HasEntry(md', j, due, role) => due <= now
      BY <3>1 DEF IInv, PostedLate
    <3>. QED  BY <2>3, <3>1, <3>2, <3>3, <3>4, Rescheduled DEF IInv
  <2>. QED  BY <2>1, <2>2, <2>3
<1>5. RunOK'
  BY DEF IInv, ProcessOK, RunOK
<1>6. RunsWhenDue'
  BY DEF IInv, RunsWhenDue
<1>7. now <= now' /\ now' \in Nat /\ UNCHANGED <<md, db>>
  BY BoundsAreNumbers DEF IInv, TypeOK
<1>. QED  BY <1>2, <1>3, <1>4, <1>5, <1>6, <1>7, SameStores DEF IInv

\* What a step keeps that neither moves the clock nor writes nor gives any
\* job a new due time.
LEMMA QuietStep ==
  ASSUME IInv, TypeOK', ProcessOK', RunOK', RunsWhenDue',
         UNCHANGED <<now, next, md, db, table, loadedAt>>, runs \subseteq runs',
         \A j \in Jobs : Loaded(j)' => Loaded(j),
         running # NoJob => running' = running
  PROVE  IInv'
<1>1. \A j \in Jobs : JobOK(j)'
  <2>1. \A j \in Jobs : j = running => j = running'
    BY BoundsAreNumbers
  <2>. QED  BY <2>1, KeepsJob DEF IInv
<1>2. now <= now' /\ now' \in Nat
  BY BoundsAreNumbers DEF IInv, TypeOK
<1>. QED  BY <1>1, <1>2, SameStores DEF IInv

LEMMA StartStep ==
  ASSUME IInv, Start
  PROVE  IInv'
<1>. USE DEF IInv, Start, worker, stores, history
<1>1. TypeOK' /\ ProcessOK'
  BY DEF TypeOK, ProcessOK
<1>2. RunOK' /\ RunsWhenDue'
  BY DEF RunOK, RunsWhenDue
<1>3. \A j \in Jobs : Loaded(j)' => Loaded(j)
  BY DEF Loaded
<1>. QED  BY <1>1, <1>2, <1>3, QuietStep

LEMMA TickStep ==
  ASSUME IInv, Tick
  PROVE  IInv'
<1>. USE DEF IInv, Tick, Idle, stores, history
<1>1. TypeOK' /\ ProcessOK'
  <2>1. cfg \in SUBSET Jobs /\ now <= now
    BY BoundsAreNumbers DEF TypeOK
  <2>. QED  BY <2>1 DEF TypeOK, ProcessOK
<1>2. RunOK' /\ RunsWhenDue'
  BY DEF RunOK, RunsWhenDue
<1>3. \A j \in Jobs : Loaded(j)' => Loaded(j)
  BY DEF Loaded
<1>. QED  BY <1>1, <1>2, <1>3, QuietStep

LEMMA SkipStep ==
  ASSUME IInv, NEW j \in Jobs, Skip(j)
  PROVE  IInv'
<1>. USE DEF IInv, Skip, stores, history
<1>1. TypeOK' /\ ProcessOK'
  BY DEF TypeOK, ProcessOK
<1>2. RunOK' /\ RunsWhenDue'
  BY DEF RunOK, RunsWhenDue
<1>3. \A k \in Jobs : Loaded(k)' => Loaded(k)
  BY DEF Loaded
<1>. QED  BY <1>1, <1>2, <1>3, QuietStep

LEMMA BeginStep ==
  ASSUME IInv, NEW j \in Jobs, Begin(j)
  PROVE  IInv'
<1>. USE DEF IInv, Begin, stores
<1>. DEFINE new == [job |-> j, due |-> next[j], at |-> tickAt]
<1>1. j \in cfg /\ j # NoJob /\ Loaded(j) /\ JobOK(j)
  BY BoundsAreNumbers DEF ProcessOK, Loaded
<1>2. TypeOK'
  BY DEF TypeOK, Steps
<1>3. ProcessOK'
  BY DEF ProcessOK
<1>4. RunOK'
  <2>1. ASSUME NEW role \in Roles
        PROVE  ~HasEntry(md, j, next[j], role)
    <3>1. PostedBefore(j) /\ next[j] \in Occurrences /\ ~(next[j] < next[j])
      BY <1>1, BoundsAreNumbers, DayIsPositive DEF JobOK, TypeOK, Occurrences
    <3>. QED  BY <1>1, <3>1 DEF PostedBefore
  <2>2. ASSUME NEW role \in Roles
        PROVE  ~HasEntry(db, j, next[j], role)
    BY <2>1, RowsInMarkdown DEF Stores
  <2>3. new \in runs' /\ running' = j /\ step' = "prompt_md"
    OBVIOUS
  <2>. QED  BY <2>1, <2>2, <2>3 DEF RunOK, Roles
<1>5. RunsWhenDue'
  <2>1. IsOccurrence(j, next[j]) /\ next[j] <= tickAt /\ tickAt <= now
    BY <1>1 DEF JobOK, ProcessOK
  <2>2. \A r \in runs' : r \in runs \/ r = new
    OBVIOUS
  <2>. QED  BY <2>1, <2>2 DEF RunsWhenDue
<1>6. \A k \in Jobs : Loaded(k)' => Loaded(k)
  BY DEF Loaded
<1>. QED  BY <1>2, <1>3, <1>4, <1>5, <1>6, QuietStep

-----------------------------------------------------------------------------
(* The steps of a run.                                                     *)

\* The steps of Run: the run ends, with or without its last row; an entry
\* goes to the Markdown session; the prompt's row is inserted; the model
\* answers.
LEMMA RunCases ==
  ASSUME Run
  PROVE  /\ phase = "up" /\ running # NoJob
         /\ UNCHANGED <<now, cfg, phase, tickAt, table, crashes, loadedAt, runs>>
         /\ \/ /\ Finish /\ UNCHANGED md
               /\ \/ UNCHANGED db
                  \/ step = "reply_db" /\ db' = Append(db, Entry("assistant"))
            \/ /\ UNCHANGED db
               /\ \/ /\ step = "prompt_md" /\ Goto("prompt_db")
                     /\ md' = Append(md, Entry("system"))
                  \/ /\ step = "reply_md" /\ Goto("reply_db")
                     /\ md' = Append(md, Entry("assistant"))
            \/ /\ step = "prompt_db" /\ Goto("llm")
               /\ UNCHANGED md /\ db' = Append(db, Entry("system"))
            \/ step = "llm" /\ Goto("reply_md") /\ UNCHANGED <<md, db>>
BY DEF Run, AppendPrompt, InsertRow, Complete, AppendReply, history

\* A run is of a job that is loaded, and its entries are entries.
LEMMA RunningJob ==
  ASSUME IInv, phase = "up", running # NoJob
  PROVE  /\ running \in Jobs /\ Loaded(running) /\ next[running] \in Occurrences
         /\ \A role \in Roles :
              /\ Entry(role) \in Entries
              /\ Entry(role) = [job |-> running, due |-> next[running], role |-> role]
<1>1. running \in Jobs /\ next[running] \in Occurrences
  BY DEF IInv, TypeOK
<1>2. Loaded(running)
  BY DEF IInv, ProcessOK, Loaded
<1>. QED  BY <1>1, <1>2 DEF Entry, Entries, Roles

\* An entry that goes to the Markdown session, and its row to SQLite.
LEMMA PostToMarkdown ==
  ASSUME TypeOK, Stores, NEW e \in Entries,
         md' = Append(md, e), db' = db,
         ~HasEntry(md, e.job, e.due, e.role),
         e.role = "assistant" =>
           HasEntry(md, e.job, e.due, "system") /\ HasEntry(db, e.job, e.due, "system")
  PROVE  Stores'
<1>1. md \in Seq(Entries) /\ Len(md) \in Nat /\ Len(md') = Len(md) + 1
      /\ md'[Len(md) + 1] = e /\ \A i \in 1..Len(md) : md'[i] = md[i]
  BY DEF TypeOK
<1>2. OncePerOccurrence'
  BY <1>1, AppendOnce DEF Stores, OncePerOccurrence
<1>3. ASSUME NEW i \in 1..Len(md'), md'[i].role = "assistant"
      PROVE  /\ HasEntry(SubSeq(md', 1, i - 1), md'[i].job, md'[i].due, "system")
             /\ HasEntry(db', md'[i].job, md'[i].due, "system")
  <2>1. CASE i \in 1..Len(md)
    <3>1. SubSeq(md', 1, i - 1) = SubSeq(md, 1, i - 1) /\ md'[i] = md[i]
      BY <1>1, <2>1, AppendPrefix
    <3>. QED  BY <1>3, <2>1, <3>1 DEF Stores, RepliesFollowPrompts
  <2>2. CASE i = Len(md) + 1
    <3>1. SubSeq(md', 1, i - 1) = md /\ md'[i] = e
      <4>1. i - 1 = Len(md)
        BY <1>1, <2>2
      <4>. QED  BY <1>1, <2>2, <4>1, AppendPrefix
    <3>. QED  BY <1>3, <3>1
  <2>. QED  BY <1>1, <2>1, <2>2
<1>4. ASSUME NEW i \in 1..Len(db')
      PROVE  HasEntry(md', db'[i].job, db'[i].due, db'[i].role)
  <2>1. HasEntry(md, db[i].job, db[i].due, db[i].role)
    BY <1>4 DEF Stores, RepliesFollowPrompts
  <2>. QED  BY <1>1, <2>1, AppendEntry
<1>. QED  BY <1>2, <1>3, <1>4 DEF Stores, RepliesFollowPrompts

LEMMA PostToSQLite ==
  ASSUME TypeOK, Stores, NEW e \in Entries,
         db' = Append(db, e), md' = md,
         ~HasEntry(db, e.job, e.due, e.role),
         HasEntry(md, e.job, e.due, e.role)
  PROVE  Stores'
<1>1. db \in Seq(Entries) /\ Len(db) \in Nat /\ Len(db') = Len(db) + 1
      /\ db'[Len(db) + 1] = e /\ \A i \in 1..Len(db) : db'[i] = db[i]
  BY DEF TypeOK
<1>2. OncePerOccurrence'
  BY <1>1, AppendOnce DEF Stores, OncePerOccurrence
<1>3. ASSUME NEW i \in 1..Len(md'), md'[i].role = "assistant"
      PROVE  /\ HasEntry(SubSeq(md', 1, i - 1), md'[i].job, md'[i].due, "system")
             /\ HasEntry(db', md'[i].job, md'[i].due, "system")
  <2>1. /\ HasEntry(SubSeq(md, 1, i - 1), md[i].job, md[i].due, "system")
        /\ HasEntry(db, md[i].job, md[i].due, "system")
    BY <1>3 DEF Stores, RepliesFollowPrompts
  <2>. QED  BY <1>1, <2>1, AppendEntry
<1>4. ASSUME NEW i \in 1..Len(db')
      PROVE  HasEntry(md', db'[i].job, db'[i].due, db'[i].role)
  <2>1. CASE i \in 1..Len(db)
    BY <1>1, <2>1 DEF Stores, RepliesFollowPrompts
  <2>2. CASE i = Len(db) + 1
    BY <1>1, <2>2
  <2>. QED  BY <1>1, <2>1, <2>2
<1>. QED  BY <1>2, <1>3, <1>4 DEF Stores, RepliesFollowPrompts

LEMMA FinishStep ==
  ASSUME IInv, phase = "up", running # NoJob, Finish, UNCHANGED md,
         UNCHANGED <<now, cfg, phase, tickAt, table, crashes, loadedAt, runs>>,
         \/ UNCHANGED db
         \/ step = "reply_db" /\ db' = Append(db, Entry("assistant"))
  PROVE  IInv'
<1>. USE DEF IInv
<1>1. /\ running \in Jobs /\ Loaded(running) /\ next[running] \in Occurrences
      /\ JobOK(running) /\ Parses(running)
  BY RunningJob DEF JobOK
<1>2. /\ left' = left \ {running} /\ running' = NoJob /\ step' = step
      /\ next' = [next EXCEPT ![running] = NextAfter(running, tickAt)]
  BY DEF Finish
<1>3. TypeOK'
  <2>1. next' \in [Jobs -> Occurrences]
    BY <1>1, <1>2, NextAfterBounded DEF TypeOK
  <2>2. db' \in Seq(Entries)
    <3>1. Entry("assistant") \in Entries
      BY RunningJob DEF Roles
    <3>2. db \in Seq(Entries) /\ (db' = db \/ db' = Append(db, Entry("assistant")))
      BY DEF TypeOK
    <3>. QED  BY <3>1, <3>2
  <2>. QED  BY <1>2, <2>1, <2>2 DEF TypeOK
<1>4. ProcessOK'
  BY <1>2 DEF ProcessOK
<1>5. ASSUME NEW k \in Jobs
      PROVE  JobOK(k)'
  <2>1. CASE k # running
    <3>1. next'[k] = next[k]
      BY <1>2, <2>1 DEF TypeOK
    <3>2. Loaded(k)' => Loaded(k)
      BY DEF Loaded
    <3>. QED  BY <2>1, <3>1, <3>2, KeepsJob
  <2>2. CASE k = running
    <3>1. /\ next'[k] = NextAfter(k, tickAt) /\ tickAt \in 0..MaxTime
          /\ k \in table' /\ loadedAt'[k] = loadedAt[k]
      BY <1>1, <1>2, <2>2 DEF TypeOK, JobOK
    <3>2. /\ next[k] <= tickAt
          /\ [job |-> k, due |-> next[k], at |-> tickAt] \in runs
      BY <2>2 DEF RunOK
    <3>3. Occurrences \subseteq Nat /\ loadedAt[k] \in Nat /\ next[k] \in Nat /\ tickAt \in Nat
      BY <1>1, <2>2, BoundsAreNumbers, DayIsPositive DEF Occurrences, TypeOK
    <3>4. PostedBefore(k) /\ Covered(k) /\ loadedAt[k] < next[k]
      BY <1>1, <2>2 DEF JobOK
    <3>5. ASSUME NEW due \in Occurrences, NEW role \in Roles, HasEntry(md', k, due, role)
          PROVE  due <= tickAt
      BY <3>2, <3>3, <3>4, <3>5 DEF PostedBefore
    <3>6. ASSUME NEW u \in Occurrences, IsOccurrence(k, u), loadedAt'[k] < u, u <= tickAt
          PROVE  \E r \in runs' : r.job = k /\ r.due <= u /\ u <= r.at
      <4>1. CASE u < next[k]
        BY <3>1, <3>4, <3>6, <4>1 DEF Covered
      <4>2. CASE next[k] <= u
        BY <3>2, <3>6, <4>2
      <4>. QED  BY <3>3, <4>1, <4>2
    <3>7. loadedAt[k] <= tickAt
      BY <3>2, <3>3, <3>4
    <3>. QED  BY <1>1, <2>2, <3>1, <3>3, <3>5, <3>6, <3>7, Rescheduled
  <2>. QED  BY <2>1, <2>2
<1>6. Stores' /\ PostedLate'
  <2>0. now <= now' /\ now' \in Nat
    BY BoundsAreNumbers DEF TypeOK
  <2>1. CASE UNCHANGED db
    BY <2>0, <2>1, SameStores
  <2>2. CASE step = "reply_db" /\ db' = Append(db, Entry("assistant"))
    <3>1. PostedLate'
      BY DEF PostedLate
    <3>2. /\ Entry("assistant") \in Entries
          /\ Entry("assistant") = [job |-> running, due |-> next[running], role |-> "assistant"]
      BY RunningJob DEF Roles
    <3>3. /\ ~HasEntry(db, running, next[running], "assistant")
          /\ HasEntry(md, running, next[running], "assistant")
      BY <2>2 DEF RunOK
    <3>. QED  BY <2>2, <3>1, <3>2, <3>3, PostToSQLite
  <2>. QED  BY <2>1, <2>2
<1>7. RunOK' /\ RunsWhenDue'
  BY <1>2 DEF RunOK, RunsWhenDue
<1>. QED  BY <1>3, <1>4, <1>5, <1>6, <1>7

\* An entry of the run goes to the Markdown session.
LEMMA MarkdownStep ==
  ASSUME IInv, phase = "up", running # NoJob, UNCHANGED db,
         UNCHANGED <<now, cfg, phase, tickAt, table, crashes, loadedAt, runs>>,
         NEW role \in Roles, NEW then \in Steps, md' = Append(md, Entry(role)), Goto(then),
         \/ role = "system" /\ step = "prompt_md" /\ then = "prompt_db"
         \/ role = "assistant" /\ step = "reply_md" /\ then = "reply_db"
  PROVE  IInv'
<1>. USE DEF IInv, Goto
<1>1. /\ running \in Jobs /\ Loaded(running) /\ next[running] \in Occurrences
      /\ Entry(role) \in Entries
      /\ Entry(role) = [job |-> running, due |-> next[running], role |-> role]
  BY RunningJob
<1>2. \A j, due, other :
        HasEntry(md', j, due, other) <=>
          \/ HasEntry(md, j, due, other)
          \/ j = running /\ due = next[running] /\ other = role
  <2>1. \A j, due, other :
          Entry(role) = [job |-> j, due |-> due, role |-> other] <=>
            j = running /\ due = next[running] /\ other = role
    BY <1>1
  <2>. QED  BY <1>1, <2>1, AppendEntry DEF TypeOK
<1>3. TypeOK'
  <2>1. md' \in Seq(Entries)
    BY <1>1 DEF TypeOK
  <2>. QED  BY <2>1 DEF TypeOK
<1>4. ProcessOK'
  BY DEF ProcessOK
<1>5. \A j \in Jobs : JobOK(j)'
  <2>1. \A j \in Jobs : Loaded(j)' => Loaded(j)
    BY DEF Loaded
  <2>. QED  BY <1>2, <2>1, KeepsJob
<1>6. PostedLate'
  <2>1. next[running] <= now
    BY <1>1, BoundsAreNumbers, DayIsPositive DEF RunOK, ProcessOK, TypeOK, Occurrences
  <2>. QED  BY <1>2, <2>1 DEF PostedLate
<1>7. Stores'
  BY <1>1, PostToMarkdown DEF RunOK
<1>8. RunOK'
  BY <1>2 DEF RunOK
<1>9. RunsWhenDue'
  BY DEF RunsWhenDue
<1>. QED  BY <1>3, <1>4, <1>5, <1>6, <1>7, <1>8, <1>9

\* The row of the prompt goes to SQLite.
LEMMA PromptRowStep ==
  ASSUME IInv, phase = "up", running # NoJob, UNCHANGED md,
         UNCHANGED <<now, cfg, phase, tickAt, table, crashes, loadedAt, runs>>,
         step = "prompt_db", db' = Append(db, Entry("system")), Goto("llm")
  PROVE  IInv'
<1>. USE DEF IInv, Goto
<1>1. /\ running \in Jobs /\ Loaded(running) /\ next[running] \in Occurrences
      /\ Entry("system") \in Entries
      /\ Entry("system") = [job |-> running, due |-> next[running], role |-> "system"]
  BY RunningJob DEF Roles
<1>2. \A j, due, other :
        HasEntry(db', j, due, other) <=>
          \/ HasEntry(db, j, due, other)
          \/ j = running /\ due = next[running] /\ other = "system"
  <2>1. \A j, due, other :
          Entry("system") = [job |-> j, due |-> due, role |-> other] <=>
            j = running /\ due = next[running] /\ other = "system"
    BY <1>1
  <2>. QED  BY <1>1, <2>1, AppendEntry DEF TypeOK
<1>3. TypeOK'
  <2>1. db' \in Seq(Entries)
    BY <1>1 DEF TypeOK
  <2>. QED  BY <2>1 DEF TypeOK, Steps
<1>4. ProcessOK'
  BY DEF ProcessOK
<1>5. \A j \in Jobs : JobOK(j)'
  <2>1. \A j \in Jobs : Loaded(j)' => Loaded(j)
    BY DEF Loaded
  <2>. QED  BY <2>1, KeepsJob
<1>6. PostedLate'
  BY DEF PostedLate
<1>7. Stores'
  BY <1>1, PostToSQLite DEF RunOK
<1>8. RunOK'
  BY <1>2 DEF RunOK
<1>9. RunsWhenDue'
  BY DEF RunsWhenDue
<1>. QED  BY <1>3, <1>4, <1>5, <1>6, <1>7, <1>8, <1>9

LEMMA RunStep ==
  ASSUME IInv, Run
  PROVE  IInv'
<1>. USE RunCases
<1>1. CASE /\ Finish /\ UNCHANGED md
           /\ \/ UNCHANGED db
              \/ step = "reply_db" /\ db' = Append(db, Entry("assistant"))
  BY <1>1, FinishStep
<1>2. CASE /\ UNCHANGED db
           /\ \/ /\ step = "prompt_md" /\ Goto("prompt_db")
                 /\ md' = Append(md, Entry("system"))
              \/ /\ step = "reply_md" /\ Goto("reply_db")
                 /\ md' = Append(md, Entry("assistant"))
  BY <1>2, MarkdownStep DEF Steps, Roles
<1>3. CASE /\ step = "prompt_db" /\ Goto("llm")
           /\ UNCHANGED md /\ db' = Append(db, Entry("system"))
  BY <1>3, PromptRowStep
<1>4. CASE step = "llm" /\ Goto("reply_md") /\ UNCHANGED <<md, db>>
  <2>. USE <1>4 DEF IInv, Goto
  <2>1. TypeOK' /\ ProcessOK'
    BY DEF TypeOK, ProcessOK, Steps
  <2>2. RunOK' /\ RunsWhenDue'
    BY DEF RunOK, RunsWhenDue
  <2>3. \A j \in Jobs : Loaded(j)' => Loaded(j)
    BY DEF Loaded
  <2>. QED  BY <2>1, <2>2, <2>3, QuietStep
<1>. QED  BY <1>1, <1>2, <1>3, <1>4

-----------------------------------------------------------------------------
LEMMA CrashStep ==
  ASSUME IInv, Crash
  PROVE  IInv'
<1>. USE DEF IInv, Crash, Die, stores, history
<1>1. TypeOK' /\ ProcessOK'
  BY BoundsAreNumbers DEF TypeOK, ProcessOK
<1>2. \A j \in Jobs : JobOK(j)'
  BY DEF JobOK, Loaded
<1>3. RunOK' /\ RunsWhenDue'
  BY DEF RunOK, RunsWhenDue
<1>4. now <= now' /\ now' \in Nat
  BY BoundsAreNumbers DEF TypeOK
<1>. QED  BY <1>1, <1>2, <1>3, <1>4, SameStores

LEMMA RestartStep ==
  ASSUME IInv, Restart
  PROVE  IInv'
<1>. USE DEF IInv, Restart, stores, history
<1>1. TypeOK' /\ ProcessOK'
  BY BoundsAreNumbers DEF TypeOK, ProcessOK
<1>2. \A j \in Jobs : JobOK(j)'
  BY DEF JobOK, Loaded
<1>3. RunOK' /\ RunsWhenDue'
  BY DEF RunOK, RunsWhenDue, ProcessOK
<1>4. now <= now' /\ now' \in Nat
  BY BoundsAreNumbers DEF TypeOK
<1>. QED  BY <1>1, <1>2, <1>3, <1>4, SameStores

LEMMA InitInv == Init => IInv
<1>. SUFFICES ASSUME Init PROVE IInv
  OBVIOUS
<1>. USE DEF Init
<1>1. 0 \in Occurrences /\ 0 \in 0..MaxTime /\ 0 \in 0..MaxCrashes
  BY BoundsAreNumbers, DayIsPositive DEF Occurrences
<1>2. TypeOK
  BY <1>1, BoundsAreNumbers DEF TypeOK, Steps
<1>3. ProcessOK
  BY DEF ProcessOK
<1>4. \A j \in Jobs : JobOK(j)
  BY DEF JobOK, Loaded
<1>5. PostedLate /\ RunOK /\ RunsWhenDue
  BY DEF PostedLate, HasEntry, RunOK, RunsWhenDue
<1>6. Stores
  BY DEF Stores, OncePerOccurrence, RepliesFollowPrompts
<1>. QED  BY <1>2, <1>3, <1>4, <1>5, <1>6 DEF IInv

LEMMA NextInv == IInv /\ [Next]_vars => IInv'
<1>. SUFFICES ASSUME IInv, [Next]_vars PROVE IInv'
  OBVIOUS
<1>1. CASE UNCHANGED vars
  <2>. USE <1>1 DEF vars, IInv
  <2>1. TypeOK' /\ ProcessOK'
    BY DEF TypeOK, ProcessOK
  <2>2. RunOK' /\ RunsWhenDue'
    BY DEF RunOK, RunsWhenDue
  <2>3. \A j \in Jobs : Loaded(j)' => Loaded(j)
    BY DEF Loaded
  <2>. QED  BY <2>1, <2>2, <2>3, QuietStep
<1>. QED  BY <1>1, PassStep, LoadJobStep, SkipStep, BeginStep, StartStep, TickStep,
             RunStep, CrashStep, RestartStep DEF Next

-----------------------------------------------------------------------------
(* The invariant of the scheduler, whatever fails and whenever the process *)
(* is killed, restarted and given another configuration.                   *)
THEOREM Invariance == Spec => []IInv
BY InitInv, NextInv, PTL DEF Spec

(* Type correctness of the scheduler.                                      *)
THEOREM TypeCorrect == Spec => []TypeOK
<1>1. IInv => TypeOK
  BY DEF IInv
<1>. QED  BY <1>1, Invariance, PTL

(* A job posts once at most for each time it is due.                       *)
THEOREM PostsOncePerOccurrence == Spec => []OncePerOccurrence
<1>1. IInv => OncePerOccurrence
  BY DEF IInv, Stores
<1>. QED  BY <1>1, Invariance, PTL

(* A reply stands behind its prompt, and SQLite holds what Markdown holds. *)
THEOREM RepliesComeSecond == Spec => []RepliesFollowPrompts
<1>1. IInv => RepliesFollowPrompts
  BY DEF IInv, Stores
<1>. QED  BY <1>1, Invariance, PTL

(* No run begins early, nor at another time of day than the schedule's.    *)
THEOREM RunsAreDue == Spec => []RunsWhenDue
<1>1. IInv => RunsWhenDue
  BY DEF IInv
<1>. QED  BY <1>1, Invariance, PTL

(* No time at which a job was due while the process was up is lost.        *)
THEOREM NoneIsLost == Spec => []NoneLostWhileUp
<1>1. ASSUME IInv, phase = "up", NEW j \in cfg
      PROVE  Covered(j)
  <2>1. j \in Jobs /\ Loaded(j)
    BY <1>1, BoundsAreNumbers DEF IInv, TypeOK, Loaded
  <2>. QED  BY <1>1, <2>1 DEF IInv, JobOK
<1>2. IInv => NoneLostWhileUp
  BY <1>1 DEF NoneLostWhileUp, Covered
<1>. QED  BY <1>2, Invariance, PTL

(* A process that runs has loaded every job in this life of it.            *)
THEOREM UpIsLoaded == Spec => []UpMeansLoaded
<1>1. ASSUME IInv, phase = "up", NEW j \in cfg
      PROVE  Parses(j) /\ j \in table /\ next[j] > loadedAt[j]
  <2>1. j \in Jobs /\ Loaded(j)
    BY <1>1, BoundsAreNumbers DEF IInv, TypeOK, Loaded
  <2>2. next[j] \in Int /\ loadedAt[j] \in Int
    BY <1>1, <2>1, BoundsAreNumbers, DayIsPositive DEF IInv, TypeOK, Occurrences
  <2>. QED  BY <1>1, <2>1, <2>2 DEF IInv, JobOK
<1>2. IInv => UpMeansLoaded
  BY <1>1 DEF UpMeansLoaded
<1>. QED  BY <1>2, Invariance, PTL

-----------------------------------------------------------------------------
(* The scheduler implements SessionLog.                                    *)

\* A later time has a later due time.
LEMMA NextAfterMonotone ==
  ASSUME NEW j \in Jobs, Parses(j), NEW t \in Nat, NEW u \in Nat, t <= u
  PROVE  NextAfter(j, t) <= NextAfter(j, u)
<1>1. /\ NextAfter(j, u) \in Nat /\ u < NextAfter(j, u)
      /\ IsOccurrence(j, NextAfter(j, u))
  BY NextAfterIsNext
<1>2. t < NextAfter(j, u) /\ NextAfter(j, u) \in Int
  BY <1>1
<1>. QED  BY <1>1, <1>2, NextAfterIsNext

\* No job, loaded or not, has a due time that a restart would go back from.
NotAhead == \A j \in Jobs : Parses(j) => next[j] <= NextAfter(j, now)

\* What a step does to the due times and to the Markdown sessions.
LEMMA PostOrNot ==
  ASSUME IInv, NotAhead, [Next]_vars
  PROVE  /\ now <= now'
         /\ \A j \in Jobs : next[j] <= next'[j]
         /\ \A j \in Jobs : \/ next'[j] = next[j]
                            \/ \E t \in 0..now : Parses(j) /\ next'[j] = NextAfter(j, t)
         /\ \/ md' = md
            \/ \E c \in Calls : /\ md' = Append(md, c) /\ next' = next
                                /\ ~HasEntry(md, c.job, c.due, c.role)
                                /\ c.due = next[c.job]
<1>1. /\ now \in Nat /\ tickAt \in 0..now /\ 0 \in 0..now /\ now \in 0..now
      /\ next \in [Jobs -> Occurrences] /\ Occurrences \subseteq Nat
      /\ \A j \in Jobs : next[j] \in Nat
  BY BoundsAreNumbers, DayIsPositive DEF IInv, TypeOK, ProcessOK, Occurrences
<1>2. CASE UNCHANGED <<now, next, md>>
  BY <1>1, <1>2
<1>3. CASE Pass
  BY <1>1, <1>3 DEF Pass, worker, stores
<1>4. ASSUME NEW j \in Jobs, LoadJob(j)
      PROVE  /\ now' = now /\ md' = md
             /\ \/ next' = next
                \/ Parses(j) /\ next' = [next EXCEPT ![j] = NextAfter(j, now)]
  BY <1>4 DEF LoadJob
<1>5. ASSUME NEW j \in Jobs, NEW t \in 0..now, Parses(j), next[j] <= NextAfter(j, t),
             next' = [next EXCEPT ![j] = NextAfter(j, t)], now' = now, md' = md
      PROVE  /\ \A k \in Jobs : next[k] <= next'[k]
             /\ \A k \in Jobs : \/ next'[k] = next[k]
                                \/ \E u \in 0..now : Parses(k) /\ next'[k] = NextAfter(k, u)
  BY <1>1, <1>5
<1>6. CASE \E j \in Jobs : LoadJob(j)
  <2>1. PICK j \in Jobs : LoadJob(j)
    BY <1>6
  <2>2. CASE next' = next
    BY <1>1, <1>2, <1>4, <2>1, <2>2
  <2>3. CASE Parses(j) /\ next' = [next EXCEPT ![j] = NextAfter(j, now)]
    <3>1. next[j] <= NextAfter(j, now)
      BY <2>3 DEF NotAhead
    <3>. QED  BY <1>1, <1>4, <1>5, <2>1, <2>3, <3>1
  <2>. QED  BY <1>4, <2>1, <2>2, <2>3
<1>7. CASE Run
  <2>1. /\ phase = "up" /\ running # NoJob /\ now' = now
        /\ running \in Jobs /\ Loaded(running)
        /\ \A role \in Roles :
              /\ Entry(role) \in Entries
              /\ Entry(role) = [job |-> running, due |-> next[running], role |-> role]
    BY <1>7, RunCases, RunningJob
  <2>2. Parses(running) /\ IsOccurrence(running, next[running])
    BY <2>1 DEF IInv, JobOK
  <2>3. CASE Finish /\ UNCHANGED md
    <3>1. next[running] <= tickAt /\ next' = [next EXCEPT ![running] = NextAfter(running, tickAt)]
      BY <2>1, <2>3 DEF Finish, IInv, RunOK
    <3>2. NextAfter(running, tickAt) \in Nat /\ tickAt < NextAfter(running, tickAt)
      BY <1>1, <2>1, <2>2, NextAfterIsNext
    <3>3. next[running] <= NextAfter(running, tickAt)
      BY <1>1, <2>1, <3>1, <3>2
    <3>. QED  BY <1>1, <1>5, <2>1, <2>2, <2>3, <3>1, <3>3
  <2>4. CASE UNCHANGED md /\ \E s \in Steps : Goto(s)
    BY <1>1, <1>2, <2>1, <2>4 DEF Goto
  <2>5. ASSUME NEW role \in Roles, md' = Append(md, Entry(role)), next' = next,
               ~HasEntry(md, running, next[running], role)
        PROVE  \E c \in Calls : /\ md' = Append(md, c) /\ next' = next
                                /\ ~HasEntry(md, c.job, c.due, c.role)
                                /\ c.due = next[c.job]
    <3>. DEFINE c == Entry(role)
    <3>1. c \in Calls
      BY <2>1, <2>2 DEF Calls
    <3>2. c.job = running /\ c.due = next[running] /\ c.role = role
      BY <2>1
    <3>. HIDE DEF c
    <3>3. md' = Append(md, c)
      BY <2>5 DEF c
    <3>. QED  BY <2>5, <3>1, <3>2, <3>3
  <2>6. CASE \E role \in Roles : /\ md' = Append(md, Entry(role)) /\ next' = next
                                 /\ ~HasEntry(md, running, next[running], role)
    BY <1>1, <2>1, <2>5, <2>6
  <2>7. \/ Finish /\ UNCHANGED md
        \/ UNCHANGED md /\ \E s \in Steps : Goto(s)
        \/ \E role \in Roles : /\ md' = Append(md, Entry(role)) /\ next' = next
                               /\ ~HasEntry(md, running, next[running], role)
    BY <1>7, RunCases DEF Goto, Roles, Steps, IInv, RunOK
  <2>. QED  BY <2>3, <2>4, <2>6, <2>7
<1>8. UNCHANGED <<now, next, md>> \/ Pass \/ Run \/ \E j \in Jobs : LoadJob(j)
  BY DEF Next, vars, worker, stores, Skip, Begin, Start, Tick, Crash, Restart
<1>. QED  BY <1>2, <1>3, <1>6, <1>7, <1>8

LEMMA DueTimesNotAhead == Spec => []NotAhead
<1>1. Init => NotAhead
  <2>1. \A j \in Jobs : Parses(j) => NextAfter(j, 0) \in Nat
    BY NextAfterIsNext
  <2>. QED  BY <2>1 DEF Init, NotAhead
<1>2. ASSUME IInv, NotAhead, [Next]_vars
      PROVE  NotAhead'
  <2>. SUFFICES ASSUME NEW j \in Jobs, Parses(j) PROVE next'[j] <= NextAfter(j, now')
    BY DEF NotAhead
  <2>1. now \in Nat /\ now' \in Nat /\ now <= now'
    BY <1>2, PostOrNot, NextInv, BoundsAreNumbers DEF IInv, TypeOK
  <2>2. NextAfter(j, now) \in Nat /\ NextAfter(j, now') \in Nat
        /\ NextAfter(j, now) <= NextAfter(j, now')
    BY <2>1, NextAfterIsNext, NextAfterMonotone
  <2>3. CASE next'[j] = next[j]
    <3>1. next[j] <= NextAfter(j, now) /\ next[j] \in Nat
      BY <1>2, BoundsAreNumbers, DayIsPositive DEF NotAhead, IInv, TypeOK, Occurrences
    <3>. QED  BY <2>2, <2>3, <3>1
  <2>4. ASSUME NEW t \in 0..now, next'[j] = NextAfter(j, t)
        PROVE  next'[j] <= NextAfter(j, now')
    <3>1. t \in Nat /\ t <= now'
      BY <2>1
    <3>. QED  BY <2>1, <2>4, <3>1, NextAfterMonotone
  <2>. QED  BY <1>2, <2>3, <2>4, PostOrNot
<1>. QED  BY <1>1, <1>2, Invariance, PTL DEF Spec

\* The session files are written as the abstract log allows: an entry once
\* at most, for a time its job is due, and not after the job was rescheduled
\* (runJob, tick), also if the process was killed and restarted in between.
THEOREM SchedulerUsesLog == Spec => UsesLog
<1>. DEFINE InMd(c) == \E i \in DOMAIN md : md[i] = c
            Stage(c) == IF InMd(c) THEN "written"
                        ELSE IF c.due < next[c.job] THEN "failed" ELSE "pending"
            Stages == [c \in Calls |-> Stage(c)]
            File == [f \in {"sessions"} |-> md]
<1>1. Posted = Stages /\ Posted' = Stages'
  BY DEF Posted
<1>2. Init => Log!Init
  <2>. SUFFICES ASSUME Init PROVE Log!Init
    OBVIOUS
  <2>1. ASSUME NEW c \in Calls
        PROVE  ~InMd(c) /\ ~(c.due < next[c.job])
    <3>1. c.due \in Nat /\ c.job \in Jobs
      BY BoundsAreNumbers, DayIsPositive DEF Calls, Entries, Occurrences
    <3>. QED  BY <3>1 DEF Init
  <2>2. Posted = [c \in Calls |-> "pending"]
    BY <1>1, <2>1
  <2>. QED  BY <2>2 DEF Init, Log!Init
<1>3. ASSUME IInv, NotAhead, [Next]_vars
      PROVE  [Log!Next]_Log!vars
  <2>. USE <1>3
  <2>1. ASSUME NEW c \in Calls
        PROVE  /\ c \in Entries /\ c.job \in Jobs /\ c.due \in Nat
               /\ c = [job |-> c.job, due |-> c.due, role |-> c.role]
               /\ next[c.job] \in Nat /\ next'[c.job] \in Nat /\ next[c.job] <= next'[c.job]
               /\ c.due < next[c.job] => c.due < next'[c.job]
    <3>1. c \in Entries /\ c.job \in Jobs /\ c.due \in Nat
          /\ c = [job |-> c.job, due |-> c.due, role |-> c.role]
      BY BoundsAreNumbers, DayIsPositive DEF Calls, Entries, Occurrences
    <3>2. next[c.job] \in Nat /\ next'[c.job] \in Nat
      BY <3>1, NextInv, BoundsAreNumbers, DayIsPositive DEF IInv, TypeOK, Occurrences
    <3>3. next[c.job] <= next'[c.job]
      BY <3>1, PostOrNot
    <3>. QED  BY <3>1, <3>2, <3>3
  <2>2. CASE md' = md
    <3>1. \A c \in Calls : InMd(c)' <=> InMd(c)
      BY <2>2
    <3>2. Stages' \in [Calls -> {"pending", "written", "failed"}]
      OBVIOUS
    <3>3. \A c \in Calls : Stages'[c] # Stages[c] =>
            Stages[c] = "pending" /\ Stages'[c] = "failed"
      BY <2>1, <3>1
    <3>4. Log!GiveUp
      BY <1>1, <3>2, <3>3 DEF Log!GiveUp, Log!Outcomes
    <3>. QED  BY <2>2, <3>4 DEF Log!Next, Log!Fail
  <2>3. ASSUME NEW c \in Calls, md' = Append(md, c), next' = next,
               ~HasEntry(md, c.job, c.due, c.role), c.due = next[c.job]
        PROVE  Log!Next
    <3>1. md \in Seq(Entries) /\ DOMAIN md = 1..Len(md)
      BY DEF IInv, TypeOK
    <3>2. ~InMd(c)
      BY <2>1, <2>3, <3>1 DEF HasEntry
    <3>3. \A e : InMd(e)' <=> InMd(e) \/ e = c
      <4>1. /\ DOMAIN md' = 1..(Len(md) + 1) /\ Len(md) \in Nat
            /\ md'[Len(md) + 1] = c
            /\ \A i \in 1..Len(md) : md'[i] = md[i]
        BY <2>1, <2>3, <3>1
      <4>2. \A i \in 1..(Len(md) + 1) : i \in 1..Len(md) \/ i = Len(md) + 1
        BY <4>1
      <4>3. Len(md) + 1 \in 1..(Len(md) + 1) /\ \A i \in 1..Len(md) : i \in 1..(Len(md) + 1)
        BY <4>1
      <4>. QED  BY <3>1, <4>1, <4>2, <4>3
    <3>4. ~(c.due < next[c.job])
      BY <2>1, <2>3
    <3>5. \A e \in Calls : Stage(e)' = IF e = c THEN "written" ELSE Stage(e)
      BY <2>3, <3>3
    <3>6. Stages' = [Stages EXCEPT ![c] = "written"]
      BY <3>5
    <3>7. Stages[c] = "pending"
      BY <3>2, <3>4
    <3>8. File' = [File EXCEPT !["sessions"] = Append(@, c)]
      BY <2>3
    <3>9. Log!Write(c)
      BY <1>1, <3>6, <3>7, <3>8 DEF Log!Write
    <3>. QED  BY <3>9 DEF Log!Next
  <2>. QED  BY <2>2, <2>3, PostOrNot
<1>. QED  BY <1>2, <1>3, Invariance, DueTimesNotAhead, PTL DEF Spec, UsesLog, Log!Spec

-----------------------------------------------------------------------------
(* What of DueJobsRun is safety: no tick passes over a job that is due.    *)

\* The jobs that the tick under way is done with, or that New has loaded,
\* are due after the last tick.
TickedAreNotDue == phase # "down" => \A j \in cfg \ left : tickAt < next[j]

\* Whatever fails in it, a tick leaves no job due that was due when it began:
\* each was run and got a later due time (tick), and a restarted process
\* starts with none that an earlier tick would have run (loadJobs).
THEOREM TicksLeaveNoneDue ==
  Spec => [](phase = "up" /\ Idle => \A j \in cfg : tickAt < next[j])
<1>1. Init => TickedAreNotDue
  BY DEF Init, TickedAreNotDue
<1>2. ASSUME IInv, TickedAreNotDue, [Next]_vars
      PROVE  TickedAreNotDue'
  <2>1. /\ tickAt \in Nat /\ now \in Nat /\ tickAt <= now
        /\ next \in [Jobs -> Occurrences] /\ Occurrences \subseteq Nat
        /\ left \in SUBSET Jobs /\ cfg \in SUBSET Jobs
    BY <1>2, BoundsAreNumbers, DayIsPositive DEF IInv, TypeOK, ProcessOK, Occurrences
  <2>2. CASE \E j \in Jobs : LoadJob(j)
    <3>1. PICK j \in Jobs : LoadJob(j)
      BY <2>2
    <3>2. CASE phase' = "down"
      BY <3>2 DEF TickedAreNotDue
    <3>3. CASE phase' # "down"
      <4>1. /\ phase = "loading" /\ Parses(j) /\ left' = left \ {j}
            /\ next' = [next EXCEPT ![j] = NextAfter(j, now)]
            /\ UNCHANGED <<cfg, tickAt>>
        BY <3>1, <3>3 DEF LoadJob, Die
      <4>2. NextAfter(j, now) \in Nat /\ now < NextAfter(j, now)
        BY <2>1, <4>1, NextAfterIsNext
      <4>3. tickAt < NextAfter(j, now)
        BY <2>1, <4>2
      <4>. QED  BY <1>2, <2>1, <4>1, <4>3 DEF TickedAreNotDue
    <3>. QED  BY <3>2, <3>3
  <2>3. CASE Run
    <3>1. /\ running \in Jobs /\ phase = "up" /\ Loaded(running)
          /\ UNCHANGED <<cfg, phase, tickAt>>
      BY <1>2, <2>3, RunCases, RunningJob DEF Run
    <3>2. UNCHANGED <<left, next>> \/ Finish
      BY <1>2, <2>3, RunCases DEF Goto
    <3>3. CASE UNCHANGED <<left, next>>
      BY <1>2, <3>1, <3>3 DEF TickedAreNotDue
    <3>4. CASE Finish
      <4>1. Parses(running)
        BY <1>2, <3>1 DEF IInv, JobOK
      <4>2. tickAt < NextAfter(running, tickAt)
        BY <2>1, <3>1, <4>1, NextAfterIsNext
      <4>. QED  BY <1>2, <2>1, <3>1, <3>4, <4>2 DEF TickedAreNotDue, Finish
    <3>. QED  BY <3>2, <3>3, <3>4
  <2>4. CASE \E j \in Jobs : Skip(j) \/ Begin(j)
    BY <1>2, <2>1, <2>4 DEF TickedAreNotDue, Skip, Begin
  <2>5. CASE Pass \/ Start \/ Tick \/ Crash \/ Restart \/ UNCHANGED vars
    BY <1>2, <2>5 DEF TickedAreNotDue, Pass, Start, Tick, Crash, Restart, Die, vars, worker
  <2>. QED  BY <1>2, <2>2, <2>3, <2>4, <2>5 DEF Next
<1>3. TickedAreNotDue => (phase = "up" /\ Idle => \A j \in cfg : tickAt < next[j])
  BY DEF TickedAreNotDue, Idle
<1>. QED  BY <1>1, <1>2, <1>3, Invariance, PTL DEF Spec
=============================================================================
