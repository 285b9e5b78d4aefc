----------------------------- MODULE Conversation -----------------------------
(***************************************************************************)
(* The life of a Telegram message in mouse: telegram.Handler.ServeHTTP,    *)
(* Orchestrator.Process with the session store, SQLite and the language    *)
(* model, and Sender.SendMessage. One request goroutine serves one         *)
(* delivery of an update; requests run concurrently. Telegram delivers an  *)
(* update again until it sees a 2xx reply: after an error reply, after     *)
(* giving up on a slow request (whose context net/http cancels some time   *)
(* later), and after the process was killed under it.                      *)
(*                                                                         *)
(* An append to a Markdown session is one step here: SessionFile shows     *)
(* that concurrent and failing appends act like that.                      *)
(***************************************************************************)
EXTENDS Integers, Sequences

CONSTANTS
  Updates,      \* updates addressed to the bot
  Message,      \* update.Message of each, or NoMessage
  NoMessage,    \* an update of another kind: an edit, a channel post
  Users,        \* Telegram users
  NoUser,       \* From is absent
  NoChat,       \* Chat is absent
  AllowFrom,    \* the users some entry of telegram.allow_from names
  MaxAttempts,  \* deliveries of an update before Telegram drops it
  MaxCrashes    \* bound: how often the process is killed

Content ==
  [from : Users \cup {NoUser}, chat : Int \cup {NoChat}, blank : BOOLEAN]

ASSUME ConversationAssumption ==
  /\ NoUser \notin Users
  /\ NoChat \notin Int
  /\ NoMessage \notin Content
  /\ AllowFrom \subseteq Users
  /\ Message \in [Updates -> Content \cup {NoMessage}]
  /\ MaxAttempts \in Nat \ {0}
  /\ MaxCrashes \in Nat

\* A delivery is an update and the number of the attempt.
Deliveries == Updates \X (1..MaxAttempts)
Roles == {"user", "assistant"}
Entries == Deliveries \X Roles

VARIABLES
  telegram,  \* what Telegram makes of each update
  attempts,  \* deliveries of each update so far
  pc,        \* the next step, or the HTTP status, of each delivery
  cancelled, \* running requests whose context is cancelled
  past,      \* history: the requests that were over when one came in
  md,        \* the entries of each Markdown session file
  db,        \* the rows of session_messages, by id
  sent,      \* copies of a delivery's reply that reached its chat
  up,        \* the process runs
  crashes

vars == <<telegram, attempts, pc, cancelled, past, md, db, sent, up, crashes>>
store == <<md, db>>

\* The steps of a request in the order of the code. "resend" is the second
\* turn of SendMessage's loop.
Running == {"received", "user_md", "user_db", "llm",
            "assistant_md", "assistant_db", "send", "resend"}
Replied == {"200", "400", "403", "500"}
Over == Replied \cup {"dead"}
PCs == {"idle"} \cup Running \cup Over

Msg(d) == Message[d[1]]
Chat(d) == Msg(d).chat

\* sanitizeID of the decimal chat id: a group's leading "-" is trimmed, so
\* the chats n and -n have one Markdown file.
SessionFile(chat) == IF chat < 0 THEN -chat ELSE chat

\* The messages Process stores; only they have a session.
Storable(u) ==
  /\ Message[u] # NoMessage
  /\ Message[u].chat # NoChat
  /\ ~Message[u].blank

SessionFiles == {SessionFile(Message[u].chat) : u \in {v \in Updates : Storable(v)}}

isAllowedUser(user) == user # NoUser /\ user \in AllowFrom

isAllowedUpdate(u) == Message[u] # NoMessage /\ isAllowedUser(Message[u].from)

Init ==
  /\ telegram = [u \in Updates |-> "queued"]
  /\ attempts = [u \in Updates |-> 0]
  /\ pc = [d \in Deliveries |-> "idle"]
  /\ cancelled = {}
  /\ past = [d \in Deliveries |-> {}]
  /\ md = [f \in SessionFiles |-> <<>>]
  /\ db = <<>>
  /\ sent = [d \in Deliveries |-> 0]
  /\ up = TRUE
  /\ crashes = 0

-----------------------------------------------------------------------------
(* Telegram *)

\* Telegram's next move after an attempt without a 2xx reply.
Retry(n) == IF n < MaxAttempts THEN "queued" ELSE "dropped"

Current(u) == <<u, attempts[u]>>

Post(u) ==
  /\ up
  /\ telegram[u] = "queued"
  /\ attempts' = [attempts EXCEPT ![u] = @ + 1]
  /\ pc' = [pc EXCEPT ![<<u, attempts[u] + 1>>] = "received"]
  /\ telegram' = [telegram EXCEPT ![u] = "posted"]
  /\ past' = [past EXCEPT ![<<u, attempts[u] + 1>>] =
                {d \in Deliveries : Storable(d[1]) /\ Storable(u) /\ pc[d] \in Over}]
  /\ UNCHANGED <<cancelled, store, sent, up, crashes>>

\* Nobody listens: the attempt is spent.
PostRefused(u) ==
  /\ ~up
  /\ telegram[u] = "queued"
  /\ attempts' = [attempts EXCEPT ![u] = @ + 1]
  /\ telegram' = [telegram EXCEPT ![u] = Retry(attempts[u] + 1)]
  /\ UNCHANGED <<pc, cancelled, past, store, sent, up, crashes>>

TakeReply(u) ==
  /\ telegram[u] = "posted"
  /\ pc[Current(u)] \in Replied
  /\ telegram' = [telegram EXCEPT
       ![u] = IF pc[Current(u)] = "200" THEN "settled" ELSE Retry(attempts[u])]
  /\ UNCHANGED <<attempts, pc, cancelled, past, store, sent, up, crashes>>

\* Telegram waits no longer, or the connection breaks: an answer is lost, a
\* request under way keeps running.
HangUp(u) ==
  /\ telegram[u] = "posted"
  /\ telegram' = [telegram EXCEPT ![u] = Retry(attempts[u])]
  /\ UNCHANGED <<attempts, pc, cancelled, past, store, sent, up, crashes>>

\* Telegram holds the connection of this delivery open.
Awaited(d) == telegram[d[1]] = "posted" /\ d = Current(d[1])

\* net/http finds the connection of a running request closed and cancels
\* r.Context(). It watches a connection once the body is read.
Cancel(d) ==
  /\ pc[d] \in Running \ {"received"}
  /\ ~Awaited(d)
  /\ d \notin cancelled
  /\ cancelled' = cancelled \cup {d}
  /\ UNCHANGED <<telegram, attempts, pc, past, store, sent, up, crashes>>

-----------------------------------------------------------------------------
(* The request goroutine of a delivery *)

\* The context of a request ends with it.
Goto(d, step) ==
  /\ pc' = [pc EXCEPT ![d] = step]
  /\ cancelled' = IF step \in Over THEN cancelled \ {d} ELSE cancelled

Answer(d, status) == Goto(d, status)

\* Mutant: the allowlist is not consulted.
Admit_Anyone(d) ==
  /\ pc[d] = "received"
  /\ \/ ~Awaited(d) /\ Answer(d, "400")
     \/ ~Storable(d[1]) /\ Answer(d, "500")
     \/ Storable(d[1]) /\ Goto(d, "user_md")
  /\ UNCHANGED <<telegram, attempts, past, store, sent, up, crashes>>

\* ServeHTTP up to the call of Process, and Process up to its first append.
Admit(d) ==
  /\ pc[d] = "received"
  /\ \/ ~Awaited(d) /\ Answer(d, "400")    \* the body cannot be read
     \/ ~isAllowedUpdate(d[1]) /\ Answer(d, "403")
     \/ isAllowedUpdate(d[1]) /\ ~Storable(d[1]) /\ Answer(d, "500")
     \/ isAllowedUpdate(d[1]) /\ Storable(d[1]) /\ Goto(d, "user_md")
  /\ UNCHANGED <<telegram, attempts, past, store, sent, up, crashes>>

\* Mutant: a failed append is logged and the request goes on.
AppendMarkdown_ErrorLogged(d, role, step, next) ==
  /\ pc[d] = step
  /\ \/ md' = [md EXCEPT ![SessionFile(Chat(d))] = Append(@, <<d, role>>)]
     \/ UNCHANGED md
  /\ Goto(d, next)
  /\ UNCHANGED <<telegram, attempts, past, db, sent, up, crashes>>

\* Mutant: an append whose error came after the write is tried again.
AppendMarkdown_Retried(d, role, step, next) ==
  /\ pc[d] = step
  /\ \/ /\ md' = [md EXCEPT ![SessionFile(Chat(d))] = Append(@, <<d, role>>)]
        /\ Goto(d, next) \/ UNCHANGED <<pc, cancelled>>
     \/ Answer(d, "500") /\ UNCHANGED md
  /\ UNCHANGED <<telegram, attempts, past, db, sent, up, crashes>>

\* sessions.Append takes no context: a cancelled request still appends.
AppendMarkdown(d, role, step, next) ==
  /\ pc[d] = step
  /\ \/ /\ md' = [md EXCEPT ![SessionFile(Chat(d))] = Append(@, <<d, role>>)]
        /\ Goto(d, next)
     \/ Answer(d, "500") /\ UNCHANGED md
  /\ UNCHANGED <<telegram, attempts, past, db, sent, up, crashes>>

\* Mutant: a failed insert is logged and the request goes on.
InsertRow_ErrorLogged(d, role, step, next) ==
  /\ pc[d] = step
  /\ \/ d \notin cancelled /\ db' = Append(db, <<d, role>>)
     \/ UNCHANGED db
  /\ Goto(d, next)
  /\ UNCHANGED <<telegram, attempts, past, md, sent, up, crashes>>

\* Mutant: the row is inserted in the background, and nobody waits for it.
InsertRow_Background(d, role, step, next) ==
  /\ \/ pc[d] = step /\ Goto(d, next) /\ UNCHANGED db
     \/ /\ pc[d] = "200"
        /\ \A i \in DOMAIN db : db[i] # <<d, role>>
        /\ db' = Append(db, <<d, role>>)
        /\ UNCHANGED <<pc, cancelled>>
  /\ UNCHANGED <<telegram, attempts, past, md, sent, up, crashes>>

\* db.AppendSessionMessage: ExecContext refuses a cancelled context.
InsertRow(d, role, step, next) ==
  /\ pc[d] = step
  /\ \/ /\ d \notin cancelled
        /\ db' = Append(db, <<d, role>>)
        /\ Goto(d, next)
     \/ Answer(d, "500") /\ UNCHANGED db
  /\ UNCHANGED <<telegram, attempts, past, md, sent, up, crashes>>

\* Mutant: the model's client has no time limit.
Complete_NoTimeout(d) ==
  /\ pc[d] = "llm"
  /\ \/ d \notin cancelled /\ Goto(d, "assistant_md")
     \/ d \in cancelled /\ Answer(d, "500")
  /\ UNCHANGED <<telegram, attempts, past, store, sent, up, crashes>>

\* The model answers with text, or fails, or its 30 s time limit passes.
Complete(d) ==
  /\ pc[d] = "llm"
  /\ \/ d \notin cancelled /\ Goto(d, "assistant_md")
     \/ Answer(d, "500")
  /\ UNCHANGED <<telegram, attempts, past, store, sent, up, crashes>>

\* One turn of SendMessage's loop, a call of Telegram's sendMessage: it may
\* deliver the text and still fail, the response being lost.
Turn(d, failed) ==
  \/ /\ d \notin cancelled
     /\ sent' = [sent EXCEPT ![d] = @ + 1]
     /\ Answer(d, "200") \/ Goto(d, failed)
  \/ Goto(d, failed) /\ UNCHANGED sent

\* Mutant: the loop goes on until an attempt succeeds.
SendMessage_Endless(d) ==
  /\ pc[d] \in {"send", "resend"}
  /\ \/ d \notin cancelled /\ sent' = [sent EXCEPT ![d] = 1] /\ Answer(d, "200")
     \/ Goto(d, IF pc[d] = "send" THEN "resend" ELSE "send") /\ UNCHANGED sent
  /\ UNCHANGED <<telegram, attempts, past, store, up, crashes>>

\* Mutant: the loop has one turn too many.
SendMessage_ThirdTurn(d) ==
  /\ pc[d] \in {"send", "resend"}
  /\ Turn(d, IF pc[d] = "send" \/ sent[d] < 2 THEN "resend" ELSE "500")
  /\ UNCHANGED <<telegram, attempts, past, store, up, crashes>>

\* Mutant: the error of the last turn is logged and the answer is 200.
SendMessage_ErrorLogged(d) ==
  /\ pc[d] \in {"send", "resend"}
  /\ Turn(d, IF pc[d] = "send" THEN "resend" ELSE "200")
  /\ UNCHANGED <<telegram, attempts, past, store, up, crashes>>

\* Sender.SendMessage: the checks of its own, and at most two turns.
SendMessage(d) ==
  /\ pc[d] \in {"send", "resend"}
  /\ IF ~isAllowedUser(Msg(d).from) \/ Chat(d) = 0
     THEN Answer(d, "500") /\ UNCHANGED sent
     ELSE Turn(d, IF pc[d] = "send" THEN "resend" ELSE "500")
  /\ UNCHANGED <<telegram, attempts, past, store, up, crashes>>

\* Mutant: SQLite is written before the Markdown session.
Handle_RowsFirst(d) ==
  \/ Admit(d)
  \/ InsertRow(d, "user", "user_md", "user_db")
  \/ AppendMarkdown(d, "user", "user_db", "llm")
  \/ Complete(d)
  \/ InsertRow(d, "assistant", "assistant_md", "assistant_db")
  \/ AppendMarkdown(d, "assistant", "assistant_db", "send")
  \/ SendMessage(d)

\* Mutant: the reply's row is forgotten.
Handle_NoReplyRow(d) ==
  \/ Admit(d)
  \/ AppendMarkdown(d, "user", "user_md", "user_db")
  \/ InsertRow(d, "user", "user_db", "llm")
  \/ Complete(d)
  \/ AppendMarkdown(d, "assistant", "assistant_md", "send")
  \/ SendMessage(d)

Handle(d) ==
  \/ Admit(d)
  \/ AppendMarkdown(d, "user", "user_md", "user_db")
  \/ InsertRow(d, "user", "user_db", "llm")
  \/ Complete(d)
  \/ AppendMarkdown(d, "assistant", "assistant_md", "assistant_db")
  \/ InsertRow(d, "assistant", "assistant_db", "send")
  \/ SendMessage(d)

-----------------------------------------------------------------------------
(* The process *)

\* A killed process loses its requests and keeps its files; Telegram sees
\* their connections break.
Crash ==
  /\ up
  /\ crashes < MaxCrashes
  /\ up' = FALSE
  /\ crashes' = crashes + 1
  /\ pc' = [d \in Deliveries |-> IF pc[d] \in Running THEN "dead" ELSE pc[d]]
  /\ telegram' = [u \in Updates |->
       IF telegram[u] = "posted" /\ pc[Current(u)] \in Running
       THEN Retry(attempts[u]) ELSE telegram[u]]
  /\ cancelled' = {}
  /\ UNCHANGED <<attempts, past, store, sent>>

Restart ==
  /\ ~up
  /\ up' = TRUE
  /\ UNCHANGED <<telegram, attempts, pc, cancelled, past, store, sent, crashes>>

\* Every update is settled or dropped and no request runs.
Quiet ==
  /\ up
  /\ \A u \in Updates : telegram[u] \in {"settled", "dropped"}
  /\ \A d \in Deliveries : pc[d] \notin Running
  /\ UNCHANGED vars

Next ==
  \/ \E u \in Updates : Post(u) \/ PostRefused(u) \/ TakeReply(u) \/ HangUp(u)
  \/ \E d \in Deliveries : Handle(d) \/ Cancel(d)
  \/ Crash
  \/ Restart
  \/ Quiet

\* The step was up to others: the model gave its text, Telegram took one.
Answered(d) == (pc[d] = "llm" /\ pc'[d] = "assistant_md") \/ sent' # sent

\* Telegram keeps delivering and reads the replies it is sent; the calls of
\* files and of SQLite return; a supervisor restarts the process. Nobody has
\* to answer the request: it goes on by the errors of its clients, the time
\* limits of 30 s (the model's) and of 15 s (the sender's) among them.
Fairness ==
  /\ \A u \in Updates : WF_vars(Post(u)) /\ WF_vars(TakeReply(u))
  /\ \A d \in Deliveries : WF_vars(Handle(d) /\ ~Answered(d))
  /\ WF_vars(Restart)

Spec == Init /\ [][Next]_vars
FairSpec == Spec /\ Fairness

-----------------------------------------------------------------------------
TypeOK ==
  /\ telegram \in [Updates -> {"queued", "posted", "settled", "dropped"}]
  /\ attempts \in [Updates -> 0..MaxAttempts]
  /\ pc \in [Deliveries -> PCs]
  /\ cancelled \in SUBSET Deliveries
  /\ past \in [Deliveries -> SUBSET Deliveries]
  /\ md \in [SessionFiles -> Seq(Entries)]
  /\ db \in Seq(Entries)
  /\ sent \in [Deliveries -> 0..2]
  /\ up \in BOOLEAN
  /\ crashes \in 0..MaxCrashes

In(e, seq) == \E i \in 1..Len(seq) : seq[i] = e

MdHas(e) == Storable(e[1][1]) /\ In(e, md[SessionFile(Chat(e[1]))])
DbHas(e) == In(e, db)

Recorded(d) == \A role \in Roles : MdHas(<<d, role>>) /\ DbHas(<<d, role>>)

(* A reply that reached a chat, in one copy or in two, is on record        *)
(* together with its question, in the Markdown session and in SQLite:      *)
(* Process sends last. No crash, cancellation or failure leaves the user   *)
(* with an answer the audit trail does not show.                           *)
SentIsRecorded == \A d \in Deliveries : sent[d] > 0 => Recorded(d)

(* An update Telegram considers done (it saw a 200) was recorded in both   *)
(* stores and answered in its chat: no error on the way is swallowed.      *)
SettledIsComplete ==
  \A u \in Updates :
    telegram[u] = "settled" =>
      \E k \in 1..attempts[u] : sent[<<u, k>>] > 0 /\ Recorded(<<u, k>>)

(* Markdown is the source of truth: SQLite never holds a message that the  *)
(* Markdown session does not hold.                                         *)
RowsFollowMarkdown == \A i \in 1..Len(db) : MdHas(db[i])

(* A Markdown entry without its SQLite row belongs to a request that is    *)
(* just about to insert the row, that ended with an error status, or that  *)
(* was killed. A request answered with 200 leaves no gap.                  *)
GapIsFailure ==
  \A d \in Deliveries, role \in Roles :
    MdHas(<<d, role>>) /\ ~DbHas(<<d, role>>) =>
      \/ pc[d] \in {"500", "dead"}
      \/ role = "user" /\ pc[d] = "user_db"
      \/ role = "assistant" /\ pc[d] = "assistant_db"

Once(e, seq) ==
  \A i, j \in 1..Len(seq) : seq[i] = e /\ seq[j] = e => i = j

Before(e1, e2, seq) ==
  \A j \in 1..Len(seq) : seq[j] = e2 => \E i \in 1..(j - 1) : seq[i] = e1

\* In this log the turn of a delivery is there at most once, question first.
InTurn(d, seq) ==
  /\ \A role \in Roles : Once(<<d, role>>, seq)
  /\ Before(<<d, "user">>, <<d, "assistant">>, seq)

(* However requests interleave, both stores hold each question before its  *)
(* answer and each of them once.                                           *)
TurnsInOrder ==
  \A d \in Deliveries :
    Storable(d[1]) => /\ InTurn(d, md[SessionFile(Chat(d))])
                      /\ InTurn(d, db)

(* Nothing an unlisted sender writes is stored, hence (SentIsRecorded) none *)
(* is answered: the inbound check guards both stores.                       *)
AllowlistHolds ==
  \A u \in Updates : ~isAllowedUpdate(u) =>
    \A k \in 1..MaxAttempts, role \in Roles :
      ~MdHas(<<<<u, k>>, role>>) /\ ~DbHas(<<<<u, k>>, role>>)

\* In this log all entries of d stand before all entries of e.
Precedes(d, e, seq) ==
  \A i, j \in 1..Len(seq) : seq[i][1] = d /\ seq[j][1] = e => i < j

(* Only requests that overlapped are mixed up in the stores. What came in  *)
(* after a request was over, a retry of the same update or another message *)
(* to the same file, stands behind all of it, in the Markdown session and  *)
(* in SQLite alike: the two stores can disagree on the order of turns, or  *)
(* a turn be split by another, only where Telegram delivered while an      *)
(* earlier request, given up or not, was still at work.                    *)
OnlyOverlapsMix ==
  \A e \in Deliveries : \A d \in past[e] :
    /\ Precedes(d, e, db)
    /\ \A f \in SessionFiles : Precedes(d, e, md[f])

(* Every update ends: with a 200 that Telegram saw, or dropped after       *)
(* MaxAttempts deliveries. No request is left running.                     *)
EveryUpdateEnds ==
  \A u \in Updates : <>(telegram[u] \in {"settled", "dropped"})

RequestsEnd ==
  \A d \in Deliveries : pc[d] \in Running ~> pc[d] \notin Running

-----------------------------------------------------------------------------
(***************************************************************************)
(* The inductive invariant behind the safety properties: what the step of  *)
(* a request says about the stores, and what Telegram's state says about   *)
(* the request.                                                            *)
(***************************************************************************)
UserInMd == {"user_db", "llm", "assistant_md", "assistant_db",
             "send", "resend", "200"}
UserInDb == UserInMd \ {"user_db"}
ReplyInMd == {"assistant_db", "send", "resend", "200"}
ReplyInDb == {"send", "resend", "200"}
NothingStored == {"idle", "received", "user_md", "400", "403"}
NoReplyStored == NothingStored \cup {"user_db", "llm", "assistant_md"}

\* What the position of a request has put into the stores, and what not yet.
StageOK ==
  \A d \in Deliveries :
    /\ pc[d] \in UserInMd \cup {"user_md"} =>
         Storable(d[1]) /\ isAllowedUpdate(d[1])
    /\ pc[d] \in UserInMd => MdHas(<<d, "user">>)
    /\ pc[d] \in UserInDb => DbHas(<<d, "user">>)
    /\ pc[d] \in ReplyInMd => MdHas(<<d, "assistant">>)
    /\ pc[d] \in ReplyInDb => DbHas(<<d, "assistant">>)
    /\ pc[d] \in NothingStored => ~MdHas(<<d, "user">>)
    /\ pc[d] \in NoReplyStored => ~MdHas(<<d, "assistant">>)

EntriesAllowed ==
  \A d \in Deliveries, role \in Roles :
    MdHas(<<d, role>>) => isAllowedUpdate(d[1])

SentOK ==
  \A d \in Deliveries :
    /\ pc[d] \in NoReplyStored \cup {"assistant_db", "send"} => sent[d] = 0
    /\ pc[d] = "resend" => sent[d] <= 1
    /\ pc[d] = "200" => sent[d] > 0

TelegramOK ==
  \A u \in Updates :
    /\ \A k \in 1..MaxAttempts : k > attempts[u] => pc[<<u, k>>] = "idle"
    /\ telegram[u] = "queued" => attempts[u] < MaxAttempts
    /\ telegram[u] \in {"posted", "settled"} => attempts[u] > 0
    /\ telegram[u] = "settled" => pc[Current(u)] = "200"

IInv ==
  /\ TypeOK
  /\ TelegramOK
  /\ StageOK
  /\ EntriesAllowed
  /\ SentOK
  /\ SentIsRecorded
  /\ RowsFollowMarkdown
  /\ GapIsFailure

-----------------------------------------------------------------------------
(* What docs/SECURITY.md says of the two stores, and the code does not do. *)

\* The entries of a chat among those of a store, in their order there.
EntriesOf(c, entries) == SelectSeq(entries, LAMBDA e : Chat(e[1]) = c)

(* "SQLite mirrors data": when no request runs, the rows of a chat's       *)
(* session, by id, are its Markdown entries: none is missing, and they     *)
(* come in the same order.                                                 *)
MirrorsMarkdown ==
  (\A d \in Deliveries : pc[d] \notin Running) =>
    \A u \in {v \in Updates : Storable(v)} :
      LET c == Message[u].chat
      IN  EntriesOf(c, db) = EntriesOf(c, md[SessionFile(c)])

-----------------------------------------------------------------------------
(***************************************************************************)
(* The session store as the requests use it: the log of SessionLog, with   *)
(* one call for each delivery and role.                                    *)
(***************************************************************************)
StorableEntries == {e \in Entries : Storable(e[1][1])}

Outcome ==
  [e \in StorableEntries |->
     IF MdHas(e) THEN "written"
     ELSE IF pc[e[1]] \in Over THEN "failed" ELSE "pending"]

Log == INSTANCE SessionLog
         WITH Calls <- StorableEntries, Files <- SessionFiles, Noise <- {},
              FileOf <- [e \in StorableEntries |-> SessionFile(Chat(e[1]))],
              log <- md, outcome <- Outcome

(* The requests append to the session files as SessionLog allows: one      *)
(* append at most for a delivery and role, and none after the request has  *)
(* been answered or killed.                                                *)
UsesLog == Log!Spec
=============================================================================
