--------------------------------- MODULE ToolRun ---------------------------------
(***************************************************************************)
(* Tool runs: mousectl, or any client, posts to /tools/run; the handler    *)
(* asks the policy, starts "docker run" and waits for it, writes a line of *)
(* the log, and answers. Docker itself is external: the client that the    *)
(* handler starts, and the container, which belongs to the Docker daemon   *)
(* and outlives a client that is killed. /approvals/submit, which only     *)
(* logs and answers, writes to the same log.                               *)
(*                                                                         *)
(* A request may be abandoned by its sender at any time, the process may   *)
(* be killed between any two steps, and a write to the log may fail. There *)
(* is no time limit on a run anywhere.                                     *)
(***************************************************************************)
EXTENDS Naturals, Sequences, FiniteSets

CONSTANTS
  Requests,      \* the requests of a behaviour
  Spellings,     \* the tool names as they are written
  Normal,        \* strings.ToLower(strings.TrimSpace(name)) of each
  Blank,         \* the empty name
  Configs,       \* the pairs of lists sandbox.tools.allow and .deny
  Bodies,        \* what requests ask for: a tool, with or without a command,
  Invalid,       \* or something refused before the policy is asked,
  Approval,      \* or an approval, with an id
  Torn,          \* what a failed write left in the log
  MaxFaults,     \* bound: failing writes to the log
  MaxCrashes     \* bound: kills of the process

Runs == [tool : Spellings \ {Blank}, command : BOOLEAN]

ASSUME ToolRunAssumption ==
  /\ Blank \in Spellings
  /\ Normal \in [Spellings -> Spellings]
  /\ \A c \in Configs : c.allow \subseteq Spellings /\ c.deny \subseteq Spellings
  /\ Bodies \subseteq Runs \cup {Invalid, Approval}
  /\ {Invalid, Approval} \cap Runs = {}
  /\ Invalid # Approval
  /\ Torn \notin Requests
  /\ MaxFaults \in Nat /\ MaxCrashes \in Nat

VARIABLES
  config,      \* sandbox.tools, read once when the gateway starts
  body,        \* what each request asks for
  pc,          \* the next step of the request in the process
  outcome,     \* what the handler found out: the line it logs, the answer
  client,      \* the "docker run" process of the request
  container,   \* the container of the request
  hungup,      \* the requests whose sender has gone
  reply,       \* the answer that reached the sender
  printed,     \* the lines on the standard output
  logfile,     \* the items of mouse.log
  faults,      \* the requests whose write to the log failed
  crashes

docker == <<client, container>>
logs == <<printed, logfile, faults>>
env == <<config, body, crashes>>
vars == <<config, body, pc, outcome, client, container, hungup, reply,
          printed, logfile, faults, crashes>>

Running == {"policy", "start", "wait", "print", "file", "answer"}
PCs == Running \cup {"new", "over", "dead"}
Outcomes == {"none", "bad", "denied", "approved", "ok", "failed", "error"}
\* The outcomes that the handler logs before it answers.
Logged == {"denied", "approved", "ok", "failed", "error"}

Init ==
  /\ config \in Configs
  /\ body \in [Requests -> Bodies]
  /\ pc = [r \in Requests |-> "new"]
  /\ outcome = [r \in Requests |-> "none"]
  /\ client = [r \in Requests |-> "none"]
  /\ container = [r \in Requests |-> "none"]
  /\ hungup = {}
  /\ reply = [r \in Requests |-> "none"]
  /\ printed = <<>>
  /\ logfile = <<>>
  /\ faults = {}
  /\ crashes = 0

Goto(r, step) == pc' = [pc EXCEPT ![r] = step]

Decide(r, o, step) ==
  /\ outcome' = [outcome EXCEPT ![r] = o]
  /\ Goto(r, step)

-----------------------------------------------------------------------------
\* NewPolicy: the lists by normal names, the blank ones left out.
names(list) == {Normal[s] : s \in list} \ {Blank}

\* Mutant: the allow list is consulted first, and wins.
Allowed_AllowWins(tool) ==
  \/ names(config.allow) = {}
  \/ Normal[tool] \in names(config.allow)

\* A denied name is denied even if it is allowed too; no names to allow
\* (an empty list, or blank entries only) means all of them.
Allowed(tool) ==
  /\ Normal[tool] # Blank
  /\ Normal[tool] \notin names(config.deny)
  /\ names(config.allow) = {} \/ Normal[tool] \in names(config.allow)

\* The request arrives: a wrong method or unreadable body is refused at
\* once, an approval is only logged.
Receive(r) ==
  /\ pc[r] = "new"
  /\ CASE body[r] = Invalid -> Decide(r, "bad", "answer")
       [] body[r] = Approval -> Decide(r, "approved", "print")
       [] OTHER -> Goto(r, "policy") /\ UNCHANGED outcome
  /\ UNCHANGED <<docker, hungup, reply, logs, env>>

\* The policy is asked before the command is looked at.
AskPolicy(r) ==
  /\ pc[r] = "policy"
  /\ IF ~Allowed(body[r].tool) THEN Decide(r, "denied", "print")
     ELSE IF ~body[r].command THEN Decide(r, "bad", "answer")
     ELSE Goto(r, "start") /\ UNCHANGED outcome
  /\ UNCHANGED <<docker, hungup, reply, logs, env>>

\* exec.Cmd.Start: fails without docker, and if the context is over already.
StartClient(r) ==
  /\ pc[r] = "start"
  /\ \/ /\ client' = [client EXCEPT ![r] = "running"]
        /\ Goto(r, "wait")
        /\ UNCHANGED outcome
     \/ Decide(r, "error", "print") /\ UNCHANGED client
  /\ UNCHANGED <<container, hungup, reply, logs, env>>

\* Mutant: a killed client counts as a command that ended well.
exitOf_KilledIsOk(r) == IF client[r] = "failed" THEN "failed" ELSE "ok"

\* exitCode: a signal counts as -1.
exitOf(r) == IF client[r] = "killed" THEN "failed" ELSE client[r]

\* Mutant: Start is taken for Run, and nobody waits for the client.
Wait_Skipped(r) ==
  /\ pc[r] = "wait"
  /\ Decide(r, "ok", "print")
  /\ UNCHANGED <<docker, hungup, reply, logs, env>>

\* exec.Cmd.Wait returns the exit status of the client. A context that is
\* over is only reported in the place of a success.
Wait(r) ==
  /\ pc[r] = "wait"
  /\ client[r] \in {"ok", "failed", "killed"}
  /\ \/ Decide(r, exitOf(r), "print")
     \/ client[r] = "ok" /\ r \in hungup /\ Decide(r, "error", "print")
  /\ UNCHANGED <<docker, hungup, reply, logs, env>>

\* Mutant: the command is started without the context.
KillClient_NoContext(r) == pc[r] = "wait" /\ FALSE /\ UNCHANGED vars

\* net/http cancels the context of a request whose connection is closed,
\* and the command of a context that is over is killed.
KillClient(r) ==
  /\ pc[r] = "wait"
  /\ r \in hungup
  /\ client[r] = "running"
  /\ client' = [client EXCEPT ![r] = "killed"]
  /\ UNCHANGED <<container, pc, outcome, hungup, reply, logs, env>>

\* Logger.write: the line goes to the standard output without the lock ...
PrintLine(r) ==
  /\ pc[r] = "print"
  /\ printed' = Append(printed, r)
  /\ Goto(r, "file")
  /\ UNCHANGED <<outcome, docker, hungup, reply, logfile, faults, env>>

\* Mutant: a request whose write failed writes its line again.
WriteLine_Retried(r) ==
  /\ pc[r] = "file"
  /\ logfile' = Append(logfile, r)
  /\ Goto(r, "answer") \/ UNCHANGED pc
  /\ UNCHANGED <<outcome, docker, hungup, reply, printed, faults, env>>

\* Mutant: the line is not written to the file.
WriteLine_Skipped(r) ==
  /\ pc[r] = "file"
  /\ Goto(r, "answer")
  /\ UNCHANGED <<outcome, docker, hungup, reply, logs, env>>

\* ... and to the file under it. The error of a write is ignored: the line
\* may be missing or torn, and the next one then continues it.
WriteLine(r) ==
  /\ pc[r] = "file"
  /\ Goto(r, "answer")
  /\ \/ logfile' = Append(logfile, r) /\ UNCHANGED faults
     \/ /\ Cardinality(faults) < MaxFaults
        /\ logfile' \in {logfile, Append(logfile, Torn)}
        /\ faults' = faults \cup {r}
  /\ UNCHANGED <<outcome, docker, hungup, reply, printed, env>>

\* Mutant: the answer is the same whatever the exit status was.
Answer_AlwaysOk(r) ==
  /\ pc[r] = "answer"
  /\ Goto(r, "over")
  /\ reply' = [reply EXCEPT ![r] =
                 CASE r \in hungup -> "none"
                   [] outcome[r] \in {"ok", "failed"} -> "ok"
                   [] OTHER -> outcome[r]]
  /\ UNCHANGED <<outcome, docker, hungup, logs, env>>

\* writeJSON or writeError: nobody reads it once the sender has gone.
Answer(r) ==
  /\ pc[r] = "answer"
  /\ Goto(r, "over")
  /\ reply' = [reply EXCEPT ![r] = IF r \in hungup THEN "none" ELSE outcome[r]]
  /\ UNCHANGED <<outcome, docker, hungup, logs, env>>

-----------------------------------------------------------------------------
\* The sender goes: mousectl is interrupted, or the connection breaks.
HangUp(r) ==
  /\ pc[r] \in Running
  /\ r \notin hungup
  /\ hungup' = hungup \cup {r}
  /\ UNCHANGED <<pc, outcome, docker, reply, logs, env>>

\* The process is killed; its requests are never answered. Clients and
\* containers go on, and a new process appends to the same log.
Crash ==
  /\ crashes < MaxCrashes
  /\ \E r \in Requests : pc[r] \in Running
  /\ crashes' = crashes + 1
  /\ pc' = [r \in Requests |-> IF pc[r] \in Running THEN "dead" ELSE pc[r]]
  /\ UNCHANGED <<config, body, outcome, docker, hungup, reply, logs>>

\* Docker. A client that still runs asks the daemon for its container, which
\* may be refused: the exit status of the client is then docker's own.
Launch(r) ==
  /\ client[r] = "running"
  /\ container[r] = "none"
  /\ \/ container' = [container EXCEPT ![r] = "running"] /\ UNCHANGED client
     \/ client' = [client EXCEPT ![r] = "failed"] /\ UNCHANGED container
  /\ UNCHANGED <<pc, outcome, hungup, reply, logs, env>>

\* The command in the container ends, with or without a client waiting.
ContainerEnds(r) ==
  /\ container[r] = "running"
  /\ \E status \in {"ok", "failed"} :
       container' = [container EXCEPT ![r] = status]
  /\ UNCHANGED <<client, pc, outcome, hungup, reply, logs, env>>

\* The client ends with the status of its container. That it always learns
\* it is an assumption about Docker: no client loses its daemon, or fails by
\* itself, while its container runs.
ClientEnds(r) ==
  /\ client[r] = "running"
  /\ container[r] \in {"ok", "failed"}
  /\ client' = [client EXCEPT ![r] = container[r]]
  /\ UNCHANGED <<container, pc, outcome, hungup, reply, logs, env>>

Handler(r) ==
  \/ Receive(r)
  \/ AskPolicy(r)
  \/ StartClient(r)
  \/ Wait(r)
  \/ PrintLine(r)
  \/ WriteLine(r)
  \/ Answer(r)

Docker(r) == Launch(r) \/ ClientEnds(r)

\* Nothing is left to do for the requests that the process has had.
Quiet ==
  /\ \A r \in Requests : pc[r] \in {"over", "dead"}
  /\ UNCHANGED vars

Next ==
  \/ \E r \in Requests :
       \/ Handler(r) \/ KillClient(r) \/ HangUp(r) \/ Docker(r) \/ ContainerEnds(r)
  \/ Crash
  \/ Quiet

Spec == Init /\ [][Next]_vars

\* The goroutine of a request goes on; net/http notices a closed connection
\* and os/exec kills; docker does what it is asked. That a command ends is
\* not assumed: nothing in the code makes it.
FairSpec ==
  /\ Spec
  /\ \A r \in Requests :
       WF_vars(Handler(r)) /\ WF_vars(KillClient(r)) /\ WF_vars(Docker(r))

-----------------------------------------------------------------------------
TypeOK ==
  /\ config \in Configs
  /\ body \in [Requests -> Bodies]
  /\ pc \in [Requests -> PCs]
  /\ outcome \in [Requests -> Outcomes]
  /\ client \in [Requests -> {"none", "running", "ok", "failed", "killed"}]
  /\ container \in [Requests -> {"none", "running", "ok", "failed"}]
  /\ hungup \subseteq Requests
  /\ reply \in [Requests -> Outcomes]
  /\ printed \in Seq(Requests)
  /\ logfile \in Seq(Requests \cup {Torn})
  /\ faults \subseteq Requests

Ended(r) == pc[r] \in {"over", "dead"}

(* A container that runs while no request waits for it was left behind by  *)
(* a sender that hung up or by a kill of the process: a request that ends  *)
(* in the normal way ends after its container.                             *)
OrphansHaveCause ==
  \A r \in Requests :
    client[r] = "running" \/ container[r] = "running" =>
      pc[r] = "wait" \/ r \in hungup \/ pc[r] = "dead"

\* What mousectl run and approve make of the answer: 0, or 1 for an error.
exitStatus(r) == IF reply[r] \in {"ok", "approved"} THEN 0 ELSE 1

(* The answer tells the truth about the container: mousectl exits with 0   *)
(* only if the command ended with 0, a failure is one of the container or  *)
(* of docker, and every refusal means that nothing was started. So         *)
(* mousectl exits with 1 after a command that ended well only if it was    *)
(* interrupted, or its connection broke.                                   *)
AnswerIsTrue ==
  \A r \in Requests :
    /\ reply[r] = "ok" => container[r] = "ok"
    /\ reply[r] = "failed" => container[r] \in {"failed", "none"} /\ client[r] = "failed"
    /\ reply[r] \in {"bad", "denied", "error", "approved"} => client[r] = "none"
    /\ pc[r] = "over" /\ exitStatus(r) = 1 /\ container[r] = "ok" => r \in hungup

InLog(r) == \E i \in DOMAIN logfile : logfile[i] = r

(* The log is an audit of the runs: when the request of a run is over, its *)
(* line is in the log unless the write failed, and only a kill of the      *)
(* process leaves a run without one. What the line says of the run is      *)
(* right, unless the sender hung up: then a run is logged as failed that   *)
(* may go on, or has ended well.                                           *)
RunsAreAudited ==
  \A r \in Requests :
    /\ pc[r] = "over" /\ client[r] # "none" => InLog(r) \/ r \in faults
    /\ InLog(r) /\ outcome[r] = "ok" => container[r] = "ok"
    /\ InLog(r) /\ container[r] \in {"running", "ok"} /\ outcome[r] # "ok" => r \in hungup

(* Standard output and file show the same lines, though not in the same    *)
(* order: what is in the file was printed before, and what was printed is  *)
(* missing in the file only as long as its request is about to write it,   *)
(* or for ever if the process was killed just then or the write failed.    *)
FileFollowsOutput ==
  LET out == {printed[i] : i \in DOMAIN printed}
      file == {logfile[i] : i \in DOMAIN logfile} \ {Torn}
  IN  /\ file \subseteq out
      /\ \A r \in out \ file : pc[r] \in {"file", "dead"} \/ r \in faults
      /\ \A r \in Requests : pc[r] \in {"answer", "over"} /\ outcome[r] \in Logged =>
           r \in out

(* Only a tool that the policy permits starts a container: under no        *)
(* spelling of its name is it on the deny list, and if the allow list has  *)
(* a name at all, one of its spellings is on it.                           *)
PolicyHolds ==
  \A r \in Requests : client[r] # "none" =>
    LET same(s) == Normal[s] = Normal[body[r].tool]
    IN  /\ body[r] \in Runs
        /\ \A s \in config.deny : ~same(s)
        /\ (\E s \in config.allow : Normal[s] # Blank) => \E s \in config.allow : same(s)

(* A request is over in the end if its command ends, or if it runs none;   *)
(* and one whose sender hangs up even if its command never ends.           *)
RequestsEnd ==
  \A r \in Requests :
    <>[](container[r] # "running" \/ r \in hungup) => (pc[r] \in Running ~> Ended(r))

-----------------------------------------------------------------------------
(* The log file as an append-only log of SessionLog, with a call for each  *)
(* request.                                                                *)
Written ==
  [r \in Requests |->
     IF r \in {logfile[i] : i \in DOMAIN logfile} THEN "written"
     ELSE IF pc[r] \in {"answer", "over", "dead"} THEN "failed" ELSE "pending"]

Log == INSTANCE SessionLog
         WITH Calls <- Requests, Files <- {"mouse.log"}, Noise <- {Torn},
              FileOf <- [r \in Requests |-> "mouse.log"],
              log <- [f \in {"mouse.log"} |-> logfile], outcome <- Written

(* The log is written as SessionLog allows: a line at most for a request,  *)
(* in one piece, and none after the request was answered or killed.        *)
UsesLog == Log!Spec
=============================================================================
