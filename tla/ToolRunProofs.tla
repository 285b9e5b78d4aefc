----------------------------- MODULE ToolRunProofs -----------------------------
(***************************************************************************)
(* What TLAPS proves of the tool runs, for every set of requests, every    *)
(* policy and any number of failed writes and kills: the answers, the log  *)
(* and the policy tell the truth about the containers.                     *)
(***************************************************************************)
EXTENDS ToolRun, TLAPS

-----------------------------------------------------------------------------
(* The inductive invariant: what the step of a request says about its      *)
(* client, its container, its outcome and its line in the two logs.        *)

Printed(r) == \E i \in DOMAIN printed : printed[i] = r

\* The client runs only while the request waits, or after a kill, and it
\* ended as its container did, if it had one and was not killed.
DockerOK(r) ==
  /\ client[r] = "none" => container[r] = "none"
  /\ client[r] = "running" => pc[r] \in {"wait", "dead"}
  /\ client[r] = "ok" => container[r] = "ok"
  /\ client[r] = "failed" => container[r] \in {"failed", "none"}
  /\ client[r] = "killed" => r \in hungup
  /\ pc[r] \in {"new", "policy", "start"} => client[r] = "none"

\* What the handler found out is what became of the client.
OutcomeOK(r) ==
  /\ pc[r] \in {"new", "policy", "start", "wait"} => outcome[r] = "none"
  /\ outcome[r] = "ok" => client[r] = "ok"
  /\ outcome[r] = "failed" => client[r] \in {"failed", "killed"}
  /\ outcome[r] = "error" => client[r] = "none" \/ (client[r] = "ok" /\ r \in hungup)
  /\ outcome[r] \in {"bad", "denied", "approved"} => client[r] = "none"
  /\ pc[r] \in {"print", "file", "answer", "over"} => outcome[r] # "none"

ReplyOK(r) ==
  IF pc[r] = "over" THEN reply[r] = (IF r \in hungup THEN "none" ELSE outcome[r])
  ELSE reply[r] = "none"

\* The line is printed, then written, and then the request is answered.
LinesOK(r) ==
  /\ pc[r] \in {"print", "file"} => outcome[r] \in Logged
  /\ pc[r] \in {"new", "policy", "start", "wait", "print"} => ~Printed(r)
  /\ pc[r] \in {"new", "policy", "start", "wait", "print", "file"} => ~InLog(r)
  /\ InLog(r) => Printed(r) /\ outcome[r] \in Logged
  /\ pc[r] = "file" => Printed(r)
  /\ Printed(r) /\ ~InLog(r) => pc[r] \in {"file", "dead"} \/ r \in faults
  /\ pc[r] \in {"answer", "over"} /\ outcome[r] \in Logged => Printed(r)

\* A request that came to "start" asks for a tool that the policy allows.
PermitOK(r) ==
  /\ pc[r] \in {"policy", "start", "wait"} => body[r] \in Runs
  /\ pc[r] \in {"start", "wait"} => Allowed(body[r].tool)
  /\ client[r] # "none" => body[r] \in Runs /\ Allowed(body[r].tool)

RequestOK(r) ==
  /\ DockerOK(r)
  /\ OutcomeOK(r)
  /\ ReplyOK(r)
  /\ LinesOK(r)
  /\ PermitOK(r)

IInv == TypeOK /\ \A r \in Requests : RequestOK(r)

-----------------------------------------------------------------------------
(* What one more item does to a log.                                       *)
LEMMA AppendHas ==
  ASSUME NEW S, NEW seq \in Seq(S), NEW e \in S, NEW x
  PROVE  (\E i \in DOMAIN Append(seq, e) : Append(seq, e)[i] = x)
           <=> (\E i \in DOMAIN seq : seq[i] = x) \/ x = e
<1>1. /\ DOMAIN Append(seq, e) = 1..(Len(seq) + 1)
      /\ DOMAIN seq = 1..Len(seq)
      /\ Len(seq) \in Nat
      /\ Append(seq, e)[Len(seq) + 1] = e
      /\ \A i \in 1..Len(seq) : Append(seq, e)[i] = seq[i]
  OBVIOUS
<1>2. \A i \in 1..(Len(seq) + 1) : i \in 1..Len(seq) \/ i = Len(seq) + 1
  BY <1>1
<1>3. \A i \in 1..Len(seq) : i \in 1..(Len(seq) + 1)
  BY <1>1
<1>4. Len(seq) + 1 \in 1..(Len(seq) + 1)
  BY <1>1
<1>. HIDE DEF Len
<1>. QED  BY <1>1, <1>2, <1>3, <1>4

LEMMA FileAppend ==
  ASSUME TypeOK, NEW e \in Requests \cup {Torn}, logfile' = Append(logfile, e),
         NEW x
  PROVE  InLog(x)' <=> InLog(x) \/ x = e
<1>1. logfile \in Seq(Requests \cup {Torn})
  BY DEF TypeOK
<1>2. (\E i \in DOMAIN Append(logfile, e) : Append(logfile, e)[i] = x)
        <=> (\E i \in DOMAIN logfile : logfile[i] = x) \/ x = e
  BY <1>1, AppendHas
<1>. QED  BY <1>2 DEF InLog

LEMMA OutputAppend ==
  ASSUME TypeOK, NEW e \in Requests, printed' = Append(printed, e), NEW x
  PROVE  Printed(x)' <=> Printed(x) \/ x = e
<1>1. printed \in Seq(Requests)
  BY DEF TypeOK
<1>2. (\E i \in DOMAIN Append(printed, e) : Append(printed, e)[i] = x)
        <=> (\E i \in DOMAIN printed : printed[i] = x) \/ x = e
  BY <1>1, AppendHas
<1>. QED  BY <1>2 DEF Printed

\* A step that leaves a request alone.
Untouched(r) ==
  /\ pc'[r] = pc[r] /\ outcome'[r] = outcome[r]
  /\ client'[r] = client[r] /\ container'[r] = container[r]
  /\ reply'[r] = reply[r]
  /\ r \in hungup' <=> r \in hungup
  /\ r \in faults => r \in faults'
  /\ InLog(r)' <=> InLog(r)
  /\ Printed(r)' <=> Printed(r)
  /\ UNCHANGED <<config, body>>

LEMMA UntouchedKeeps ==
  ASSUME NEW r, RequestOK(r), Untouched(r)
  PROVE  RequestOK(r)'
<1>. USE DEF Untouched
<1>1. DockerOK(r)'
  BY DEF RequestOK, DockerOK
<1>2. OutcomeOK(r)'
  BY DEF RequestOK, OutcomeOK
<1>3. ReplyOK(r)'
  BY DEF RequestOK, ReplyOK
<1>4. LinesOK(r)'
  BY DEF RequestOK, LinesOK
<1>5. PermitOK(r)'
  BY DEF RequestOK, PermitOK, Allowed, names
<1>. QED  BY <1>1, <1>2, <1>3, <1>4, <1>5 DEF RequestOK

\* A step on behalf of r that leaves the other requests alone.
StepOf(r) == TypeOK' /\ (\A s \in Requests \ {r} : Untouched(s)) /\ RequestOK(r)'

LEMMA StepOfKeeps ==
  ASSUME IInv, NEW r \in Requests, StepOf(r)
  PROVE  IInv'
BY UntouchedKeeps DEF IInv, StepOf

LEMMA SameOutput ==
  ASSUME printed' = printed, NEW x
  PROVE  Printed(x)' <=> Printed(x)
BY DEF Printed

LEMMA SameFile ==
  ASSUME logfile' = logfile, NEW x
  PROVE  InLog(x)' <=> InLog(x)
BY DEF InLog

LEMMA SamePolicy ==
  ASSUME config' = config, body' = body, NEW r
  PROVE  Allowed(body[r].tool)' <=> Allowed(body[r].tool)
BY DEF Allowed, names

-----------------------------------------------------------------------------
(* Each step of a request, of its sender or of Docker keeps the invariant. *)

LEMMA ReceiveStep ==
  ASSUME IInv, NEW r \in Requests, Receive(r)
  PROVE  StepOf(r)
<1>. USE DEF IInv, Receive, Decide, Goto, docker, logs, env
<1>1. \A x : (Printed(x)' <=> Printed(x)) /\ (InLog(x)' <=> InLog(x))
  BY SameOutput, SameFile
<1>2. Allowed(body[r].tool)' <=> Allowed(body[r].tool)
  BY SamePolicy
<1>3. TypeOK'
  BY DEF TypeOK, Running, PCs, Outcomes, Logged
<1>4. ASSUME NEW s \in Requests \ {r}
      PROVE  Untouched(s)
  BY <1>1 DEF TypeOK, Untouched
<1>5. DockerOK(r)' /\ OutcomeOK(r)' /\ ReplyOK(r)'
  BY DEF TypeOK, RequestOK, DockerOK, OutcomeOK, ReplyOK, Running, Outcomes
<1>6. LinesOK(r)'
  BY <1>1 DEF TypeOK, RequestOK, LinesOK, OutcomeOK, Logged, Outcomes
<1>7. PermitOK(r)'
  BY <1>2, ToolRunAssumption DEF TypeOK, RequestOK, PermitOK, Runs
<1>. QED  BY <1>3, <1>4, <1>5, <1>6, <1>7 DEF StepOf, RequestOK

LEMMA AskPolicyStep ==
  ASSUME IInv, NEW r \in Requests, AskPolicy(r)
  PROVE  StepOf(r)
<1>. USE DEF IInv, AskPolicy, Decide, Goto, docker, logs, env
<1>1. \A x : (Printed(x)' <=> Printed(x)) /\ (InLog(x)' <=> InLog(x))
  BY SameOutput, SameFile
<1>2. Allowed(body[r].tool)' <=> Allowed(body[r].tool)
  BY SamePolicy
<1>3. TypeOK'
  BY DEF TypeOK, Running, PCs, Outcomes, Logged
<1>4. ASSUME NEW s \in Requests \ {r}
      PROVE  Untouched(s)
  BY <1>1 DEF TypeOK, Untouched
<1>5. DockerOK(r)' /\ OutcomeOK(r)' /\ ReplyOK(r)'
  BY DEF TypeOK, RequestOK, DockerOK, OutcomeOK, ReplyOK, Running, Outcomes
<1>6. LinesOK(r)'
  BY <1>1 DEF TypeOK, RequestOK, LinesOK, OutcomeOK, Logged, Outcomes
<1>7. PermitOK(r)'
  BY <1>2, ToolRunAssumption DEF TypeOK, RequestOK, PermitOK, Runs
<1>. QED  BY <1>3, <1>4, <1>5, <1>6, <1>7 DEF StepOf, RequestOK

LEMMA StartClientStep ==
  ASSUME IInv, NEW r \in Requests, StartClient(r)
  PROVE  StepOf(r)
<1>. USE DEF IInv, StartClient, Decide, Goto, docker, logs, env
<1>1. \A x : (Printed(x)' <=> Printed(x)) /\ (InLog(x)' <=> InLog(x))
  BY SameOutput, SameFile
<1>2. Allowed(body[r].tool)' <=> Allowed(body[r].tool)
  BY SamePolicy
<1>3. TypeOK'
  BY DEF TypeOK, Running, PCs, Outcomes, Logged
<1>4. ASSUME NEW s \in Requests \ {r}
      PROVE  Untouched(s)
  BY <1>1 DEF TypeOK, Untouched
<1>5. DockerOK(r)' /\ OutcomeOK(r)' /\ ReplyOK(r)'
  BY DEF TypeOK, RequestOK, DockerOK, OutcomeOK, ReplyOK, Running, Outcomes
<1>6. LinesOK(r)'
  BY <1>1 DEF TypeOK, RequestOK, LinesOK, OutcomeOK, Logged, Outcomes
<1>7. PermitOK(r)'
  BY <1>2, ToolRunAssumption DEF TypeOK, RequestOK, PermitOK, Runs
<1>. QED  BY <1>3, <1>4, <1>5, <1>6, <1>7 DEF StepOf, RequestOK

LEMMA WaitStep ==
  ASSUME IInv, NEW r \in Requests, Wait(r)
  PROVE  StepOf(r)
<1>. USE DEF IInv, Wait, exitOf, Decide, Goto, docker, logs, env
<1>1. \A x : (Printed(x)' <=> Printed(x)) /\ (InLog(x)' <=> InLog(x))
  BY SameOutput, SameFile
<1>2. Allowed(body[r].tool)' <=> Allowed(body[r].tool)
  BY SamePolicy
<1>3. TypeOK'
  <2>1. exitOf(r) \in {"ok", "failed"}
    OBVIOUS
  <2>2. outcome' \in [Requests -> Outcomes]
    BY <2>1 DEF TypeOK, Outcomes
  <2>3. pc' \in [Requests -> PCs]
    BY DEF TypeOK, Running, PCs
  <2>. QED  BY <2>2, <2>3 DEF TypeOK
<1>4. ASSUME NEW s \in Requests \ {r}
      PROVE  Untouched(s)
  BY <1>1 DEF TypeOK, Untouched
<1>5. DockerOK(r)' /\ OutcomeOK(r)' /\ ReplyOK(r)'
  BY DEF TypeOK, RequestOK, DockerOK, OutcomeOK, ReplyOK, Running, Outcomes
<1>6. LinesOK(r)'
  BY <1>1 DEF TypeOK, RequestOK, LinesOK, OutcomeOK, Logged, Outcomes
<1>7. PermitOK(r)'
  BY <1>2, ToolRunAssumption DEF TypeOK, RequestOK, PermitOK, Runs
<1>. QED  BY <1>3, <1>4, <1>5, <1>6, <1>7 DEF StepOf, RequestOK

LEMMA KillClientStep ==
  ASSUME IInv, NEW r \in Requests, KillClient(r)
  PROVE  StepOf(r)
<1>. USE DEF IInv, KillClient, docker, logs, env
<1>1. \A x : (Printed(x)' <=> Printed(x)) /\ (InLog(x)' <=> InLog(x))
  BY SameOutput, SameFile
<1>2. Allowed(body[r].tool)' <=> Allowed(body[r].tool)
  BY SamePolicy
<1>3. TypeOK'
  BY DEF TypeOK, Running, PCs, Outcomes, Logged
<1>4. ASSUME NEW s \in Requests \ {r}
      PROVE  Untouched(s)
  BY <1>1 DEF TypeOK, Untouched
<1>5. DockerOK(r)' /\ OutcomeOK(r)' /\ ReplyOK(r)'
  BY DEF TypeOK, RequestOK, DockerOK, OutcomeOK, ReplyOK, Running, Outcomes
<1>6. LinesOK(r)'
  BY <1>1 DEF TypeOK, RequestOK, LinesOK, OutcomeOK, Logged, Outcomes
<1>7. PermitOK(r)'
  BY <1>2, ToolRunAssumption DEF TypeOK, RequestOK, PermitOK, Runs
<1>. QED  BY <1>3, <1>4, <1>5, <1>6, <1>7 DEF StepOf, RequestOK

LEMMA PrintLineStep ==
  ASSUME IInv, NEW r \in Requests, PrintLine(r)
  PROVE  StepOf(r)
<1>. USE DEF IInv, PrintLine, Goto, docker, logs, env
<1>1. \A x : (Printed(x)' <=> Printed(x) \/ x = r) /\ (InLog(x)' <=> InLog(x))
  BY OutputAppend, SameFile
<1>2. Allowed(body[r].tool)' <=> Allowed(body[r].tool)
  BY SamePolicy
<1>3. TypeOK'
  <2>1. printed' \in Seq(Requests)
    BY DEF TypeOK
  <2>. QED  BY <2>1 DEF TypeOK, Running, PCs
<1>4. ASSUME NEW s \in Requests \ {r}
      PROVE  Untouched(s)
  BY <1>1 DEF TypeOK, Untouched
<1>5. DockerOK(r)' /\ OutcomeOK(r)' /\ ReplyOK(r)'
  BY DEF TypeOK, RequestOK, DockerOK, OutcomeOK, ReplyOK, Running, Outcomes
<1>6. LinesOK(r)'
  BY <1>1 DEF TypeOK, RequestOK, LinesOK, OutcomeOK, Logged, Outcomes
<1>7. PermitOK(r)'
  BY <1>2, ToolRunAssumption DEF TypeOK, RequestOK, PermitOK, Runs
<1>. QED  BY <1>3, <1>4, <1>5, <1>6, <1>7 DEF StepOf, RequestOK

LEMMA WriteLineStep ==
  ASSUME IInv, NEW r \in Requests, WriteLine(r)
  PROVE  StepOf(r)
<1>. USE DEF IInv, WriteLine, Goto, docker, logs, env
<1>1. /\ \A x : Printed(x)' <=> Printed(x)
      /\ \/ (\A x : InLog(x)' <=> InLog(x) \/ x = r) /\ faults' = faults
         \/ /\ \A x \in Requests : InLog(x)' <=> InLog(x)
            /\ faults' = faults \cup {r}
  <2>1. \A x : Printed(x)' <=> Printed(x)
    BY SameOutput
  <2>2. CASE logfile' = Append(logfile, r) /\ UNCHANGED faults
    BY <2>1, <2>2, FileAppend
  <2>3. CASE logfile' = logfile /\ faults' = faults \cup {r}
    BY <2>1, <2>3, SameFile
  <2>4. CASE logfile' = Append(logfile, Torn) /\ faults' = faults \cup {r}
    <3>1. \A x : InLog(x)' <=> InLog(x) \/ x = Torn
      BY <2>4, FileAppend
    <3>. QED  BY <2>1, <2>4, <3>1, ToolRunAssumption
  <2>. QED  BY <2>2, <2>3, <2>4
<1>2. Allowed(body[r].tool)' <=> Allowed(body[r].tool)
  BY SamePolicy
<1>3. TypeOK'
  <2>1. logfile' \in Seq(Requests \cup {Torn})
    <3>1. /\ logfile \in Seq(Requests \cup {Torn})
          /\ logfile' = logfile \/ \E e \in Requests \cup {Torn} : logfile' = Append(logfile, e)
      BY DEF TypeOK
    <3>. QED  BY <3>1
  <2>2. pc' \in [Requests -> PCs] /\ faults' \subseteq Requests
    BY DEF TypeOK, Running, PCs
  <2>. QED  BY <2>1, <2>2 DEF TypeOK
<1>4. ASSUME NEW s \in Requests \ {r}
      PROVE  Untouched(s)
  BY <1>1 DEF TypeOK, Untouched
<1>5. DockerOK(r)' /\ OutcomeOK(r)' /\ ReplyOK(r)'
  BY DEF TypeOK, RequestOK, DockerOK, OutcomeOK, ReplyOK, Running, Outcomes
<1>6. LinesOK(r)'
  BY <1>1 DEF TypeOK, RequestOK, LinesOK, OutcomeOK, Logged, Outcomes
<1>7. PermitOK(r)'
  BY <1>2, ToolRunAssumption DEF TypeOK, RequestOK, PermitOK, Runs
<1>. QED  BY <1>3, <1>4, <1>5, <1>6, <1>7 DEF StepOf, RequestOK

LEMMA AnswerStep ==
  ASSUME IInv, NEW r \in Requests, Answer(r)
  PROVE  StepOf(r)
<1>. USE DEF IInv, Answer, Goto, docker, logs, env
<1>1. \A x : (Printed(x)' <=> Printed(x)) /\ (InLog(x)' <=> InLog(x))
  BY SameOutput, SameFile
<1>2. Allowed(body[r].tool)' <=> Allowed(body[r].tool)
  BY SamePolicy
<1>3. TypeOK'
  BY DEF TypeOK, Running, PCs, Outcomes, Logged
<1>4. ASSUME NEW s \in Requests \ {r}
      PROVE  Untouched(s)
  BY <1>1 DEF TypeOK, Untouched
<1>5. DockerOK(r)' /\ OutcomeOK(r)' /\ ReplyOK(r)'
  BY DEF TypeOK, RequestOK, DockerOK, OutcomeOK, ReplyOK, Running, Outcomes
<1>6. LinesOK(r)'
  BY <1>1 DEF TypeOK, RequestOK, LinesOK, OutcomeOK, Logged, Outcomes
<1>7. PermitOK(r)'
  BY <1>2, ToolRunAssumption DEF TypeOK, RequestOK, PermitOK, Runs
<1>. QED  BY <1>3, <1>4, <1>5, <1>6, <1>7 DEF StepOf, RequestOK

LEMMA HangUpStep ==
  ASSUME IInv, NEW r \in Requests, HangUp(r)
  PROVE  StepOf(r)
<1>. USE DEF IInv, HangUp, docker, logs, env
<1>1. \A x : (Printed(x)' <=> Printed(x)) /\ (InLog(x)' <=> InLog(x))
  BY SameOutput, SameFile
<1>2. Allowed(body[r].tool)' <=> Allowed(body[r].tool)
  BY SamePolicy
<1>3. TypeOK'
  BY DEF TypeOK, Running, PCs, Outcomes, Logged
<1>4. ASSUME NEW s \in Requests \ {r}
      PROVE  Untouched(s)
  BY <1>1 DEF TypeOK, Untouched
<1>5. DockerOK(r)' /\ OutcomeOK(r)' /\ ReplyOK(r)'
  BY DEF TypeOK, RequestOK, DockerOK, OutcomeOK, ReplyOK, Running, Outcomes
<1>6. LinesOK(r)'
  BY <1>1 DEF TypeOK, RequestOK, LinesOK, OutcomeOK, Logged, Outcomes
<1>7. PermitOK(r)'
  BY <1>2, ToolRunAssumption DEF TypeOK, RequestOK, PermitOK, Runs
<1>. QED  BY <1>3, <1>4, <1>5, <1>6, <1>7 DEF StepOf, RequestOK

LEMMA LaunchStep ==
  ASSUME IInv, NEW r \in Requests, Launch(r)
  PROVE  StepOf(r)
<1>. USE DEF IInv, Launch, docker, logs, env
<1>1. \A x : (Printed(x)' <=> Printed(x)) /\ (InLog(x)' <=> InLog(x))
  BY SameOutput, SameFile
<1>2. Allowed(body[r].tool)' <=> Allowed(body[r].tool)
  BY SamePolicy
<1>3. TypeOK'
  BY DEF TypeOK, Running, PCs, Outcomes, Logged
<1>4. ASSUME NEW s \in Requests \ {r}
      PROVE  Untouched(s)
  BY <1>1 DEF TypeOK, Untouched
<1>5. DockerOK(r)' /\ OutcomeOK(r)' /\ ReplyOK(r)'
  BY DEF TypeOK, RequestOK, DockerOK, OutcomeOK, ReplyOK, Running, Outcomes
<1>6. LinesOK(r)'
  BY <1>1 DEF TypeOK, RequestOK, LinesOK, OutcomeOK, Logged, Outcomes
<1>7. PermitOK(r)'
  BY <1>2, ToolRunAssumption DEF TypeOK, RequestOK, PermitOK, Runs
<1>. QED  BY <1>3, <1>4, <1>5, <1>6, <1>7 DEF StepOf, RequestOK

LEMMA ContainerEndsStep ==
  ASSUME IInv, NEW r \in Requests, ContainerEnds(r)
  PROVE  StepOf(r)
<1>. USE DEF IInv, ContainerEnds, docker, logs, env
<1>1. \A x : (Printed(x)' <=> Printed(x)) /\ (InLog(x)' <=> InLog(x))
  BY SameOutput, SameFile
<1>2. Allowed(body[r].tool)' <=> Allowed(body[r].tool)
  BY SamePolicy
<1>3. TypeOK'
  BY DEF TypeOK, Running, PCs, Outcomes, Logged
<1>4. ASSUME NEW s \in Requests \ {r}
      PROVE  Untouched(s)
  BY <1>1 DEF TypeOK, Untouched
<1>5. DockerOK(r)' /\ OutcomeOK(r)' /\ ReplyOK(r)'
  BY DEF TypeOK, RequestOK, DockerOK, OutcomeOK, ReplyOK, Running, Outcomes
<1>6. LinesOK(r)'
  BY <1>1 DEF TypeOK, RequestOK, LinesOK, OutcomeOK, Logged, Outcomes
<1>7. PermitOK(r)'
  BY <1>2, ToolRunAssumption DEF TypeOK, RequestOK, PermitOK, Runs
<1>. QED  BY <1>3, <1>4, <1>5, <1>6, <1>7 DEF StepOf, RequestOK

LEMMA ClientEndsStep ==
  ASSUME IInv, NEW r \in Requests, ClientEnds(r)
  PROVE  StepOf(r)
<1>. USE DEF IInv, ClientEnds, docker, logs, env
<1>1. \A x : (Printed(x)' <=> Printed(x)) /\ (InLog(x)' <=> InLog(x))
  BY SameOutput, SameFile
<1>2. Allowed(body[r].tool)' <=> Allowed(body[r].tool)
  BY SamePolicy
<1>3. TypeOK'
  BY DEF TypeOK, Running, PCs, Outcomes, Logged
<1>4. ASSUME NEW s \in Requests \ {r}
      PROVE  Untouched(s)
  BY <1>1 DEF TypeOK, Untouched
<1>5. DockerOK(r)' /\ OutcomeOK(r)' /\ ReplyOK(r)'
  BY DEF TypeOK, RequestOK, DockerOK, OutcomeOK, ReplyOK, Running, Outcomes
<1>6. LinesOK(r)'
  BY <1>1 DEF TypeOK, RequestOK, LinesOK, OutcomeOK, Logged, Outcomes
<1>7. PermitOK(r)'
  BY <1>2, ToolRunAssumption DEF TypeOK, RequestOK, PermitOK, Runs
<1>. QED  BY <1>3, <1>4, <1>5, <1>6, <1>7 DEF StepOf, RequestOK

-----------------------------------------------------------------------------
LEMMA CrashStep ==
  ASSUME IInv, Crash
  PROVE  IInv'
<1>. USE DEF IInv, Crash, docker, logs
<1>1. TypeOK'
  BY DEF TypeOK, PCs
<1>2. ASSUME NEW r \in Requests
      PROVE  RequestOK(r)'
  <2>1. (Printed(r)' <=> Printed(r)) /\ (InLog(r)' <=> InLog(r))
    BY SameOutput, SameFile
  <2>2. Allowed(body[r].tool)' <=> Allowed(body[r].tool)
    BY SamePolicy
  <2>3. \/ pc'[r] = pc[r] /\ pc[r] \notin Running
        \/ pc'[r] = "dead" /\ pc[r] \in Running
    BY DEF TypeOK
  <2>4. DockerOK(r)' /\ OutcomeOK(r)' /\ ReplyOK(r)'
    BY <2>3 DEF RequestOK, DockerOK, OutcomeOK, ReplyOK, Running
  <2>5. LinesOK(r)'
    BY <2>1, <2>3 DEF RequestOK, LinesOK, Running
  <2>6. PermitOK(r)'
    BY <2>2, <2>3 DEF RequestOK, PermitOK, Running
  <2>. QED  BY <2>4, <2>5, <2>6 DEF RequestOK
<1>. QED  BY <1>1, <1>2

LEMMA InitInv == Init => IInv
<1>. SUFFICES ASSUME Init PROVE IInv
  OBVIOUS
<1>1. TypeOK
  BY DEF Init, TypeOK, PCs, Outcomes
<1>2. ASSUME NEW r \in Requests
      PROVE  RequestOK(r)
  <2>1. ~Printed(r) /\ ~InLog(r)
    BY DEF Init, Printed, InLog
  <2>2. DockerOK(r) /\ OutcomeOK(r) /\ ReplyOK(r)
    BY DEF Init, DockerOK, OutcomeOK, ReplyOK
  <2>3. LinesOK(r) /\ PermitOK(r)
    BY <2>1 DEF Init, LinesOK, PermitOK, Logged
  <2>. QED  BY <2>2, <2>3 DEF RequestOK
<1>. QED  BY <1>1, <1>2 DEF IInv

LEMMA NextInv == IInv /\ [Next]_vars => IInv'
<1>. SUFFICES ASSUME IInv, [Next]_vars PROVE IInv'
  OBVIOUS
<1>1. ASSUME NEW r \in Requests,
             \/ Handler(r) \/ KillClient(r) \/ HangUp(r)
             \/ Docker(r) \/ ContainerEnds(r)
      PROVE  IInv'
  <2>1. StepOf(r)
    BY <1>1, ReceiveStep, AskPolicyStep, StartClientStep, WaitStep, KillClientStep,
       PrintLineStep, WriteLineStep, AnswerStep, HangUpStep, LaunchStep,
       ContainerEndsStep, ClientEndsStep DEF Handler, Docker
  <2>. QED  BY <2>1, StepOfKeeps
<1>2. CASE UNCHANGED vars
  <2>1. TypeOK'
    BY <1>2 DEF IInv, TypeOK, vars
  <2>2. ASSUME NEW r \in Requests
        PROVE  Untouched(r)
    BY <1>2, SameOutput, SameFile DEF Untouched, vars
  <2>. QED  BY <2>1, <2>2, UntouchedKeeps DEF IInv
<1>. QED  BY <1>1, <1>2, CrashStep DEF Next, Quiet

(* The invariant of the tool runs, however requests interleave, whatever   *)
(* Docker does, and whenever senders hang up or the process is killed.     *)
THEOREM Invariance == Spec => []IInv
BY InitInv, NextInv, PTL DEF Spec

(* Type correctness of the tool runs.                                      *)
THEOREM TypeCorrect == Spec => []TypeOK
<1>1. IInv => TypeOK
  BY DEF IInv
<1>. QED  BY <1>1, Invariance, PTL

(* A container that runs with no request waiting for it was left behind by *)
(* a sender that hung up or by a kill of the process.                      *)
THEOREM OrphansAreExplained == Spec => []OrphansHaveCause
<1>1. IInv => OrphansHaveCause
  BY DEF IInv, TypeOK, RequestOK, DockerOK, OrphansHaveCause
<1>. QED  BY <1>1, Invariance, PTL

(* The answer of a request, and the exit status of mousectl, tell the      *)
(* truth about its container.                                              *)
THEOREM AnswersAreTrue == Spec => []AnswerIsTrue
<1>1. ASSUME IInv, NEW r \in Requests
      PROVE  /\ reply[r] = "ok" => container[r] = "ok"
             /\ reply[r] = "failed" => container[r] \in {"failed", "none"} /\ client[r] = "failed"
             /\ reply[r] \in {"bad", "denied", "error", "approved"} => client[r] = "none"
             /\ pc[r] = "over" /\ exitStatus(r) = 1 /\ container[r] = "ok" => r \in hungup
  <2>. USE <1>1 DEF IInv, RequestOK
  <2>1. CASE reply[r] # "none"
    <3>1. pc[r] = "over" /\ r \notin hungup /\ outcome[r] = reply[r]
      BY <2>1 DEF ReplyOK
    <3>. QED  BY <3>1 DEF OutcomeOK, DockerOK, exitStatus, TypeOK, Outcomes
  <2>2. CASE reply[r] = "none"
    BY <2>2 DEF OutcomeOK, ReplyOK
  <2>. QED  BY <2>1, <2>2
<1>2. IInv => AnswerIsTrue
  BY <1>1 DEF AnswerIsTrue
<1>. QED  BY <1>2, Invariance, PTL

(* The log is an audit of the runs: no run is over without its line unless *)
(* the write failed, and the line is wrong only if the sender hung up.     *)
THEOREM RunsAreInTheLog == Spec => []RunsAreAudited
<1>1. ASSUME IInv, NEW r \in Requests
      PROVE  /\ pc[r] = "over" /\ client[r] # "none" => InLog(r) \/ r \in faults
             /\ InLog(r) /\ outcome[r] = "ok" => container[r] = "ok"
             /\ InLog(r) /\ container[r] \in {"running", "ok"} /\ outcome[r] # "ok" => r \in hungup
  <2>1. outcome[r] \in Outcomes
    BY <1>1 DEF IInv, TypeOK
  <2>2. DockerOK(r) /\ OutcomeOK(r) /\ LinesOK(r)
    BY <1>1 DEF IInv, RequestOK
  <2>. QED  BY <2>1, <2>2 DEF DockerOK, OutcomeOK, LinesOK, Outcomes, Logged
<1>2. IInv => RunsAreAudited
  BY <1>1 DEF RunsAreAudited
<1>. QED  BY <1>2, Invariance, PTL

(* The standard output and the file of the log hold the same lines, but    *)
(* for those under way, lost in a kill or in a failed write.               *)
THEOREM OutputsAgree == Spec => []FileFollowsOutput
<1>1. ASSUME IInv
      PROVE  FileFollowsOutput
  <2>. DEFINE out == {printed[i] : i \in DOMAIN printed}
              file == {logfile[i] : i \in DOMAIN logfile} \ {Torn}
  <2>1. \A r : (r \in out <=> Printed(r)) /\ (r \in file <=> InLog(r) /\ r # Torn)
    BY DEF Printed, InLog
  <2>2. out \subseteq Requests /\ file \subseteq Requests /\ Torn \notin Requests
    BY <1>1, ToolRunAssumption DEF IInv, TypeOK
  <2>3. \A r \in Requests : LinesOK(r)
    BY <1>1 DEF IInv, RequestOK
  <2>. HIDE DEF out, file
  <2>4. /\ file \subseteq out
        /\ \A r \in out \ file : pc[r] \in {"file", "dead"} \/ r \in faults
        /\ \A r \in Requests : pc[r] \in {"answer", "over"} /\ outcome[r] \in Logged =>
             r \in out
    BY <2>1, <2>2, <2>3 DEF LinesOK
  <2>. QED  BY <2>4 DEF FileFollowsOutput, out, file
<1>. QED  BY <1>1, Invariance, PTL

(* Only a tool that the policy permits, in whatever spelling, is started.  *)
THEOREM PolicyIsKept == Spec => []PolicyHolds
<1>1. ASSUME IInv, NEW r \in Requests, client[r] # "none"
      PROVE  LET same(s) == Normal[s] = Normal[body[r].tool]
             IN  /\ body[r] \in Runs
                 /\ \A s \in config.deny : ~same(s)
                 /\ (\E s \in config.allow : Normal[s] # Blank) => \E s \in config.allow : same(s)
  <2>1. body[r] \in Runs /\ Allowed(body[r].tool)
    BY <1>1 DEF IInv, RequestOK, PermitOK
  <2>. QED  BY <2>1 DEF Allowed, names
<1>2. IInv => PolicyHolds
  BY <1>1 DEF PolicyHolds
<1>. QED  BY <1>2, Invariance, PTL

-----------------------------------------------------------------------------
Last == {"answer", "over", "dead"}

\* Only WriteLine appends to the file, and a request does not go back.
LEMMA LogSteps ==
  ASSUME IInv, [Next]_vars
  PROVE  /\ \A r \in Requests : pc[r] \in Last => pc'[r] \in Last
         /\ logfile' = logfile \/ \E r \in Requests : WriteLine(r)
<1>. USE DEF Last, docker, logs, env
<1>1. ASSUME NEW r \in Requests,
             \/ Receive(r) \/ AskPolicy(r) \/ StartClient(r) \/ Wait(r)
             \/ PrintLine(r) \/ Answer(r)
      PROVE  \E step : /\ pc' = [pc EXCEPT ![r] = step]
                       /\ pc[r] \in Last => step \in Last
  BY <1>1 DEF Receive, AskPolicy, StartClient, Wait, PrintLine, Answer, Decide, Goto
<1>2. ASSUME NEW r \in Requests, WriteLine(r)
      PROVE  \E step : /\ pc' = [pc EXCEPT ![r] = step]
                       /\ pc[r] \in Last => step \in Last
  BY <1>2 DEF WriteLine, Goto
<1>3. ASSUME NEW r \in Requests, KillClient(r) \/ HangUp(r) \/ Docker(r) \/ ContainerEnds(r)
      PROVE  logfile' = logfile /\ pc' = pc
  BY <1>3 DEF KillClient, HangUp, Docker, Launch, ClientEnds, ContainerEnds
<1>4. CASE Crash
  BY <1>4 DEF Crash, Running
<1>5. CASE UNCHANGED vars
  BY <1>5 DEF vars
<1>6. pc \in [Requests -> PCs]
  BY DEF IInv, TypeOK
<1>7. ASSUME NEW r \in Requests, NEW step, pc' = [pc EXCEPT ![r] = step],
             pc[r] \in Last => step \in Last
      PROVE  \A s \in Requests : pc[s] \in Last => pc'[s] \in Last
  BY <1>6, <1>7
<1>8. ASSUME NEW r \in Requests,
             \/ Handler(r) \/ KillClient(r) \/ HangUp(r)
             \/ Docker(r) \/ ContainerEnds(r)
      PROVE  /\ \A s \in Requests : pc[s] \in Last => pc'[s] \in Last
             /\ logfile' = logfile \/ \E s \in Requests : WriteLine(s)
  <2>1. CASE WriteLine(r)
    <3>1. PICK step : /\ pc' = [pc EXCEPT ![r] = step]
                      /\ pc[r] \in Last => step \in Last
      BY <1>2, <2>1
    <3>. QED  BY <1>7, <2>1, <3>1
  <2>2. CASE \/ Receive(r) \/ AskPolicy(r) \/ StartClient(r) \/ Wait(r)
             \/ PrintLine(r) \/ Answer(r)
    <3>1. PICK step : /\ pc' = [pc EXCEPT ![r] = step]
                      /\ pc[r] \in Last => step \in Last
      BY <1>1, <2>2
    <3>2. logfile' = logfile
      BY <2>2 DEF Receive, AskPolicy, StartClient, Wait, PrintLine, Answer
    <3>. QED  BY <1>7, <3>1, <3>2
  <2>3. CASE KillClient(r) \/ HangUp(r) \/ Docker(r) \/ ContainerEnds(r)
    BY <1>3, <2>3
  <2>. QED  BY <1>8, <2>1, <2>2, <2>3 DEF Handler
<1>. QED  BY <1>4, <1>5, <1>8 DEF Next, Quiet

(* The log file is written as the abstract log allows: a whole line is the *)
(* Write of its request, a torn one is noise, and a request that was       *)
(* answered or killed without its line has failed to write it.             *)
THEOREM RunsUseLog == Spec => UsesLog
<1>. DEFINE Line(r) == IF InLog(r) THEN "written"
                       ELSE IF pc[r] \in Last THEN "failed" ELSE "pending"
            Lines == [r \in Requests |-> Line(r)]
            File == [f \in {"mouse.log"} |-> logfile]
<1>1. Written = Lines
  BY DEF Written, InLog, Last
<1>2. Written' = Lines'
  BY DEF Written, InLog, Last
<1>3. Init => Log!Init
  <2>. SUFFICES ASSUME Init PROVE Log!Init
    OBVIOUS
  <2>1. \A r \in Requests : ~InLog(r) /\ pc[r] \notin Last
    BY DEF Init, InLog, Last
  <2>2. Written = [r \in Requests |-> "pending"]
    BY <1>1, <2>1
  <2>. QED  BY <2>2 DEF Init, Log!Init
<1>4. ASSUME IInv, [Next]_vars
      PROVE  [Log!Next]_Log!vars
  <2>. USE <1>4
  <2>1. \A r \in Requests : pc[r] \in Last => pc'[r] \in Last
    BY LogSteps
  <2>2. Log!GiveUp \/ ~\A r \in Requests : InLog(r)' <=> InLog(r)
    <3>. SUFFICES ASSUME \A r \in Requests : InLog(r)' <=> InLog(r)
                  PROVE  Log!GiveUp
      OBVIOUS
    <3>1. Lines' \in [Requests -> {"pending", "written", "failed"}]
      OBVIOUS
    <3>2. \A r \in Requests : Lines'[r] # Lines[r] =>
            Lines[r] = "pending" /\ Lines'[r] = "failed"
      BY <2>1
    <3>. QED  BY <1>1, <1>2, <3>1, <3>2 DEF Log!GiveUp, Log!Outcomes
  <2>3. CASE logfile' = logfile
    <3>1. Log!GiveUp
      BY <2>2, <2>3, SameFile
    <3>. QED  BY <2>3, <3>1 DEF Log!Next, Log!Fail
  <2>4. ASSUME NEW r \in Requests, WriteLine(r), logfile' = Append(logfile, r)
        PROVE  Log!Next
    <3>1. \A s \in Requests : InLog(s)' <=> InLog(s) \/ s = r
      BY <2>4, FileAppend DEF IInv
    <3>2. ~InLog(r) /\ pc[r] = "file"
      BY <2>4 DEF IInv, RequestOK, LinesOK, WriteLine
    <3>3. \A s \in Requests \ {r} : pc'[s] = pc[s]
      BY <2>4 DEF IInv, TypeOK, WriteLine, Goto
    <3>4. Lines' = [Lines EXCEPT ![r] = "written"]
      <4>1. \A s \in Requests : Line(s)' = IF s = r THEN "written" ELSE Line(s)
        BY <3>1, <3>3
      <4>. QED  BY <4>1
    <3>5. Lines[r] = "pending"
      BY <3>2 DEF Last
    <3>6. File' = [File EXCEPT !["mouse.log"] = Append(@, r)]
      BY <2>4
    <3>7. Log!Write(r)
      BY <1>1, <1>2, <3>4, <3>5, <3>6 DEF Log!Write
    <3>. QED  BY <3>7 DEF Log!Next
  <2>5. ASSUME logfile' = Append(logfile, Torn)
        PROVE  Log!Next
    <3>1. \A s \in Requests : InLog(s)' <=> InLog(s)
      <4>1. \A s : InLog(s)' <=> InLog(s) \/ s = Torn
        BY <2>5, FileAppend DEF IInv
      <4>. QED  BY <4>1, ToolRunAssumption
    <3>2. File' = [File EXCEPT !["mouse.log"] = Append(@, Torn)]
      BY <2>5
    <3>3. Log!Spill("mouse.log", Torn)
      BY <2>2, <3>1, <3>2 DEF Log!Spill
    <3>. QED  BY <3>3 DEF Log!Next
  <2>6. \/ logfile' = logfile
        \/ logfile' = Append(logfile, Torn)
        \/ \E r \in Requests : WriteLine(r) /\ logfile' = Append(logfile, r)
    BY LogSteps DEF WriteLine
  <2>. QED  BY <2>3, <2>4, <2>5, <2>6
<1>. QED  BY <1>3, <1>4, Invariance, PTL DEF Spec, UsesLog, Log!Spec

-----------------------------------------------------------------------------
(* What of RequestsEnd is safety. *)

\* The number of steps that the request may still take in the process, ...
StepsLeft ==
  [p \in PCs |-> CASE p = "new" -> 7
                   [] p = "policy" -> 6
                   [] p = "start" -> 5
                   [] p = "wait" -> 4
                   [] p = "print" -> 3
                   [] p = "file" -> 2
                   [] p = "answer" -> 1
                   [] OTHER -> 0]

\* ... and its client and its container behind it.
LifeLeft ==
  [state \in {"none", "running", "ok", "failed", "killed"} |->
     CASE state = "none" -> 2
       [] state = "running" -> 1
       [] OTHER -> 0]

WorkLeft(r) == StepsLeft[pc[r]] + LifeLeft[client[r]] + LifeLeft[container[r]]

LEMMA WorkIsNumber ==
  ASSUME TypeOK, NEW r \in Requests
  PROVE  /\ StepsLeft[pc[r]] \in 0..7 /\ LifeLeft[client[r]] \in 0..2
         /\ LifeLeft[container[r]] \in 0..2
BY DEF TypeOK, StepsLeft, LifeLeft

LEMMA StepsForward ==
  ASSUME TypeOK, NEW r \in Requests, Handler(r)
  PROVE  /\ StepsLeft[pc'[r]] < StepsLeft[pc[r]]
         /\ container' = container
         /\ client'[r] = client[r] \/ (pc[r] = "start" /\ client'[r] = "running")
         /\ \A s \in Requests \ {r} : pc'[s] = pc[s] /\ client'[s] = client[s]
<1>. USE DEF TypeOK, StepsLeft, PCs, Running, Goto, Decide, docker, logs, env
<1>1. CASE Receive(r)
  BY <1>1 DEF Receive
<1>2. CASE AskPolicy(r)
  BY <1>2 DEF AskPolicy
<1>3. CASE StartClient(r)
  BY <1>3 DEF StartClient
<1>4. CASE Wait(r)
  BY <1>4 DEF Wait
<1>5. CASE PrintLine(r)
  BY <1>5 DEF PrintLine
<1>6. CASE WriteLine(r)
  BY <1>6 DEF WriteLine
<1>7. CASE Answer(r)
  BY <1>7 DEF Answer
<1>. QED  BY <1>1, <1>2, <1>3, <1>4, <1>5, <1>6, <1>7 DEF Handler

LEMMA LivesForward ==
  ASSUME TypeOK, NEW r \in Requests,
         KillClient(r) \/ Docker(r) \/ ContainerEnds(r)
  PROVE  /\ pc' = pc
         /\ \/ /\ LifeLeft[client'[r]] < LifeLeft[client[r]]
               /\ container' = container
            \/ /\ LifeLeft[container'[r]] < LifeLeft[container[r]]
               /\ client' = client
         /\ \A s \in Requests \ {r} : client'[s] = client[s] /\ container'[s] = container[s]
<1>. USE DEF TypeOK, LifeLeft, docker, logs, env
<1>1. CASE KillClient(r)
  BY <1>1 DEF KillClient
<1>2. CASE Launch(r)
  BY <1>2 DEF Launch
<1>3. CASE ClientEnds(r)
  BY <1>3 DEF ClientEnds
<1>4. CASE ContainerEnds(r)
  BY <1>4 DEF ContainerEnds
<1>. QED  BY <1>1, <1>2, <1>3, <1>4 DEF Docker

(* Every step of the handlers, of Docker and of a command brings a request *)
(* nearer to its end, and nothing sets it back, neither a sender that      *)
(* hangs up nor a write that fails: no step is taken twice.                *)
THEOREM RequestsAreFinite ==
  Spec => [][\A r \in Requests :
               /\ WorkLeft(r)' <= WorkLeft(r)
               /\ Handler(r) \/ KillClient(r) \/ Docker(r) \/ ContainerEnds(r) =>
                    WorkLeft(r)' < WorkLeft(r)]_vars
<1>1. ASSUME IInv, [Next]_vars, NEW r \in Requests
      PROVE  /\ WorkLeft(r)' <= WorkLeft(r)
             /\ Handler(r) \/ KillClient(r) \/ Docker(r) \/ ContainerEnds(r) =>
                  WorkLeft(r)' < WorkLeft(r)
  <2>1. TypeOK /\ TypeOK'
    BY <1>1, NextInv DEF IInv
  <2>2. /\ StepsLeft[pc[r]] \in 0..7 /\ LifeLeft[client[r]] \in 0..2
        /\ LifeLeft[container[r]] \in 0..2
        /\ StepsLeft[pc'[r]] \in 0..7 /\ LifeLeft[client'[r]] \in 0..2
        /\ LifeLeft[container'[r]] \in 0..2
    BY <2>1, WorkIsNumber DEF TypeOK, StepsLeft, LifeLeft
  <2>3. CASE Handler(r)
    <3>1. LifeLeft[client'[r]] <= LifeLeft[client[r]]
      <4>1. pc[r] = "start" => client[r] = "none"
        BY <1>1 DEF IInv, RequestOK, DockerOK
      <4>2. LifeLeft["none"] = 2 /\ LifeLeft["running"] = 1
        BY DEF LifeLeft
      <4>. QED  BY <2>1, <2>2, <2>3, <4>1, <4>2, StepsForward
    <3>2. StepsLeft[pc'[r]] < StepsLeft[pc[r]] /\ container' = container
      BY <2>1, <2>3, StepsForward
    <3>. QED  BY <2>2, <3>1, <3>2 DEF WorkLeft
  <2>4. CASE KillClient(r) \/ Docker(r) \/ ContainerEnds(r)
    BY <2>1, <2>2, <2>4, LivesForward DEF WorkLeft
  <2>5. ASSUME ~(Handler(r) \/ KillClient(r) \/ Docker(r) \/ ContainerEnds(r))
        PROVE  WorkLeft(r)' <= WorkLeft(r)
    <3>1. CASE UNCHANGED <<pc, client, container>>
      BY <2>2, <3>1 DEF WorkLeft
    <3>2. CASE Crash
      <4>1. /\ pc'[r] = pc[r] \/ pc'[r] = "dead"
            /\ UNCHANGED <<client, container>>
        BY <3>2 DEF Crash, docker
      <4>2. StepsLeft["dead"] = 0
        BY DEF StepsLeft, PCs
      <4>. QED  BY <2>2, <4>1, <4>2 DEF WorkLeft
    <3>3. ASSUME NEW s \in Requests \ {r},
                 Handler(s) \/ KillClient(s) \/ Docker(s) \/ ContainerEnds(s)
          PROVE  pc'[r] = pc[r] /\ client'[r] = client[r] /\ container'[r] = container[r]
      BY <2>1, <3>3, StepsForward, LivesForward
    <3>4. \/ UNCHANGED <<pc, client, container>>
          \/ Crash
          \/ \E s \in Requests \ {r} :
               Handler(s) \/ KillClient(s) \/ Docker(s) \/ ContainerEnds(s)
      BY <1>1, <2>5 DEF Next, HangUp, Quiet, vars, docker
    <3>. QED  BY <2>2, <3>1, <3>2, <3>3, <3>4 DEF WorkLeft
  <2>. QED  BY <2>2, <2>3, <2>4, <2>5 DEF WorkLeft
<1>2. IInv /\ [Next]_vars =>
        [\A r \in Requests :
           /\ WorkLeft(r)' <= WorkLeft(r)
           /\ Handler(r) \/ KillClient(r) \/ Docker(r) \/ ContainerEnds(r) =>
                WorkLeft(r)' < WorkLeft(r)]_vars
  BY <1>1
<1>. QED  BY <1>2, Invariance, PTL DEF Spec

\* A request has a client before it waits for it, and for as long.
WaitOK == \A r \in Requests : pc[r] = "wait" => client[r] # "none"

(* A request that waits is held up by nothing but a command that runs for  *)
(* a sender that is still there. Else its client has ended, and Wait       *)
(* returns, or is to be killed, or has a container to ask for or to report *)
(* the end of.                                                             *)
THEOREM OnlyCommandsBlock ==
  Spec => [](\A r \in Requests :
               pc[r] = "wait" /\ ~(container[r] = "running" /\ r \notin hungup) =>
                 \/ client[r] \in {"ok", "failed", "killed"}
                 \/ client[r] = "running" /\ r \in hungup
                 \/ client[r] = "running" /\ container[r] \in {"none", "ok", "failed"})
<1>1. Init => WaitOK
  BY DEF Init, WaitOK
<1>2. ASSUME IInv, WaitOK, [Next]_vars
      PROVE  WaitOK'
  <2>. SUFFICES ASSUME NEW r \in Requests, pc'[r] = "wait"
                PROVE  client'[r] # "none"
    BY DEF WaitOK
  <2>. USE DEF docker, logs, env, Goto, Decide
  <2>1. TypeOK
    BY <1>2 DEF IInv
  <2>2. ASSUME NEW s \in Requests, Handler(s)
        PROVE  client'[r] # "none"
    <3>1. CASE StartClient(s)
      BY <1>2, <2>1, <3>1 DEF StartClient, TypeOK, WaitOK
    <3>2. CASE Receive(s) \/ AskPolicy(s) \/ Wait(s) \/ PrintLine(s) \/ WriteLine(s) \/ Answer(s)
      <4>1. client' = client
        BY <3>2 DEF Receive, AskPolicy, Wait, PrintLine, WriteLine, Answer
      <4>2. pc[r] = "wait"
        BY <2>1, <3>2 DEF Receive, AskPolicy, Wait, PrintLine, WriteLine, Answer, TypeOK
      <4>. QED  BY <1>2, <4>1, <4>2 DEF WaitOK
    <3>. QED  BY <2>2, <3>1, <3>2 DEF Handler
  <2>3. CASE pc' = pc /\ \A s \in Requests : client[s] # "none" => client'[s] # "none"
    BY <1>2, <2>3 DEF WaitOK
  <2>4. ASSUME NEW s \in Requests, KillClient(s) \/ HangUp(s) \/ Docker(s) \/ ContainerEnds(s)
        PROVE  pc' = pc /\ \A q \in Requests : client[q] # "none" => client'[q] # "none"
    BY <2>1, <2>4 DEF KillClient, HangUp, Docker, Launch, ClientEnds, ContainerEnds, TypeOK
  <2>5. CASE Crash \/ UNCHANGED vars
    <3>1. client' = client /\ pc[r] = "wait"
      BY <2>5 DEF Crash, vars
    <3>. QED  BY <1>2, <3>1 DEF WaitOK
  <2>. QED  BY <1>2, <2>2, <2>3, <2>4, <2>5 DEF Next, Quiet
<1>3. IInv /\ WaitOK =>
        \A r \in Requests :
          pc[r] = "wait" /\ ~(container[r] = "running" /\ r \notin hungup) =>
            \/ client[r] \in {"ok", "failed", "killed"}
            \/ client[r] = "running" /\ r \in hungup
            \/ client[r] = "running" /\ container[r] \in {"none", "ok", "failed"}
  BY DEF IInv, TypeOK, WaitOK
<1>. QED  BY <1>1, <1>2, <1>3, Invariance, PTL DEF Spec
=============================================================================
