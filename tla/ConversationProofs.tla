-------------------------- MODULE ConversationProofs --------------------------
(***************************************************************************)
(* IInv is an inductive invariant of Conversation, for any updates, users, *)
(* chats, allowlist, number of deliveries and number of crashes; the       *)
(* safety properties of the recorded conversation follow from it.          *)
(***************************************************************************)
EXTENDS Conversation, TLAPS

-----------------------------------------------------------------------------
(* What an append does to the membership of a log. *)

(* Appending x to a sequence adds x to its items and nothing else: every   *)
(* store of the conversation is an append-only log.                        *)
LEMMA InAppend ==
  ASSUME NEW S, NEW s \in Seq(S), NEW x \in S, NEW e
  PROVE  In(e, Append(s, x)) <=> In(e, s) \/ e = x
<1>1. /\ Len(s) \in Nat
      /\ Len(Append(s, x)) = Len(s) + 1
      /\ \A i \in 1..Len(s) : Append(s, x)[i] = s[i]
      /\ Append(s, x)[Len(s) + 1] = x
  OBVIOUS
<1>2. ASSUME In(e, Append(s, x))
      PROVE  In(e, s) \/ e = x
  <2>1. PICK i \in 1..(Len(s) + 1) : Append(s, x)[i] = e
    BY <1>1, <1>2 DEF In
  <2>2. i = Len(s) + 1 \/ i \in 1..Len(s)
    BY <1>1, <2>1
  <2>. QED  BY <1>1, <2>1, <2>2 DEF In
<1>3. ASSUME In(e, s) \/ e = x
      PROVE  In(e, Append(s, x))
  BY <1>1, <1>3 DEF In
<1>. QED  BY <1>2, <1>3

(* A Markdown append of a request records exactly its own entry, and in no *)
(* other session: sanitizeID gives each storable message one file.         *)
LEMMA MdAppend ==
  ASSUME TypeOK, NEW d \in Deliveries, NEW role \in Roles, Storable(d[1]),
         md' = [md EXCEPT ![SessionFile(Chat(d))] = Append(@, <<d, role>>)]
  PROVE  \A e \in Entries : MdHas(e)' <=> MdHas(e) \/ e = <<d, role>>
<1>. DEFINE f == SessionFile(Chat(d))
            new == <<d, role>>
<1>1. d[1] \in Updates /\ new \in Entries /\ new[1] = d
  BY DEF Deliveries, Entries
<1>2. f \in SessionFiles /\ md \in [SessionFiles -> Seq(Entries)]
  BY <1>1 DEF SessionFiles, Chat, Msg, TypeOK
<1>3. SUFFICES ASSUME NEW e \in Entries
               PROVE  MdHas(e)' <=> MdHas(e) \/ e = new
  OBVIOUS
<1>. DEFINE g == SessionFile(Chat(e[1]))
<1>4. MdHas(e)' <=> Storable(e[1][1]) /\ In(e, md'[g])
  BY DEF MdHas, In, Storable, Chat, Msg, SessionFile
<1>5. MdHas(e) <=> Storable(e[1][1]) /\ In(e, md[g])
  BY DEF MdHas
<1>6. CASE ~Storable(e[1][1])
  BY <1>1, <1>4, <1>5, <1>6
<1>7. CASE Storable(e[1][1])
  <2>1. g \in SessionFiles
    <3>1. e[1] \in Deliveries /\ e[1][1] \in Updates
      BY DEF Entries, Deliveries
    <3>. QED  BY <1>7, <3>1 DEF SessionFiles, Chat, Msg
  <2>2. CASE g = f
    <3>1. md'[g] = Append(md[f], new)
      BY <1>2, <2>1, <2>2
    <3>2. In(e, Append(md[f], new)) <=> In(e, md[f]) \/ e = new
      BY <1>1, <1>2, InAppend
    <3>. QED  BY <1>4, <1>5, <1>7, <2>2, <3>1, <3>2
  <2>3. CASE g # f
    <3>1. md'[g] = md[g]
      BY <1>2, <2>1, <2>3
    <3>2. e # new
      BY <1>1, <2>3
    <3>. QED  BY <1>4, <1>5, <3>1, <3>2
  <2>. QED  BY <2>2, <2>3
<1>. QED  BY <1>6, <1>7

(* An insert of a request adds exactly its own row.                        *)
LEMMA DbAppend ==
  ASSUME TypeOK, NEW d \in Deliveries, NEW role \in Roles,
         db' = Append(db, <<d, role>>)
  PROVE  /\ \A e \in Entries : DbHas(e)' <=> DbHas(e) \/ e = <<d, role>>
         /\ \A i \in 1..Len(db') : db'[i] = <<d, role>> \/ \E j \in 1..Len(db) : db'[i] = db[j]
<1>1. <<d, role>> \in Entries /\ db \in Seq(Entries)
  BY DEF Entries, TypeOK
<1>2. ASSUME NEW e \in Entries
      PROVE  DbHas(e)' <=> DbHas(e) \/ e = <<d, role>>
  <2>1. DbHas(e)' <=> In(e, Append(db, <<d, role>>))
    BY DEF DbHas, In
  <2>. QED  BY <1>1, <2>1, InAppend DEF DbHas
<1>3. ASSUME NEW i \in 1..Len(db')
      PROVE  db'[i] = <<d, role>> \/ \E j \in 1..Len(db) : db'[i] = db[j]
  BY <1>1
<1>. QED  BY <1>2, <1>3

(* Steps that leave a store alone leave its contents alone.                *)
LEMMA MdSame ==
  ASSUME md' = md
  PROVE  \A e \in Entries : MdHas(e)' <=> MdHas(e)
BY DEF MdHas, In, Storable, Chat, Msg, SessionFile

LEMMA DbSame ==
  ASSUME db' = db
  PROVE  \A e \in Entries : DbHas(e)' <=> DbHas(e)
BY DEF DbHas, In

-----------------------------------------------------------------------------
(* The inductive invariant, action by action. *)

(* A new process, with no requests and empty stores.                       *)
LEMMA InitInv == Init => IInv
<1>. SUFFICES ASSUME Init PROVE IInv
  OBVIOUS
<1>1. TypeOK
  BY ConversationAssumption DEF Init, TypeOK, PCs
<1>2. \A e : ~DbHas(e)
  BY DEF Init, DbHas, In
<1>3. \A e \in Entries : ~MdHas(e)
  <2>1. ASSUME NEW e \in Entries, Storable(e[1][1])
        PROVE  md[SessionFile(Chat(e[1]))] = <<>>
    <3>1. e[1][1] \in Updates
      BY DEF Entries, Deliveries
    <3>2. SessionFile(Chat(e[1])) \in SessionFiles
      BY <2>1, <3>1 DEF SessionFiles, Chat, Msg
    <3>. QED  BY <3>2 DEF Init
  <2>. QED  BY <2>1 DEF MdHas, In
<1>4. \A d \in Deliveries, role \in Roles : <<d, role>> \in Entries
  BY DEF Entries
<1>5. \A d \in Deliveries : pc[d] = "idle" /\ sent[d] = 0
  BY DEF Init
<1>6. TelegramOK
  <2>1. \A u \in Updates : telegram[u] = "queued" /\ attempts[u] = 0
    BY DEF Init
  <2>2. \A u \in Updates, k \in 1..MaxAttempts : pc[<<u, k>>] = "idle"
    BY <1>5 DEF Deliveries
  <2>3. 0 < MaxAttempts
    BY ConversationAssumption
  <2>. QED  BY <2>1, <2>2, <2>3 DEF TelegramOK
<1>7. StageOK
  BY <1>3, <1>4, <1>5
  DEF StageOK, Roles, UserInMd, UserInDb, ReplyInMd, ReplyInDb
<1>8. EntriesAllowed /\ GapIsFailure
  BY <1>3, <1>4 DEF EntriesAllowed, GapIsFailure
<1>9. SentOK /\ SentIsRecorded
  BY <1>5 DEF SentOK, SentIsRecorded
<1>10. RowsFollowMarkdown
  BY DEF Init, RowsFollowMarkdown
<1>. QED  BY <1>1, <1>6, <1>7, <1>8, <1>9, <1>10 DEF IInv

(* A step that leaves the stores and the replies alone, and moves requests *)
(* only from one step that stored the same to another, keeps what IInv     *)
(* says of the stores.                                                     *)
LEMMA StoreFrame ==
  ASSUME IInv, UNCHANGED <<store, sent>>,
         \A d \in Deliveries :
           \/ pc'[d] = pc[d]
           \/ pc[d] = "idle" /\ pc'[d] = "received"
           \/ pc[d] \in Running /\ pc'[d] \in {"dead", "500"}
           \/ pc[d] = "received" /\ pc'[d] \in {"400", "403"}
           \/ /\ pc[d] = "received" /\ pc'[d] = "user_md"
              /\ Storable(d[1]) /\ isAllowedUpdate(d[1])
           \/ pc[d] = "llm" /\ pc'[d] = "assistant_md"
           \/ pc[d] = "send" /\ pc'[d] = "resend"
  PROVE  (StageOK /\ EntriesAllowed /\ SentOK /\ SentIsRecorded
          /\ RowsFollowMarkdown /\ GapIsFailure)'
<1>1. \A e \in Entries : /\ MdHas(e)' <=> MdHas(e)
                         /\ DbHas(e)' <=> DbHas(e)
  BY MdSame, DbSame DEF store
<1>2. \A d \in Deliveries, role \in Roles : <<d, role>> \in Entries
  BY DEF Entries
<1>3. StageOK'
  BY <1>1, <1>2
  DEF IInv, StageOK, Roles, Running, UserInMd, UserInDb, ReplyInMd,
      ReplyInDb, NothingStored, NoReplyStored, Storable, isAllowedUpdate
<1>4. EntriesAllowed'
  BY <1>1, <1>2 DEF IInv, EntriesAllowed, isAllowedUpdate
<1>5. SentOK'
  BY DEF IInv, SentOK, Running, NothingStored, NoReplyStored
<1>6. SentIsRecorded'
  BY <1>1, <1>2 DEF IInv, SentIsRecorded, Recorded
<1>7. RowsFollowMarkdown'
  <2>1. \A i \in 1..Len(db) : db[i] \in Entries
    BY DEF IInv, TypeOK
  <2>. QED  BY <1>1, <2>1 DEF IInv, RowsFollowMarkdown, store
<1>8. GapIsFailure'
  BY <1>1, <1>2 DEF IInv, GapIsFailure, Running
<1>. QED  BY <1>3, <1>4, <1>5, <1>6, <1>7, <1>8

(* Telegram's moves: a new attempt is a delivery nobody has handled yet,   *)
(* and an update is settled by a 200 alone.                                *)
LEMMA TelegramStep ==
  ASSUME IInv, NEW u \in Updates,
         Post(u) \/ PostRefused(u) \/ TakeReply(u) \/ HangUp(u)
  PROVE  IInv'
<1>. USE ConversationAssumption
<1>1. /\ telegram[u] \in {"queued", "posted"}
      /\ attempts[u] \in 0..MaxAttempts
      /\ telegram[u] = "queued" => attempts[u] + 1 \in 1..MaxAttempts
      /\ telegram[u] = "posted" => attempts[u] \in 1..MaxAttempts
  BY DEF IInv, TypeOK, TelegramOK, Post, PostRefused, TakeReply, HangUp
<1>2. CASE Post(u)
  <2>1. /\ <<u, attempts[u] + 1>> \in Deliveries
        /\ pc[<<u, attempts[u] + 1>>] = "idle"
    BY <1>1, <1>2 DEF Deliveries, IInv, TelegramOK, Post
  <2>2. TypeOK'
    BY <1>1, <1>2, <2>1 DEF IInv, TypeOK, Post, store, PCs, Running
  <2>3. TelegramOK'
    <3>. SUFFICES ASSUME NEW v \in Updates
                  PROVE  /\ \A k \in 1..MaxAttempts :
                              k > attempts'[v] => pc'[<<v, k>>] = "idle"
                         /\ telegram'[v] = "queued" => attempts'[v] < MaxAttempts
                         /\ telegram'[v] \in {"posted", "settled"} => attempts'[v] > 0
                         /\ telegram'[v] = "settled" => pc'[<<v, attempts'[v]>>] = "200"
      BY DEF TelegramOK, Current
    <3>1. CASE v = u
      BY <1>1, <1>2, <3>1 DEF IInv, TypeOK, TelegramOK, Post, Deliveries
    <3>2. CASE v # u
      BY <1>1, <1>2, <3>2 DEF IInv, TypeOK, TelegramOK, Post, Deliveries, Current
    <3>. QED  BY <3>1, <3>2
  <2>4. \A d \in Deliveries : pc'[d] = pc[d] \/ (pc[d] = "idle" /\ pc'[d] = "received")
    BY <1>2, <2>1 DEF IInv, TypeOK, Post
  <2>5. UNCHANGED <<store, sent>>
    BY <1>2 DEF Post
  <2>. QED  BY <2>2, <2>3, <2>4, <2>5, StoreFrame DEF IInv
<1>3. CASE PostRefused(u)
  <2>1. TypeOK'
    BY <1>1, <1>3 DEF IInv, TypeOK, PostRefused, Retry, store
  <2>2. TelegramOK'
    BY <1>1, <1>3 DEF IInv, TypeOK, TelegramOK, PostRefused, Retry, Current
  <2>3. UNCHANGED <<store, sent>> /\ pc' = pc
    BY <1>3 DEF PostRefused
  <2>. QED  BY <2>1, <2>2, <2>3, StoreFrame DEF IInv
<1>4. CASE TakeReply(u)
  <2>1. TypeOK'
    BY <1>1, <1>4 DEF IInv, TypeOK, TakeReply, Retry, store
  <2>2. TelegramOK'
    BY <1>1, <1>4 DEF IInv, TypeOK, TelegramOK, TakeReply, Retry, Current
  <2>3. UNCHANGED <<store, sent>> /\ pc' = pc
    BY <1>4 DEF TakeReply
  <2>. QED  BY <2>1, <2>2, <2>3, StoreFrame DEF IInv
<1>5. CASE HangUp(u)
  <2>1. TypeOK'
    BY <1>1, <1>5 DEF IInv, TypeOK, HangUp, Retry, store, Current, Deliveries
  <2>2. TelegramOK'
    BY <1>1, <1>5 DEF IInv, TypeOK, TelegramOK, HangUp, Retry, Current
  <2>3. UNCHANGED <<store, sent>> /\ pc' = pc
    BY <1>5 DEF HangUp
  <2>. QED  BY <2>1, <2>2, <2>3, StoreFrame DEF IInv
<1>. QED  BY <1>2, <1>3, <1>4, <1>5

(* A request under way moves on; what Telegram knows of it stays true.     *)
LEMMA RequestFrame ==
  ASSUME IInv, NEW d \in Deliveries, pc[d] \in Running,
         UNCHANGED <<telegram, attempts>>,
         NEW step, pc' = [pc EXCEPT ![d] = step]
  PROVE  TelegramOK'
<1>. SUFFICES ASSUME NEW u \in Updates
              PROVE  /\ \A k \in 1..MaxAttempts :
                          k > attempts[u] => pc'[<<u, k>>] = "idle"
                     /\ telegram[u] = "queued" => attempts[u] < MaxAttempts
                     /\ telegram[u] \in {"posted", "settled"} => attempts[u] > 0
                     /\ telegram[u] = "settled" => pc'[<<u, attempts[u]>>] = "200"
  BY DEF TelegramOK, Current
<1>1. \A e \in Deliveries : e # d => pc'[e] = pc[e]
  BY DEF IInv, TypeOK
<1>2. pc[d] # "idle" /\ pc[d] # "200"
  BY DEF Running
<1>3. /\ \A k \in 1..MaxAttempts : <<u, k>> \in Deliveries
      /\ attempts[u] \in 0..MaxAttempts
  BY DEF Deliveries, IInv, TypeOK
<1>. QED  BY <1>1, <1>2, <1>3, ConversationAssumption DEF IInv, TelegramOK, Current

(* The steps of a request that touch no store: the checks before the first *)
(* append, and the call of the model.                                      *)
LEMMA AdmitStep ==
  ASSUME IInv, NEW d \in Deliveries, Admit(d) \/ Complete(d)
  PROVE  IInv'
<1>1. /\ pc[d] \in Running
      /\ UNCHANGED <<telegram, attempts, past, store, sent, up, crashes>>
  BY DEF Admit, Complete, Running
<1>2. PICK step \in PCs :
        /\ Goto(d, step)
        /\ \/ pc[d] = "received" /\ step \in {"400", "403", "500"}
           \/ /\ pc[d] = "received" /\ step = "user_md"
              /\ Storable(d[1]) /\ isAllowedUpdate(d[1])
           \/ pc[d] = "llm" /\ step \in {"assistant_md", "500"}
  BY DEF Admit, Complete, Answer, PCs, Running, Over, Replied
<1>3. TypeOK'
  BY <1>1, <1>2 DEF IInv, TypeOK, store, Goto
<1>4. TelegramOK'
  BY <1>1, <1>2, RequestFrame DEF Goto
<1>5. \A e \in Deliveries : pc'[e] = IF e = d THEN step ELSE pc[e]
  BY <1>2 DEF IInv, TypeOK, Goto
<1>. QED  BY <1>1, <1>2, <1>3, <1>4, <1>5, StoreFrame DEF IInv, Running

(* A Markdown append of a request, for either role: the entry it adds is   *)
(* the one its step stands for, and a failed one ends the request.         *)
LEMMA AppendStep ==
  ASSUME IInv, NEW d \in Deliveries,
         \/ AppendMarkdown(d, "user", "user_md", "user_db")
         \/ AppendMarkdown(d, "assistant", "assistant_md", "assistant_db")
  PROVE  IInv'
<1>1. PICK role \in Roles, step \in {"user_md", "assistant_md"},
           next \in {"user_db", "assistant_db"} :
        /\ AppendMarkdown(d, role, step, next)
        /\ \/ role = "user" /\ step = "user_md" /\ next = "user_db"
           \/ role = "assistant" /\ step = "assistant_md" /\ next = "assistant_db"
  BY DEF Roles
<1>2. /\ pc[d] = step /\ pc[d] \in Running
      /\ UNCHANGED <<telegram, attempts, past, db, sent, up, crashes>>
      /\ cancelled' \in SUBSET Deliveries
  BY <1>1 DEF AppendMarkdown, Running, Goto, Answer, IInv, TypeOK
<1>3. CASE pc' = [pc EXCEPT ![d] = "500"] /\ UNCHANGED md
  <2>1. \A e \in Deliveries : pc'[e] = IF e = d THEN "500" ELSE pc[e]
    BY <1>3 DEF IInv, TypeOK
  <2>2. TypeOK'
    BY <1>2, <1>3 DEF IInv, TypeOK, PCs, Over, Replied
  <2>3. TelegramOK'
    BY <1>2, <1>3, RequestFrame
  <2>. QED  BY <1>2, <1>3, <2>1, <2>2, <2>3, StoreFrame DEF IInv, store
<1>4. CASE /\ pc' = [pc EXCEPT ![d] = next]
           /\ md' = [md EXCEPT ![SessionFile(Chat(d))] = Append(@, <<d, role>>)]
  <2>1. \A e \in Deliveries : pc'[e] = IF e = d THEN next ELSE pc[e]
    BY <1>4 DEF IInv, TypeOK
  <2>2. Storable(d[1]) /\ isAllowedUpdate(d[1]) /\ <<d, role>> \in Entries
    BY <1>2 DEF IInv, StageOK, UserInMd, Entries
  <2>3. \A e \in Entries : MdHas(e)' <=> MdHas(e) \/ e = <<d, role>>
    BY <1>4, <2>2, MdAppend DEF IInv
  <2>4. \A e \in Entries : DbHas(e)' <=> DbHas(e)
    BY <1>2, DbSame
  <2>5. \A e \in Deliveries, r \in Roles : <<e, r>> \in Entries
    BY DEF Entries
  <2>6. TypeOK'
    <3>1. md' \in [SessionFiles -> Seq(Entries)]
      <4>1. md \in [SessionFiles -> Seq(Entries)]
        BY DEF IInv, TypeOK
      <4>2. \A f \in SessionFiles : Append(md[f], <<d, role>>) \in Seq(Entries)
        BY <2>2, <4>1
      <4>. QED  BY <1>4, <4>1, <4>2
    <3>2. pc' \in [Deliveries -> PCs]
      BY <1>4 DEF IInv, TypeOK, PCs, Running
    <3>. QED  BY <1>2, <3>1, <3>2 DEF IInv, TypeOK
  <2>7. TelegramOK'
    BY <1>2, <1>4, RequestFrame
  <2>8. StageOK'
    BY <1>1, <1>2, <2>1, <2>2, <2>3, <2>4, <2>5
    DEF IInv, StageOK, Roles, UserInMd, UserInDb, ReplyInMd, ReplyInDb,
        NothingStored, NoReplyStored, Storable, isAllowedUpdate
  <2>9. EntriesAllowed'
    BY <2>2, <2>3, <2>5 DEF IInv, EntriesAllowed, isAllowedUpdate
  <2>10. SentOK' /\ SentIsRecorded'
    BY <1>1, <1>2, <2>1, <2>3, <2>4, <2>5
    DEF IInv, SentOK, SentIsRecorded, Recorded, NothingStored, NoReplyStored
  <2>11. RowsFollowMarkdown'
    <3>1. \A i \in 1..Len(db) : db[i] \in Entries
      BY DEF IInv, TypeOK
    <3>. QED  BY <1>2, <2>3, <3>1 DEF IInv, RowsFollowMarkdown
  <2>12. GapIsFailure'
    BY <1>1, <1>2, <2>1, <2>3, <2>4, <2>5 DEF IInv, GapIsFailure
  <2>. QED  BY <2>6, <2>7, <2>8, <2>9, <2>10, <2>11, <2>12 DEF IInv
<1>. QED  BY <1>1, <1>3, <1>4 DEF AppendMarkdown, Goto, Answer

(* An insert of a request, for either role: the row follows its Markdown   *)
(* entry, and a refused or failed one ends the request.                    *)
LEMMA InsertStep ==
  ASSUME IInv, NEW d \in Deliveries,
         \/ InsertRow(d, "user", "user_db", "llm")
         \/ InsertRow(d, "assistant", "assistant_db", "send")
  PROVE  IInv'
<1>1. PICK role \in Roles, step \in {"user_db", "assistant_db"},
           next \in {"llm", "send"} :
        /\ InsertRow(d, role, step, next)
        /\ \/ role = "user" /\ step = "user_db" /\ next = "llm"
           \/ role = "assistant" /\ step = "assistant_db" /\ next = "send"
  BY DEF Roles
<1>2. /\ pc[d] = step /\ pc[d] \in Running
      /\ UNCHANGED <<telegram, attempts, past, md, sent, up, crashes>>
      /\ cancelled' \in SUBSET Deliveries
  BY <1>1 DEF InsertRow, Running, Goto, Answer, IInv, TypeOK
<1>3. CASE pc' = [pc EXCEPT ![d] = "500"] /\ UNCHANGED db
  <2>1. \A e \in Deliveries : pc'[e] = IF e = d THEN "500" ELSE pc[e]
    BY <1>3 DEF IInv, TypeOK
  <2>2. TypeOK'
    BY <1>2, <1>3 DEF IInv, TypeOK, PCs, Over, Replied
  <2>3. TelegramOK'
    BY <1>2, <1>3, RequestFrame
  <2>. QED  BY <1>2, <1>3, <2>1, <2>2, <2>3, StoreFrame DEF IInv, store
<1>4. CASE pc' = [pc EXCEPT ![d] = next] /\ db' = Append(db, <<d, role>>)
  <2>1. \A e \in Deliveries : pc'[e] = IF e = d THEN next ELSE pc[e]
    BY <1>4 DEF IInv, TypeOK
  <2>2. Storable(d[1]) /\ isAllowedUpdate(d[1]) /\ <<d, role>> \in Entries
    BY <1>2 DEF IInv, StageOK, UserInMd, Entries
  <2>3. MdHas(<<d, role>>)
    BY <1>1, <1>2 DEF IInv, StageOK, UserInMd, ReplyInMd
  <2>4. \A e \in Entries : MdHas(e)' <=> MdHas(e)
    BY <1>2, MdSame
  <2>5. /\ \A e \in Entries : DbHas(e)' <=> DbHas(e) \/ e = <<d, role>>
        /\ \A i \in 1..Len(db') :
             db'[i] = <<d, role>> \/ \E j \in 1..Len(db) : db'[i] = db[j]
    BY <1>4, DbAppend DEF IInv
  <2>6. \A e \in Deliveries, r \in Roles : <<e, r>> \in Entries
    BY DEF Entries
  <2>7. TypeOK'
    <3>1. db' \in Seq(Entries)
      BY <1>4, <2>2 DEF IInv, TypeOK
    <3>2. pc' \in [Deliveries -> PCs]
      BY <1>4 DEF IInv, TypeOK, PCs, Running
    <3>. QED  BY <1>2, <3>1, <3>2 DEF IInv, TypeOK
  <2>8. TelegramOK'
    BY <1>2, <1>4, RequestFrame
  <2>9. StageOK'
    BY <1>1, <1>2, <2>1, <2>2, <2>4, <2>5, <2>6
    DEF IInv, StageOK, Roles, UserInMd, UserInDb, ReplyInMd, ReplyInDb,
        NothingStored, NoReplyStored, Storable, isAllowedUpdate
  <2>10. EntriesAllowed'
    BY <2>4, <2>6 DEF IInv, EntriesAllowed, isAllowedUpdate
  <2>11. SentOK' /\ SentIsRecorded'
    BY <1>1, <1>2, <2>1, <2>4, <2>5, <2>6
    DEF IInv, SentOK, SentIsRecorded, Recorded, NothingStored, NoReplyStored
  <2>12. RowsFollowMarkdown'
    <3>1. \A i \in 1..Len(db) : db[i] \in Entries
      BY DEF IInv, TypeOK
    <3>2. ASSUME NEW i \in 1..Len(db')
          PROVE  MdHas(db[i])'
      <4>1. PICK e \in Entries : e = db'[i] /\ MdHas(e)
        BY <2>2, <2>3, <2>5, <3>1 DEF IInv, RowsFollowMarkdown
      <4>2. MdHas(e)'
        BY <2>4, <4>1
      <4>. QED  BY <4>1, <4>2 DEF MdHas, In, Storable, Chat, Msg, SessionFile
    <3>. QED  BY <3>2 DEF RowsFollowMarkdown
  <2>13. GapIsFailure'
    BY <1>1, <1>2, <2>1, <2>4, <2>5, <2>6 DEF IInv, GapIsFailure
  <2>. QED  BY <2>7, <2>8, <2>9, <2>10, <2>11, <2>12, <2>13 DEF IInv
<1>. QED  BY <1>1, <1>3, <1>4 DEF InsertRow, Goto, Answer

(* The sender's loop: whatever was delivered was on record before it was   *)
(* sent, and no turn of the loop sends a third copy.                       *)
LEMMA SendStep ==
  ASSUME IInv, NEW d \in Deliveries, SendMessage(d)
  PROVE  IInv'
<1>1. /\ pc[d] \in {"send", "resend"} /\ pc[d] \in Running
      /\ UNCHANGED <<telegram, attempts, past, md, db, up, crashes>>
      /\ cancelled' \in SUBSET Deliveries
  BY DEF SendMessage, Turn, Goto, Answer, Running, store, IInv, TypeOK
<1>2. PICK step \in {"200", "500", "resend"} :
        /\ pc' = [pc EXCEPT ![d] = step]
        /\ step = "resend" => pc[d] = "send"
        /\ \/ sent' = sent /\ step # "200"
           \/ sent' = [sent EXCEPT ![d] = @ + 1]
  BY DEF SendMessage, Turn, Goto, Answer
<1>3. \A e \in Deliveries : pc'[e] = IF e = d THEN step ELSE pc[e]
  BY <1>2 DEF IInv, TypeOK
<1>4. /\ sent[d] \in 0..1
      /\ pc[d] = "send" => sent[d] = 0
  BY <1>1 DEF IInv, TypeOK, SentOK
<1>5. \A e \in Deliveries : e # d => sent'[e] = sent[e]
  BY <1>2 DEF IInv, TypeOK
<1>6. (sent'[d] = sent[d] /\ step # "200") \/ sent'[d] = sent[d] + 1
  BY <1>2 DEF IInv, TypeOK
<1>7. \A e \in Entries : /\ MdHas(e)' <=> MdHas(e)
                         /\ DbHas(e)' <=> DbHas(e)
  BY <1>1, MdSame, DbSame
<1>8. \A e \in Deliveries, r \in Roles : <<e, r>> \in Entries
  BY DEF Entries
<1>9. TypeOK'
  <2>1. sent' \in [Deliveries -> 0..2]
    <3>1. sent \in [Deliveries -> 0..2] /\ sent[d] + 1 \in 0..2
      BY <1>4 DEF IInv, TypeOK
    <3>. QED  BY <1>2, <3>1
  <2>2. pc' \in [Deliveries -> PCs]
    BY <1>2 DEF IInv, TypeOK, PCs, Running, Over, Replied
  <2>. QED  BY <1>1, <2>1, <2>2 DEF IInv, TypeOK
<1>10. TelegramOK'
  BY <1>1, <1>2, RequestFrame
<1>11. StageOK'
  BY <1>1, <1>3, <1>7, <1>8
  DEF IInv, StageOK, Roles, UserInMd, UserInDb, ReplyInMd, ReplyInDb,
      NothingStored, NoReplyStored, Storable, isAllowedUpdate
<1>12. EntriesAllowed' /\ GapIsFailure'
  BY <1>1, <1>3, <1>7, <1>8 DEF IInv, EntriesAllowed, GapIsFailure, isAllowedUpdate
<1>13. SentOK'
  BY <1>2, <1>3, <1>4, <1>5, <1>6
  DEF IInv, SentOK, NothingStored, NoReplyStored
<1>14. SentIsRecorded'
  <2>1. Recorded(d)
    BY <1>1 DEF IInv, StageOK, Recorded, Roles, UserInMd, UserInDb,
                ReplyInMd, ReplyInDb
  <2>2. \A e \in Deliveries : sent'[e] > 0 => Recorded(e)
    BY <1>5, <2>1 DEF IInv, SentIsRecorded
  <2>. QED  BY <1>7, <1>8, <2>2 DEF SentIsRecorded, Recorded
<1>15. RowsFollowMarkdown'
  <2>1. \A i \in 1..Len(db) : db[i] \in Entries
    BY DEF IInv, TypeOK
  <2>. QED  BY <1>1, <1>7, <2>1 DEF IInv, RowsFollowMarkdown
<1>. QED  BY <1>9, <1>10, <1>11, <1>12, <1>13, <1>14, <1>15 DEF IInv

(* A kill ends the requests under way where they are; what they stored     *)
(* stays, and an answer already given can still be read.                   *)
LEMMA CrashStep ==
  ASSUME IInv, Crash
  PROVE  IInv'
<1>1. /\ UNCHANGED <<attempts, past, store, sent>>
      /\ cancelled' = {}
      /\ \A d \in Deliveries :
           pc'[d] = IF pc[d] \in Running THEN "dead" ELSE pc[d]
  BY DEF Crash
<1>2. /\ \A u \in Updates : attempts[u] \in 0..MaxAttempts
      /\ \A u \in Updates, k \in 1..MaxAttempts : <<u, k>> \in Deliveries
  BY DEF IInv, TypeOK, Deliveries
<1>3. TypeOK'
  <2>1. telegram' \in [Updates -> {"queued", "posted", "settled", "dropped"}]
    BY DEF IInv, TypeOK, Crash, Retry
  <2>2. pc' \in [Deliveries -> PCs]
    BY DEF IInv, TypeOK, Crash, PCs, Over
  <2>3. up' \in BOOLEAN
    BY DEF Crash
  <2>4. crashes' \in 0..MaxCrashes
    BY ConversationAssumption DEF IInv, TypeOK, Crash
  <2>. QED  BY <1>1, <2>1, <2>2, <2>3, <2>4 DEF IInv, TypeOK, store
<1>4. TelegramOK'
  <2>. SUFFICES ASSUME NEW u \in Updates
                PROVE  /\ \A k \in 1..MaxAttempts :
                            k > attempts[u] => pc'[<<u, k>>] = "idle"
                       /\ telegram'[u] = "queued" => attempts[u] < MaxAttempts
                       /\ telegram'[u] \in {"posted", "settled"} => attempts[u] > 0
                       /\ telegram'[u] = "settled" => pc'[<<u, attempts[u]>>] = "200"
    BY <1>1 DEF TelegramOK, Current
  <2>1. \/ telegram'[u] = telegram[u]
        \/ telegram[u] = "posted" /\ telegram'[u] = Retry(attempts[u])
    BY DEF Crash
  <2>. QED  BY <1>1, <1>2, <2>1, ConversationAssumption
            DEF IInv, TelegramOK, Running, Retry, Current
<1>5. \A d \in Deliveries :
        pc'[d] = pc[d] \/ (pc[d] \in Running /\ pc'[d] \in {"dead", "500"})
  BY <1>1
<1>. QED  BY <1>1, <1>3, <1>4, <1>5, StoreFrame DEF IInv

(* A restart changes nothing the invariant is about, and no cancellation   *)
(* and no idle step does.                                                  *)
LEMMA RestartStep ==
  ASSUME IInv,
         (\E d \in Deliveries : Cancel(d)) \/ Restart \/ Quiet \/ UNCHANGED vars
  PROVE  IInv'
<1>1. UNCHANGED <<telegram, attempts, pc, past, store, sent, crashes>>
      /\ up' \in BOOLEAN /\ cancelled' \in SUBSET Deliveries
  BY DEF Cancel, Restart, Quiet, vars, store, IInv, TypeOK
<1>2. TypeOK'
  BY <1>1 DEF IInv, TypeOK, store
<1>3. TelegramOK'
  BY <1>1 DEF IInv, TelegramOK, Current
<1>. QED  BY <1>1, <1>2, <1>3, StoreFrame DEF IInv

(* Every step of Telegram, of a request and of the process keeps the       *)
(* invariant.                                                              *)
LEMMA NextInv == IInv /\ [Next]_vars => IInv'
<1>. SUFFICES ASSUME IInv, [Next]_vars
              PROVE  IInv'
  OBVIOUS
<1>1. CASE \E u \in Updates : Post(u) \/ PostRefused(u) \/ TakeReply(u) \/ HangUp(u)
  BY <1>1, TelegramStep
<1>2. CASE \E d \in Deliveries : Handle(d)
  BY <1>2, AdmitStep, AppendStep, InsertStep, SendStep DEF Handle
<1>3. CASE Crash
  BY <1>3, CrashStep
<1>4. CASE (\E d \in Deliveries : Cancel(d)) \/ Restart \/ Quiet \/ UNCHANGED vars
  BY <1>4, RestartStep
<1>. QED  BY <1>1, <1>2, <1>3, <1>4 DEF Next

(* IInv holds in every reachable state.                                    *)
THEOREM Invariance == Spec => []IInv
BY InitInv, NextInv, PTL DEF Spec

-----------------------------------------------------------------------------
(* What follows for the conversation. *)

(* Type correctness; in particular no reply reaches its chat more than     *)
(* twice in one delivery, and Telegram's attempts stay within their bound. *)
THEOREM TypeCorrect == Spec => []TypeOK
<1>1. IInv => TypeOK
  BY DEF IInv
<1>. QED  BY <1>1, Invariance, PTL

(* Process sends last: a reply that reached a chat is on record in both    *)
(* stores together with its question, whatever crashed or was cancelled.   *)
THEOREM RepliesAreRecorded == Spec => []SentIsRecorded
<1>1. IInv => SentIsRecorded
  BY DEF IInv
<1>. QED  BY <1>1, Invariance, PTL

(* ServeHTTP answers 200 only when Process went all the way: an update     *)
(* Telegram considers done was recorded and answered.                      *)
THEOREM SettledUpdatesAreComplete == Spec => []SettledIsComplete
<1>1. IInv => SettledIsComplete
  <2>. SUFFICES ASSUME IInv, NEW u \in Updates, telegram[u] = "settled"
                PROVE  \E k \in 1..attempts[u] :
                         sent[<<u, k>>] > 0 /\ Recorded(<<u, k>>)
    BY DEF SettledIsComplete
  <2>1. /\ attempts[u] \in 1..attempts[u]
        /\ Current(u) \in Deliveries
        /\ pc[Current(u)] = "200"
    BY ConversationAssumption DEF IInv, TypeOK, TelegramOK, Current, Deliveries
  <2>2. sent[Current(u)] > 0 /\ Recorded(Current(u))
    BY <2>1 DEF IInv, SentOK, SentIsRecorded
  <2>. QED  BY <2>1, <2>2 DEF Current
<1>. QED  BY <1>1, Invariance, PTL

(* SQLite never holds a message the Markdown session does not hold.        *)
THEOREM MarkdownIsTheSource == Spec => []RowsFollowMarkdown
<1>1. IInv => RowsFollowMarkdown
  BY DEF IInv
<1>. QED  BY <1>1, Invariance, PTL

(* The mirror lags behind only for a request that is about to insert, and  *)
(* has a gap only after one that failed or was killed.                     *)
THEOREM GapsAreFailures == Spec => []GapIsFailure
<1>1. IInv => GapIsFailure
  BY DEF IInv
<1>. QED  BY <1>1, Invariance, PTL

(* Nothing an unlisted sender writes is stored, and no row is either.      *)
THEOREM AllowlistGuardsTheStores == Spec => []AllowlistHolds
<1>1. IInv => AllowlistHolds
  <2>. SUFFICES ASSUME IInv, NEW u \in Updates, ~isAllowedUpdate(u),
                       NEW k \in 1..MaxAttempts, NEW role \in Roles
                PROVE  ~MdHas(<<<<u, k>>, role>>) /\ ~DbHas(<<<<u, k>>, role>>)
    BY DEF AllowlistHolds
  <2>1. <<u, k>> \in Deliveries
    BY DEF Deliveries
  <2>2. ~MdHas(<<<<u, k>>, role>>)
    BY <2>1 DEF IInv, EntriesAllowed
  <2>3. ~DbHas(<<<<u, k>>, role>>)
    BY <2>2 DEF DbHas, In, IInv, RowsFollowMarkdown
  <2>. QED  BY <2>2, <2>3
<1>. QED  BY <1>1, Invariance, PTL

-----------------------------------------------------------------------------
(* The order of the entries. IInv says what the stores hold; TurnsInOrder  *)
(* also needs that a row is not there before its request inserts it.       *)

RowsLate ==
  \A d \in Deliveries :
    /\ pc[d] \in NothingStored \cup {"user_db"} => ~DbHas(<<d, "user">>)
    /\ pc[d] \in NoReplyStored \cup {"assistant_db"} => ~DbHas(<<d, "assistant">>)

(* Appending an entry that is not in a log yet, a reply behind its         *)
(* question, keeps every turn in the log once and in order.                *)
LEMMA AppendInTurn ==
  ASSUME NEW s \in Seq(Entries), NEW e \in Deliveries, NEW role \in Roles,
         ~In(<<e, role>>, s),
         role = "assistant" => In(<<e, "user">>, s),
         NEW d \in Deliveries, InTurn(d, s)
  PROVE  InTurn(d, Append(s, <<e, role>>))
<1>. DEFINE new == <<e, role>>
            t == Append(s, new)
            n == Len(s)
<1>1. /\ n \in Nat /\ Len(t) = n + 1
      /\ \A i \in 1..n : t[i] = s[i]
      /\ t[n + 1] = new
  BY DEF Entries
<1>2. \A i \in 1..n : s[i] # new
  BY DEF In
<1>3. ASSUME NEW r \in Roles
      PROVE  Once(<<d, r>>, t)
  <2>1. \A i, j \in 1..n : s[i] = <<d, r>> /\ s[j] = <<d, r>> => i = j
    BY DEF InTurn, Once
  <2>2. \A i \in 1..(n + 1) : i \in 1..n \/ i = n + 1
    BY <1>1
  <2>3. SUFFICES ASSUME NEW i \in 1..(n + 1), NEW j \in 1..(n + 1),
                        t[i] = <<d, r>>, t[j] = <<d, r>>
                 PROVE  i = j
    BY <1>1 DEF Once
  <2>. HIDE DEF t, new
  <2>. QED  BY <1>1, <1>2, <2>1, <2>2, <2>3
<1>4. Before(<<d, "user">>, <<d, "assistant">>, t)
  <2>1. SUFFICES ASSUME NEW j \in 1..(n + 1), t[j] = <<d, "assistant">>
                 PROVE  \E i \in 1..(j - 1) : t[i] = <<d, "user">>
    BY <1>1 DEF Before
  <2>2. CASE j \in 1..n
    <3>1. s[j] = <<d, "assistant">>
      BY <1>1, <2>1, <2>2
    <3>2. PICK i \in 1..(j - 1) : s[i] = <<d, "user">>
      BY <2>2, <3>1 DEF InTurn, Before
    <3>3. i \in 1..n
      BY <1>1, <2>2, <3>2
    <3>. QED  BY <1>1, <3>2, <3>3
  <2>3. CASE j = n + 1
    <3>1. e = d /\ role = "assistant"
      BY <1>1, <2>1, <2>3
    <3>2. PICK i \in 1..n : s[i] = <<d, "user">>
      BY <3>1 DEF In
    <3>. QED  BY <1>1, <2>3, <3>2
  <2>4. j \in 1..n \/ j = n + 1
    BY <1>1
  <2>. QED  BY <2>2, <2>3, <2>4
<1>. HIDE DEF t, new
<1>5. InTurn(d, t)
  BY <1>3, <1>4 DEF InTurn
<1>. QED  BY <1>5 DEF t, new

(* A request never goes back to a step at which less was stored.           *)
LEMMA NoWayBack ==
  ASSUME IInv, [Next]_vars, NEW d \in Deliveries
  PROVE  /\ pc'[d] \in NothingStored \cup {"user_db"} =>
              pc[d] \in NothingStored \cup {"user_db"}
         /\ pc'[d] \in NoReplyStored \cup {"assistant_db"} =>
              pc[d] \in NoReplyStored \cup {"assistant_db"}
         /\ pc[d] \in Over => pc'[d] = pc[d]
         /\ pc'[d] = "idle" => pc[d] = "idle"
<1>. USE DEF NothingStored, NoReplyStored, Over, Replied
<1>1. pc \in [Deliveries -> PCs]
  BY DEF IInv, TypeOK
<1>2. CASE \E u \in Updates : Post(u)
  <2>1. PICK u \in Updates : Post(u)
    BY <1>2
  <2>2. pc[<<u, attempts[u] + 1>>] = "idle"
    <3>1. attempts[u] + 1 \in 1..MaxAttempts /\ attempts[u] + 1 > attempts[u]
      BY <2>1, ConversationAssumption DEF IInv, TypeOK, TelegramOK, Post
    <3>. QED  BY <3>1 DEF IInv, TelegramOK
  <2>. QED  BY <1>1, <2>1, <2>2 DEF Post
<1>3. CASE \E u \in Updates : PostRefused(u) \/ TakeReply(u) \/ HangUp(u)
  BY <1>3 DEF PostRefused, TakeReply, HangUp
<1>4. CASE \E e \in Deliveries : Admit(e) \/ Complete(e)
  BY <1>1, <1>4 DEF Admit, Complete, Goto, Answer
<1>5. CASE \E e \in Deliveries :
             \/ AppendMarkdown(e, "user", "user_md", "user_db")
             \/ AppendMarkdown(e, "assistant", "assistant_md", "assistant_db")
  BY <1>1, <1>5 DEF AppendMarkdown, Goto, Answer
<1>6. CASE \E e \in Deliveries :
             \/ InsertRow(e, "user", "user_db", "llm")
             \/ InsertRow(e, "assistant", "assistant_db", "send")
  BY <1>1, <1>6 DEF InsertRow, Goto, Answer
<1>7. CASE \E e \in Deliveries : SendMessage(e)
  BY <1>1, <1>7 DEF SendMessage, Turn, Goto, Answer
<1>8. CASE Crash
  BY <1>8 DEF Crash, Running
<1>9. CASE (\E e \in Deliveries : Cancel(e)) \/ Restart \/ Quiet \/ UNCHANGED vars
  BY <1>9 DEF Cancel, Restart, Quiet, vars
<1>. QED  BY <1>2, <1>3, <1>4, <1>5, <1>6, <1>7, <1>8, <1>9 DEF Next, Handle

(* The steps as the stores see them: nothing, one append of a request that *)
(* is where it appends, or one insert of a request where it inserts.       *)
LEMMA StoreSteps ==
  ASSUME IInv, [Next]_vars
  PROVE  \/ UNCHANGED store
         \/ \E e \in Deliveries, role \in Roles :
              /\ db' = db
              /\ md' = [md EXCEPT ![SessionFile(Chat(e))] = Append(@, <<e, role>>)]
              /\ Storable(e[1])
              /\ \/ role = "user" /\ pc[e] = "user_md" /\ pc' = [pc EXCEPT ![e] = "user_db"]
                 \/ /\ role = "assistant" /\ pc[e] = "assistant_md"
                    /\ pc' = [pc EXCEPT ![e] = "assistant_db"]
         \/ \E e \in Deliveries, role \in Roles :
              /\ md' = md
              /\ db' = Append(db, <<e, role>>)
              /\ \/ role = "user" /\ pc[e] = "user_db" /\ pc' = [pc EXCEPT ![e] = "llm"]
                 \/ /\ role = "assistant" /\ pc[e] = "assistant_db"
                    /\ pc' = [pc EXCEPT ![e] = "send"]
<1>1. CASE \E u \in Updates : Post(u) \/ PostRefused(u) \/ TakeReply(u) \/ HangUp(u)
  BY <1>1 DEF Post, PostRefused, TakeReply, HangUp
<1>2. CASE \E e \in Deliveries : Admit(e) \/ Complete(e) \/ SendMessage(e)
  BY <1>2 DEF Admit, Complete, SendMessage
<1>3. ASSUME NEW e \in Deliveries, NEW role \in Roles, NEW at, NEW next,
             AppendMarkdown(e, role, at, next),
             \/ role = "user" /\ at = "user_md" /\ next = "user_db"
             \/ role = "assistant" /\ at = "assistant_md" /\ next = "assistant_db"
      PROVE  \/ UNCHANGED store
             \/ /\ db' = db
                /\ md' = [md EXCEPT ![SessionFile(Chat(e))] = Append(@, <<e, role>>)]
                /\ Storable(e[1])
                /\ pc[e] = at /\ pc' = [pc EXCEPT ![e] = next]
  BY <1>3 DEF AppendMarkdown, Goto, store, IInv, StageOK, UserInMd
<1>4. ASSUME NEW e \in Deliveries, NEW role \in Roles, NEW at, NEW next,
             InsertRow(e, role, at, next)
      PROVE  \/ UNCHANGED store
             \/ /\ md' = md
                /\ db' = Append(db, <<e, role>>)
                /\ pc[e] = at /\ pc' = [pc EXCEPT ![e] = next]
  BY <1>4 DEF InsertRow, Goto, store
<1>5. "user" \in Roles /\ "assistant" \in Roles
  BY DEF Roles
<1>6. CASE \E e \in Deliveries :
             \/ AppendMarkdown(e, "user", "user_md", "user_db")
             \/ AppendMarkdown(e, "assistant", "assistant_md", "assistant_db")
  BY <1>3, <1>5, <1>6
<1>7. CASE \E e \in Deliveries :
             \/ InsertRow(e, "user", "user_db", "llm")
             \/ InsertRow(e, "assistant", "assistant_db", "send")
  BY <1>4, <1>5, <1>7
<1>8. CASE (\E e \in Deliveries : Cancel(e)) \/ Crash \/ Restart \/ Quiet \/ UNCHANGED vars
  BY <1>8 DEF Cancel, Crash, Restart, Quiet, vars, store
<1>. QED  BY <1>1, <1>2, <1>6, <1>7, <1>8 DEF Next, Handle

(* Rows stay late, and the turns in order, in both stores.                 *)
LEMMA OrderStep ==
  ASSUME IInv, RowsLate, TurnsInOrder, [Next]_vars
  PROVE  RowsLate' /\ TurnsInOrder'
<1>1. \A d \in Deliveries, role \in Roles : <<d, role>> \in Entries /\ d[1] \in Updates
  BY DEF Entries, Deliveries
<1>2. /\ md \in [SessionFiles -> Seq(Entries)] /\ db \in Seq(Entries)
      /\ pc \in [Deliveries -> PCs]
  BY DEF IInv, TypeOK
<1>3. "user" \in Roles /\ "assistant" \in Roles
  BY DEF Roles
<1>4. \A d \in Deliveries : Storable(d[1]) => SessionFile(Chat(d)) \in SessionFiles
  BY <1>1, <1>3 DEF SessionFiles, Chat, Msg
<1>5. TurnsInOrder' <=>
        \A d \in Deliveries : Storable(d[1]) =>
          InTurn(d, md'[SessionFile(Chat(d))]) /\ InTurn(d, db')
  BY DEF TurnsInOrder, Storable, Chat, Msg, SessionFile, InTurn, Once, Before
<1>6. CASE UNCHANGED store
  <2>1. RowsLate'
    BY <1>1, <1>3, <1>6, NoWayBack, DbSame
    DEF RowsLate, store, NothingStored, NoReplyStored
  <2>. QED  BY <1>5, <1>6, <2>1 DEF TurnsInOrder, store
<1>7. ASSUME NEW e \in Deliveries, NEW role \in Roles,
             db' = db,
             md' = [md EXCEPT ![SessionFile(Chat(e))] = Append(@, <<e, role>>)],
             Storable(e[1]),
             \/ role = "user" /\ pc[e] = "user_md"
             \/ role = "assistant" /\ pc[e] = "assistant_md"
      PROVE  RowsLate' /\ TurnsInOrder'
  <2>1. RowsLate'
    BY <1>1, <1>3, <1>7, NoWayBack, DbSame DEF RowsLate, NothingStored, NoReplyStored
  <2>2. SUFFICES ASSUME NEW d \in Deliveries, Storable(d[1])
                 PROVE  InTurn(d, md'[SessionFile(Chat(d))])
    BY <1>5, <1>7, <2>1 DEF TurnsInOrder
  <2>3. InTurn(d, md[SessionFile(Chat(d))])
    BY <2>2 DEF TurnsInOrder
  <2>4. CASE SessionFile(Chat(d)) # SessionFile(Chat(e))
    BY <1>2, <1>4, <1>7, <2>2, <2>3, <2>4
  <2>5. CASE SessionFile(Chat(d)) = SessionFile(Chat(e))
    <3>. DEFINE s == md[SessionFile(Chat(e))]
    <3>1. s \in Seq(Entries) /\ md'[SessionFile(Chat(d))] = Append(s, <<e, role>>)
      BY <1>2, <1>4, <1>7, <2>5
    <3>2. ~In(<<e, role>>, s)
      BY <1>7 DEF IInv, StageOK, MdHas, NothingStored, NoReplyStored
    <3>3. role = "assistant" => In(<<e, "user">>, s)
      BY <1>7 DEF IInv, StageOK, MdHas, UserInMd
    <3>4. InTurn(d, s)
      BY <2>3, <2>5
    <3>. HIDE DEF s
    <3>5. InTurn(d, Append(s, <<e, role>>))
      BY <1>7, <3>1, <3>2, <3>3, <3>4, AppendInTurn
    <3>. QED  BY <3>1, <3>5
  <2>. QED  BY <2>4, <2>5
<1>8. ASSUME NEW e \in Deliveries, NEW role \in Roles,
             md' = md,
             db' = Append(db, <<e, role>>),
             \/ role = "user" /\ pc[e] = "user_db" /\ pc' = [pc EXCEPT ![e] = "llm"]
             \/ /\ role = "assistant" /\ pc[e] = "assistant_db"
                /\ pc' = [pc EXCEPT ![e] = "send"]
      PROVE  RowsLate' /\ TurnsInOrder'
  <2>1. \A x \in Entries : DbHas(x)' <=> DbHas(x) \/ x = <<e, role>>
    BY <1>8, DbAppend DEF IInv
  <2>2. RowsLate'
    <3>1. role = "user" => pc'[e] = "llm"
      BY <1>2, <1>8
    <3>2. role = "assistant" => pc'[e] = "send"
      BY <1>2, <1>8
    <3>3. SUFFICES
            ASSUME NEW d \in Deliveries
            PROVE  /\ pc'[d] \in NothingStored \cup {"user_db"} => ~DbHas(<<d, "user">>)'
                   /\ pc'[d] \in NoReplyStored \cup {"assistant_db"} =>
                        ~DbHas(<<d, "assistant">>)'
      BY DEF RowsLate, NothingStored, NoReplyStored, DbHas, In
    <3>4. ASSUME pc'[d] \in NothingStored \cup {"user_db"}
          PROVE  ~DbHas(<<d, "user">>)'
      <4>1. ~DbHas(<<d, "user">>)
        BY <3>4, NoWayBack DEF RowsLate
      <4>2. <<d, "user">> # <<e, role>>
        BY <3>1, <3>4 DEF NothingStored
      <4>. QED  BY <1>1, <1>3, <2>1, <4>1, <4>2
    <3>5. ASSUME pc'[d] \in NoReplyStored \cup {"assistant_db"}
          PROVE  ~DbHas(<<d, "assistant">>)'
      <4>1. ~DbHas(<<d, "assistant">>)
        BY <3>5, NoWayBack DEF RowsLate
      <4>2. <<d, "assistant">> # <<e, role>>
        BY <3>2, <3>5 DEF NoReplyStored, NothingStored
      <4>. QED  BY <1>1, <1>3, <2>1, <4>1, <4>2
    <3>. QED  BY <3>4, <3>5
  <2>3. ~In(<<e, role>>, db)
    BY <1>8 DEF RowsLate, DbHas, NothingStored, NoReplyStored
  <2>4. role = "assistant" => In(<<e, "user">>, db)
    BY <1>8 DEF IInv, StageOK, DbHas, UserInDb, UserInMd
  <2>5. ASSUME NEW d \in Deliveries, Storable(d[1])
        PROVE  InTurn(d, md'[SessionFile(Chat(d))]) /\ InTurn(d, db')
    <3>1. InTurn(d, md[SessionFile(Chat(d))]) /\ InTurn(d, db)
      BY <2>5 DEF TurnsInOrder
    <3>2. InTurn(d, Append(db, <<e, role>>))
      BY <1>2, <2>3, <2>4, <3>1, AppendInTurn
    <3>. QED  BY <1>8, <3>1, <3>2
  <2>. QED  BY <1>5, <2>2, <2>5
<1>. QED  BY <1>6, <1>7, <1>8, StoreSteps

(* However the requests of all chats interleave, are cancelled or killed,  *)
(* both stores hold each question before its answer, and each of them once.*)
THEOREM TurnsKeepOrder == Spec => []TurnsInOrder
<1>1. Init => RowsLate /\ TurnsInOrder
  <2>. SUFFICES ASSUME Init PROVE RowsLate /\ TurnsInOrder
    OBVIOUS
  <2>1. RowsLate
    BY DEF Init, RowsLate, DbHas, In
  <2>2. ASSUME NEW d \in Deliveries, Storable(d[1])
        PROVE  md[SessionFile(Chat(d))] = <<>>
    <3>1. SessionFile(Chat(d)) \in SessionFiles
      BY <2>2 DEF SessionFiles, Chat, Msg, Deliveries
    <3>. QED  BY <3>1 DEF Init
  <2>3. db = <<>>
    BY DEF Init
  <2>4. \A d : InTurn(d, <<>>)
    BY DEF InTurn, Once, Before
  <2>. QED  BY <2>1, <2>2, <2>3, <2>4 DEF TurnsInOrder
<1>2. IInv /\ RowsLate /\ TurnsInOrder /\ [Next]_vars => RowsLate' /\ TurnsInOrder'
  BY OrderStep
<1>. QED  BY <1>1, <1>2, Invariance, PTL DEF Spec

-----------------------------------------------------------------------------
(* What came in after a request was over stands behind it. Besides IInv    *)
(* this needs that a delivery which did not come in yet has no entry, and  *)
(* that the requests of the past stay over.                                *)

Fresh ==
  \A e \in Deliveries : pc[e] = "idle" =>
    /\ \A i \in 1..Len(db) : db[i][1] # e
    /\ \A f \in SessionFiles : \A i \in 1..Len(md[f]) : md[f][i][1] # e

PastIsOver == \A e \in Deliveries : \A d \in past[e] : pc[d] \in Over

(* An append of a request other than d leaves the entries of d in front,   *)
(* and the new entry is of that request alone.                             *)
LEMMA AppendPrecedes ==
  ASSUME NEW s \in Seq(Entries), NEW x \in Entries
  PROVE  /\ \A d, e : x[1] # d /\ Precedes(d, e, s) => Precedes(d, e, Append(s, x))
         /\ \A e : x[1] # e /\ (\A i \in 1..Len(s) : s[i][1] # e) =>
              \A i \in 1..Len(Append(s, x)) : Append(s, x)[i][1] # e
<1>. DEFINE t == Append(s, x)
<1>1. /\ Len(s) \in Nat /\ Len(t) = Len(s) + 1
      /\ \A i \in 1..Len(s) : t[i] = s[i]
      /\ t[Len(s) + 1] = x
  BY DEF Entries
<1>2. \A i \in 1..(Len(s) + 1) : i \in 1..Len(s) \/ i = Len(s) + 1
  BY <1>1
<1>. HIDE DEF t
<1>3. ASSUME NEW d, NEW e, x[1] # d, Precedes(d, e, s)
      PROVE  Precedes(d, e, t)
  <2>1. SUFFICES ASSUME NEW i \in 1..(Len(s) + 1), NEW j \in 1..(Len(s) + 1),
                        t[i][1] = d, t[j][1] = e
                 PROVE  i < j
    BY <1>1 DEF Precedes
  <2>2. i \in 1..Len(s)
    BY <1>1, <1>2, <1>3, <2>1
  <2>3. CASE j \in 1..Len(s)
    BY <1>1, <1>3, <2>1, <2>2, <2>3 DEF Precedes
  <2>4. CASE j = Len(s) + 1
    BY <1>1, <2>2, <2>4
  <2>. QED  BY <1>2, <2>3, <2>4
<1>4. ASSUME NEW e, x[1] # e, \A i \in 1..Len(s) : s[i][1] # e
      PROVE  \A i \in 1..Len(t) : t[i][1] # e
  BY <1>1, <1>2, <1>4
<1>. QED  BY <1>3, <1>4 DEF t

(* A store step is an append of a request that runs; a delivery that comes *)
(* in has stored nothing, and what is over stores nothing any more.        *)
LEMMA MixStep ==
  ASSUME IInv, Fresh, PastIsOver, OnlyOverlapsMix, [Next]_vars
  PROVE  Fresh' /\ PastIsOver' /\ OnlyOverlapsMix'
<1>1. /\ past \in [Deliveries -> SUBSET Deliveries] /\ pc \in [Deliveries -> PCs]
      /\ md \in [SessionFiles -> Seq(Entries)] /\ db \in Seq(Entries)
  BY DEF IInv, TypeOK
<1>2. \A d \in Deliveries : /\ pc'[d] = "idle" => pc[d] = "idle"
                            /\ pc[d] \in Over => pc'[d] = pc[d]
  BY NoWayBack
<1>3. /\ Fresh' <=>
           \A e \in Deliveries : pc'[e] = "idle" =>
             /\ \A i \in 1..Len(db') : db'[i][1] # e
             /\ \A f \in SessionFiles : \A i \in 1..Len(md'[f]) : md'[f][i][1] # e
      /\ OnlyOverlapsMix' <=>
           \A e \in Deliveries : \A d \in past'[e] :
             /\ Precedes(d, e, db')
             /\ \A f \in SessionFiles : Precedes(d, e, md'[f])
  BY DEF Fresh, OnlyOverlapsMix, Precedes, SessionFiles, Storable, SessionFile
<1>4. CASE \E u \in Updates : Post(u)
  <2>1. PICK u \in Updates : Post(u)
    BY <1>4
  <2>. DEFINE new == <<u, attempts[u] + 1>>
  <2>2. new \in Deliveries /\ pc[new] = "idle"
    <3>1. attempts[u] + 1 \in 1..MaxAttempts /\ attempts[u] + 1 > attempts[u]
      BY <2>1, ConversationAssumption DEF IInv, TypeOK, TelegramOK, Post
    <3>. QED  BY <3>1 DEF IInv, TelegramOK, Deliveries
  <2>. HIDE DEF new
  <2>3. /\ \A e \in Deliveries : e # new => past'[e] = past[e]
        /\ \A d \in past'[new] : d \in Deliveries /\ pc[d] \in Over
        /\ md' = md /\ db' = db
    BY <1>1, <2>1, <2>2 DEF Post, store, new
  <2>4. Fresh'
    BY <1>2, <1>3, <2>3 DEF Fresh
  <2>5. PastIsOver'
    BY <1>1, <1>2, <2>3 DEF PastIsOver
  <2>6. \A d : Precedes(d, new, db) /\ \A f \in SessionFiles : Precedes(d, new, md[f])
    BY <2>2 DEF Fresh, Precedes
  <2>. QED  BY <1>3, <2>3, <2>4, <2>5, <2>6 DEF OnlyOverlapsMix
<1>5. past' = past \/ \E u \in Updates : Post(u)
  BY DEF Next, PostRefused, TakeReply, HangUp, Cancel, Handle, Admit, AppendMarkdown,
     InsertRow, Complete, SendMessage, Crash, Restart, Quiet, vars
<1>6. CASE past' = past
  <2>1. PastIsOver'
    BY <1>1, <1>2, <1>6 DEF PastIsOver
  <2>2. CASE UNCHANGED store
    <3>1. md' = md /\ db' = db
      BY <2>2 DEF store
    <3>. QED  BY <1>2, <1>3, <1>6, <2>1, <3>1 DEF Fresh, OnlyOverlapsMix
  <2>3. ASSUME NEW x \in Deliveries, NEW role \in Roles,
               pc[x] \notin Over, pc'[x] # "idle",
               \/ /\ db' = db
                  /\ md' = [md EXCEPT ![SessionFile(Chat(x))] = Append(@, <<x, role>>)]
               \/ md' = md /\ db' = Append(db, <<x, role>>)
        PROVE  Fresh' /\ OnlyOverlapsMix'
    <3>. DEFINE new == <<x, role>>
    <3>1. new \in Entries /\ new[1] = x
      BY DEF Entries
    <3>. HIDE DEF new
    <3>2. db' = db \/ db' = Append(db, new)
      BY <2>3 DEF new
    <3>3. \A f \in SessionFiles : md'[f] = md[f] \/ md'[f] = Append(md[f], new)
      BY <1>1, <2>3 DEF new
    <3>4. \A f \in SessionFiles : md[f] \in Seq(Entries)
      BY <1>1
    <3>5. ASSUME NEW e \in Deliveries, pc'[e] = "idle"
          PROVE  /\ \A i \in 1..Len(db') : db'[i][1] # e
                 /\ \A f \in SessionFiles : \A i \in 1..Len(md'[f]) : md'[f][i][1] # e
      <4>1. e # x /\ pc[e] = "idle"
        BY <1>2, <2>3, <3>5
      <4>2. \A i \in 1..Len(db') : db'[i][1] # e
        BY <1>1, <3>1, <3>2, <4>1, AppendPrecedes DEF Fresh
      <4>3. ASSUME NEW f \in SessionFiles
            PROVE  \A i \in 1..Len(md'[f]) : md'[f][i][1] # e
        <5>1. \A i \in 1..Len(md[f]) : md[f][i][1] # e
          BY <4>1 DEF Fresh
        <5>2. \A i \in 1..Len(Append(md[f], new)) : Append(md[f], new)[i][1] # e
          BY <3>1, <3>4, <4>1, <5>1, AppendPrecedes
        <5>. QED  BY <3>3, <5>1, <5>2
      <4>. QED  BY <4>2, <4>3
    <3>6. ASSUME NEW e \in Deliveries, NEW d \in past[e]
          PROVE  /\ Precedes(d, e, db')
                 /\ \A f \in SessionFiles : Precedes(d, e, md'[f])
      <4>1. d # x
        BY <2>3 DEF PastIsOver
      <4>2. Precedes(d, e, db')
        BY <1>1, <3>1, <3>2, <4>1, AppendPrecedes DEF OnlyOverlapsMix
      <4>3. ASSUME NEW f \in SessionFiles
            PROVE  Precedes(d, e, md'[f])
        <5>1. Precedes(d, e, md[f])
          BY DEF OnlyOverlapsMix
        <5>. QED  BY <3>1, <3>3, <3>4, <4>1, <5>1, AppendPrecedes
      <4>. QED  BY <4>2, <4>3
    <3>. QED  BY <1>3, <1>6, <3>5, <3>6
  <2>4. \/ UNCHANGED store
        \/ \E x \in Deliveries, role \in Roles :
             /\ pc[x] \notin Over /\ pc'[x] # "idle"
             /\ \/ /\ db' = db
                   /\ md' = [md EXCEPT ![SessionFile(Chat(x))] = Append(@, <<x, role>>)]
                \/ md' = md /\ db' = Append(db, <<x, role>>)
    <3>1. \A x \in Deliveries : pc[x] # "idle" => pc'[x] # "idle"
      BY <1>2
    <3>2. \A x \in Deliveries :
            pc[x] \in {"user_md", "assistant_md", "user_db", "assistant_db"} =>
              pc[x] \notin Over /\ pc[x] # "idle"
      BY DEF Over, Replied
    <3>. QED  BY <3>1, <3>2, StoreSteps
  <2>. QED  BY <2>1, <2>2, <2>3, <2>4
<1>. QED  BY <1>4, <1>5, <1>6

(* Two requests are mixed up in a store only when the second came in while *)
(* the first was still at work: after a request is over, a retry of its    *)
(* update or another message stands behind all it stored, in both stores.  *)
THEOREM OverlapsAloneMix == Spec => []OnlyOverlapsMix
<1>1. Init => Fresh /\ PastIsOver /\ OnlyOverlapsMix
  BY DEF Init, Fresh, PastIsOver, OnlyOverlapsMix
<1>2. IInv /\ Fresh /\ PastIsOver /\ OnlyOverlapsMix /\ [Next]_vars =>
        Fresh' /\ PastIsOver' /\ OnlyOverlapsMix'
  BY MixStep
<1>. QED  BY <1>1, <1>2, Invariance, PTL DEF Spec

-----------------------------------------------------------------------------
(* The requests write the session files as the abstract log allows: an     *)
(* append of a request is a Write of its entry, and the end of a request   *)
(* makes the entries it did not append failures.                           *)
THEOREM RequestsUseLog == Spec => UsesLog
<1>. DEFINE FileFor == [e \in StorableEntries |-> SessionFile(Chat(e[1]))]
<1>1. Init => Log!Init
  <2>. SUFFICES ASSUME Init PROVE Log!Init
    OBVIOUS
  <2>1. ASSUME NEW e \in StorableEntries
        PROVE  Outcome[e] = "pending"
    <3>1. e[1] \in Deliveries /\ e \in Entries
      BY DEF StorableEntries, Entries
    <3>2. pc[e[1]] = "idle"
      BY <3>1 DEF Init
    <3>3. ~MdHas(e)
      <4>1. /\ ~MdHas(<<e[1], "user">>)
            /\ ~MdHas(<<e[1], "assistant">>)
        BY <3>1, <3>2, InitInv DEF IInv, StageOK, NothingStored, NoReplyStored
      <4>2. e = <<e[1], "user">> \/ e = <<e[1], "assistant">>
        BY <3>1 DEF Entries, Roles
      <4>. QED  BY <4>1, <4>2
    <3>. QED  BY <3>2, <3>3 DEF Outcome, Over, Replied
  <2>2. Outcome = [e \in StorableEntries |-> "pending"]
    BY <2>1 DEF Outcome
  <2>. QED  BY <2>2 DEF Init, Log!Init
<1>2. ASSUME IInv, [Next]_vars
      PROVE  [Log!Next]_Log!vars
  <2>1. \A e \in StorableEntries :
          /\ e \in Entries /\ e[1] \in Deliveries
          /\ pc[e[1]] \in Over => pc'[e[1]] = pc[e[1]]
    BY <1>2, NoWayBack DEF StorableEntries, Entries
  <2>2. /\ Outcome = [e \in StorableEntries |->
             IF MdHas(e) THEN "written"
             ELSE IF pc[e[1]] \in Over THEN "failed" ELSE "pending"]
        /\ Outcome' = [e \in StorableEntries |->
             IF MdHas(e)' THEN "written"
             ELSE IF pc'[e[1]] \in Over THEN "failed" ELSE "pending"]
    BY DEF Outcome, StorableEntries, Storable, Entries, Deliveries, Roles, Over, Replied
  <2>3. CASE md' = md
    <3>1. \A e \in StorableEntries : MdHas(e)' <=> MdHas(e)
      BY <2>1, <2>3, MdSame
    <3>2. Log!GiveUp
      <4>1. Outcome' \in [StorableEntries -> Log!Outcomes]
        BY <2>2 DEF Log!Outcomes
      <4>2. \A e \in StorableEntries :
              Outcome'[e] # Outcome[e] => Outcome[e] = "pending" /\ Outcome'[e] = "failed"
        BY <2>1, <2>2, <3>1
      <4>. QED  BY <4>1, <4>2 DEF Log!GiveUp
    <3>. QED  BY <2>3, <3>2 DEF Log!Next, Log!Fail
  <2>4. ASSUME NEW d \in Deliveries, NEW role \in Roles,
               md' = [md EXCEPT ![SessionFile(Chat(d))] = Append(@, <<d, role>>)],
               Storable(d[1]),
               \/ role = "user" /\ pc[d] = "user_md" /\ pc' = [pc EXCEPT ![d] = "user_db"]
               \/ /\ role = "assistant" /\ pc[d] = "assistant_md"
                  /\ pc' = [pc EXCEPT ![d] = "assistant_db"]
        PROVE  Log!Next
    <3>. DEFINE new == <<d, role>>
    <3>1. new \in StorableEntries /\ FileFor[new] = SessionFile(Chat(d))
      BY <2>4 DEF StorableEntries, Entries
    <3>2. \A e \in StorableEntries : MdHas(e)' <=> MdHas(e) \/ e = new
      BY <1>2, <2>1, <2>4, MdAppend DEF IInv
    <3>3. ~MdHas(new)
      BY <1>2, <2>4 DEF IInv, StageOK, NothingStored, NoReplyStored
    <3>4. \A e \in StorableEntries :
            pc'[e[1]] \in Over <=> pc[e[1]] \in Over
      BY <1>2, <2>1, <2>4 DEF IInv, TypeOK, Over, Replied
    <3>5. pc[d] \notin Over
      BY <2>4 DEF Over, Replied
    <3>6. Outcome[new] = "pending"
      BY <2>2, <3>1, <3>3, <3>5
    <3>7. Outcome' = [Outcome EXCEPT ![new] = "written"]
      <4>. HIDE DEF new
      <4>. QED  BY <2>2, <3>1, <3>2, <3>4
    <3>8. md' = [md EXCEPT ![FileFor[new]] = Append(@, new)]
      BY <2>4, <3>1
    <3>9. Log!Write(new)
      BY <3>6, <3>7, <3>8 DEF Log!Write
    <3>. QED  BY <3>1, <3>9 DEF Log!Next
  <2>. QED  BY <1>2, <2>3, <2>4, StoreSteps DEF store
<1>. QED  BY <1>1, <1>2, Invariance, PTL DEF Spec, UsesLog, Log!Spec

-----------------------------------------------------------------------------
(* What of EveryUpdateEnds and RequestsEnd is safety. *)

\* The number of steps that a request may still take.
StepsLeft ==
  [p \in PCs |-> CASE p = "idle" -> 9
                   [] p = "received" -> 8
                   [] p = "user_md" -> 7
                   [] p = "user_db" -> 6
                   [] p = "llm" -> 5
                   [] p = "assistant_md" -> 4
                   [] p = "assistant_db" -> 3
                   [] p = "send" -> 2
                   [] p = "resend" -> 1
                   [] OTHER -> 0]

LEMMA HandleForward ==
  ASSUME TypeOK, NEW d \in Deliveries, Handle(d)
  PROVE  /\ StepsLeft[pc'[d]] < StepsLeft[pc[d]]
         /\ \A e \in Deliveries \ {d} : pc'[e] = pc[e]
<1>. USE DEF TypeOK, StepsLeft, PCs, Running, Over, Replied
<1>1. CASE Admit(d)
  BY <1>1 DEF Admit, Goto, Answer
<1>2. CASE \/ AppendMarkdown(d, "user", "user_md", "user_db")
           \/ AppendMarkdown(d, "assistant", "assistant_md", "assistant_db")
  BY <1>2 DEF AppendMarkdown, Goto, Answer
<1>3. CASE \/ InsertRow(d, "user", "user_db", "llm")
           \/ InsertRow(d, "assistant", "assistant_db", "send")
  BY <1>3 DEF InsertRow, Goto, Answer
<1>4. CASE Complete(d)
  BY <1>4 DEF Complete, Goto, Answer
<1>5. CASE SendMessage(d)
  BY <1>5 DEF SendMessage, Turn, Goto, Answer
<1>. QED  BY <1>1, <1>2, <1>3, <1>4, <1>5 DEF Handle

(* Every step of ServeHTTP, Process and SendMessage brings its request     *)
(* nearer to its end, and nothing sets one back: whatever fails and is     *)
(* tried again, a request is over after nine steps.                        *)
THEOREM RequestsAreFinite ==
  Spec => [][\A d \in Deliveries :
               /\ StepsLeft[pc'[d]] <= StepsLeft[pc[d]]
               /\ Handle(d) => StepsLeft[pc'[d]] < StepsLeft[pc[d]]]_vars
<1>1. ASSUME IInv, [Next]_vars, NEW d \in Deliveries
      PROVE  /\ StepsLeft[pc'[d]] <= StepsLeft[pc[d]]
             /\ Handle(d) => StepsLeft[pc'[d]] < StepsLeft[pc[d]]
  <2>1. TypeOK /\ TypeOK' /\ \A p \in PCs : StepsLeft[p] \in 0..9
    BY <1>1, NextInv DEF IInv, StepsLeft
  <2>2. StepsLeft[pc[d]] \in 0..9 /\ StepsLeft[pc'[d]] \in 0..9
    BY <2>1 DEF TypeOK
  <2>3. Handle(d) => StepsLeft[pc'[d]] < StepsLeft[pc[d]]
    BY <2>1, HandleForward
  <2>4. ASSUME NEW e \in Deliveries, Handle(e), e # d
        PROVE  pc'[d] = pc[d]
    BY <2>1, <2>4, HandleForward
  <2>5. CASE \E u \in Updates : Post(u)
    <3>1. PICK u \in Updates : Post(u)
      BY <2>5
    <3>2. pc[<<u, attempts[u] + 1>>] = "idle"
      <4>1. attempts[u] + 1 \in 1..MaxAttempts /\ attempts[u] + 1 > attempts[u]
        BY <1>1, <3>1, ConversationAssumption DEF IInv, TypeOK, TelegramOK, Post
      <4>. QED  BY <1>1, <4>1 DEF IInv, TelegramOK
    <3>3. pc'[d] = pc[d] \/ (pc[d] = "idle" /\ pc'[d] = "received")
      BY <2>1, <3>1, <3>2 DEF TypeOK, Post
    <3>4. StepsLeft["idle"] = 9 /\ StepsLeft["received"] = 8
      BY DEF StepsLeft, PCs, Running
    <3>. QED  BY <2>2, <2>3, <3>3, <3>4
  <2>6. CASE Crash
    <3>1. pc'[d] = pc[d] \/ pc'[d] = "dead"
      BY <2>6 DEF Crash
    <3>2. StepsLeft["dead"] = 0
      BY DEF StepsLeft, PCs, Over
    <3>. QED  BY <2>2, <2>3, <3>1, <3>2
  <2>7. \/ \E e \in Deliveries : Handle(e)
        \/ \E u \in Updates : Post(u)
        \/ UNCHANGED pc
        \/ Crash
    BY <1>1 DEF Next, PostRefused, TakeReply, HangUp, Cancel, Restart, Quiet, vars
  <2>. QED  BY <2>2, <2>3, <2>4, <2>5, <2>6, <2>7
<1>2. IInv /\ [Next]_vars =>
        [\A d \in Deliveries :
               /\ StepsLeft[pc'[d]] <= StepsLeft[pc[d]]
               /\ Handle(d) => StepsLeft[pc'[d]] < StepsLeft[pc[d]]]_vars
  BY <1>1
<1>. QED  BY <1>2, Invariance, PTL DEF Spec

\* Where an update is that Telegram has not settled.
UpdateOK ==
  \A u \in Updates :
    /\ telegram[u] = "posted" => pc[Current(u)] \in Running \cup Replied
    /\ telegram[u] = "dropped" => attempts[u] = MaxAttempts

(* No update is lost on the way: Telegram has an attempt left for it, or   *)
(* waits for a request that runs or has been answered, or has seen a 200,  *)
(* or has made all its attempts.                                           *)
THEOREM NoUpdateIsLost ==
  Spec => [](\A u \in Updates :
               \/ telegram[u] = "queued" /\ attempts[u] < MaxAttempts
               \/ telegram[u] = "posted" /\ pc[Current(u)] \in Running \cup Replied
               \/ telegram[u] = "settled" /\ pc[Current(u)] = "200"
               \/ telegram[u] = "dropped" /\ attempts[u] = MaxAttempts)
<1>1. Init => UpdateOK
  BY DEF Init, UpdateOK
<1>2. ASSUME IInv, UpdateOK, [Next]_vars
      PROVE  UpdateOK'
  <2>. SUFFICES ASSUME NEW u \in Updates
                PROVE  /\ telegram'[u] = "posted" => pc'[<<u, attempts'[u]>>] \in Running \cup Replied
                       /\ telegram'[u] = "dropped" => attempts'[u] = MaxAttempts
    BY DEF UpdateOK, Current
  <2>. USE ConversationAssumption
  <2>1. /\ telegram[u] = "posted" => pc[<<u, attempts[u]>>] \in Running \cup Replied
        /\ telegram[u] = "dropped" => attempts[u] = MaxAttempts
        /\ attempts[u] \in 0..MaxAttempts
        /\ telegram[u] = "queued" => attempts[u] < MaxAttempts
        /\ telegram[u] = "posted" => <<u, attempts[u]>> \in Deliveries
    BY <1>2 DEF UpdateOK, Current, IInv, TypeOK, TelegramOK, Deliveries
  <2>2. CASE \E v \in Updates : Post(v)
    <3>1. PICK v \in Updates : Post(v)
      BY <2>2
    <3>2. CASE v = u
      <4>1. <<u, attempts[u] + 1>> \in Deliveries
        BY <2>1, <3>1, <3>2 DEF Deliveries, Post
      <4>. QED  BY <1>2, <3>1, <3>2, <4>1 DEF Post, IInv, TypeOK, Running
    <3>3. CASE v # u
      <4>1. /\ telegram'[u] = telegram[u] /\ attempts'[u] = attempts[u]
            /\ \A d \in Deliveries : d[1] = u => pc'[d] = pc[d]
        BY <1>2, <3>1, <3>3 DEF Post, IInv, TypeOK, Deliveries
      <4>. QED  BY <2>1, <4>1
    <3>. QED  BY <3>2, <3>3
  <2>3. CASE \E v \in Updates : PostRefused(v) \/ TakeReply(v) \/ HangUp(v)
    <3>1. PICK v \in Updates : PostRefused(v) \/ TakeReply(v) \/ HangUp(v)
      BY <2>3
    <3>2. CASE v # u
      BY <1>2, <2>1, <3>1, <3>2 DEF PostRefused, TakeReply, HangUp, IInv, TypeOK
    <3>3. CASE v = u
      <4>1. /\ telegram'[u] \in {"settled", "queued", "dropped"}
            /\ telegram'[u] = "dropped" => attempts'[u] >= MaxAttempts
            /\ attempts'[u] \in 0..MaxAttempts
        BY <1>2, <2>1, <3>1, <3>3
        DEF PostRefused, TakeReply, HangUp, Retry, IInv, TypeOK
      <4>. QED  BY <4>1
    <3>. QED  BY <3>2, <3>3
  <2>4. CASE \E d \in Deliveries : Handle(d)
    <3>1. PICK d \in Deliveries : Handle(d)
      BY <2>4
    <3>2. UNCHANGED <<telegram, attempts>> /\ pc'[d] \in PCs \ {"idle", "dead"}
      BY <1>2, <3>1 DEF Handle, Admit, AppendMarkdown, InsertRow, Complete, SendMessage,
         Turn, Goto, Answer, IInv, TypeOK, PCs, Running, Over, Replied
    <3>3. \A e \in Deliveries : e # d => pc'[e] = pc[e]
      BY <1>2, <3>1, HandleForward DEF IInv
    <3>. QED  BY <2>1, <3>2, <3>3 DEF PCs, Over
  <2>5. CASE Crash
    <3>1. /\ attempts' = attempts
          /\ telegram'[u] = IF telegram[u] = "posted" /\ pc[<<u, attempts[u]>>] \in Running
                            THEN Retry(attempts[u]) ELSE telegram[u]
          /\ \A d \in Deliveries : pc'[d] = IF pc[d] \in Running THEN "dead" ELSE pc[d]
      BY <2>5 DEF Crash, Current
    <3>. QED  BY <2>1, <3>1 DEF Retry
  <2>6. CASE UNCHANGED <<telegram, attempts, pc>>
    BY <2>1, <2>6
  <2>7. (\E d \in Deliveries : Cancel(d)) \/ Restart \/ Quiet \/ UNCHANGED vars =>
          UNCHANGED <<telegram, attempts, pc>>
    BY DEF Cancel, Restart, Quiet, vars
  <2>. QED  BY <1>2, <2>2, <2>3, <2>4, <2>5, <2>6, <2>7 DEF Next
<1>3. IInv /\ UpdateOK =>
        \A u \in Updates :
               \/ telegram[u] = "queued" /\ attempts[u] < MaxAttempts
               \/ telegram[u] = "posted" /\ pc[Current(u)] \in Running \cup Replied
               \/ telegram[u] = "settled" /\ pc[Current(u)] = "200"
               \/ telegram[u] = "dropped" /\ attempts[u] = MaxAttempts
  BY DEF IInv, TypeOK, TelegramOK, UpdateOK
<1>. QED  BY <1>1, <1>2, <1>3, Invariance, PTL DEF Spec
=============================================================================
