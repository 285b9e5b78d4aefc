-------------------------- MODULE SessionFileProofs --------------------------
(***************************************************************************)
(* Store.Append keeps its promises for every number of calls and files:    *)
(* it implements SessionLog, an entry is written once or not at all, and   *)
(* headers come from the race for the creation of a file only.             *)
(***************************************************************************)
EXTENDS SessionFile, TLAPS

USE DEF Steps, Running, PCs

Items == Calls \cup {Header, Torn}

\* What a call's position says about its file.
OpenedExists ==
  /\ \A c \in Calls : pc[c] = "open" /\ ~fresh[c] => FileOf[c] \in exists
  /\ \A c \in Calls : pc[c] \in {"header", "entry", "ok"} => FileOf[c] \in exists
  /\ \A c \in Calls : pc[c] = "header" => fresh[c]
  /\ \A f \in Files : items[f] # <<>> => f \in exists

\* UntitledHasCause, from the moment the file is created.
CreatorIsKnown ==
  \A f \in exists :
    ~Has(f, Header) =>
      \E c \in Calls : /\ FileOf[c] = f
                       /\ fresh[c]
                       /\ pc[c] \in {"header", "error"}

\* EachEntryOnce, as what the files hold of each call.
EntriesOK ==
  /\ \A c \in Calls : pc[c] = "ok" <=> Has(FileOf[c], c)
  /\ \A c \in Calls, f \in Files : Has(f, c) => f = FileOf[c]
  /\ \A c \in Calls, f \in Files :
       \A i, j \in 1..Len(items[f]) :
         items[f][i] = c /\ items[f][j] = c => i = j

\* The inductive invariant.
IInv ==
  /\ TypeOK
  /\ OpenedExists
  /\ CreatorIsKnown
  /\ EntriesOK

-----------------------------------------------------------------------------
(* A write adds one item at the end of one file. *)
LEMMA PutAppends ==
  ASSUME TypeOK, NEW f \in Files, NEW item \in Items, Put(f, item)
  PROVE  /\ items' \in [Files -> Seq(Items)]
         /\ \A g \in Files \ {f} : items'[g] = items[g]
         /\ Len(items'[f]) = Len(items[f]) + 1
         /\ items'[f][Len(items[f]) + 1] = item
         /\ \A i \in 1..Len(items[f]) : items'[f][i] = items[f][i]
  <1>1. items \in [Files -> Seq(Items)]
    BY DEF TypeOK, Items
  <1>2. items' = [items EXCEPT ![f] = Append(items[f], item)]
    BY DEF Put
  <1> QED
    BY <1>1, <1>2

(* What a file holds after a write. *)
LEMMA PutHas ==
  ASSUME TypeOK, NEW f \in Files, NEW item \in Items, Put(f, item)
  PROVE  /\ \A g \in Files : \A x : Has(g, x)' <=> (Has(g, x) \/ (g = f /\ x = item))
         /\ \A g \in Files : items[g] # <<>> => items'[g] # <<>>
         /\ \A g \in Files : items'[g] # <<>> => items[g] # <<>> \/ g = f
  <1>1. items \in [Files -> Seq(Items)] /\ items' \in [Files -> Seq(Items)]
    BY PutAppends DEF TypeOK, Items
  <1>2. \A g \in Files : \A x : Has(g, x)' <=> (Has(g, x) \/ (g = f /\ x = item))
    <2> SUFFICES ASSUME NEW g \in Files, NEW x
                 PROVE  Has(g, x)' <=> (Has(g, x) \/ (g = f /\ x = item))
      OBVIOUS
    <2>1. CASE g # f
      BY <2>1, PutAppends DEF Has
    <2>2. CASE g = f
      <3>1. 1..Len(items'[f]) = 1..Len(items[f]) \cup {Len(items[f]) + 1}
        BY <1>1, PutAppends
      <3> QED
        BY <2>2, <3>1, PutAppends DEF Has
    <2> QED
      BY <2>1, <2>2
  <1>3. \A g \in Files : /\ items[g] # <<>> => items'[g] # <<>>
                         /\ items'[g] # <<>> => items[g] # <<>> \/ g = f
    <2> SUFFICES ASSUME NEW g \in Files
                 PROVE  /\ items[g] # <<>> => items'[g] # <<>>
                        /\ items'[g] # <<>> => items[g] # <<>> \/ g = f
      OBVIOUS
    <2>1. CASE g # f
      BY <2>1, PutAppends
    <2>2. CASE g = f
      BY <1>1, <2>2, PutAppends
    <2> QED
      BY <2>1, <2>2
  <1> QED
    BY <1>2, <1>3

(* A step that leaves the files alone leaves what they hold. *)
LEMMA SameHas ==
  ASSUME UNCHANGED items
  PROVE  \A g, x : Has(g, x)' <=> Has(g, x)
  BY DEF Has

-----------------------------------------------------------------------------
LEMMA InitInv == Init => IInv
  <1> SUFFICES ASSUME Init PROVE IInv
    OBVIOUS
  <1>1. TypeOK
    BY SessionFileAssumption DEF Init, TypeOK
  <1>2. \A f \in Files : \A x : ~Has(f, x)
    BY DEF Init, Has
  <1>3. OpenedExists /\ CreatorIsKnown
    BY DEF Init, OpenedExists, CreatorIsKnown
  <1>4. EntriesOK
    BY <1>2, SessionFileAssumption DEF Init, EntriesOK
  <1> QED
    BY <1>1, <1>3, <1>4 DEF IInv

LEMMA StatStep ==
  ASSUME IInv, NEW c \in Calls, Stat(c)
  PROVE  IInv'
  <1>1. TypeOK'
    BY DEF IInv, TypeOK, Stat
  <1>2. OpenedExists'
    BY SessionFileAssumption DEF IInv, TypeOK, OpenedExists, Stat
  <1>3. CreatorIsKnown'
    BY SameHas DEF IInv, TypeOK, CreatorIsKnown, Stat
  <1>4. EntriesOK'
    BY SameHas, SessionFileAssumption DEF IInv, TypeOK, EntriesOK, Stat
  <1> QED
    BY <1>1, <1>2, <1>3, <1>4 DEF IInv

LEMMA OpenStep ==
  ASSUME IInv, NEW c \in Calls, Open(c)
  PROVE  IInv'
  <1>1. TypeOK'
    BY SessionFileAssumption DEF IInv, TypeOK, Open
  <1>2. OpenedExists'
    BY SessionFileAssumption DEF IInv, TypeOK, OpenedExists, Open
  <1>3. CreatorIsKnown'
    <2> SUFFICES ASSUME NEW f \in exists', ~Has(f, Header)
                 PROVE  \E k \in Calls : /\ FileOf[k] = f
                                         /\ fresh'[k]
                                         /\ pc'[k] \in {"header", "error"}
      BY SameHas DEF CreatorIsKnown, Open
    <2>1. CASE f \in exists
      BY <2>1 DEF IInv, TypeOK, CreatorIsKnown, Open
    <2>2. CASE f \notin exists
      BY <2>2 DEF IInv, TypeOK, OpenedExists, Open
    <2> QED
      BY <2>1, <2>2
  <1>4. EntriesOK'
    BY SameHas, SessionFileAssumption DEF IInv, TypeOK, EntriesOK, Open
  <1> QED
    BY <1>1, <1>2, <1>3, <1>4 DEF IInv

(* The three actions that write. *)
LEMMA WriteStep ==
  ASSUME IInv, NEW c \in Calls,
         WriteHeader(c) \/ WriteEntry(c) \/ TearWrite(c)
  PROVE  IInv'
  <1>0. /\ pc[c] \in {"header", "entry"}
        /\ UNCHANGED <<exists, fresh>>
        /\ FileOf[c] \in Files
        /\ TypeOK
    BY SessionFileAssumption DEF IInv, WriteHeader, WriteEntry, TearWrite
  <1>1. \/ /\ pc[c] = "header" /\ Put(FileOf[c], Header)
           /\ pc' = [pc EXCEPT ![c] = "entry"]
        \/ /\ pc[c] = "entry" /\ Put(FileOf[c], c)
           /\ pc' = [pc EXCEPT ![c] = "ok"]
        \/ /\ Put(FileOf[c], Torn)
           /\ pc' = [pc EXCEPT ![c] = "error"]
    BY DEF WriteHeader, WriteEntry, TearWrite
  <1>2. PICK it \in Items :
          /\ Put(FileOf[c], it)
          /\ \/ /\ it = Header /\ pc[c] = "header"
                /\ pc' = [pc EXCEPT ![c] = "entry"]
             \/ /\ it = c /\ pc[c] = "entry"
                /\ pc' = [pc EXCEPT ![c] = "ok"]
             \/ it = Torn /\ pc' = [pc EXCEPT ![c] = "error"]
    BY <1>1 DEF Items
  <1>3. TypeOK'
    <2>1. items' \in [Files -> Seq(Items)]
      BY <1>0, <1>2, PutAppends
    <2>2. pc' \in [Calls -> PCs]
      BY <1>0, <1>2 DEF TypeOK
    <2> QED
      BY <1>0, <2>1, <2>2 DEF TypeOK, Items
  <1>4. OpenedExists'
    <2>1. FileOf[c] \in exists
      BY <1>0 DEF IInv, OpenedExists
    <2>2. \A f \in Files : items'[f] # <<>> => f \in exists'
      BY <1>0, <1>2, <2>1, PutHas DEF IInv, OpenedExists
    <2>3. \A k \in Calls : /\ pc'[k] = "open" => pc[k] = "open"
                           /\ pc'[k] = "header" => pc[k] = "header"
                           /\ k # c => pc'[k] = pc[k]
      BY <1>0, <1>2 DEF TypeOK
    <2> QED
      BY <1>0, <2>1, <2>2, <2>3 DEF IInv, OpenedExists
  <1>5. CreatorIsKnown'
    <2> SUFFICES ASSUME NEW f \in exists, ~Has(f, Header)'
                 PROVE  \E k \in Calls : /\ FileOf[k] = f
                                         /\ fresh'[k]
                                         /\ pc'[k] \in {"header", "error"}
      BY <1>0 DEF CreatorIsKnown
    <2>1. f \in Files
      BY <1>0 DEF TypeOK
    <2>2. ~Has(f, Header) /\ ~(f = FileOf[c] /\ it = Header)
      BY <1>0, <1>2, <2>1, PutHas
    <2>3. PICK k \in Calls : /\ FileOf[k] = f
                             /\ fresh[k]
                             /\ pc[k] \in {"header", "error"}
      BY <2>2 DEF IInv, CreatorIsKnown
    <2>4. pc'[k] \in {"header", "error"}
      <3>1. CASE k # c
        BY <1>0, <1>2, <2>3, <3>1 DEF TypeOK
      <3>2. CASE k = c
        BY <1>0, <1>2, <2>2, <2>3, <3>2 DEF TypeOK
      <3> QED
        BY <3>1, <3>2
    <2> QED
      BY <1>0, <2>3, <2>4
  <1>6. EntriesOK'
    <2>1. \A k \in Calls : k # Header /\ k # Torn
      BY SessionFileAssumption
    <2>2. \A k \in Calls : /\ k # c => pc'[k] = pc[k]
                           /\ pc'[c] = "ok" <=> it = c
      BY <1>0, <1>2, <2>1, SessionFileAssumption DEF TypeOK
    <2>3. \A k \in Calls, f \in Files :
            Has(f, k)' <=> (Has(f, k) \/ (f = FileOf[c] /\ k = it))
      BY <1>0, <1>2, PutHas
    <2>4. pc[c] # "ok" /\ (it \in Calls => it = c)
      BY <1>0, <1>2, <2>1
    <2>5. \A k \in Calls : pc'[k] = "ok" <=> Has(FileOf[k], k)'
      BY <2>2, <2>3, <2>4, SessionFileAssumption DEF IInv, EntriesOK
    <2>6. \A k \in Calls, f \in Files : Has(f, k)' => f = FileOf[k]
      BY <2>3, <2>4 DEF IInv, EntriesOK
    <2>7. ASSUME NEW k \in Calls, NEW f \in Files,
                 NEW i \in 1..Len(items'[f]), NEW j \in 1..Len(items'[f]),
                 items'[f][i] = k, items'[f][j] = k
          PROVE  i = j
      <3>1. CASE f # FileOf[c]
        BY <1>0, <1>2, <2>7, <3>1, PutAppends DEF IInv, EntriesOK
      <3>2. CASE f = FileOf[c]
        <4> DEFINE n == Len(items[f])
        <4>1. /\ n \in Nat
              /\ 1..Len(items'[f]) = 1..n \cup {n + 1}
              /\ items'[f][n + 1] = it
              /\ \A m \in 1..n : items'[f][m] = items[f][m]
          BY <1>0, <1>2, <3>2, PutAppends DEF TypeOK
        <4>2. k = it => \A m \in 1..n : items[f][m] # k
          BY <1>0, <2>4 DEF IInv, EntriesOK, Has
        <4>3. \A p, q \in 1..n : items[f][p] = k /\ items[f][q] = k => p = q
          BY DEF IInv, EntriesOK
        <4> HIDE DEF n
        <4> QED
          BY <2>7, <4>1, <4>2, <4>3
      <3> QED
        BY <3>1, <3>2
    <2> QED
      BY <2>5, <2>6, <2>7 DEF EntriesOK
  <1> QED
    BY <1>3, <1>4, <1>5, <1>6 DEF IInv

(* The steps that end calls without a write, and the one that does nothing. *)
LEMMA EndStep ==
  ASSUME IInv, (\E c \in Calls : Fail(c)) \/ Crash \/ UNCHANGED vars
  PROVE  IInv'
  <1>1. /\ UNCHANGED <<exists, items, fresh>>
        /\ pc' \in [Calls -> PCs]
        /\ \A c \in Calls : pc'[c] # pc[c] => pc[c] \in Steps /\ pc'[c] = "error"
    BY DEF IInv, TypeOK, Fail, Crash, vars
  <1>2. TypeOK'
    BY <1>1 DEF IInv, TypeOK
  <1>3. OpenedExists'
    BY <1>1 DEF IInv, TypeOK, OpenedExists
  <1>4. CreatorIsKnown'
    BY <1>1, SameHas DEF IInv, TypeOK, CreatorIsKnown
  <1>5. EntriesOK'
    BY <1>1, SameHas DEF IInv, TypeOK, EntriesOK
  <1> QED
    BY <1>2, <1>3, <1>4, <1>5 DEF IInv

LEMMA NextInv == IInv /\ [Next]_vars => IInv'
  <1> SUFFICES ASSUME IInv, [Next]_vars PROVE IInv'
    OBVIOUS
  <1>1. CASE \E c \in Calls : Stat(c)
    BY <1>1, StatStep
  <1>2. CASE \E c \in Calls : Open(c)
    BY <1>2, OpenStep
  <1>3. CASE \E c \in Calls : WriteHeader(c) \/ WriteEntry(c) \/ TearWrite(c)
    BY <1>3, WriteStep
  <1>4. CASE (\E c \in Calls : Fail(c)) \/ Crash \/ UNCHANGED vars
    BY <1>4, EndStep
  <1> QED
    BY <1>1, <1>2, <1>3, <1>4 DEF Next, Quiet

(* The inductive invariant holds of Store.Append.                          *)
THEOREM Invariance == Spec => []IInv
  BY InitInv, NextInv, PTL DEF Spec

(* The files, the newFile flags and the positions of the calls keep their  *)
(* types.                                                                  *)
THEOREM TypeCorrect == Spec => []TypeOK
  <1>1. IInv => TypeOK
    BY DEF IInv
  <1> QED
    BY <1>1, Invariance, PTL
-----------------------------------------------------------------------------
(* A file with entries and no header was created by a call that is still   *)
(* on its way to the header, or that failed or was killed before it.       *)
THEOREM UntitledFilesHaveACause == Spec => []UntitledHasCause
  <1>1. IInv => UntitledHasCause
    BY DEF IInv, OpenedExists, CreatorIsKnown, UntitledHasCause
  <1> QED
    BY <1>1, Invariance, PTL

(* The entry of a call that came to its end is in its file once; that of a *)
(* call that did not is in no file.                                        *)
THEOREM EntriesAreWrittenOnce == Spec => []EachEntryOnce
  <1>1. ASSUME IInv PROVE EachEntryOnce
    <2>1. \A c \in Calls : Outcome[c] = "written" <=> pc[c] = "ok"
      BY DEF Outcome
    <2>2. \A c \in Calls, f \in Files :
            Log!Positions(c, f) # {} <=> Has(f, c)
      BY DEF Log!Positions, Has
    <2>3. \A c \in Calls, f \in Files :
            \A i, j \in Log!Positions(c, f) : i = j
      BY <1>1 DEF IInv, EntriesOK, Log!Positions
    <2> QED
      BY <1>1, <2>1, <2>2, <2>3, SessionFileAssumption
      DEF IInv, EntriesOK, EachEntryOnce, Log!ExactlyOnce
  <1> QED
    BY <1>1, Invariance, PTL

(* Once the race for the creation of a file is over, no call writes a      *)
(* header to it, and none that starts later will.                          *)
THEOREM HeadersComeFirst == Spec => TitledOnce
  <1> DEFINE Kept(f) ==
        f \in exists /\ (\A c \in Calls : ~MayTitle(c, f)) =>
          /\ \A c \in Calls : ~MayTitle(c, f)'
          /\ \A i \in 1..Len(items'[f]) :
               items'[f][i] = Header => i <= Len(items[f])
  <1>1. ASSUME IInv, [Next]_vars, NEW f \in Files,
               f \in exists, \A c \in Calls : ~MayTitle(c, f)
        PROVE  /\ \A c \in Calls : ~MayTitle(c, f)'
               /\ \A i \in 1..Len(items'[f]) :
                    items'[f][i] = Header => i <= Len(items[f])
    <2>1. \A c \in Calls : ~MayTitle(c, f)'
      <3> SUFFICES ASSUME NEW c \in Calls, FileOf[c] = f
                   PROVE  ~(fresh'[c] /\ pc'[c] \in {"open", "header"})
        BY DEF MayTitle
      <3>1. ~(fresh[c] /\ pc[c] \in {"open", "header"})
        BY <1>1 DEF MayTitle
      <3>2. CASE \E k \in Calls : Stat(k)
        BY <1>1, <3>1, <3>2 DEF IInv, TypeOK, Stat
      <3>3. CASE \E k \in Calls : Open(k)
        BY <1>1, <3>1, <3>3 DEF IInv, TypeOK, Open
      <3>4. CASE \E k \in Calls : WriteHeader(k) \/ WriteEntry(k) \/ TearWrite(k)
        BY <1>1, <3>1, <3>4 DEF IInv, TypeOK, WriteHeader, WriteEntry, TearWrite
      <3>5. CASE (\E k \in Calls : Fail(k)) \/ Crash \/ UNCHANGED vars
        BY <1>1, <3>1, <3>5 DEF IInv, TypeOK, Fail, Crash, vars
      <3> QED
        BY <1>1, <3>2, <3>3, <3>4, <3>5 DEF Next, Quiet
    <2>2. ASSUME NEW i \in 1..Len(items'[f]), items'[f][i] = Header
          PROVE  i <= Len(items[f])
      <3>1. CASE UNCHANGED items
        BY <3>1, <1>1 DEF IInv, TypeOK
      <3>2. CASE \E c \in Calls : WriteHeader(c) \/ WriteEntry(c) \/ TearWrite(c)
        <4>1. PICK c \in Calls, it \in Items :
                Put(FileOf[c], it) /\ (it = Header => pc[c] = "header")
          BY <3>2, SessionFileAssumption
          DEF WriteHeader, WriteEntry, TearWrite, Items
        <4>2. FileOf[c] = f => it # Header
          BY <1>1, <4>1 DEF IInv, OpenedExists, MayTitle
        <4>3. FileOf[c] \in Files /\ items \in [Files -> Seq(Items)]
          BY <1>1, SessionFileAssumption DEF IInv, TypeOK, Items
        <4>4. CASE FileOf[c] # f
          BY <1>1, <2>2, <4>1, <4>3, <4>4, PutAppends DEF IInv
        <4>5. CASE FileOf[c] = f
          <5>1. /\ Len(items'[f]) = Len(items[f]) + 1
                /\ items'[f][Len(items[f]) + 1] # Header
            BY <1>1, <4>1, <4>2, <4>3, <4>5, PutAppends DEF IInv
          <5> QED
            BY <2>2, <4>3, <5>1
        <4> QED
          BY <4>4, <4>5
      <3> QED
        BY <1>1, <3>1, <3>2
        DEF Next, Stat, Open, Fail, Crash, Quiet, vars
    <2> QED
      BY <2>1, <2>2
  <1>2. IInv /\ [Next]_vars => [\A f \in Files : Kept(f)]_vars
    BY <1>1
  <1> QED
    BY <1>2, Invariance, PTL DEF Spec, TitledOnce

(* Append, step by step, with its races, errors, torn writes and kills,    *)
(* implements the atomic, exactly-once log of SessionLog.                  *)
THEOREM AppendImplementsLog == Spec => ImplementsLog
  <1>1. Init => Log!Init
    BY DEF Init, Log!Init, Outcome
  <1>2. ASSUME TypeOK, [Next]_vars
        PROVE  [Log!Next]_Log!vars
    <2>1. /\ \A c \in Calls : FileOf[c] \in Files
          /\ Header \in {Header, Torn} /\ Torn \in {Header, Torn}
      BY SessionFileAssumption
    <2>2. CASE \E c \in Calls : Stat(c) \/ Open(c)
      <3>1. Outcome' = Outcome
        BY <1>2, <2>2 DEF TypeOK, Stat, Open, Outcome
      <3> QED
        BY <2>2, <3>1 DEF Stat, Open, Log!vars
    <2>3. ASSUME NEW c \in Calls, WriteHeader(c)
          PROVE  Log!Next
      <3>1. Outcome' = Outcome
        BY <1>2, <2>3 DEF TypeOK, WriteHeader, Outcome
      <3>2. Log!GiveUp
        BY <1>2, <3>1 DEF TypeOK, Log!GiveUp, Log!Outcomes, Outcome
      <3> QED
        BY <2>1, <2>3, <3>2 DEF WriteHeader, Put, Log!Next, Log!Spill
    <2>4. ASSUME NEW c \in Calls, WriteEntry(c)
          PROVE  Log!Next
      <3>1. Outcome[c] = "pending"
        BY <2>4 DEF WriteEntry, Outcome
      <3>2. Outcome' = [Outcome EXCEPT ![c] = "written"]
        BY <1>2, <2>4 DEF TypeOK, WriteEntry, Outcome
      <3> QED
        BY <2>4, <3>1, <3>2 DEF WriteEntry, Put, Log!Next, Log!Write
    <2>5. ASSUME NEW c \in Calls, Fail(c) \/ TearWrite(c)
          PROVE  Log!Next
      <3>1. Outcome[c] = "pending" /\ Outcome' = [Outcome EXCEPT ![c] = "failed"]
        BY <1>2, <2>5 DEF TypeOK, Fail, TearWrite, Outcome
      <3>2. Log!GiveUp
        BY <3>1 DEF Log!GiveUp, Log!Outcomes, Outcome
      <3> QED
        BY <2>1, <2>5, <3>2 DEF Fail, TearWrite, Put, Log!Next, Log!Fail, Log!Spill
    <2>6. CASE Crash
      <3>1. Log!GiveUp
        BY <1>2, <2>6 DEF TypeOK, Crash, Log!GiveUp, Log!Outcomes, Outcome
      <3> QED
        BY <2>6, <3>1 DEF Crash, Log!Next, Log!Fail
    <2>7. CASE UNCHANGED vars
      BY <2>7 DEF vars, Log!vars, Outcome
    <2> QED
      BY <1>2, <2>2, <2>3, <2>4, <2>5, <2>6, <2>7 DEF Next, Quiet
  <1> QED
    BY <1>1, <1>2, TypeCorrect, PTL DEF Spec, ImplementsLog, Log!Spec
=============================================================================
