------------------------------- MODULE IndexProofs -------------------------------
(***************************************************************************)
(* What TLAPS proves of the index, for every set of watched directories,   *)
(* files and reindex requests, and any number of edits, failures and kills.*)
(***************************************************************************)
EXTENDS IndexSync, TLAPS

-----------------------------------------------------------------------------
(* The inductive invariant.                                                *)

Indexing == {"hash", "upsert"}
Walking == {"walk"} \cup Indexing

\* The scan has listed the directory of the file.
Listed(f, s) == \E i \in 1..entered[s] : RootOf[f] = Roots[i]

\* What a scan knows of the files that exist as long as it takes: it has
\* seen those it has listed or will, and it removes none of their rows.
CoverOK(s) ==
  /\ Active(s) => AbsentFiles \subseteq absent[s]
  /\ pc[s] \in Walking =>
       \A f \in Files \ absent[s] : Listed(f, s) => f \in todo[s] \cup seen[s]
  /\ pc[s] \in Indexing => file[s] \in Files /\ read[s] \in Contents
  /\ pc[s] = "remove" =>
       /\ todo[s] \subseteq absent[s]
       /\ Files \ absent[s] \subseteq seen[s]

\* A scan that nothing disturbed has ended well, and no file changed since.
Calm == \E s \in Scanners : pc[s] = "ok" /\ clean[s]

\* What a scan has read is what the files hold, if none changed meanwhile.
FreshOK(s) ==
  Active(s) /\ (clean[s] \/ Calm) =>
    /\ absent[s] = AbsentFiles
    /\ pc[s] \in Indexing => read[s] = disk[file[s]]

\* An undisturbed scan is the only one, and has put right what it has seen.
SyncOK(s) ==
  Active(s) /\ clean[s] =>
    /\ \A t \in Scanners \ {s} : ~Active(t)
    /\ pc[s] \in Walking => \A f \in todo[s] : disk[f] # None
    /\ \A f \in seen[s] :
         /\ disk[f] # None
         /\ index[f] = disk[f] \/ (pc[s] \in Indexing /\ f = file[s])
    /\ pc[s] = "remove" => \A f \in Files \ seen[s] : index[f] = None \/ f \in todo[s]

ScanOK(s) == CoverOK(s) /\ FreshOK(s) /\ SyncOK(s)

IInv ==
  /\ TypeOK
  /\ \A s \in Scanners : ScanOK(s)
  /\ Calm => InSync

-----------------------------------------------------------------------------
LEMMA Assumptions ==
  /\ Len(Roots) \in Nat
  /\ \A f \in Files : \E i \in 1..Len(Roots) : RootOf[f] = Roots[i]
  /\ None \notin Contents
  /\ MaxEdits \in Nat /\ MaxTroubles \in Nat
BY IndexAssumption

\* What a step of one scan leaves of the others.
LEMMA OthersKeep ==
  ASSUME IInv, NEW s \in Scanners, Active(s), NEW t \in Scanners \ {s},
         UNCHANGED <<disk, clean, absent>>,
         pc'[t] = pc[t], entered'[t] = entered[t], todo'[t] = todo[t],
         seen'[t] = seen[t], file'[t] = file[t], read'[t] = read[t],
         Calm' => Calm \/ clean[s]
  PROVE  ScanOK(t)'
<1>1. ScanOK(t) /\ ScanOK(s)
  BY DEF IInv
<1>2. Active(t)' <=> Active(t)
  BY DEF Active
<1>3. Active(t) => ~clean[t] /\ ~clean[s]
  BY <1>1 DEF ScanOK, SyncOK
<1>4. CoverOK(t)'
  BY <1>1, <1>2 DEF ScanOK, CoverOK, Listed, AbsentFiles
<1>5. FreshOK(t)'
  BY <1>1, <1>2, <1>3 DEF ScanOK, FreshOK, AbsentFiles
<1>6. SyncOK(t)'
  BY <1>2, <1>3 DEF SyncOK
<1>. QED  BY <1>4, <1>5, <1>6 DEF ScanOK

\* The step of a scan: it keeps the invariant if it keeps its own part.
LEMMA ScanKeeps ==
  ASSUME IInv, TypeOK', NEW s \in Scanners, Active(s),
         UNCHANGED <<disk, clean, absent>>,
         \A t \in Scanners \ {s} :
           /\ pc'[t] = pc[t] /\ entered'[t] = entered[t] /\ todo'[t] = todo[t]
           /\ seen'[t] = seen[t] /\ file'[t] = file[t] /\ read'[t] = read[t],
         pc'[s] # "ok", ScanOK(s)', Calm => index' = index
  PROVE  IInv'
<1>1. Calm' => Calm
  BY DEF Calm
<1>2. \A t \in Scanners \ {s} : ScanOK(t)'
  BY <1>1, OthersKeep
<1>3. Calm' => InSync'
  BY <1>1 DEF IInv, InSync
<1>. QED  BY <1>2, <1>3 DEF IInv

-----------------------------------------------------------------------------
(* Each step keeps the invariant.                                          *)

LEMMA EditStep ==
  ASSUME IInv, NEW f \in Files, NEW content \in Contents \cup {None}, Edit(f, content)
  PROVE  IInv'
<1>. USE DEF IInv, Edit, walk, current
<1>1. TypeOK'
  <2>1. edits' \in 0..MaxEdits
    BY Assumptions DEF TypeOK
  <2>. QED  BY <2>1 DEF TypeOK
<1>2. ~Calm'
  BY DEF Calm
<1>3. ASSUME NEW s \in Scanners
      PROVE  ScanOK(s)'
  <2>1. ScanOK(s) /\ (Active(s)' <=> Active(s)) /\ ~clean'[s]
    BY DEF Active
  <2>2. absent[s] \subseteq absent'[s]
    OBVIOUS
  <2>3. \A g \in Files : disk'[g] = None => disk[g] = None \/ g \in absent'[s]
    BY DEF TypeOK
  <2>4. CoverOK(s)'
    BY <2>1, <2>2, <2>3 DEF ScanOK, CoverOK, Listed, AbsentFiles
  <2>5. FreshOK(s)' /\ SyncOK(s)'
    BY <1>2, <2>1 DEF FreshOK, SyncOK
  <2>. QED  BY <2>4, <2>5 DEF ScanOK
<1>. QED  BY <1>1, <1>2, <1>3

LEMMA BeginStep ==
  ASSUME IInv, NEW s \in Scanners, Begin(s)
  PROVE  IInv'
<1>. USE DEF IInv, Begin, Goto, current, bounds
<1>1. TypeOK'
  <2>1. clean' \in [Scanners -> BOOLEAN]
    BY DEF TypeOK
  <2>2. /\ pc' \in [Scanners -> PCs] /\ todo' \in [Scanners -> SUBSET Files]
        /\ seen' \in [Scanners -> SUBSET Files]
    BY DEF TypeOK, PCs, Scanning
  <2>3. absent' \in [Scanners -> SUBSET Files]
    BY DEF TypeOK, AbsentFiles
  <2>4. entered' \in [Scanners -> 0..Len(Roots)]
    <3>1. 0 \in 0..Len(Roots)
      BY Assumptions
    <3>. QED  BY <3>1 DEF TypeOK
  <2>. QED  BY <2>1, <2>2, <2>3, <2>4 DEF TypeOK
<1>2. /\ pc'[s] = "walk" /\ entered'[s] = 0 /\ todo'[s] = {} /\ seen'[s] = {}
      /\ absent'[s] = AbsentFiles
      /\ clean'[s] => \A t \in Scanners \ {s} : ~Active(t)
      /\ \A t \in Scanners \ {s} :
           /\ pc'[t] = pc[t] /\ entered'[t] = entered[t] /\ todo'[t] = todo[t]
           /\ seen'[t] = seen[t] /\ absent'[t] = absent[t]
           /\ clean'[t] <=> clean[t] /\ ~Active(t)
  BY DEF TypeOK
<1>3. Calm' => Calm
  BY <1>2 DEF Calm
<1>4. ScanOK(s)'
  <2>1. CoverOK(s)'
    <3>1. ~\E i \in 1..entered'[s] : TRUE
      BY <1>2
    <3>. QED  BY <1>2, <3>1 DEF CoverOK, Listed, AbsentFiles, Indexing
  <2>2. FreshOK(s)'
    BY <1>2 DEF FreshOK, AbsentFiles, Indexing
  <2>3. SyncOK(s)'
    BY <1>2 DEF SyncOK, Indexing, Active
  <2>. QED  BY <2>1, <2>2, <2>3 DEF ScanOK
<1>5. ASSUME NEW t \in Scanners \ {s}
      PROVE  ScanOK(t)'
  <2>1. ScanOK(t) /\ (Active(t)' <=> Active(t))
    BY <1>2 DEF Active
  <2>2. CoverOK(t)'
    BY <1>2, <2>1 DEF ScanOK, CoverOK, Listed, AbsentFiles
  <2>3. FreshOK(t)'
    BY <1>2, <1>3, <2>1 DEF ScanOK, FreshOK, AbsentFiles
  <2>4. SyncOK(t)'
    BY <1>2, <2>1 DEF SyncOK
  <2>. QED  BY <2>2, <2>3, <2>4 DEF ScanOK
<1>6. Calm' => InSync'
  BY <1>3 DEF InSync
<1>. QED  BY <1>1, <1>4, <1>5, <1>6

\* A scan that ends with an error says nothing any more.
LEMMA ErrorKeeps ==
  ASSUME NEW s \in Scanners, pc'[s] = "error"
  PROVE  ScanOK(s)'
BY DEF ScanOK, CoverOK, FreshOK, SyncOK, Active, Scanning, Walking, Indexing

LEMMA EnterRootStep ==
  ASSUME IInv, NEW s \in Scanners, EnterRoot(s)
  PROVE  IInv'
<1>. USE DEF IInv, EnterRoot, Goto, current, bounds, history
<1>1. TypeOK'
  <2>1. entered[s] \in 0..Len(Roots) /\ Len(Roots) \in Nat
    BY Assumptions DEF TypeOK
  <2>2. entered[s] + 1 \in 0..Len(Roots)
    BY <2>1
  <2>3. pc' \in [Scanners -> PCs]
    BY DEF TypeOK, PCs, Scanning
  <2>4. todo' \in [Scanners -> SUBSET Files]
    <3>. DEFINE here == {f \in Files \ AbsentFiles : RootOf[f] = Roots[entered[s] + 1]}
    <3>1. here \in SUBSET Files
      OBVIOUS
    <3>2. todo' = todo \/ todo' = [todo EXCEPT ![s] = here]
      BY Zenon
    <3>3. todo \in [Scanners -> SUBSET Files]
      BY DEF TypeOK
    <3>. HIDE DEF here, EnterRoot, IInv
    <3>. QED  BY <3>1, <3>2, <3>3
  <2>5. entered' \in [Scanners -> 0..Len(Roots)]
    BY <2>2 DEF TypeOK
  <2>. QED  BY <2>3, <2>4, <2>5 DEF TypeOK
<1>2. Active(s) /\ \A t \in Scanners \ {s} : pc'[t] = pc[t] /\ entered'[t] = entered[t] /\ todo'[t] = todo[t]
  BY DEF TypeOK, Active, Scanning
<1>3. pc'[s] \in {"walk", "error"}
  BY DEF TypeOK
<1>4. ScanOK(s)'
  <2>1. CASE pc'[s] = "error"
    BY <2>1, ErrorKeeps
  <2>2. CASE pc'[s] = "walk"
    <3>1. /\ pc[s] = "walk" /\ pc'[s] = "walk" /\ todo[s] = {}
          /\ entered'[s] = entered[s] + 1 /\ entered[s] \in Nat
          /\ todo'[s] = {f \in Files \ AbsentFiles : RootOf[f] = Roots[entered[s] + 1]}
      BY <2>2 DEF TypeOK
    <3>2. (Active(s)' <=> Active(s)) /\ (Calm' => Calm) /\ ScanOK(s)
      BY <1>2, <3>1 DEF Active, Scanning, Calm
    <3>3. CoverOK(s)'
      <4>1. ASSUME NEW f \in Files \ absent[s], Listed(f, s)'
            PROVE  f \in todo'[s] \cup seen[s]
        <5>1. PICK i \in 1..(entered[s] + 1) : RootOf[f] = Roots[i]
          BY <3>1, <4>1 DEF Listed
        <5>2. CASE i = entered[s] + 1
          BY <1>2, <3>1, <3>2, <5>1, <5>2 DEF ScanOK, CoverOK
        <5>3. CASE i \in 1..entered[s]
          BY <3>1, <3>2, <5>1, <5>3 DEF ScanOK, CoverOK, Listed, Walking
        <5>. QED  BY <3>1, <5>2, <5>3
      <4>. QED  BY <3>1, <3>2, <4>1 DEF ScanOK, CoverOK, Indexing, AbsentFiles
    <3>4. FreshOK(s)'
      BY <3>1, <3>2 DEF ScanOK, FreshOK, Indexing, AbsentFiles
    <3>5. SyncOK(s)'
      <4>1. \A f \in todo'[s] : disk[f] # None
        BY <3>1 DEF AbsentFiles
      <4>2. \A t \in Scanners \ {s} : Active(t)' <=> Active(t)
        BY <1>2 DEF Active
      <4>. QED  BY <3>1, <3>2, <4>1, <4>2 DEF ScanOK, SyncOK, Indexing
    <3>. QED  BY <3>3, <3>4, <3>5 DEF ScanOK
  <2>. QED  BY <1>3, <2>1, <2>2
<1>. QED  BY <1>1, <1>2, <1>3, <1>4, ScanKeeps

LEMMA VisitStep ==
  ASSUME IInv, NEW s \in Scanners, NEW f \in Files, Visit(s, f)
  PROVE  IInv'
<1>. USE DEF IInv, Visit, Goto, current, bounds, history
<1>1. TypeOK'
  <2>1. /\ pc' \in [Scanners -> PCs] /\ todo' \in [Scanners -> SUBSET Files]
        /\ seen' \in [Scanners -> SUBSET Files]
    BY DEF TypeOK, PCs, Scanning
  <2>2. file' \in [Scanners -> Files \cup {None}] /\ read' \in [Scanners -> Contents \cup {None}]
    BY DEF TypeOK
  <2>. QED  BY <2>1, <2>2 DEF TypeOK
<1>2. Active(s) /\ \A t \in Scanners \ {s} :
        /\ pc'[t] = pc[t] /\ todo'[t] = todo[t] /\ seen'[t] = seen[t]
        /\ file'[t] = file[t] /\ read'[t] = read[t]
  BY DEF TypeOK, Active, Scanning
<1>3. pc'[s] \in {"hash", "error"}
  BY DEF TypeOK
<1>4. ScanOK(s)'
  <2>1. CASE pc'[s] = "error"
    BY <2>1, ErrorKeeps
  <2>2. CASE pc'[s] = "hash"
    <3>1. /\ pc[s] = "walk" /\ f \in todo[s] /\ disk[f] # None /\ disk[f] \in Contents
          /\ todo'[s] = todo[s] \ {f} /\ seen'[s] = seen[s] \cup {f}
          /\ file'[s] = f /\ read'[s] = disk[f]
      BY <2>2 DEF TypeOK
    <3>2. (Active(s)' <=> Active(s)) /\ (Calm' => Calm) /\ ScanOK(s)
      BY <1>2, <2>2, <3>1 DEF Active, Scanning, Calm
    <3>3. CoverOK(s)'
      BY <2>2, <3>1, <3>2 DEF ScanOK, CoverOK, Listed, Walking, Indexing, AbsentFiles
    <3>4. FreshOK(s)'
      BY <2>2, <3>1, <3>2 DEF ScanOK, FreshOK, Indexing, AbsentFiles
    <3>5. SyncOK(s)'
      <4>1. \A t \in Scanners \ {s} : Active(t)' <=> Active(t)
        BY <1>2 DEF Active
      <4>. QED  BY <2>2, <3>1, <3>2, <4>1 DEF ScanOK, SyncOK, Walking, Indexing
    <3>. QED  BY <3>3, <3>4, <3>5 DEF ScanOK
  <2>. QED  BY <1>3, <2>1, <2>2
<1>. QED  BY <1>1, <1>2, <1>3, <1>4, ScanKeeps

\* A scan has put right the file it was indexing, and walks on.
LEMMA IndexedKeeps ==
  ASSUME IInv, NEW s \in Scanners, pc[s] \in Indexing,
         pc' = [pc EXCEPT ![s] = "walk"],
         UNCHANGED <<disk, walk, todo, current, bounds, history>>,
         \A f \in Files : f # file[s] => index'[f] = index[f],
         index'[file[s]] = read[s]
  PROVE  ScanOK(s)'
<1>. USE DEF IInv, walk, current, bounds, history
<1>1. ScanOK(s) /\ pc'[s] = "walk" /\ pc[s] # "ok"
  BY DEF TypeOK, Indexing
<1>2. /\ Active(s) /\ Active(s)' /\ (Calm' => Calm)
      /\ \A t \in Scanners \ {s} : Active(t)' <=> Active(t)
  BY <1>1 DEF Active, Scanning, Indexing, Calm, TypeOK
<1>3. CoverOK(s)'
  BY <1>1, <1>2 DEF ScanOK, CoverOK, Listed, Walking, Indexing, AbsentFiles
<1>4. FreshOK(s)'
  BY <1>1, <1>2 DEF ScanOK, FreshOK, Indexing, AbsentFiles
<1>5. SyncOK(s)'
  <2>. SUFFICES ASSUME clean[s] PROVE SyncOK(s)'
    BY DEF SyncOK
  <2>1. read[s] = disk[file[s]]
    BY <1>1, <1>2 DEF ScanOK, FreshOK
  <2>2. seen[s] \subseteq Files
    BY DEF TypeOK
  <2>3. \A f \in seen[s] : disk[f] # None /\ index'[f] = disk[f]
    BY <1>1, <1>2, <2>1, <2>2 DEF ScanOK, SyncOK
  <2>. QED  BY <1>1, <1>2, <2>3 DEF ScanOK, SyncOK, Walking, Indexing
<1>. QED  BY <1>3, <1>4, <1>5 DEF ScanOK

LEMMA CompareHashStep ==
  ASSUME IInv, NEW s \in Scanners, CompareHash(s)
  PROVE  IInv'
<1>. USE DEF IInv, CompareHash, Goto, walk, current, bounds, history
<1>1. TypeOK'
  BY DEF TypeOK, PCs, Scanning
<1>2. Active(s) /\ \A t \in Scanners \ {s} : pc'[t] = pc[t]
  BY DEF TypeOK, Active, Scanning
<1>3. pc'[s] \in {"walk", "upsert"} /\ pc[s] = "hash"
  BY DEF TypeOK
<1>4. ScanOK(s)'
  <2>1. CASE pc'[s] = "walk"
    <3>1. index[file[s]] = read[s] /\ pc' = [pc EXCEPT ![s] = "walk"]
      BY <2>1 DEF TypeOK
    <3>. QED  BY <1>3, <3>1, IndexedKeeps DEF Indexing
  <2>2. CASE pc'[s] = "upsert"
    <3>1. (Active(s)' <=> Active(s)) /\ (Calm' => Calm) /\ ScanOK(s)
      BY <1>2, <1>3, <2>2 DEF Active, Scanning, Calm
    <3>2. CoverOK(s)' /\ FreshOK(s)'
      BY <1>3, <2>2, <3>1
      DEF ScanOK, CoverOK, FreshOK, Listed, Walking, Indexing, AbsentFiles
    <3>3. SyncOK(s)'
      <4>1. \A t \in Scanners \ {s} : Active(t)' <=> Active(t)
        BY <1>2 DEF Active
      <4>. QED  BY <1>3, <2>2, <3>1, <4>1 DEF ScanOK, SyncOK, Walking, Indexing
    <3>. QED  BY <3>2, <3>3 DEF ScanOK
  <2>. QED  BY <1>3, <2>1, <2>2
<1>. QED  BY <1>1, <1>2, <1>3, <1>4, ScanKeeps

LEMMA UpsertStep ==
  ASSUME IInv, NEW s \in Scanners, Upsert(s)
  PROVE  IInv'
<1>. USE DEF IInv, Upsert, Goto, walk, current, bounds, history
<1>1. TypeOK'
  BY DEF TypeOK, PCs, Scanning
<1>2. Active(s) /\ \A t \in Scanners \ {s} : pc'[t] = pc[t]
  BY DEF TypeOK, Active, Scanning
<1>3. file[s] \in Files /\ pc[s] \in Indexing
  BY DEF ScanOK, CoverOK, Indexing
<1>4. ScanOK(s)' /\ pc'[s] = "walk"
  BY <1>3, IndexedKeeps DEF TypeOK
<1>5. Calm => index' = index
  <2>. SUFFICES ASSUME Calm PROVE index' = index
    OBVIOUS
  <2>1. read[s] = disk[file[s]]
    BY <1>2, <1>3 DEF ScanOK, FreshOK
  <2>. QED  BY <1>3, <2>1 DEF InSync, TypeOK
<1>. QED  BY <1>1, <1>2, <1>4, <1>5, ScanKeeps

LEMMA ListPathsStep ==
  ASSUME IInv, NEW s \in Scanners, ListPaths(s)
  PROVE  IInv'
<1>. USE DEF IInv, ListPaths, Goto, walk, current, bounds, history
<1>1. TypeOK'
  BY DEF TypeOK, PCs, Scanning
<1>2. Active(s) /\ \A t \in Scanners \ {s} : pc'[t] = pc[t] /\ todo'[t] = todo[t]
  BY DEF TypeOK, Active, Scanning
<1>3. /\ pc'[s] = "remove" /\ pc[s] = "walk" /\ todo[s] = {}
      /\ todo'[s] = {f \in Files : index[f] # None} \ seen[s]
  BY DEF TypeOK
<1>4. (Active(s)' <=> Active(s)) /\ (Calm' => Calm) /\ ScanOK(s)
  BY <1>2, <1>3 DEF Active, Scanning, Calm
<1>5. Files \ absent[s] \subseteq seen[s]
  <2>1. \A f \in Files : Listed(f, s)
    BY Assumptions DEF Listed
  <2>. QED  BY <1>3, <1>4, <2>1 DEF ScanOK, CoverOK, Walking
<1>6. CoverOK(s)'
  BY <1>3, <1>4, <1>5 DEF ScanOK, CoverOK, Walking, Indexing, AbsentFiles
<1>7. FreshOK(s)'
  BY <1>3, <1>4 DEF ScanOK, FreshOK, Indexing, AbsentFiles
<1>8. SyncOK(s)'
  <2>1. \A t \in Scanners \ {s} : Active(t)' <=> Active(t)
    BY <1>2 DEF Active
  <2>. QED  BY <1>3, <1>4, <2>1 DEF ScanOK, SyncOK, Walking, Indexing
<1>. QED  BY <1>1, <1>2, <1>3, <1>6, <1>7, <1>8, ScanKeeps DEF ScanOK

LEMMA RemoveStep ==
  ASSUME IInv, NEW s \in Scanners, NEW f \in Files, Remove(s, f)
  PROVE  IInv'
<1>. USE DEF IInv, Remove, walk, current, bounds, history
<1>1. TypeOK'
  BY DEF TypeOK
<1>2. Active(s) /\ \A t \in Scanners \ {s} : todo'[t] = todo[t]
  BY DEF TypeOK, Active, Scanning
<1>3. /\ pc[s] = "remove" /\ f \in todo[s] /\ todo'[s] = todo[s] \ {f}
      /\ \A g \in Files : index'[g] = IF g = f THEN None ELSE index[g]
  BY DEF TypeOK
<1>4. (Active(s)' <=> Active(s)) /\ (Calm' <=> Calm) /\ ScanOK(s)
  BY DEF Active, Calm
<1>5. f \in absent[s]
  BY <1>3, <1>4 DEF ScanOK, CoverOK
<1>6. CoverOK(s)' /\ FreshOK(s)'
  BY <1>3, <1>4 DEF ScanOK, CoverOK, FreshOK, Walking, Indexing, AbsentFiles
<1>7. SyncOK(s)'
  <2>. SUFFICES ASSUME clean[s] PROVE SyncOK(s)'
    BY DEF SyncOK
  <2>1. disk[f] = None
    BY <1>2, <1>4, <1>5 DEF ScanOK, FreshOK, AbsentFiles
  <2>2. seen[s] \subseteq Files /\ f \notin seen[s]
    BY <1>2, <1>4, <2>1 DEF ScanOK, SyncOK, TypeOK
  <2>3. \A t \in Scanners \ {s} : Active(t)' <=> Active(t)
    BY DEF Active
  <2>. QED  BY <1>2, <1>3, <1>4, <2>2, <2>3 DEF ScanOK, SyncOK, Walking, Indexing
<1>8. Calm => index' = index
  <2>. SUFFICES ASSUME Calm PROVE index' = index
    OBVIOUS
  <2>1. disk[f] = None
    BY <1>2, <1>4, <1>5 DEF ScanOK, FreshOK, AbsentFiles
  <2>2. index[f] = None
    BY <2>1 DEF InSync
  <2>. QED  BY <2>2 DEF TypeOK
<1>. QED  BY <1>1, <1>2, <1>3, <1>6, <1>7, <1>8, ScanKeeps DEF ScanOK

LEMMA FinishStep ==
  ASSUME IInv, NEW s \in Scanners, Finish(s)
  PROVE  IInv'
<1>. USE DEF IInv, Finish, Goto, walk, current, bounds, history
<1>1. TypeOK'
  BY DEF TypeOK, PCs, Scanning
<1>2. Active(s) /\ \A t \in Scanners \ {s} : pc'[t] = pc[t]
  BY DEF TypeOK, Active, Scanning
<1>3. pc[s] = "remove" /\ todo[s] = {} /\ pc'[s] = "ok" /\ ScanOK(s)
  BY DEF TypeOK
<1>4. Calm' => Calm \/ clean[s]
  BY <1>2 DEF Calm
<1>5. \A t \in Scanners \ {s} : ScanOK(t)'
  BY <1>2, <1>4, OthersKeep
<1>6. ScanOK(s)'
  BY <1>3 DEF ScanOK, CoverOK, FreshOK, SyncOK, Active, Scanning, Walking, Indexing
<1>7. clean[s] => InSync
  <2>1. ASSUME clean[s], NEW f \in Files
        PROVE  index[f] = disk[f]
    <3>1. CASE f \in seen[s]
      BY <1>2, <1>3, <2>1, <3>1 DEF ScanOK, SyncOK, Indexing
    <3>2. CASE f \notin seen[s]
      <4>1. disk[f] = None
        BY <1>2, <1>3, <2>1, <3>2 DEF ScanOK, CoverOK, FreshOK, AbsentFiles
      <4>2. index[f] = None
        BY <1>2, <1>3, <2>1, <3>2 DEF ScanOK, SyncOK
      <4>. QED  BY <4>1, <4>2
    <3>. QED  BY <3>1, <3>2
  <2>. QED  BY <2>1 DEF InSync, TypeOK
<1>8. Calm' => InSync'
  BY <1>4, <1>7 DEF InSync
<1>. QED  BY <1>1, <1>5, <1>6, <1>8

LEMMA FaultStep ==
  ASSUME IInv, NEW s \in Scanners, Fault(s)
  PROVE  IInv'
<1>. USE DEF IInv, Fault, Goto, walk, current, history
<1>1. TypeOK'
  <2>1. troubles' \in 0..MaxTroubles
    BY Assumptions DEF TypeOK
  <2>. QED  BY <2>1 DEF TypeOK, PCs
<1>2. pc'[s] = "error" /\ \A t \in Scanners \ {s} : pc'[t] = pc[t]
  BY DEF TypeOK
<1>. QED  BY <1>1, <1>2, ErrorKeeps, ScanKeeps

LEMMA CrashStep ==
  ASSUME IInv, Crash
  PROVE  IInv'
<1>. USE DEF IInv, Crash, walk, current, history
<1>1. TypeOK'
  <2>1. troubles' \in 0..MaxTroubles
    BY Assumptions DEF TypeOK
  <2>2. pc' \in [Scanners -> PCs]
    BY DEF TypeOK, PCs
  <2>. QED  BY <2>1, <2>2 DEF TypeOK
<1>2. \A s \in Scanners : ~Active(s)' /\ (pc'[s] = "ok" => pc[s] = "ok")
  BY DEF Active, Scanning
<1>3. \A s \in Scanners : ScanOK(s)'
  BY <1>2 DEF ScanOK, CoverOK, FreshOK, SyncOK, Active, Scanning, Walking, Indexing
<1>4. Calm' => InSync'
  BY <1>2 DEF Calm, InSync
<1>. QED  BY <1>1, <1>3, <1>4

-----------------------------------------------------------------------------
LEMMA InitInv == Init => IInv
<1>. SUFFICES ASSUME Init PROVE IInv
  OBVIOUS
<1>1. TypeOK
  <2>1. 0 \in 0..Len(Roots) /\ 0 \in 0..MaxEdits /\ 0 \in 0..MaxTroubles
    BY Assumptions
  <2>. QED  BY <2>1 DEF Init, TypeOK, PCs
<1>2. \A s \in Scanners : pc[s] = "idle"
  BY DEF Init
<1>3. \A s \in Scanners : ScanOK(s)
  BY <1>2 DEF ScanOK, CoverOK, FreshOK, SyncOK, Active, Scanning, Walking, Indexing
<1>4. ~Calm
  BY <1>2 DEF Calm
<1>. QED  BY <1>1, <1>3, <1>4 DEF IInv

LEMMA NextInv == IInv /\ [Next]_vars => IInv'
<1>. SUFFICES ASSUME IInv, [Next]_vars PROVE IInv'
  OBVIOUS
<1>1. CASE \E f \in Files, content \in Contents \cup {None} : Edit(f, content)
  BY <1>1, EditStep
<1>2. ASSUME NEW s \in Scanners, Begin(s)
      PROVE  IInv'
  BY <1>2, BeginStep
<1>3. ASSUME NEW s \in Scanners, Scan(s)
      PROVE  IInv'
  BY <1>3, EnterRootStep, VisitStep, CompareHashStep, UpsertStep,
     ListPathsStep, RemoveStep, FinishStep DEF Scan
<1>4. ASSUME NEW s \in Scanners, Fault(s)
      PROVE  IInv'
  BY <1>4, FaultStep
<1>5. CASE Crash
  BY <1>5, CrashStep
<1>6. CASE UNCHANGED vars
  BY <1>6 DEF vars, walk, current, bounds, history, IInv, TypeOK, Calm, InSync, ScanOK,
     CoverOK, FreshOK, SyncOK, Active, Listed, AbsentFiles
<1>. QED  BY <1>1, <1>2, <1>3, <1>4, <1>5, <1>6 DEF Next

\* The inductive invariant holds throughout.
THEOREM Invariance == Spec => []IInv
<1>. QED  BY InitInv, NextInv, PTL DEF Spec

-----------------------------------------------------------------------------
\* The state of the files, the rows and the scans is always of its type.
THEOREM TypeCorrect == Spec => []TypeOK
<1>1. IInv => TypeOK
  BY DEF IInv
<1>. QED  BY <1>1, Invariance, PTL

\* A scan that no edit and no other scan disturbed leaves the index equal to
\* the files, until one changes (ScanOnce).
THEOREM CleanScansSync == Spec => []CleanScanSyncs
<1>1. IInv => CleanScanSyncs
  BY DEF IInv, Calm, CleanScanSyncs
<1>. QED  BY <1>1, Invariance, PTL

LEMMA KeepsRows ==
  ASSUME IInv, [Next]_vars, NEW f \in Files, index[f] # None, index'[f] = None
  PROVE  \E s \in Scanners : /\ pc[s] = "remove"
                             /\ f \in todo[s] \ todo'[s]
                             /\ f \in absent[s]
<1>. SUFFICES ASSUME NEW s \in Scanners,
                     Upsert(s) \/ \E g \in Files : Remove(s, g)
              PROVE  /\ pc[s] = "remove"
                     /\ f \in todo[s] \ todo'[s]
                     /\ f \in absent[s]
  BY DEF Next, Scan, vars, Edit, Begin, EnterRoot, Visit, CompareHash, ListPaths,
     Finish, Fault, Crash
<1>1. CoverOK(s) /\ TypeOK
  BY DEF IInv, ScanOK
<1>2. ~Upsert(s)
  <2>. SUFFICES ASSUME Upsert(s) PROVE FALSE
    OBVIOUS
  <2>1. read[s] \in Contents
    BY <1>1 DEF Upsert, CoverOK, Indexing
  <2>2. read[s] # None
    BY <2>1, Assumptions
  <2>3. index'[f] = IF f = file[s] THEN read[s] ELSE index[f]
    BY <1>1 DEF Upsert, TypeOK
  <2>. QED  BY <2>2, <2>3
<1>3. PICK g \in Files : Remove(s, g)
  BY <1>2
<1>4. f = g
  BY <1>1, <1>3 DEF Remove, TypeOK
<1>. QED  BY <1>1, <1>3, <1>4 DEF Remove, CoverOK, TypeOK

\* A scan takes away no row of a file that existed as long as the scan did,
\* whatever other scans and edits do meanwhile (removeMissing).
THEOREM RowsAreKept == Spec => PresentFilesKeepRows
<1>1. IInv /\ [Next]_vars =>
        [\A f \in Files :
           index[f] # None /\ index'[f] = None =>
             \E s \in Scanners : /\ pc[s] = "remove"
                                 /\ f \in todo[s] \ todo'[s]
                                 /\ f \in absent[s]]_vars
  BY KeepsRows
<1>. QED  BY <1>1, Invariance, PTL DEF Spec, PresentFilesKeepRows

-----------------------------------------------------------------------------
(* What of Converges is safety: while the files stay as they are, scans    *)
(* put the index right, however they overlap, and keep it right.           *)

\* No scan under way has anything from before the last edit in its hands.
Fresh ==
  \A s \in Scanners :
    Active(s) =>
      /\ absent[s] = AbsentFiles
      /\ pc[s] \in Indexing => read[s] = disk[file[s]]

\* The rows of all files that the scan is done with are right.
OnTrack(s) ==
  /\ Active(s)
  /\ \A f \in seen[s] : index[f] = disk[f] \/ (pc[s] \in Indexing /\ f = file[s])
  /\ pc[s] = "remove" => \A f \in Files \ seen[s] : index[f] = disk[f] \/ f \in todo[s]

Aborted(s) == pc[s] \in {"idle", "error"}

\* What a step does that is not the scan's own.
LEMMA OtherSteps ==
  ASSUME IInv, NEW s \in Scanners, [Next]_vars, disk' = disk, ~Begin(s), ~Scan(s)
  PROVE  \/ Aborted(s)' /\ UNCHANGED seen
         \/ /\ pc'[s] = pc[s] /\ seen'[s] = seen[s] /\ todo'[s] = todo[s]
            /\ file'[s] = file[s] /\ read'[s] = read[s] /\ absent'[s] = absent[s]
<1>. USE DEF IInv, TypeOK, walk, current, bounds, history, Goto
<1>1. ~\E f \in Files, content \in Contents \cup {None} : Edit(f, content)
  BY DEF Edit
<1>2. CASE UNCHANGED vars
  BY <1>2 DEF vars
<1>3. CASE Crash
  BY <1>3 DEF Crash, Aborted
<1>4. CASE Fault(s)
  BY <1>4 DEF Fault, Aborted
<1>5. ASSUME NEW t \in Scanners \ {s}, Begin(t) \/ Scan(t) \/ Fault(t)
      PROVE  /\ pc'[s] = pc[s] /\ seen'[s] = seen[s] /\ todo'[s] = todo[s]
             /\ file'[s] = file[s] /\ read'[s] = read[s] /\ absent'[s] = absent[s]
  <2>1. CASE Begin(t)
    BY <2>1 DEF Begin
  <2>2. CASE Fault(t)
    BY <2>2 DEF Fault
  <2>3. CASE EnterRoot(t) \/ \E f \in Files : Visit(t, f)
    BY <2>3 DEF EnterRoot, Visit
  <2>4. CASE \/ CompareHash(t) \/ Upsert(t) \/ ListPaths(t) \/ Finish(t)
             \/ \E f \in Files : Remove(t, f)
    BY <2>4 DEF CompareHash, Upsert, ListPaths, Remove, Finish
  <2>. QED  BY <1>5, <2>1, <2>2, <2>3, <2>4 DEF Scan
<1>. QED  BY <1>1, <1>2, <1>3, <1>4, <1>5 DEF Next

LEMMA FreshStays ==
  ASSUME IInv, Fresh, [Next]_vars, disk' = disk
  PROVE  Fresh'
<1>. SUFFICES ASSUME NEW s \in Scanners, Active(s)'
              PROVE  /\ absent'[s] = AbsentFiles
                     /\ pc'[s] \in Indexing => read'[s] = disk[file'[s]]
  BY DEF Fresh, AbsentFiles
<1>. USE DEF walk, current, bounds, history, Goto
<1>1. TypeOK
  BY DEF IInv
<1>2. CASE Begin(s)
  BY <1>1, <1>2 DEF Begin, TypeOK, Indexing
<1>3. CASE Scan(s)
  <2>1. Active(s)
    BY <1>3 DEF Scan, EnterRoot, Visit, CompareHash, Upsert, ListPaths, Remove, Finish,
       Active, Scanning
  <2>2. absent'[s] = AbsentFiles
    BY <1>3, <2>1 DEF Fresh, Scan, EnterRoot, Visit, CompareHash, Upsert, ListPaths,
       Remove, Finish
  <2>3. CASE \E f \in Files : Visit(s, f)
    <3>1. PICK f \in Files : Visit(s, f)
      BY <2>3
    <3>2. pc'[s] = "error" \/ (file'[s] = f /\ read'[s] = disk[f])
      BY <1>1, <3>1 DEF Visit, TypeOK
    <3>. QED  BY <2>2, <3>2 DEF Indexing
  <2>4. CASE CompareHash(s)
    BY <1>1, <2>1, <2>4 DEF CompareHash, TypeOK, Indexing, Fresh
  <2>5. CASE EnterRoot(s) \/ Upsert(s) \/ ListPaths(s) \/ Finish(s) \/ \E f \in Files : Remove(s, f)
    <3>1. pc'[s] \in {"walk", "error", "remove", "ok"}
      BY <1>1, <2>5 DEF EnterRoot, Upsert, ListPaths, Remove, Finish, TypeOK
    <3>. QED  BY <2>2, <3>1 DEF Indexing
  <2>. QED  BY <1>3, <2>2, <2>3, <2>4, <2>5 DEF Scan
<1>4. CASE ~Begin(s) /\ ~Scan(s)
  BY <1>4, OtherSteps DEF Fresh, Active, Aborted, Scanning
<1>. QED  BY <1>2, <1>3, <1>4

\* Whatever is written to the index is what the files hold.
LEMMA FreshWritesTrue ==
  ASSUME IInv, Fresh, [Next]_vars, disk' = disk, NEW f \in Files
  PROVE  index'[f] = index[f] \/ index'[f] = disk[f]
<1>. USE DEF walk, current, bounds, history, Goto
<1>1. TypeOK /\ \A s \in Scanners : CoverOK(s)
  BY DEF IInv, ScanOK
<1>2. ASSUME NEW s \in Scanners, Upsert(s)
      PROVE  index'[f] = index[f] \/ index'[f] = disk[f]
  BY <1>1, <1>2 DEF Upsert, TypeOK, Fresh, Active, Scanning, Indexing
<1>3. ASSUME NEW s \in Scanners, NEW g \in Files, Remove(s, g)
      PROVE  index'[f] = index[f] \/ index'[f] = disk[f]
  <2>1. disk[g] = None
    BY <1>1, <1>3 DEF Remove, CoverOK, Fresh, Active, Scanning, AbsentFiles
  <2>. QED  BY <1>1, <1>3, <2>1 DEF Remove, TypeOK
<1>4. CASE index' = index
  BY <1>4
<1>5. \/ index' = index
      \/ \E s \in Scanners : Upsert(s) \/ \E g \in Files : Remove(s, g)
  BY DEF Next, Scan, vars, Edit, Begin, EnterRoot, Visit, CompareHash, ListPaths,
     Finish, Fault, Crash
<1>. QED  BY <1>2, <1>3, <1>4, <1>5

\* A scan starts on its track, and keeps to it until it ends; if it ends
\* well, every row is right.
LEMMA TrackKept ==
  ASSUME IInv, Fresh, [Next]_vars, disk' = disk, NEW s \in Scanners
  PROVE  /\ ~Active(s) /\ Active(s)' => OnTrack(s)'
         /\ OnTrack(s) => OnTrack(s)' \/ Aborted(s)' \/ (pc'[s] = "ok" /\ InSync')
<1>. USE DEF walk, current, bounds, history, Goto
<1>1. TypeOK /\ TypeOK' /\ CoverOK(s) /\ CoverOK(s)'
  BY NextInv DEF IInv, ScanOK
<1>2. \A f \in Files : index[f] = disk[f] => index'[f] = disk[f]
  BY FreshWritesTrue
<1>3. seen[s] \subseteq Files /\ seen'[s] \subseteq Files
  BY <1>1 DEF TypeOK
<1>4. CASE Begin(s)
  <2>1. ~Active(s) /\ pc'[s] = "walk" /\ seen'[s] = {}
    BY <1>1, <1>4 DEF Begin, Active, Scanning, TypeOK
  <2>. QED  BY <2>1 DEF OnTrack, Active, Scanning
<1>5. CASE ~Begin(s) /\ ~Scan(s)
  BY <1>2, <1>3, <1>5, OtherSteps DEF OnTrack, Active, Aborted, Scanning
<1>6. CASE Scan(s)
  <2>1. Active(s)
    BY <1>6 DEF Scan, EnterRoot, Visit, CompareHash, Upsert, ListPaths, Remove, Finish,
       Active, Scanning
  <2>. SUFFICES ASSUME OnTrack(s)
                PROVE  OnTrack(s)' \/ Aborted(s)' \/ (pc'[s] = "ok" /\ InSync')
    BY <2>1
  <2>2. CASE EnterRoot(s)
    <3>1. pc[s] = "walk" /\ pc'[s] \in {"walk", "error"} /\ seen' = seen
      BY <1>1, <2>2 DEF EnterRoot, TypeOK
    <3>. QED  BY <1>2, <1>3, <3>1 DEF OnTrack, Active, Scanning, Indexing, Aborted
  <2>3. CASE \E f \in Files : Visit(s, f)
    <3>1. PICK f \in Files : Visit(s, f)
      BY <2>3
    <3>2. /\ pc[s] = "walk" /\ seen'[s] = seen[s] \cup {f}
          /\ pc'[s] = "error" \/ (pc'[s] = "hash" /\ file'[s] = f)
      BY <1>1, <3>1 DEF Visit, TypeOK
    <3>. QED  BY <1>2, <1>3, <3>2 DEF OnTrack, Active, Scanning, Indexing, Aborted
  <2>4. CASE CompareHash(s) \/ Upsert(s)
    <3>1. /\ pc[s] \in Indexing /\ pc'[s] \in {"walk", "upsert"}
          /\ seen' = seen /\ file' = file /\ file[s] \in Files
          /\ pc'[s] = "walk" => index'[file[s]] = read[s]
      BY <1>1, <2>4 DEF CompareHash, Upsert, TypeOK, Indexing, CoverOK
    <3>2. read[s] = disk[file[s]]
      BY <2>1, <3>1 DEF Fresh
    <3>. QED  BY <1>2, <1>3, <3>1, <3>2 DEF OnTrack, Active, Scanning, Indexing
  <2>5. CASE ListPaths(s)
    <3>1. /\ pc[s] = "walk" /\ pc'[s] = "remove" /\ seen' = seen /\ index' = index
          /\ todo'[s] = {f \in Files : index[f] # None} \ seen[s]
          /\ absent'[s] = absent[s]
      BY <1>1, <2>5 DEF ListPaths, TypeOK
    <3>2. \A f \in Files \ seen[s] : disk[f] = None
      BY <1>1, <2>1, <3>1 DEF CoverOK, Fresh, AbsentFiles
    <3>. QED  BY <1>3, <3>1, <3>2 DEF OnTrack, Active, Scanning, Indexing
  <2>6. CASE \E f \in Files : Remove(s, f)
    <3>1. PICK f \in Files : Remove(s, f)
      BY <2>6
    <3>2. /\ pc[s] = "remove" /\ pc' = pc /\ seen' = seen /\ f \in todo[s]
          /\ todo'[s] = todo[s] \ {f} /\ index'[f] = None
      BY <1>1, <3>1 DEF Remove, TypeOK
    <3>3. disk[f] = None
      BY <1>1, <2>1, <3>2 DEF CoverOK, Fresh, AbsentFiles
    <3>. QED  BY <1>2, <1>3, <3>2, <3>3 DEF OnTrack, Active, Scanning, Indexing
  <2>7. CASE Finish(s)
    <3>1. pc[s] = "remove" /\ pc'[s] = "ok" /\ todo[s] = {} /\ index' = index
      BY <1>1, <2>7 DEF Finish, TypeOK
    <3>2. \A f \in Files : index[f] = disk[f]
      BY <3>1 DEF OnTrack, Indexing
    <3>. QED  BY <1>1, <3>1, <3>2 DEF InSync, TypeOK
  <2>. QED  BY <1>6, <2>2, <2>3, <2>4, <2>5, <2>6, <2>7 DEF Scan
<1>. QED  BY <1>4, <1>5, <1>6

\* While no file changes and no scan is from before the last change, a scan
\* that ends well leaves the index right, though others overlap with it, and
\* no scan, failure or kill spoils an index that is right (ScanOnce).
THEOREM QuietScansSync ==
  Spec => [][Fresh /\ disk' = disk =>
               /\ Fresh'
               /\ InSync => InSync'
               /\ \A s \in Scanners :
                    /\ ~Active(s) /\ Active(s)' => OnTrack(s)'
                    /\ OnTrack(s) =>
                         OnTrack(s)' \/ Aborted(s)' \/ (pc'[s] = "ok" /\ InSync')]_vars
<1>1. ASSUME IInv, Fresh, [Next]_vars, disk' = disk, InSync
      PROVE  InSync'
  <2>1. \A f \in Files : index'[f] = disk[f]
    BY <1>1, FreshWritesTrue DEF InSync
  <2>. QED  BY <1>1, <2>1, NextInv DEF InSync, IInv, TypeOK
<1>2. IInv /\ [Next]_vars =>
        [Fresh /\ disk' = disk =>
               /\ Fresh'
               /\ InSync => InSync'
               /\ \A s \in Scanners :
                    /\ ~Active(s) /\ Active(s)' => OnTrack(s)'
                    /\ OnTrack(s) =>
                         OnTrack(s)' \/ Aborted(s)' \/ (pc'[s] = "ok" /\ InSync')]_vars
  BY <1>1, FreshStays, TrackKept
<1>. QED  BY <1>2, Invariance, PTL DEF Spec

\* Once the index is right and the scans are from after the last change, it
\* stays right as long as the files stay: the "stays so" of Converges.
THEOREM SyncStays ==
  Spec => [](Fresh /\ InSync /\ [][disk' = disk]_vars => []InSync)
<1>1. ASSUME IInv, [Next]_vars, [disk' = disk]_vars, Fresh, InSync
      PROVE  Fresh' /\ InSync'
  <2>1. disk' = disk
    BY <1>1 DEF vars
  <2>2. \A f \in Files : index'[f] = disk[f]
    BY <1>1, <2>1, FreshWritesTrue DEF InSync
  <2>3. InSync'
    BY <1>1, <2>1, <2>2, NextInv DEF InSync, IInv, TypeOK
  <2>. QED  BY <1>1, <2>1, <2>3, FreshStays
<1>. QED  BY <1>1, Invariance, PTL DEF Spec

-----------------------------------------------------------------------------
(* A watched directory that does not exist.                                *)

\* No scan gets past a missing directory, let alone to removeMissing.
StuckAtMissing ==
  \A i \in 1..Len(Roots) :
    Roots[i] \in Missing => \A s \in Scanners : entered[s] < i /\ pc[s] \notin {"remove", "ok"}

\* How far a scan is, after a step that is not its own.
LEMMA OtherProgress ==
  ASSUME IInv, NEW s \in Scanners, [Next]_vars, ~Begin(s), ~Scan(s)
  PROVE  entered'[s] = entered[s] /\ (pc'[s] = pc[s] \/ Aborted(s)')
<1>. USE DEF IInv, TypeOK, walk, current, bounds, history, Goto
<1>1. CASE \E f \in Files, content \in Contents \cup {None} : Edit(f, content)
  BY <1>1 DEF Edit
<1>2. CASE UNCHANGED vars
  BY <1>2 DEF vars
<1>3. CASE Crash
  BY <1>3 DEF Crash, Aborted
<1>4. CASE Fault(s)
  BY <1>4 DEF Fault, Aborted
<1>5. ASSUME NEW t \in Scanners \ {s}, Begin(t) \/ Scan(t) \/ Fault(t)
      PROVE  entered'[s] = entered[s] /\ pc'[s] = pc[s]
  <2>1. CASE Begin(t) \/ Fault(t)
    BY <2>1 DEF Begin, Fault
  <2>2. CASE EnterRoot(t) \/ \E f \in Files : Visit(t, f)
    BY <2>2 DEF EnterRoot, Visit
  <2>3. CASE \/ CompareHash(t) \/ Upsert(t) \/ ListPaths(t) \/ Finish(t)
             \/ \E f \in Files : Remove(t, f)
    BY <2>3 DEF CompareHash, Upsert, ListPaths, Remove, Finish
  <2>. QED  BY <1>5, <2>1, <2>2, <2>3 DEF Scan
<1>. QED  BY <1>1, <1>2, <1>3, <1>4, <1>5 DEF Next

\* If one watched directory is missing, as the last one of config/mouse.yaml
\* is, no scan ever succeeds.
THEOREM ScansStop == Spec => []StuckAtMissing
<1>. USE DEF walk, current, bounds, history, Goto
<1>1. Init => StuckAtMissing
  BY DEF Init, StuckAtMissing
<1>2. ASSUME IInv, StuckAtMissing, [Next]_vars
      PROVE  StuckAtMissing'
  <2>. SUFFICES ASSUME NEW i \in 1..Len(Roots), Roots[i] \in Missing, NEW s \in Scanners
                PROVE  entered'[s] < i /\ pc'[s] \notin {"remove", "ok"}
    BY DEF StuckAtMissing
  <2>1. /\ TypeOK /\ Len(Roots) \in Nat /\ entered[s] \in Nat
        /\ entered[s] < i /\ pc[s] \notin {"remove", "ok"}
    BY <1>2, Assumptions DEF IInv, TypeOK, StuckAtMissing
  <2>2. CASE EnterRoot(s)
    <3>1. Roots[entered[s] + 1] \in Missing \/ entered[s] + 1 < i
      BY <2>1
    <3>2. /\ entered'[s] = entered[s] \/ (Roots[entered[s] + 1] \notin Missing
                                        /\ entered'[s] = entered[s] + 1)
          /\ pc'[s] \in {"walk", "error"}
      BY <2>1, <2>2 DEF EnterRoot, TypeOK
    <3>. QED  BY <2>1, <3>1, <3>2
  <2>3. ~ListPaths(s) /\ ~Finish(s) /\ \A f \in Files : ~Remove(s, f)
    BY <2>1 DEF ListPaths, Finish, Remove
  <2>4. CASE Begin(s)
    BY <2>1, <2>4 DEF Begin, TypeOK
  <2>5. CASE CompareHash(s) \/ Upsert(s) \/ \E f \in Files : Visit(s, f)
    BY <2>1, <2>5 DEF CompareHash, Upsert, Visit, TypeOK
  <2>6. CASE ~Begin(s) /\ ~Scan(s)
    BY <1>2, <2>1, <2>6, OtherProgress DEF Aborted
  <2>. QED  BY <2>2, <2>3, <2>4, <2>5, <2>6 DEF Scan
<1>. QED  BY <1>1, <1>2, Invariance, PTL DEF Spec

\* Then the row of a file that is gone stays for ever (removeMissing).
THEOREM MissingRootKeepsRows ==
  ASSUME NEW i \in 1..Len(Roots), Roots[i] \in Missing
  PROVE  Spec => [][\A f \in Files : index[f] # None => index'[f] # None]_vars
<1>1. IInv /\ StuckAtMissing /\ [Next]_vars =>
        [\A f \in Files : index[f] # None => index'[f] # None]_vars
  BY KeepsRows DEF StuckAtMissing
<1>. QED  BY <1>1, Invariance, ScansStop, PTL DEF Spec
=============================================================================
