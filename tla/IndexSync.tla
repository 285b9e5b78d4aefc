------------------------------- MODULE IndexSync -------------------------------
(***************************************************************************)
(* indexer.Indexer keeps index_entries in step with the watched Markdown   *)
(* files. A worker scans every ten seconds, and each POST /index/reindex   *)
(* scans too, in its own goroutine: nothing keeps scans from overlapping,  *)
(* and the files change under them (the sessions are watched files).       *)
(* A scan is ScanOnce, one action per directory read, per file read and    *)
(* per database call.                                                      *)
(***************************************************************************)
EXTENDS Naturals, Sequences

CONSTANTS
  Roots,       \* index.watch.paths, in order
  Missing,     \* watched directories that do not exist
  Files,       \* paths of Markdown files, in existing directories
  RootOf,      \* the directory of each
  Contents,    \* what a file may contain, told apart by the content hash
  None,        \* no file; no row
  Worker,      \* the goroutine of Indexer.Start
  Requests,    \* the reindex requests of a behaviour
  MaxEdits,    \* bound: changes of files
  MaxTroubles  \* bound: failed calls and kills of the process

ASSUME IndexAssumption ==
  /\ Roots \in Seq({Roots[i] : i \in 1..Len(Roots)})
  /\ RootOf \in [Files -> {Roots[i] : i \in 1..Len(Roots)} \ Missing]
  /\ None \notin Contents
  /\ Worker \notin Requests
  /\ MaxEdits \in Nat
  /\ MaxTroubles \in Nat

Scanners == {Worker} \cup Requests

VARIABLES
  disk,      \* the content of each file
  index,     \* the content in each file's row
  pc,        \* the next step of each scan
  entered,   \* how many roots the scan has entered
  todo,      \* files it has listed and not visited, or rows it will delete
  seen,      \* files it has visited
  file,      \* the file it is indexing
  read,      \* what it has read from that file
  edits,     \* changes of files so far
  troubles,  \* failed calls and kills so far
  clean,     \* history: no file changed and no other scan ran during the scan
  absent     \* history: files that did not exist at some time of the scan

vars == <<disk, index, pc, entered, todo, seen, file, read,
          edits, troubles, clean, absent>>
walk == <<entered, seen>>
current == <<file, read>>
bounds == <<edits, troubles>>
history == <<clean, absent>>

Scanning == {"walk", "hash", "upsert", "list", "remove"}
PCs == {"idle", "ok", "error"} \cup Scanning

Active(s) == pc[s] \in Scanning
Goto(s, step) == pc' = [pc EXCEPT ![s] = step]

AbsentFiles == {f \in Files : disk[f] = None}

\* The process starts with the index an earlier one left behind.
Init ==
  /\ disk \in [Files -> Contents \cup {None}]
  /\ index \in [Files -> Contents \cup {None}]
  /\ pc = [s \in Scanners |-> "idle"]
  /\ entered = [s \in Scanners |-> 0]
  /\ todo = [s \in Scanners |-> {}]
  /\ seen = [s \in Scanners |-> {}]
  /\ file = [s \in Scanners |-> None]
  /\ read = [s \in Scanners |-> None]
  /\ edits = 0
  /\ troubles = 0
  /\ clean = [s \in Scanners |-> FALSE]
  /\ absent = [s \in Scanners |-> {}]

-----------------------------------------------------------------------------
\* A file is created, changed or removed: by a session append, by an editor.
Edit(f, content) ==
  /\ edits < MaxEdits
  /\ content # disk[f]
  /\ disk' = [disk EXCEPT ![f] = content]
  /\ edits' = edits + 1
  /\ clean' = [s \in Scanners |-> FALSE]
  /\ absent' = [s \in Scanners |->
                  IF content = None THEN absent[s] \cup {f} ELSE absent[s]]
  /\ UNCHANGED <<index, pc, walk, todo, current, troubles>>

-----------------------------------------------------------------------------
(* ScanOnce *)

\* Mutant: the worker's loop ends with the first scan that fails.
Begin_StopsOnError(s) ==
  /\ pc[s] = "idle" \/ (s = Worker /\ pc[s] = "ok")
  /\ Goto(s, "walk")
  /\ entered' = [entered EXCEPT ![s] = 0]
  /\ todo' = [todo EXCEPT ![s] = {}]
  /\ seen' = [seen EXCEPT ![s] = {}]
  /\ clean' = [t \in Scanners |->
       IF t = s THEN \A o \in Scanners \ {s} : ~Active(o)
       ELSE clean[t] /\ ~Active(t)]
  /\ absent' = [absent EXCEPT ![s] = AbsentFiles]
  /\ UNCHANGED <<disk, index, current, bounds>>

\* A request scans once; the worker's ticker starts a scan after the other,
\* whatever became of the one before.
Begin(s) ==
  /\ pc[s] = "idle" \/ (s = Worker /\ pc[s] \in {"ok", "error"})
  /\ Goto(s, "walk")
  /\ entered' = [entered EXCEPT ![s] = 0]
  /\ todo' = [todo EXCEPT ![s] = {}]
  /\ seen' = [seen EXCEPT ![s] = {}]
  /\ clean' = [t \in Scanners |->
       IF t = s THEN \A o \in Scanners \ {s} : ~Active(o)
       ELSE clean[t] /\ ~Active(t)]
  /\ absent' = [absent EXCEPT ![s] = AbsentFiles]
  /\ UNCHANGED <<disk, index, current, bounds>>

\* WalkDir reads the next watched directory; one that does not exist is an
\* error, and ends the scan.
EnterRoot(s) ==
  /\ pc[s] = "walk" /\ todo[s] = {}
  /\ entered[s] < Len(Roots)
  /\ LET root == Roots[entered[s] + 1]
     IN  IF root \in Missing
         THEN Goto(s, "error") /\ UNCHANGED <<entered, todo>>
         ELSE /\ entered' = [entered EXCEPT ![s] = @ + 1]
              /\ todo' = [todo EXCEPT ![s] = {f \in Files \ AbsentFiles : RootOf[f] = root}]
              /\ UNCHANGED pc
  /\ UNCHANGED <<disk, index, seen, current, bounds, history>>

\* Mutant: a file counts as seen only when its row is written.
Visit_NotSeen(s, f) ==
  /\ pc[s] = "walk" /\ f \in todo[s]
  /\ todo' = [todo EXCEPT ![s] = @ \ {f}]
  /\ IF disk[f] = None
     THEN Goto(s, "error") /\ UNCHANGED current
     ELSE /\ Goto(s, "hash")
          /\ file' = [file EXCEPT ![s] = f]
          /\ read' = [read EXCEPT ![s] = disk[f]]
  /\ UNCHANGED <<disk, index, entered, seen, bounds, history>>

\* WalkDir's callback, and indexFile up to os.ReadFile: the file may be gone
\* since its directory was read.
Visit(s, f) ==
  /\ pc[s] = "walk" /\ f \in todo[s]
  /\ todo' = [todo EXCEPT ![s] = @ \ {f}]
  /\ seen' = [seen EXCEPT ![s] = @ \cup {f}]
  /\ IF disk[f] = None
     THEN Goto(s, "error") /\ UNCHANGED current
     ELSE /\ Goto(s, "hash")
          /\ file' = [file EXCEPT ![s] = f]
          /\ read' = [read EXCEPT ![s] = disk[f]]
  /\ UNCHANGED <<disk, index, entered, bounds, history>>

\* Mutant: a file that has a row is taken for unchanged.
CompareHash_NewOnly(s) ==
  /\ pc[s] = "hash"
  /\ Goto(s, IF index[file[s]] # None THEN "walk" ELSE "upsert")
  /\ UNCHANGED <<disk, index, walk, todo, current, bounds, history>>

\* GetIndexHash: a file whose hash is in its row is left alone.
CompareHash(s) ==
  /\ pc[s] = "hash"
  /\ Goto(s, IF index[file[s]] = read[s] THEN "walk" ELSE "upsert")
  /\ UNCHANGED <<disk, index, walk, todo, current, bounds, history>>

\* UpsertIndexEntry, of the content that was read before.
Upsert(s) ==
  /\ pc[s] = "upsert"
  /\ index' = [index EXCEPT ![file[s]] = read[s]]
  /\ Goto(s, "walk")
  /\ UNCHANGED <<disk, walk, todo, current, bounds, history>>

\* Every root is walked: removeMissing lists the rows.
ListPaths(s) ==
  /\ pc[s] = "walk" /\ todo[s] = {}
  /\ entered[s] = Len(Roots)
  /\ todo' = [todo EXCEPT ![s] = {f \in Files : index[f] # None} \ seen[s]]
  /\ Goto(s, "remove")
  /\ UNCHANGED <<disk, index, walk, current, bounds, history>>

\* DeleteIndexEntry of a row whose file the scan has not seen.
Remove(s, f) ==
  /\ pc[s] = "remove" /\ f \in todo[s]
  /\ index' = [index EXCEPT ![f] = None]
  /\ todo' = [todo EXCEPT ![s] = @ \ {f}]
  /\ UNCHANGED <<disk, pc, walk, current, bounds, history>>

Finish(s) ==
  /\ pc[s] = "remove" /\ todo[s] = {}
  /\ Goto(s, "ok")
  /\ UNCHANGED <<disk, index, walk, todo, current, bounds, history>>

\* A read or a database call fails, or the context of the request is
\* cancelled: the first error ends the scan.
Fault(s) ==
  /\ Active(s)
  /\ troubles < MaxTroubles
  /\ troubles' = troubles + 1
  /\ Goto(s, "error")
  /\ UNCHANGED <<disk, index, walk, todo, current, edits, history>>

Scan(s) ==
  \/ EnterRoot(s)
  \/ \E f \in Files : Visit(s, f)
  \/ CompareHash(s)
  \/ Upsert(s)
  \/ ListPaths(s)
  \/ \E f \in Files : Remove(s, f)
  \/ Finish(s)

-----------------------------------------------------------------------------
\* The process is killed and started again: scans are forgotten, requests
\* under way are not answered, the index stays.
Crash ==
  /\ troubles < MaxTroubles
  /\ troubles' = troubles + 1
  /\ pc' = [s \in Scanners |->
       IF s = Worker THEN "idle" ELSE IF Active(s) THEN "error" ELSE pc[s]]
  /\ UNCHANGED <<disk, index, walk, todo, current, edits, history>>

Next ==
  \/ \E f \in Files, content \in Contents \cup {None} : Edit(f, content)
  \/ \E s \in Scanners : Begin(s) \/ Scan(s) \/ Fault(s)
  \/ Crash

\* The ticker of the worker goes on, and a scan's calls return. No request
\* has to come.
Fairness ==
  /\ WF_vars(Begin(Worker))
  /\ \A s \in Scanners : WF_vars(Scan(s))

Spec == Init /\ [][Next]_vars
FairSpec == Spec /\ Fairness

-----------------------------------------------------------------------------
TypeOK ==
  /\ disk \in [Files -> Contents \cup {None}]
  /\ index \in [Files -> Contents \cup {None}]
  /\ pc \in [Scanners -> PCs]
  /\ entered \in [Scanners -> 0..Len(Roots)]
  /\ todo \in [Scanners -> SUBSET Files]
  /\ seen \in [Scanners -> SUBSET Files]
  /\ file \in [Scanners -> Files \cup {None}]
  /\ read \in [Scanners -> Contents \cup {None}]
  /\ edits \in 0..MaxEdits
  /\ troubles \in 0..MaxTroubles
  /\ clean \in [Scanners -> BOOLEAN]
  /\ absent \in [Scanners -> SUBSET Files]

InSync == index = disk

(* A scan that ends well, and during which no file changed and no other    *)
(* scan ran, leaves the index equal to the files; and so it stays until a  *)
(* file changes, however later scans overlap, fail or are killed.          *)
CleanScanSyncs ==
  \A s \in Scanners : pc[s] = "ok" /\ clean[s] => InSync

(* A file that exists during a whole scan does not lose its row to that    *)
(* scan, though the set of seen files is out of date when the rows are     *)
(* listed and other scans insert rows in between.                          *)
PresentFilesKeepRows ==
  [][\A f \in Files :
       index[f] # None /\ index'[f] = None =>
         \E s \in Scanners : /\ pc[s] = "remove"
                             /\ f \in todo[s] \ todo'[s]
                             /\ f \in absent[s]]_vars

(* Once the files stop changing the index becomes equal to them and stays  *)
(* so: overlapping scans, which may write back what they read before an    *)
(* edit and delete rows of new files, are put right by the worker's next   *)
(* scan, and so are failures and crashes.                                  *)
Converges == <>[]InSync
=============================================================================
