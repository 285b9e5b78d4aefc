------------------------------ MODULE SessionFile ------------------------------
(***************************************************************************)
(* sessions.Store.Append, system call by system call: stat, open with      *)
(* O_CREATE|O_APPEND, a header when the stat found no file, the entry.     *)
(* The store has no lock. Webhook requests and cron jobs, each with a      *)
(* Store of its own, append to the same files, so every call interleaves   *)
(* with every other, and the process may be killed between any two steps.  *)
(***************************************************************************)
EXTENDS Naturals, Sequences

CONSTANTS
  Calls,     \* the Append calls of a behaviour
  Files,     \* the Markdown files of the session directory
  FileOf,    \* sanitizeID(sessionID) + ".md", the file a call appends to
  Header,    \* the line "# Session <id>"
  Torn       \* what a write that failed half-way leaves in the file

ASSUME SessionFileAssumption ==
  /\ FileOf \in [Calls -> Files]
  /\ Header # Torn
  /\ {Header, Torn} \cap Calls = {}

VARIABLES
  exists,    \* the files that exist
  items,     \* the content of each file: headers, entries, torn writes
  fresh,     \* newFile of each call: its stat found no file
  pc         \* the next step of each call

vars == <<exists, items, fresh, pc>>

Steps == {"stat", "open", "header", "entry"}
Running == {"open", "header", "entry"}
PCs == Steps \cup {"ok", "error"}

Init ==
  /\ exists = {}
  /\ items = [f \in Files |-> <<>>]
  /\ fresh = [c \in Calls |-> FALSE]
  /\ pc = [c \in Calls |-> "stat"]

Put(f, item) == items' = [items EXCEPT ![f] = Append(@, item)]

\* Mutant: every error of os.Stat is taken for a file that does not exist.
Stat_AnyError(c) ==
  /\ pc[c] = "stat"
  /\ \E failed \in BOOLEAN :
       fresh' = [fresh EXCEPT ![c] = failed \/ FileOf[c] \notin exists]
  /\ pc' = [pc EXCEPT ![c] = "open"]
  /\ UNCHANGED <<exists, items>>

\* os.Stat, after os.MkdirAll: is the session file there?
Stat(c) ==
  /\ pc[c] = "stat"
  /\ fresh' = [fresh EXCEPT ![c] = FileOf[c] \notin exists]
  /\ pc' = [pc EXCEPT ![c] = "open"]
  /\ UNCHANGED <<exists, items>>

\* Mutant: the header of a new file is forgotten.
Open_NoHeader(c) ==
  /\ pc[c] = "open"
  /\ exists' = exists \cup {FileOf[c]}
  /\ pc' = [pc EXCEPT ![c] = "entry"]
  /\ UNCHANGED <<items, fresh>>

\* Mutant: O_TRUNC in the place of O_APPEND.
Open_Truncates(c) ==
  /\ pc[c] = "open"
  /\ exists' = exists \cup {FileOf[c]}
  /\ items' = [items EXCEPT ![FileOf[c]] = <<>>]
  /\ pc' = [pc EXCEPT ![c] = IF fresh[c] THEN "header" ELSE "entry"]
  /\ UNCHANGED fresh

\* os.OpenFile creates the file if somebody has not created it meanwhile.
Open(c) ==
  /\ pc[c] = "open"
  /\ exists' = exists \cup {FileOf[c]}
  /\ pc' = [pc EXCEPT ![c] = IF fresh[c] THEN "header" ELSE "entry"]
  /\ UNCHANGED <<items, fresh>>

WriteHeader(c) ==
  /\ pc[c] = "header"
  /\ Put(FileOf[c], Header)
  /\ pc' = [pc EXCEPT ![c] = "entry"]
  /\ UNCHANGED <<exists, fresh>>

WriteEntry(c) ==
  /\ pc[c] = "entry"
  /\ Put(FileOf[c], c)
  /\ pc' = [pc EXCEPT ![c] = "ok"]
  /\ UNCHANGED <<exists, fresh>>

\* Any step may return an error, and Append returns it at once.
Fail(c) ==
  /\ pc[c] \in Steps
  /\ pc' = [pc EXCEPT ![c] = "error"]
  /\ UNCHANGED <<exists, items, fresh>>

\* A full disk: WriteString returns an error after writing a part.
TearWrite(c) ==
  /\ pc[c] \in {"header", "entry"}
  /\ Put(FileOf[c], Torn)
  /\ pc' = [pc EXCEPT ![c] = "error"]
  /\ UNCHANGED <<exists, fresh>>

\* The process is killed; the calls under way never return. Later calls
\* are made by the restarted process, on the files as they are.
Crash ==
  /\ \E c \in Calls : pc[c] \in Running
  /\ pc' = [c \in Calls |-> IF pc[c] \in Running THEN "error" ELSE pc[c]]
  /\ UNCHANGED <<exists, items, fresh>>

\* All calls have been made: nothing more to do.
Quiet ==
  /\ \A c \in Calls : pc[c] \in {"ok", "error"}
  /\ UNCHANGED vars

Next ==
  \/ \E c \in Calls : \/ Stat(c)
                      \/ Open(c)
                      \/ WriteHeader(c)
                      \/ WriteEntry(c)
                      \/ Fail(c)
                      \/ TearWrite(c)
  \/ Crash
  \/ Quiet

Spec == Init /\ [][Next]_vars

-----------------------------------------------------------------------------
TypeOK ==
  /\ exists \in SUBSET Files
  /\ items \in [Files -> Seq(Calls \cup {Header, Torn})]
  /\ fresh \in [Calls -> BOOLEAN]
  /\ pc \in [Calls -> PCs]

Has(f, item) == \E i \in 1..Len(items[f]) : items[f][i] = item

\* A call that found no file and may still write a header into f.
MayTitle(c, f) == FileOf[c] = f /\ fresh[c] /\ pc[c] \in {"open", "header"}

(* A file that holds entries but no header was created by a call that is   *)
(* still on its way to the header, or that failed or was killed before it: *)
(* the newFile test never leaves a file untitled by itself.                *)
UntitledHasCause ==
  \A f \in Files :
    items[f] # <<>> /\ ~Has(f, Header) =>
      \E c \in Calls : /\ FileOf[c] = f
                       /\ fresh[c]
                       /\ pc[c] \in {"header", "error"}

(* Once a file exists and every call that raced with its creation is past  *)
(* its header, no header is ever written to it again: later appends,       *)
(* retries and restarts add entries only.                                  *)
TitledOnce ==
  [][\A f \in Files :
       f \in exists /\ (\A c \in Calls : ~MayTitle(c, f)) =>
         /\ \A c \in Calls : ~MayTitle(c, f)'
         /\ \A i \in 1..Len(items'[f]) :
              items'[f][i] = Header => i <= Len(items[f])]_vars

-----------------------------------------------------------------------------
(***************************************************************************)
(* The abstract log: the bytes of a file are its items, and a call takes   *)
(* effect with the write of its entry.                                     *)
(***************************************************************************)
Outcome ==
  [c \in Calls |-> CASE pc[c] = "ok" -> "written"
                     [] pc[c] = "error" -> "failed"
                     [] OTHER -> "pending"]

Log == INSTANCE SessionLog
         WITH log <- items, outcome <- Outcome, Noise <- {Header, Torn}

(* Concurrent, failing and killed Append calls behave as the atomic,       *)
(* exactly-once appends of SessionLog.                                     *)
ImplementsLog == Log!Spec

(* What callers draw from that: the entry of an Append that came to its    *)
(* end is in its file once, and that of one that failed, or was killed     *)
(* before its write, is in no file: a retry leaves no second copy.         *)
EachEntryOnce == Log!ExactlyOnce
=============================================================================
