------------------------------ MODULE SessionLog ------------------------------
(***************************************************************************)
(* What sessions.Store promises the code that calls Append: every file is  *)
(* an append-only log, and a call puts its entry at the end of its file    *)
(* exactly once, in one indivisible step, or fails and leaves no entry.    *)
(* A log may also hold items nobody asked for (session headers, the torn   *)
(* prefix of a failed write); they are "noise" and change no entry.        *)
(*                                                                         *)
(* An entry is named by the call that appends it: two calls never write    *)
(* the same bytes, because an entry starts with its RFC3339Nano timestamp. *)
(***************************************************************************)
EXTENDS Naturals, Sequences

CONSTANTS
  Calls,     \* the Append calls of a behaviour
  Files,     \* the Markdown files of the session directory
  FileOf,    \* the file a call appends to
  Noise      \* items of a file that are no call's entry

\* What an instance of this module has to satisfy.
SessionLogAssumption ==
  /\ FileOf \in [Calls -> Files]
  /\ Calls \cap Noise = {}

VARIABLES
  log,       \* the items of each file, oldest first
  outcome    \* how far each call has come

vars == <<log, outcome>>

Outcomes == {"pending", "written", "failed"}

Init ==
  /\ log = [f \in Files |-> <<>>]
  /\ outcome = [c \in Calls |-> "pending"]

\* The call takes effect: its entry becomes the last item of its file.
Write(c) ==
  /\ outcome[c] = "pending"
  /\ log' = [log EXCEPT ![FileOf[c]] = Append(@, c)]
  /\ outcome' = [outcome EXCEPT ![c] = "written"]

\* Any calls under way may end without an entry: one by an error, many by
\* a crash of the process.
GiveUp ==
  /\ outcome' \in [Calls -> Outcomes]
  /\ \A c \in Calls :
       outcome'[c] # outcome[c] =>
         outcome[c] = "pending" /\ outcome'[c] = "failed"

Fail == GiveUp /\ UNCHANGED log

\* Noise is appended, by a call that goes on or by one that fails with it.
Spill(f, n) ==
  /\ log' = [log EXCEPT ![f] = Append(@, n)]
  /\ GiveUp

Next ==
  \/ \E c \in Calls : Write(c)
  \/ Fail
  \/ \E f \in Files, n \in Noise : Spill(f, n)

Spec == Init /\ [][Next]_vars

-----------------------------------------------------------------------------
TypeOK ==
  /\ log \in [Files -> Seq(Calls \cup Noise)]
  /\ outcome \in [Calls -> Outcomes]

Positions(c, f) == {i \in 1..Len(log[f]) : log[f][i] = c}

(* Exactly the calls that were written are in the log, each in its own     *)
(* file and at one place only: a failed Append can be retried by its       *)
(* caller without leaving a second copy of the entry behind.               *)
ExactlyOnce ==
  /\ \A c \in Calls :
       (outcome[c] = "written") <=> (Positions(c, FileOf[c]) # {})
  /\ \A c \in Calls, f \in Files :
       Positions(c, f) # {} => f = FileOf[c]
  /\ \A c \in Calls, f \in Files :
       \A i, j \in Positions(c, f) : i = j
=============================================================================
