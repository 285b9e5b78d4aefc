------------------------------ MODULE SessionNames ------------------------------
(***************************************************************************)
(* Which session file a session id stands for: sanitizeID, and the blank   *)
(* id that sessions.Store.Append replaces. The ids are the decimal chat    *)
(* numbers of Telegram, negative ones for groups, and the free text of the *)
(* cron jobs' "session". Nothing checks that two ids get two files. The    *)
(* state is the ids that came so far: SessionFile says what happens to the *)
(* files.                                                                  *)
(* Runes are kept as they are, lowered, or turned into dashes; after that  *)
(* a rune is a byte, so the cut at 64 bytes is a cut at MaxLen runes.      *)
(***************************************************************************)
EXTENDS Naturals, Sequences

CONSTANTS
  Runes,        \* the characters an id may hold
  Ids,          \* the session ids, sequences of runes
  Digits,       \* the digits 0-9
  Letters,      \* the letters a-z, and the underscore
  Dash,         \* "-"
  LowerOf,      \* the letters A-Z and the lower-case letter of each
  Spaces,       \* the runes that strings.TrimSpace removes
  Session,      \* "session", the name for an id of which nothing is kept
  NoRune,       \* what comes behind the last rune of an id
  Unknown,      \* "unknown", the id for a blank one
  MaxLen,       \* the bytes of a file name, without the suffix (64)
  MaxSessions   \* bound: the ids of a behaviour

Kept == Digits \cup Letters

ASSUME SessionNamesAssumption ==
  /\ Ids \subseteq Seq(Runes)
  /\ Kept \subseteq Runes
  /\ NoRune \notin Runes \cup {Dash}
  /\ Dash \notin Kept \cup DOMAIN LowerOf \cup Spaces
  /\ (DOMAIN LowerOf \cup Spaces) \cap Kept = {}
  /\ LowerOf \in [DOMAIN LowerOf -> Letters]
  /\ MaxLen \in Nat \ {0}
  /\ MaxSessions \in Nat
  /\ \A name \in {Session, Unknown} :
       name \in Seq(Letters) /\ Len(name) \in 1..MaxLen

VARIABLE sessions    \* the ids that Append was called with

-----------------------------------------------------------------------------
mapRune(r) ==
  IF r \in Kept THEN r ELSE IF r \in DOMAIN LowerOf THEN LowerOf[r] ELSE Dash

\* strings.Trim(s, "-"): what lies between the first and the last other byte.
Trim(s) ==
  LET other == {i \in DOMAIN s : s[i] # Dash}
  IN  IF other = {} THEN <<>>
      ELSE SubSeq(s, CHOOSE i \in other : \A j \in other : i <= j,
                     CHOOSE i \in other : \A j \in other : j <= i)

Cut(s) == IF Len(s) > MaxLen THEN SubSeq(s, 1, MaxLen) ELSE s

\* Mutant: the runes that are not kept are dropped, the dashes too.
sanitizeID_DropsDashes(id) ==
  LET mapped == Trim([i \in DOMAIN id |-> mapRune(id[i])])
      kept == SelectSeq(mapped, LAMBDA r : r # Dash)
  IN  IF kept = <<>> THEN Session ELSE Cut(kept)

\* Mutant: the name is cut before it is trimmed.
sanitizeID_CutsFirst(id) ==
  LET mapped == Trim(Cut([i \in DOMAIN id |-> mapRune(id[i])]))
  IN  IF mapped = <<>> THEN Session ELSE mapped

\* Mutant: an id of which nothing is kept gets no name.
sanitizeID_NoFallback(id) == Cut(Trim([i \in DOMAIN id |-> mapRune(id[i])]))

sanitizeID(id) ==
  LET mapped == Trim([i \in DOMAIN id |-> mapRune(id[i])])
  IN  IF mapped = <<>> THEN Session ELSE Cut(mapped)

\* strings.TrimSpace(sessionID) == "" becomes "unknown".
Named(id) == IF \A i \in DOMAIN id : id[i] \in Spaces THEN Unknown ELSE id

FileName(id) == sanitizeID(Named(id))

NamesInit == sessions = <<>>

\* A chat or a job appends under its id.
Use(id) == sessions' = Append(sessions, id)

\* No id comes any more.
NamesQuiet == Len(sessions) = MaxSessions /\ UNCHANGED sessions

NamesNext ==
  \/ Len(sessions) < MaxSessions /\ \E id \in Ids : Use(id)
  \/ NamesQuiet

NamesSpec == NamesInit /\ [][NamesNext]_sessions

-----------------------------------------------------------------------------
NamesTypeOK == sessions \in Seq(Ids)

Used == {sessions[i] : i \in DOMAIN sessions}

(* A file name is a safe one: not empty, no longer than MaxLen, of kept    *)
(* bytes and dashes, and never with a dash at its start, where a command   *)
(* would take it for an option. It is also stable: as a session id it      *)
(* stands for the same file, unless the cut fell behind a dash.            *)
FileNamesSafe ==
  \A id \in Used :
    LET f == FileName(id)
    IN  /\ Len(f) \in 1..MaxLen
        /\ \A i \in DOMAIN f : f[i] \in Kept \cup {Dash}
        /\ f[1] # Dash
        /\ sanitizeID(f) = f \/ (Len(f) = MaxLen /\ f[MaxLen] = Dash)

\* The number of a Telegram chat as strconv.FormatInt writes it.
IsNumber(s) == s # <<>> /\ Len(s) <= MaxLen /\ \A i \in DOMAIN s : s[i] \in Digits
Unsigned(id) == IF id # <<>> /\ id[1] = Dash THEN Tail(id) ELSE id
IsChat(id) == IsNumber(Unsigned(id))

(* The entries of two Telegram chats meet in one file exactly if the chats *)
(* have the same number but for the sign (a group and a private chat): two *)
(* private chats never share a session, nor do two groups.                 *)
ChatsKeepApart ==
  \A x, y \in {id \in Used : IsChat(id)} :
    FileName(x) = FileName(y) <=> Unsigned(x) = Unsigned(y)

\* Position k of an id as it counts for its file: nothing after the last kept rune.
At(id, k) ==
  IF \E j \in DOMAIN id : j >= k /\ mapRune(id[j]) # Dash THEN mapRune(id[k]) ELSE NoRune

\* Ids alike: from their first kept rune on they map to the same runes, as
\* far as a file name reaches. An id without one is alike to Session.
Alike(x, y) ==
  LET kept(id) == \E i \in DOMAIN id : mapRune(id[i]) # Dash
      v == IF kept(x) THEN x ELSE Session
      w == IF kept(y) THEN y ELSE Session
  IN  \E a \in DOMAIN v, b \in DOMAIN w :
        /\ \A i \in 1..(a - 1) : mapRune(v[i]) = Dash
        /\ \A i \in 1..(b - 1) : mapRune(w[i]) = Dash
        /\ mapRune(v[a]) # Dash /\ mapRune(w[b]) # Dash
        /\ \A i \in 0..(MaxLen - 1) : At(v, a + i) = At(w, b + i)

(* Which sessions share a file, exactly: those whose ids differ in nothing *)
(* but case, the runes a file name cannot hold, what surrounds the kept    *)
(* runes, and what follows after MaxLen of them; the ids that keep nothing *)
(* with a session named "session"; the blank ones with one named "unknown".*)
SharedIffAlike ==
  \A x, y \in Used : FileName(x) = FileName(y) <=> Alike(Named(x), Named(y))
=============================================================================
