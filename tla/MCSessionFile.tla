---------------------------- MODULE MCSessionFile ----------------------------
(* Three calls race on one new file, named for a private chat, a group and a *)
(* cron job's session whose ids are alike; a fourth works on a second file.  *)
(* The names are tried on all pairs of ids of up to four runes: a digit, a   *)
(* letter in both cases, a dash and a space (which stands for every rune     *)
(* that becomes a dash), with names of three bytes, so that the cut happens. *)
(* The name of a file depends on its id alone, so a behaviour is one of      *)
(* appends to files that have their names, or one of names only.             *)
EXTENDS SessionFile, SessionNames

CONSTANTS c1, c2, c3, c4, f1, f2

SessionId(c) ==
  CASE c = c1 -> <<"1">> [] c = c2 -> <<"-", "1">>
    [] c = c3 -> <<" ", "1">> [] c = c4 -> <<"1", "1">>

\* f1 stands for the file "1.md", f2 for "11.md".
MCFileOf == [c \in {c1, c2, c3, c4} |-> IF c = c4 THEN f2 ELSE f1]

ASSUME FilesAreNamed ==
  \A c, d \in {c1, c2, c3, c4} :
    MCFileOf[c] = MCFileOf[d] <=> FileName(SessionId(c)) = FileName(SessionId(d))

MCInit == Init /\ NamesInit
AppendsNext == sessions = <<>> /\ Next /\ UNCHANGED sessions
PairsNext == exists = {} /\ (\A c \in Calls : pc[c] = "stat") /\ NamesNext /\ UNCHANGED vars
MCSpec == MCInit /\ [][AppendsNext \/ PairsNext]_<<vars, sessions>>

MCRunes == {"1", "a", "A", "-", " "}
MCIds == UNION {[1..n -> MCRunes] : n \in 0..4}
MCDigits == {"1"}
MCLetters == {"a"}
MCLowerOf == [r \in {"A"} |-> "a"]
MCSpaces == {" "}
MCSession == <<"a">>
MCUnknown == <<"a", "a">>
=============================================================================
