------------------------------- MODULE IndexSearch -------------------------------
(***************************************************************************)
(* The search over the index: the rows that UpsertIndexEntry stamps with   *)
(* the time as text, the query that lists the rows stamped last, and the   *)
(* ranking of those that share a token with the question. IndexSync says   *)
(* which files have a row; here it matters when a row was written and what *)
(* it holds. A search is one SQL query and a computation on its result, so *)
(* it is one step. The clock does not go back.                             *)
(***************************************************************************)
EXTENDS Naturals, SequencesExt

CONSTANTS
  Paths,          \* the paths of the Markdown files
  NoRow,          \* what a path without a row has
  Texts,          \* the contents of the files, sequences of characters
  Queries,        \* the questions, sequences of characters too
  Alnum,          \* the characters a-z and 0-9
  LowerOf,        \* the characters with a lower case, and that case
  Limits,         \* the numbers a request gives as "limit"
  NoNumber,       \* a limit that is left out, or is not a number
  DefaultLimit,   \* the matches of a request without a limit (5)
  Window,         \* the rows a search looks at (200)
  Base,           \* the digits of a fraction of a second (10)
  FracDigits,     \* the places of the fraction (9)
  MaxSec          \* bound: the seconds of a behaviour

ASSUME IndexSearchAssumption ==
  /\ IsFiniteSet(Paths)
  /\ \A text \in Texts \cup Queries : text \in Seq(ToSet(text))
  /\ Limits \subseteq Int
  /\ NoNumber \notin Int
  /\ {DefaultLimit, Window, Base, FracDigits, MaxSec} \subseteq Nat
  /\ DefaultLimit > 0
  /\ Window > 0
  /\ Base > 1

VARIABLES
  rows,     \* index_entries: the text, tokens and updated_at of each path
  now,      \* the clock
  answer    \* what the last search said, until the index changes

vars == <<rows, now, answer>>

Fractions == [1..FracDigits -> 0..(Base - 1)]
Times == [sec : 0..MaxSec, frac : Fractions]

\* The order of sequences of numbers: by the first place where they differ.
LexLess(f, g) ==
  \E i \in DOMAIN f : f[i] < g[i] /\ \A j \in 1..(i - 1) : f[j] = g[j]

Earlier(t, u) ==
  \/ t.sec < u.sec
  \/ t.sec = u.sec /\ LexLess(t.frac, u.frac)

-----------------------------------------------------------------------------
\* RFC3339Nano leaves trailing zeros out, and the "Z" that follows instead
\* compares as greater than every digit (and than the "." before a fraction).
Written(frac) ==
  [i \in 1..FracDigits |->
     IF \A j \in i..FracDigits : frac[j] = 0 THEN Base ELSE frac[i]]

\* Mutant: the time is compared as a number of seconds only, downwards.
WrittenEarlier_Reversed(t, u) == u.sec < t.sec

WrittenEarlier(t, u) ==
  \/ t.sec < u.sec
  \/ t.sec = u.sec /\ LexLess(Written(t.frac), Written(u.frac))

Lower(c) == IF c \in DOMAIN LowerOf THEN LowerOf[c] ELSE c

ToLower(text) == [i \in DOMAIN text |-> Lower(text[i])]

flush(s) ==
  IF s.current = <<>> THEN s
  ELSE [tokens |-> Append(s.tokens, s.current), current |-> <<>>]

\* A turn of the loop of tokenize.
read(s, c) ==
  IF c \in Alnum THEN [s EXCEPT !.current = Append(@, c)] ELSE flush(s)

\* Where the loop stands after each character.
scan(low) ==
  LET after[i \in 0..Len(low)] ==
        IF i = 0 THEN [tokens |-> <<>>, current |-> <<>>]
        ELSE read(after[i - 1], low[i])
  IN  after

\* A turn of the loop of unique.
keep(out, token) == IF token \in ToSet(out) THEN out ELSE Append(out, token)

unique(tokens) ==
  LET out[i \in 0..Len(tokens)] ==
        IF i = 0 THEN <<>> ELSE keep(out[i - 1], tokens[i])
  IN  out[Len(tokens)]

\* Mutant: the token at the end of the text is not flushed.
tokenize_NoLastFlush(text) == unique(scan(ToLower(text))[Len(text)].tokens)

tokenize(text) == unique(flush(scan(ToLower(text))[Len(text)]).tokens)

\* The score as a fraction: the tokens in common over the tokens of both.
similarity(queryTokens, entryTokens) ==
  IF queryTokens = <<>> \/ entryTokens = <<>> THEN <<0, 1>>
  ELSE LET qset == ToSet(queryTokens)
           intersection == Cardinality({i \in DOMAIN entryTokens : entryTokens[i] \in qset})
       IN  <<intersection, Cardinality(qset) + Len(entryTokens) - intersection>>

Greater(a, b) == a[1] * b[2] > b[1] * a[2]

\* ORDER BY updated_at DESC LIMIT: equal texts come in any order.
Newest ==
  LET indexed == {p \in Paths : rows[p] # NoRow}
  IN  {W \in SUBSET indexed :
         /\ Cardinality(W) = Min({Window, Cardinality(indexed)})
         /\ \A p \in W, q \in indexed \ W :
              ~WrittenEarlier(rows[p].at, rows[q].at)}

Score(query, p) == similarity(tokenize(query), rows[p].tokens)

\* sort.Slice by score: equal scores come in any order.
Rankings(matches, query) ==
  {r \in [1..Cardinality(matches) -> matches] :
     /\ IsInjective(r)
     /\ \A i, j \in DOMAIN r :
          i < j => ~Greater(Score(query, r[j]), Score(query, r[i]))}

-----------------------------------------------------------------------------
Init ==
  /\ rows = [p \in Paths |-> NoRow]
  /\ now \in {t \in Times : t.sec = 0}
  /\ answer = {}

\* The time goes on; how many rows are written at one reading is open.
Tick ==
  /\ \E t \in Times : Earlier(now, t) /\ now' = t
  /\ UNCHANGED <<rows, answer>>

\* indexFile of a new or changed file. An unchanged one keeps its row, and
\* with it the time of its last change.
UpsertIndexEntry(p, text) ==
  /\ rows[p] # NoRow => rows[p].text # text
  /\ rows' = [rows EXCEPT ![p] =
                [text |-> text, tokens |-> tokenize(text), at |-> now]]
  /\ answer' = {}
  /\ UNCHANGED now

\* removeMissing of a file that is gone.
DeleteIndexEntry(p) ==
  /\ rows[p] # NoRow
  /\ rows' = [rows EXCEPT ![p] = NoRow]
  /\ answer' = {}
  /\ UNCHANGED now

\* The limit of a request that names the number n.
limitOf(n) == IF n \in Int /\ n > 0 THEN n ELSE DefaultLimit

Answer(query, limit, matches) ==
  answer' = {[query |-> query, limit |-> limit, matches |-> matches]}

\* GET /index/search, of a client or of mousectl. A request without a
\* question gets a 400 and no answer.
Search(query, n) ==
  /\ query # <<>>
  /\ \E W \in Newest :
       LET matches == {p \in W : Score(query, p)[1] > 0}
           limit == limitOf(n)
       IN  \E r \in Rankings(matches, query) :
             Answer(query, limit, SubSeq(r, 1, Min({limit, Len(r)})))
  /\ UNCHANGED <<rows, now>>

Next ==
  \/ Tick
  \/ \E p \in Paths, text \in Texts : UpsertIndexEntry(p, text)
  \/ \E p \in Paths : DeleteIndexEntry(p)
  \/ \E query \in Queries, n \in Limits \cup {NoNumber} : Search(query, n)

Spec == Init /\ [][Next]_vars

-----------------------------------------------------------------------------
Rows == {p \in Paths : rows[p] # NoRow}
Matches(query) == {p \in Rows : Score(query, p)[1] > 0}

(* A row that answers the question and is missing in the answer has been   *)
(* beaten: either the answer is full of rows that score at least as high,  *)
(* or as many other rows as the window holds were written in its second or *)
(* later. (The order of the texts is not the order of the times within one *)
(* second, so there even the row written last may be the one left out.)    *)
MissedMatchIsExplained ==
  \A a \in answer : \A p \in Matches(a.query) \ ToSet(a.matches) :
    \/ /\ Len(a.matches) = a.limit
       /\ \A q \in ToSet(a.matches) : ~Greater(Score(a.query, p), Score(a.query, q))
    \/ Cardinality({q \in Rows \ {p} : rows[q].at.sec >= rows[p].at.sec}) >= Window

\* The words of a text: its longest runs of letters and digits.
InWord(low, i) == i \in DOMAIN low /\ low[i] \in Alnum

Runs(low) ==
  {x \in (DOMAIN low) \X (DOMAIN low) :
     /\ x[1] <= x[2]
     /\ \A k \in x[1]..x[2] : InWord(low, k)
     /\ ~InWord(low, x[1] - 1) /\ ~InWord(low, x[2] + 1)}

Words(text) == {SubSeq(ToLower(text), x[1], x[2]) : x \in Runs(ToLower(text))}

(* The score of a file for a question is the share of the words of both    *)
(* that they have in common, however often and in whatever case each is    *)
(* written and wherever it stands; without words there is no match. The    *)
(* row keeps the tokens of the time it was written, the question is cut    *)
(* into words when it is asked.                                            *)
ScoreIsShare ==
  \A query \in Queries, p \in Rows :
    LET asked == Words(query)
        held == Words(rows[p].text)
    IN  IF asked = {} \/ held = {} THEN Score(query, p)[1] = 0
        ELSE Score(query, p) = <<Cardinality(asked \cap held),
                                 Cardinality(asked \cup held)>>
=============================================================================
