--------------------------- MODULE IndexSearchProofs ---------------------------
(***************************************************************************)
(* What TLAPS proves of the search, for every finite set of files, every   *)
(* text and question, and every number of digits of the clock: which rows  *)
(* an answer may leave out, and what the score of a row says of its text.  *)
(* What the loops of tokenize compute for every text is shown by the       *)
(* absence of a least counterexample (NoLeast).                            *)
(***************************************************************************)
EXTENDS IndexSearch, FiniteSetTheorems, SequenceTheorems, WellFoundedInduction,
        NaturalsInduction, TLAPS

LEMMA Assumptions ==
  /\ IsFiniteSet(Paths)
  /\ Window \in Nat /\ Window > 0
  /\ DefaultLimit \in Nat /\ DefaultLimit > 0
  /\ MaxSec \in Nat
BY IndexSearchAssumption

\* What of the type of the state the proofs need.
RowsOK ==
  /\ now \in Times
  /\ DOMAIN rows = Paths
  /\ \A p \in Rows : rows[p].at \in Times

\* What a request with a limit is given of a ranking.
FirstOf(r, limit) == SubSeq(r, 1, Min({limit, Len(r)}))

LEMMA MinOfTwo ==
  ASSUME NEW a \in Nat, NEW b \in Nat
  PROVE  Min({a, b}) = IF a <= b THEN a ELSE b
<1>. DEFINE m == IF a <= b THEN a ELSE b
<1>1. m \in {a, b} /\ \A y \in {a, b} : m <= y
  OBVIOUS
<1>2. \A x \in {a, b} : (\A y \in {a, b} : x <= y) => x = m
  OBVIOUS
<1>. HIDE DEF m
<1>3. Min({a, b}) = m
  BY <1>1, <1>2 DEF Min
<1>. QED  BY <1>3 DEF m

LEMMA LimitIsPositive ==
  ASSUME NEW n \in Limits \cup {NoNumber}
  PROVE  limitOf(n) \in Nat /\ limitOf(n) > 0
BY Assumptions DEF limitOf

-----------------------------------------------------------------------------
\* A row outside of the window is kept out by as many others as it holds.
LEMMA WindowIsFull ==
  ASSUME RowsOK, NEW W \in Newest, NEW p \in Rows \ W
  PROVE  Cardinality({q \in Rows \ {p} : rows[q].at.sec >= rows[p].at.sec}) >= Window
<1>. DEFINE later == {q \in Rows \ {p} : rows[q].at.sec >= rows[p].at.sec}
<1>1. /\ W \subseteq Rows
      /\ Cardinality(W) = Min({Window, Cardinality(Rows)})
      /\ \A q \in W : ~WrittenEarlier(rows[q].at, rows[p].at)
  BY DEF Newest, Rows
<1>2. IsFiniteSet(Rows) /\ IsFiniteSet(W) /\ IsFiniteSet(later)
  BY <1>1, Assumptions, FS_Subset DEF Rows
<1>3. Cardinality(Rows) \in Nat /\ Cardinality(W) \in Nat /\ Cardinality(later) \in Nat
  BY <1>2, FS_CardinalityType
<1>4. Cardinality(W) # Cardinality(Rows)
  BY <1>1, <1>2, FS_Subset
<1>5. Cardinality(W) = Window
  BY <1>1, <1>3, <1>4, MinOfTwo, Assumptions
<1>6. W \subseteq later
  <2>1. ASSUME NEW q \in W
        PROVE  rows[q].at.sec >= rows[p].at.sec
    <3>1. rows[q].at \in Times /\ rows[p].at \in Times
      BY <1>1 DEF RowsOK
    <3>2. rows[q].at.sec \in Nat /\ rows[p].at.sec \in Nat
      BY <3>1, Assumptions DEF Times
    <3>3. ~(rows[q].at.sec < rows[p].at.sec)
      BY <1>1 DEF WrittenEarlier
    <3>. QED  BY <3>2, <3>3
  <2>. QED  BY <1>1, <2>1
<1>7. Cardinality(W) <= Cardinality(later)
  BY <1>2, <1>6, FS_Subset
<1>. QED  BY <1>3, <1>5, <1>7

\* A ranking has every match.
LEMMA RankingIsComplete ==
  ASSUME NEW matches, IsFiniteSet(matches), NEW query, NEW r \in Rankings(matches, query),
         NEW p \in matches
  PROVE  \E j \in 1..Cardinality(matches) : r[j] = p
<1>. DEFINE n == Cardinality(matches)
<1>1. n \in Nat
  BY FS_CardinalityType
<1>2. r \in Injection(1..n, matches)
  BY DEF Rankings, IsInjective, Injection
<1>3. IsFiniteSet(1..n) /\ Cardinality(1..n) = n
  BY <1>1, FS_Interval
<1>4. r \in Surjection(1..n, matches)
  BY <1>2, <1>3, FS_Injection
<1>. QED  BY <1>4 DEF Surjection

\* What an answer leaves out of a ranking scores no higher than what it has.
LEMMA CutOffIsLower ==
  ASSUME NEW matches, IsFiniteSet(matches), NEW query, NEW r \in Rankings(matches, query),
         NEW limit \in Nat, limit > 0,
         NEW p \in matches \ ToSet(FirstOf(r, limit))
  PROVE  /\ Len(FirstOf(r, limit)) = limit
         /\ \A q \in ToSet(FirstOf(r, limit)) : ~Greater(Score(query, p), Score(query, q))
<1>. DEFINE given == FirstOf(r, limit)
            n == Cardinality(matches)
            m == Min({limit, Len(r)})
<1>1. n \in Nat
  BY FS_CardinalityType
<1>2. r \in Seq(matches) /\ Len(r) = n /\ r \in [1..n -> matches]
  BY <1>1 DEF Rankings
<1>3. m = IF limit <= n THEN limit ELSE n
  BY <1>1, <1>2, MinOfTwo
<1>4. /\ Len(given) = m /\ DOMAIN given = 1..m
      /\ \A i \in 1..m : given[i] = r[i]
  <2>1. given = SubSeq(r, 1, m)
    BY DEF FirstOf
  <2>. HIDE DEF n, m
  <2>2. m \in 0..Len(r)
    BY <1>1, <1>2, <1>3
  <2>3. /\ Len(SubSeq(r, 1, m)) = m /\ DOMAIN SubSeq(r, 1, m) = 1..m
        /\ \A i \in 1..m : SubSeq(r, 1, m)[i] = r[i]
    BY <1>2, <2>2
  <2>. QED  BY <2>1, <2>3
<1>. HIDE DEF n, m
<1>5. PICK j \in 1..n : r[j] = p
  BY RankingIsComplete DEF n
<1>6. j > m
  <2>1. m \in Nat
    BY <1>1, <1>3
  <2>2. \A i \in 1..m : r[i] \in ToSet(given)
    BY <1>4 DEF ToSet
  <2>3. j \notin 1..m
    BY <1>5, <2>2
  <2>. QED  BY <1>1, <2>1, <2>3
<1>7. m = limit
  BY <1>1, <1>3, <1>6
<1>8. ASSUME NEW q \in ToSet(given)
      PROVE  ~Greater(Score(query, p), Score(query, q))
  <2>1. PICK i \in 1..m : r[i] = q
    BY <1>4 DEF ToSet
  <2>2. i \in DOMAIN r /\ j \in DOMAIN r /\ i < j
    BY <1>1, <1>2, <1>3, <1>6, <2>1
  <2>. QED  BY <1>5, <2>1, <2>2 DEF Rankings
<1>. QED  BY <1>4, <1>7, <1>8

-----------------------------------------------------------------------------
\* What has no least counterexample has none.
LEMMA NoLeast ==
  ASSUME NEW S \in SUBSET Nat, \A i \in S : \E j \in S : j < i
  PROVE  S = {}
<1>1. SUFFICES ASSUME S # {} PROVE FALSE
  OBVIOUS
<1>2. IsWellFoundedOn(OpToRel(<, Nat), Nat)
  BY NatLessThanWellFounded
<1>3. PICK i \in S : \A j \in S : ~(<<j, i>> \in OpToRel(<, Nat))
  BY <1>1, <1>2, WFMin
<1>. QED  BY <1>3 DEF OpToRel

\* The loop of tokenize, before and after each character.
LEMMA ScanEquation ==
  ASSUME NEW low, Len(low) \in Nat
  PROVE  /\ scan(low)[0] = [tokens |-> <<>>, current |-> <<>>]
         /\ \A i \in 1..Len(low) : scan(low)[i] = read(scan(low)[i - 1], low[i])
<1>. DEFINE start == [tokens |-> <<>>, current |-> <<>>]
            Loop(f, n) ==
              f = [i \in 0..n |-> IF i = 0 THEN start ELSE read(f[i - 1], low[i])]
            S == {n \in Nat : ~(\E f : Loop(f, n))}
<1>. HIDE DEF start
<1>1. ASSUME NEW n \in S
      PROVE  \E m \in S : m < n
  <2>1. n # 0
    <3>1. Loop([i \in 0..0 |-> start], 0)
      OBVIOUS
    <3>. QED  BY <3>1
  <2>2. n - 1 \in Nat /\ n - 1 < n
    BY <2>1
  <2>. SUFFICES ASSUME n - 1 \notin S PROVE FALSE
    BY <2>2
  <2>3. PICK f : Loop(f, n - 1)
    BY <2>2
  <2>. DEFINE g == [i \in 0..n |-> IF i = n THEN read(f[n - 1], low[n]) ELSE f[i]]
  <2>4. \A i \in 0..n : i # 0 => g[i - 1] = f[i - 1]
    BY <2>1
  <2>5. ASSUME NEW i \in 0..n
        PROVE  g[i] = IF i = 0 THEN start ELSE read(g[i - 1], low[i])
    <3>1. CASE i = n
      BY <2>1, <2>4, <3>1
    <3>2. CASE i # n
      <4>1. i \in 0..(n - 1)
        BY <3>2
      <4>2. f[i] = IF i = 0 THEN start ELSE read(f[i - 1], low[i])
        BY <2>3, <4>1
      <4>. QED  BY <2>4, <3>2, <4>2
    <3>. QED  BY <3>1, <3>2
  <2>6. g = [i \in 0..n |-> g[i]]
    OBVIOUS
  <2>7. Loop(g, n)
    <3>. HIDE DEF g
    <3>. QED  BY <2>5, <2>6
  <2>. QED  BY <2>7
<1>2. S = {}
  <2>. HIDE DEF S
  <2>1. S \in SUBSET Nat
    BY DEF S
  <2>. QED  BY <1>1, <2>1, NoLeast
<1>3. \E f : Loop(f, Len(low))
  BY <1>2
<1>4. scan(low) = CHOOSE f : Loop(f, Len(low))
  BY DEF scan, start
<1>5. Loop(scan(low), Len(low))
  <2>. HIDE DEF Loop
  <2>. QED  BY <1>3, <1>4
<1>6. \A i \in 0..Len(low) :
        scan(low)[i] = IF i = 0 THEN start ELSE read(scan(low)[i - 1], low[i])
  BY <1>5
<1>. QED  BY <1>6 DEF start

\* The loop of unique: some out holds what it has kept after each token.
LEMMA UniqueEquation ==
  ASSUME NEW tokens, Len(tokens) \in Nat
  PROVE  \E out : /\ unique(tokens) = out[Len(tokens)]
                  /\ out[0] = <<>>
                  /\ \A i \in 1..Len(tokens) : out[i] = keep(out[i - 1], tokens[i])
<1>. DEFINE Loop(f, n) ==
              f = [i \in 0..n |-> IF i = 0 THEN <<>> ELSE keep(f[i - 1], tokens[i])]
            S == {n \in Nat : ~(\E f : Loop(f, n))}
<1>1. ASSUME NEW n \in S
      PROVE  \E m \in S : m < n
  <2>1. n # 0
    <3>1. Loop([i \in 0..0 |-> <<>>], 0)
      OBVIOUS
    <3>. QED  BY <3>1
  <2>2. n - 1 \in Nat /\ n - 1 < n
    BY <2>1
  <2>. SUFFICES ASSUME n - 1 \notin S PROVE FALSE
    BY <2>2
  <2>3. PICK f : Loop(f, n - 1)
    BY <2>2
  <2>. DEFINE g == [i \in 0..n |-> IF i = n THEN keep(f[n - 1], tokens[n]) ELSE f[i]]
  <2>4. \A i \in 0..n : i # 0 => g[i - 1] = f[i - 1]
    BY <2>1
  <2>5. ASSUME NEW i \in 0..n
        PROVE  g[i] = IF i = 0 THEN <<>> ELSE keep(g[i - 1], tokens[i])
    <3>1. CASE i = n
      BY <2>1, <2>4, <3>1
    <3>2. CASE i # n
      <4>1. i \in 0..(n - 1)
        BY <3>2
      <4>2. f[i] = IF i = 0 THEN <<>> ELSE keep(f[i - 1], tokens[i])
        BY <2>3, <4>1
      <4>. QED  BY <2>4, <3>2, <4>2
    <3>. QED  BY <3>1, <3>2
  <2>6. g = [i \in 0..n |-> g[i]]
    OBVIOUS
  <2>7. Loop(g, n)
    <3>. HIDE DEF g
    <3>. QED  BY <2>5, <2>6
  <2>. QED  BY <2>7
<1>2. S = {}
  <2>. HIDE DEF S
  <2>1. S \in SUBSET Nat
    BY DEF S
  <2>. QED  BY <1>1, <2>1, NoLeast
<1>3. \E f : Loop(f, Len(tokens))
  BY <1>2
<1>. DEFINE out == CHOOSE f : Loop(f, Len(tokens))
<1>4. unique(tokens) = out[Len(tokens)]
  BY DEF unique
<1>5. Loop(out, Len(tokens))
  <2>. HIDE DEF Loop
  <2>. QED  BY <1>3
<1>. HIDE DEF out
<1>6. \A i \in 0..Len(tokens) :
        out[i] = IF i = 0 THEN <<>> ELSE keep(out[i - 1], tokens[i])
  BY <1>5
<1>. QED  BY <1>4, <1>6

-----------------------------------------------------------------------------
\* unique keeps each token, once.
IsUnique(out, tokens, n) ==
  /\ out \in Seq(ToSet(tokens))
  /\ ToSet(out) = {tokens[i] : i \in 1..n}
  /\ \A i, j \in DOMAIN out : out[i] = out[j] => i = j

LEMMA AppendElements ==
  ASSUME NEW S, NEW s \in Seq(S), NEW x \in S
  PROVE  /\ Append(s, x) \in Seq(S)
         /\ DOMAIN Append(s, x) = 1..(Len(s) + 1)
         /\ \A i \in 1..Len(s) : Append(s, x)[i] = s[i]
         /\ Append(s, x)[Len(s) + 1] = x
         /\ ToSet(Append(s, x)) = ToSet(s) \cup {x}
<1>1. /\ Append(s, x) \in Seq(S)
      /\ DOMAIN Append(s, x) = 1..(Len(s) + 1)
      /\ \A i \in 1..Len(s) : Append(s, x)[i] = s[i]
      /\ Append(s, x)[Len(s) + 1] = x
  OBVIOUS
<1>2. DOMAIN s = 1..Len(s) /\ Len(s) \in Nat
  OBVIOUS
<1>3. Len(s) + 1 \in 1..(Len(s) + 1)
  BY <1>2
<1>4. \A i \in 1..(Len(s) + 1) : i \in 1..Len(s) \/ i = Len(s) + 1
  BY <1>2
<1>5. \A i \in 1..Len(s) : i \in 1..(Len(s) + 1)
  BY <1>2
<1>6. ToSet(Append(s, x)) = ToSet(s) \cup {x}
  BY <1>1, <1>2, <1>3, <1>4, <1>5, Zenon DEF ToSet
<1>. QED  BY <1>1, <1>6

LEMMA UniqueKeepsOnce ==
  ASSUME NEW S, NEW tokens \in Seq(S)
  PROVE  /\ unique(tokens) \in Seq(ToSet(tokens))
         /\ ToSet(unique(tokens)) = ToSet(tokens)
         /\ \A i, j \in DOMAIN unique(tokens) :
              unique(tokens)[i] = unique(tokens)[j] => i = j
<1>. DEFINE n == Len(tokens)
<1>1. n \in Nat /\ DOMAIN tokens = 1..n
  OBVIOUS
<1>2. PICK out : /\ unique(tokens) = out[n]
                 /\ out[0] = <<>>
                 /\ \A i \in 1..n : out[i] = keep(out[i - 1], tokens[i])
  BY <1>1, UniqueEquation
<1>. HIDE DEF n
<1>. DEFINE Bad == {i \in 0..n : ~IsUnique(out[i], tokens, i)}
<1>3. ASSUME NEW i \in Bad
      PROVE  \E j \in Bad : j < i
  <2>1. IsUnique(out[0], tokens, 0)
    BY <1>2 DEF IsUnique, ToSet
  <2>2. i \in 1..n /\ i - 1 \in 0..n /\ i - 1 < i
    BY <2>1, <1>1
  <2>. SUFFICES ASSUME IsUnique(out[i - 1], tokens, i - 1) PROVE IsUnique(out[i], tokens, i)
    BY <2>2
  <2>. DEFINE o == out[i - 1]
              t == tokens[i]
  <2>3. out[i] = keep(o, t)
    BY <1>2, <2>2
  <2>4. t \in ToSet(tokens)
    BY <1>1, <2>2 DEF ToSet
  <2>5. {tokens[k] : k \in 1..i} = {tokens[k] : k \in 1..(i - 1)} \cup {t}
    BY <2>2
  <2>6. o \in Seq(ToSet(tokens)) /\ ToSet(o) = {tokens[k] : k \in 1..(i - 1)}
        /\ \A a, b \in DOMAIN o : o[a] = o[b] => a = b
    BY DEF IsUnique
  <2>. HIDE DEF o, t
  <2>7. CASE t \in ToSet(o)
    <3>1. out[i] = o
      BY <2>3, <2>7 DEF keep
    <3>2. {tokens[k] : k \in 1..i} = {tokens[k] : k \in 1..(i - 1)}
      BY <2>5, <2>6, <2>7
    <3>. QED  BY <2>6, <3>1, <3>2 DEF IsUnique
  <2>8. CASE t \notin ToSet(o)
    <3>1. out[i] = Append(o, t)
      BY <2>3, <2>8 DEF keep
    <3>2. /\ out[i] \in Seq(ToSet(tokens))
          /\ DOMAIN out[i] = 1..(Len(o) + 1)
          /\ \A a \in 1..Len(o) : out[i][a] = o[a]
          /\ out[i][Len(o) + 1] = t
          /\ ToSet(out[i]) = ToSet(o) \cup {t}
      BY <2>4, <2>6, <3>1, AppendElements
    <3>3. \A a \in 1..Len(o) : out[i][a] # t
      <4>1. \A a \in DOMAIN o : o[a] \in ToSet(o)
        BY DEF ToSet
      <4>2. DOMAIN o = 1..Len(o)
        BY <2>6
      <4>. QED  BY <2>8, <3>2, <4>1, <4>2
    <3>4. \A a, b \in DOMAIN out[i] : out[i][a] = out[i][b] => a = b
      <4>1. DOMAIN o = 1..Len(o) /\ Len(o) \in Nat
        BY <2>6
      <4>. QED  BY <2>6, <3>2, <3>3, <4>1
    <3>. QED  BY <2>5, <2>6, <3>2, <3>4 DEF IsUnique
  <2>. QED  BY <2>7, <2>8
<1>4. Bad = {}
  <2>. HIDE DEF Bad
  <2>1. Bad \in SUBSET Nat
    BY <1>1 DEF Bad
  <2>. QED  BY <1>3, <2>1, NoLeast
<1>5. IsUnique(out[n], tokens, n)
  BY <1>1, <1>4
<1>6. ToSet(tokens) = {tokens[i] : i \in 1..n}
  BY <1>1 DEF ToSet
<1>. QED  BY <1>2, <1>5, <1>6 DEF IsUnique
-----------------------------------------------------------------------------
\* The words that end before position m, and what scan knows of them there.
Before(low, m) ==
  {SubSeq(low, x[1], x[2]) : x \in {y \in Runs(low) : y[2] < m}}

ScannedFrom(s, low, i, m) ==
  /\ s = [tokens |-> s.tokens, current |-> SubSeq(low, m, i)]
  /\ s.tokens \in Seq(Seq(ToSet(low)))
  /\ \A k \in m..i : InWord(low, k)
  /\ ~InWord(low, m - 1)
  /\ ToSet(s.tokens) = Before(low, m)

Scanned(s, low, i) == \E m \in 1..(i + 1) : ScannedFrom(s, low, i, m)

LEMMA ExtendSubSeq ==
  ASSUME NEW S, NEW low \in Seq(S), NEW i \in 0..(Len(low) - 1), NEW m \in 1..(i + 1)
  PROVE  Append(SubSeq(low, m, i), low[i + 1]) = SubSeq(low, m, i + 1)
<1>1. \A k \in m..i : low[k] \in S
  OBVIOUS
<1>2. SubSeq(low, m, i) \in Seq(S) /\ low[i + 1] \in S
  BY <1>1, SubSeqProperties
<1>3. Append(SubSeq(low, m, i), low[i + 1]) = SubSeq(low, m, i) \o <<low[i + 1]>>
  BY <1>2, AppendIsConcat
<1>4. m \in 1..Len(low) /\ i + 1 \in m..Len(low) /\ i + 1 - 1 = i
  OBVIOUS
<1>. QED  BY <1>3, <1>4, SubSeqRecursiveSecond

\* A character that is no letter and no digit ends the word before it.
LEMMA FlushEndsWord ==
  ASSUME NEW S, NEW low \in Seq(S), NEW i \in 0..Len(low), ~InWord(low, i + 1),
         NEW s, Scanned(s, low, i)
  PROVE  /\ flush(s) = [tokens |-> flush(s).tokens, current |-> <<>>]
         /\ flush(s).tokens \in Seq(Seq(ToSet(low)))
         /\ ToSet(flush(s).tokens) = Before(low, i + 2)
<1>1. PICK m \in 1..(i + 1) : ScannedFrom(s, low, i, m)
  BY DEF Scanned
<1>2. \A y \in Runs(low) : /\ y[1] \in 1..Len(low) /\ y[2] \in 1..Len(low) /\ y[1] <= y[2]
                           /\ \A k \in y[1]..y[2] : InWord(low, k)
                           /\ ~InWord(low, y[1] - 1) /\ ~InWord(low, y[2] + 1)
                           /\ y = <<y[1], y[2]>>
  BY DEF Runs
<1>3. CASE m = i + 1
  <2>1. s.current = <<>> /\ s = [tokens |-> s.tokens, current |-> <<>>]
    BY <1>1, <1>3, SubSeqEmpty DEF ScannedFrom
  <2>2. flush(s) = s
    BY <2>1 DEF flush
  <2>3. ASSUME NEW y \in Runs(low)
        PROVE  y[2] < m <=> y[2] < i + 2
    <3>1. InWord(low, y[2]) /\ y[2] \in Nat
      BY <1>2
    <3>. QED  BY <1>3, <3>1
  <2>4. Before(low, m) = Before(low, i + 2)
    BY <2>3 DEF Before
  <2>. QED  BY <1>1, <2>1, <2>2, <2>4 DEF ScannedFrom
<1>4. CASE m <= i
  <2>. DEFINE word == SubSeq(low, m, i)
  <2>1. word \in Seq(ToSet(low)) /\ word # <<>>
    <3>1. \A k \in m..i : low[k] \in ToSet(low)
      BY DEF ToSet
    <3>2. word \in Seq(ToSet(low)) /\ Len(word) = i - m + 1
      BY <1>4, <3>1, SubSeqProperties
    <3>. QED  BY <1>4, <3>2
  <2>2. s.current = word
    BY <1>1 DEF ScannedFrom
  <2>3. flush(s) = [tokens |-> Append(s.tokens, word), current |-> <<>>]
    BY <2>1, <2>2 DEF flush
  <2>4. /\ Append(s.tokens, word) \in Seq(Seq(ToSet(low)))
        /\ ToSet(Append(s.tokens, word)) = Before(low, m) \cup {word}
    <3>. HIDE DEF word
    <3>1. s.tokens \in Seq(Seq(ToSet(low))) /\ ToSet(s.tokens) = Before(low, m)
      BY <1>1 DEF ScannedFrom
    <3>2. word \in Seq(ToSet(low))
      BY <2>1
    <3>. QED  BY <3>1, <3>2, AppendElements
  <2>5. <<m, i>> \in Runs(low)
    <3>1. InWord(low, m) /\ InWord(low, i)
      BY <1>1, <1>4 DEF ScannedFrom
    <3>2. m \in DOMAIN low /\ i \in DOMAIN low
      BY <3>1 DEF InWord
    <3>. QED  BY <1>1, <1>4, <3>2 DEF ScannedFrom, Runs
  <2>6. ASSUME NEW y \in Runs(low), y[2] < i + 2, ~(y[2] < m)
        PROVE  y = <<m, i>>
    <3>1. y[2] # i + 1
      BY <1>2
    <3>2. y[2] \in m..i
      BY <1>2, <2>6, <3>1
    <3>3. \A k \in m..i : InWord(low, k)
      BY <1>1 DEF ScannedFrom
    <3>4. y[2] = i
      <4>1. ~(y[2] + 1 \in m..i)
        BY <1>2, <3>3
      <4>. QED  BY <3>2, <4>1
    <3>5. ~(y[1] < m)
      <4>1. SUFFICES ASSUME y[1] < m PROVE FALSE
        OBVIOUS
      <4>2. m - 1 \in y[1]..y[2]
        BY <1>2, <3>2, <4>1
      <4>. QED  BY <1>1, <1>2, <4>2 DEF ScannedFrom
    <3>6. ~(y[1] > m)
      <4>1. SUFFICES ASSUME y[1] > m PROVE FALSE
        OBVIOUS
      <4>2. y[1] - 1 \in m..i
        BY <1>2, <3>4, <4>1
      <4>. QED  BY <1>2, <3>3, <4>2
    <3>. QED  BY <1>2, <3>4, <3>5, <3>6
  <2>7. Before(low, i + 2) = Before(low, m) \cup {word}
    <3>1. ASSUME NEW y \in Runs(low)
          PROVE  y[2] < i + 2 <=> y[2] < m \/ y = <<m, i>>
      <4>1. y[2] < m => y[2] < i + 2
        BY <1>2
      <4>2. y = <<m, i>> => y[2] < i + 2
        OBVIOUS
      <4>. QED  BY <2>6, <4>1, <4>2
    <3>2. {y \in Runs(low) : y[2] < i + 2} = {y \in Runs(low) : y[2] < m} \cup {<<m, i>>}
      BY <2>5, <3>1
    <3>3. word = SubSeq(low, <<m, i>>[1], <<m, i>>[2])
      OBVIOUS
    <3>. HIDE DEF word
    <3>. QED  BY <3>2, <3>3, Zenon DEF Before
  <2>. HIDE DEF word
  <2>8. flush(s).tokens = Append(s.tokens, word) /\ flush(s).current = <<>>
    BY <2>3
  <2>. QED  BY <2>3, <2>4, <2>7, <2>8
<1>. QED  BY <1>3, <1>4
\* What the loop of tokenize has come to after i characters.
LEMMA ScanFindsWords ==
  ASSUME NEW S, NEW low \in Seq(S), NEW i \in 0..Len(low)
  PROVE  Scanned(scan(low)[i], low, i)
<1>. DEFINE n == Len(low)
            at(k) == scan(low)[k]
            Bad == {k \in 0..n : ~Scanned(at(k), low, k)}
<1>1. n \in Nat /\ DOMAIN low = 1..n
  OBVIOUS
<1>2. /\ at(0) = [tokens |-> <<>>, current |-> <<>>]
      /\ \A k \in 1..n : at(k) = read(at(k - 1), low[k])
  BY <1>1, ScanEquation
<1>. HIDE DEF at
<1>3. Scanned(at(0), low, 0)
  <2>1. SubSeq(low, 1, 0) = <<>>
    BY SubSeqEmpty
  <2>2. /\ at(0) = [tokens |-> at(0).tokens, current |-> <<>>]
        /\ at(0).tokens = <<>> /\ at(0).tokens \in Seq(Seq(ToSet(low)))
    <3>1. <<>> \in Seq(Seq(ToSet(low)))
      OBVIOUS
    <3>2. at(0).tokens = <<>>
      BY <1>2
    <3>. QED  BY <1>2, <3>1, <3>2, Zenon
  <2>3. ToSet(at(0).tokens) = {}
    BY <2>2 DEF ToSet
  <2>4. ~InWord(low, 1 - 1)
    BY <1>1 DEF InWord
  <2>5. Before(low, 1) = {}
    <3>1. \A y \in Runs(low) : ~(y[2] < 1)
      BY <1>1 DEF Runs
    <3>. QED  BY <3>1 DEF Before
  <2>6. ScannedFrom(at(0), low, 0, 1)
    <3>1. \A k \in 1..0 : InWord(low, k)
      OBVIOUS
    <3>. QED  BY <2>1, <2>2, <2>3, <2>4, <2>5, <3>1, Zenon DEF ScannedFrom
  <2>. QED  BY <2>6 DEF Scanned
<1>4. ASSUME NEW k \in Bad
      PROVE  \E j \in Bad : j < k
  <2>1. k \in 1..n /\ k - 1 \in 0..n /\ k - 1 < k
    BY <1>1, <1>3
  <2>. SUFFICES ASSUME Scanned(at(k - 1), low, k - 1) PROVE Scanned(at(k), low, k)
    BY <2>1
  <2>2. at(k) = read(at(k - 1), low[k])
    BY <1>2, <2>1
  <2>3. CASE low[k] \in Alnum
    <3>1. PICK m \in 1..(k - 1 + 1) : ScannedFrom(at(k - 1), low, k - 1, m)
      BY DEF Scanned
    <3>. DEFINE s == at(k - 1)
    <3>. HIDE DEF s
    <3>2. /\ s = [tokens |-> s.tokens, current |-> SubSeq(low, m, k - 1)]
          /\ s.tokens \in Seq(Seq(ToSet(low)))
          /\ \A j \in m..(k - 1) : InWord(low, j)
          /\ ~InWord(low, m - 1)
          /\ ToSet(s.tokens) = Before(low, m)
      BY <3>1 DEF ScannedFrom, s
    <3>3. at(k) = [s EXCEPT !.current = Append(@, low[k])]
      BY <2>2, <2>3 DEF read, s
    <3>4. Append(SubSeq(low, m, k - 1), low[k]) = SubSeq(low, m, k)
      <4>1. k - 1 \in 0..(Len(low) - 1) /\ k - 1 + 1 = k
        BY <2>1
      <4>. QED  BY <3>1, <4>1, ExtendSubSeq
    <3>5. /\ at(k) = [tokens |-> s.tokens, current |-> SubSeq(low, m, k)]
          /\ at(k).tokens = s.tokens
      <4>1. s.current = SubSeq(low, m, k - 1)
        BY <3>2
      <4>2. at(k) = [s EXCEPT !.current = SubSeq(low, m, k)]
        BY <3>3, <3>4, <4>1
      <4>. QED  BY <3>2, <4>2
    <3>6. \A j \in m..k : InWord(low, j)
      BY <1>1, <2>1, <2>3, <3>2 DEF InWord
    <3>7. m \in 1..(k + 1)
      BY <2>1
    <3>. QED  BY <3>2, <3>5, <3>6, <3>7 DEF Scanned, ScannedFrom
  <2>4. CASE low[k] \notin Alnum
    <3>. DEFINE s == at(k - 1)
    <3>1. at(k) = flush(s)
      BY <2>2, <2>4 DEF read
    <3>2. ~InWord(low, k)
      BY <2>4 DEF InWord
    <3>3. k - 1 \in 0..Len(low) /\ k - 1 + 1 = k /\ k - 1 + 2 = k + 1
      BY <2>1
    <3>. HIDE DEF s
    <3>4. Scanned(s, low, k - 1)
      BY DEF s
    <3>5. /\ flush(s) = [tokens |-> flush(s).tokens, current |-> <<>>]
          /\ flush(s).tokens \in Seq(Seq(ToSet(low)))
          /\ ToSet(flush(s).tokens) = Before(low, k + 1)
      BY <3>2, <3>3, <3>4, FlushEndsWord
    <3>6. SubSeq(low, k + 1, k) = <<>>
      BY <2>1, SubSeqEmpty
    <3>7. /\ \A j \in (k + 1)..k : InWord(low, j)
          /\ (k + 1) - 1 = k /\ k + 1 \in 1..(k + 1)
      BY <2>1
    <3>8. ScannedFrom(at(k), low, k, k + 1)
      <4>1. ~InWord(low, (k + 1) - 1)
        BY <3>2, <3>7
      <4>2. at(k) = [tokens |-> at(k).tokens, current |-> SubSeq(low, k + 1, k)]
        BY <3>1, <3>5, <3>6
      <4>3. /\ at(k).tokens \in Seq(Seq(ToSet(low)))
            /\ ToSet(at(k).tokens) = Before(low, k + 1)
        BY <3>1, <3>5
      <4>. QED  BY <3>7, <4>1, <4>2, <4>3, Zenon DEF ScannedFrom
    <3>. QED  BY <3>7, <3>8 DEF Scanned
  <2>. QED  BY <2>3, <2>4
<1>5. Bad = {}
  <2>. HIDE DEF Bad
  <2>1. Bad \in SUBSET Nat
    BY <1>1 DEF Bad
  <2>. QED  BY <1>4, <2>1, NoLeast
<1>. QED  BY <1>5 DEF at

\* tokenize cuts a text into its words, and has each of them once.
IsTokens(tokens, text) ==
  /\ tokens \in Seq(Seq(ToSet(ToLower(text))))
  /\ ToSet(tokens) = Words(text)
  /\ \A i, j \in DOMAIN tokens : tokens[i] = tokens[j] => i = j

LEMMA TokenizeFindsWords ==
  ASSUME NEW S, NEW text \in Seq(S)
  PROVE  IsTokens(tokenize(text), text)
<1>. DEFINE low == ToLower(text)
            n == Len(text)
            s == scan(low)[n]
            found == flush(s).tokens
<1>1. n \in Nat /\ DOMAIN text = 1..n
  OBVIOUS
<1>2. low \in Seq(ToSet(low)) /\ Len(low) = n /\ DOMAIN low = 1..n
  <2>1. low \in [1..n -> ToSet(low)]
    BY <1>1 DEF ToLower, ToSet
  <2>. HIDE DEF low
  <2>. QED  BY <1>1, <2>1
<1>. HIDE DEF low
<1>3. Scanned(s, low, n)
  BY <1>1, <1>2, ScanFindsWords
<1>4. ~InWord(low, n + 1) /\ n \in 0..Len(low)
  BY <1>1, <1>2 DEF InWord
<1>. HIDE DEF s, n
<1>5. found \in Seq(Seq(ToSet(low))) /\ ToSet(found) = Before(low, n + 2)
  BY <1>2, <1>3, <1>4, FlushEndsWord
<1>6. Before(low, n + 2) = Words(text)
  <2>1. \A y \in Runs(low) : y[2] < n + 2
    BY <1>1, <1>2 DEF Runs
  <2>2. {y \in Runs(low) : y[2] < n + 2} = Runs(low)
    BY <2>1
  <2>. QED  BY <2>2 DEF Before, Words, low
<1>7. tokenize(text) = unique(found)
  BY DEF tokenize, low, s, n
<1>. HIDE DEF found
<1>8. ToSet(found) \subseteq Seq(ToSet(low))
  <2>1. \A i \in DOMAIN found : found[i] \in Seq(ToSet(low))
    BY <1>5
  <2>. QED  BY <2>1 DEF ToSet
<1>9. /\ unique(found) \in Seq(ToSet(found))
      /\ ToSet(unique(found)) = ToSet(found)
      /\ \A i, j \in DOMAIN unique(found) : unique(found)[i] = unique(found)[j] => i = j
  BY <1>5, UniqueKeepsOnce
<1>10. unique(found) \in Seq(Seq(ToSet(low)))
  BY <1>8, <1>9
<1>. QED  BY <1>5, <1>6, <1>7, <1>9, <1>10 DEF IsTokens, low

-----------------------------------------------------------------------------
\* A sequence without repetitions has as many places as elements.
Places(s, T) == {i \in DOMAIN s : s[i] \in T}

LEMMA DistinctLen ==
  ASSUME NEW S, NEW s \in Seq(S), NEW T,
         \A i, j \in DOMAIN s : s[i] = s[j] => i = j
  PROVE  /\ IsFiniteSet(ToSet(s) \cap T)
         /\ Cardinality(Places(s, T)) = Cardinality(ToSet(s) \cap T)
<1>. DEFINE P == {i \in DOMAIN s : s[i] \in T}
            f == [i \in P |-> s[i]]
<1>1. Len(s) \in Nat /\ DOMAIN s = 1..Len(s)
  OBVIOUS
<1>2. IsFiniteSet(P)
  <2>1. IsFiniteSet(1..Len(s))
    BY <1>1, FS_Interval
  <2>. QED  BY <1>1, <2>1, FS_Subset
<1>3. f \in Bijection(P, ToSet(s) \cap T)
  <2>1. f \in [P -> ToSet(s) \cap T]
    BY DEF ToSet
  <2>2. \A i, j \in P : f[i] = f[j] => i = j
    OBVIOUS
  <2>3. \A t \in ToSet(s) \cap T : \E i \in P : f[i] = t
    BY DEF ToSet
  <2>. HIDE DEF f, P
  <2>. QED  BY <2>1, <2>2, <2>3, Zenon DEF Bijection, Injection, Surjection, IsInjective
<1>. HIDE DEF f
<1>. QED  BY <1>2, <1>3, FS_Bijection DEF ExistsBijection, Places

\* similarity of two lists of tokens that have each word once.
LEMMA SimilarityIsShare ==
  ASSUME NEW query, NEW text, NEW q, NEW e, IsTokens(q, query), IsTokens(e, text)
  PROVE  IF Words(query) = {} \/ Words(text) = {} THEN similarity(q, e)[1] = 0
         ELSE similarity(q, e) = <<Cardinality(Words(query) \cap Words(text)),
                                   Cardinality(Words(query) \cup Words(text))>>
<1>. DEFINE asked == Words(query)
            held == Words(text)
<1>1. /\ q \in Seq(Seq(ToSet(ToLower(query)))) /\ ToSet(q) = asked
      /\ e \in Seq(Seq(ToSet(ToLower(text)))) /\ ToSet(e) = held
      /\ \A i, j \in DOMAIN q : q[i] = q[j] => i = j
      /\ \A i, j \in DOMAIN e : e[i] = e[j] => i = j
  BY DEF IsTokens
<1>. HIDE DEF asked, held
<1>2. (q = <<>> <=> asked = {}) /\ (e = <<>> <=> held = {})
  <2>1. ASSUME NEW S, NEW s \in Seq(S)
        PROVE  s = <<>> <=> ToSet(s) = {}
    <3>1. s = <<>> <=> DOMAIN s = {}
      OBVIOUS
    <3>2. DOMAIN s = {} <=> ToSet(s) = {}
      BY Zenon DEF ToSet
    <3>. QED  BY <3>1, <3>2
  <2>. QED  BY <1>1, <2>1
<1>3. Cardinality(Places(e, asked)) = Cardinality(asked \cap held)
  <2>1. held \cap asked = asked \cap held
    OBVIOUS
  <2>2. Cardinality(Places(e, asked)) = Cardinality(ToSet(e) \cap asked)
    BY <1>1, DistinctLen
  <2>. QED  BY <1>1, <2>1, <2>2
<1>4. IsFiniteSet(asked) /\ IsFiniteSet(held) /\ Len(e) = Cardinality(held)
  <2>1. ASSUME NEW S, NEW s \in Seq(S), \A i, j \in DOMAIN s : s[i] = s[j] => i = j
        PROVE  IsFiniteSet(ToSet(s)) /\ Cardinality(ToSet(s)) = Len(s)
    <3>1. ToSet(s) \cap ToSet(s) = ToSet(s) /\ Places(s, ToSet(s)) = 1..Len(s)
      BY DEF ToSet, Places
    <3>2. Len(s) \in Nat
      OBVIOUS
    <3>3. Cardinality(1..Len(s)) = Len(s)
      BY <3>2, FS_Interval
    <3>. QED  BY <2>1, <3>1, <3>3, DistinctLen
  <2>. QED  BY <1>1, <2>1
<1>5. Cardinality(asked \cup held) =
        Cardinality(asked) + Cardinality(held) - Cardinality(asked \cap held)
  BY <1>4, FS_Union
<1>6. CASE asked = {} \/ held = {}
  BY <1>2, <1>6 DEF similarity, asked, held
<1>7. CASE asked # {} /\ held # {}
  <2>1. similarity(q, e) = <<Cardinality(asked \cap held),
                             Cardinality(asked) + Len(e) - Cardinality(asked \cap held)>>
    BY <1>1, <1>2, <1>3, <1>7 DEF similarity, Places
  <2>. QED  BY <1>4, <1>5, <1>7, <2>1 DEF asked, held
<1>. QED  BY <1>6, <1>7
-----------------------------------------------------------------------------
\* A row has the tokens of its text.
RowsHoldTokens ==
  \A p \in Rows : rows[p].text \in Texts /\ rows[p].tokens = tokenize(rows[p].text)

\* The inductive invariant.
IInv == RowsOK /\ RowsHoldTokens /\ MissedMatchIsExplained

LEMMA InitInv == Init => IInv
<1>. SUFFICES ASSUME Init PROVE IInv
  OBVIOUS
<1>1. Rows = {}
  BY DEF Init, Rows
<1>. QED  BY <1>1 DEF Init, IInv, RowsOK, RowsHoldTokens, MissedMatchIsExplained

LEMMA TickStep == IInv /\ Tick => IInv'
<1>. SUFFICES ASSUME IInv, Tick PROVE IInv'
  OBVIOUS
<1>1. rows' = rows /\ answer' = answer /\ now' \in Times
  BY DEF Tick
<1>. QED  BY <1>1 DEF IInv, RowsOK, RowsHoldTokens, MissedMatchIsExplained, Rows, Matches, Score

LEMMA UpsertStep ==
  ASSUME IInv, NEW p \in Paths, NEW text \in Texts, UpsertIndexEntry(p, text)
  PROVE  IInv'
<1>1. now' = now /\ answer' = {}
  BY DEF UpsertIndexEntry
<1>2. ASSUME NEW q \in Rows'
      PROVE  /\ rows'[q].at \in Times
             /\ rows'[q].text \in Texts
             /\ rows'[q].tokens = tokenize(rows'[q].text)
  <2>1. CASE rows'[q] = rows[q]
    BY <2>1, <1>2 DEF IInv, RowsOK, RowsHoldTokens, Rows
  <2>2. CASE rows'[q] = [text |-> text, tokens |-> tokenize(text), at |-> now]
    BY <2>2 DEF IInv, RowsOK
  <2>3. rows' = [rows EXCEPT ![p] = [text |-> text, tokens |-> tokenize(text), at |-> now]]
    BY DEF UpsertIndexEntry
  <2>4. q \in Paths
    BY <1>2 DEF Rows
  <2>. QED  BY <2>1, <2>2, <2>3, <2>4
<1>3. DOMAIN rows' = Paths
  BY DEF UpsertIndexEntry, IInv, RowsOK
<1>. QED  BY <1>1, <1>2, <1>3 DEF IInv, RowsOK, RowsHoldTokens, MissedMatchIsExplained

LEMMA DeleteStep ==
  ASSUME IInv, NEW p \in Paths, DeleteIndexEntry(p)
  PROVE  IInv'
<1>1. /\ now' = now /\ answer' = {} /\ DOMAIN rows' = Paths
      /\ \A q \in Paths : rows'[q] # NoRow => rows'[q] = rows[q]
  BY DEF DeleteIndexEntry, IInv, RowsOK
<1>. QED  BY <1>1 DEF IInv, RowsOK, RowsHoldTokens, Rows, MissedMatchIsExplained

LEMMA SearchStep ==
  ASSUME IInv, NEW query \in Queries, NEW n \in Limits \cup {NoNumber}, Search(query, n)
  PROVE  IInv'
<1>. DEFINE matchesIn(W) == {p \in W : Score(query, p)[1] > 0}
            limit == limitOf(n)
            given(r) == FirstOf(r, limit)
<1>1. rows' = rows /\ now' = now
  BY DEF Search
<1>2. PICK W \in Newest : \E r \in Rankings(matchesIn(W), query) :
        answer' = {[query |-> query, limit |-> limit, matches |-> given(r)]}
  BY DEF Search, Answer, FirstOf
<1>3. PICK r \in Rankings(matchesIn(W), query) :
       answer' = {[query |-> query, limit |-> limit, matches |-> given(r)]}
  BY <1>2
<1>4. W \subseteq Rows /\ IsFiniteSet(matchesIn(W))
  <2>1. W \subseteq Rows
    BY DEF Newest, Rows
  <2>2. matchesIn(W) \subseteq Paths
    BY <2>1 DEF Rows
  <2>. QED  BY <2>1, <2>2, Assumptions, FS_Subset
<1>5. limit \in Nat /\ limit > 0
  BY LimitIsPositive
<1>6. ASSUME NEW p \in Matches(query) \ ToSet(given(r))
      PROVE  \/ /\ Len(given(r)) = limit
                /\ \A q \in ToSet(given(r)) : ~Greater(Score(query, p), Score(query, q))
             \/ Cardinality({q \in Rows \ {p} : rows[q].at.sec >= rows[p].at.sec}) >= Window
  <2>1. p \in Rows /\ Score(query, p)[1] > 0
    BY DEF Matches
  <2>2. CASE p \notin W
    BY <2>1, <2>2, WindowIsFull DEF IInv
  <2>3. CASE p \in W
    <3>1. p \in matchesIn(W)
      BY <2>1, <2>3
    <3>. HIDE DEF matchesIn, limit
    <3>. QED  BY <1>3, <1>4, <1>5, <1>6, <3>1, CutOffIsLower
  <2>. QED  BY <2>2, <2>3
<1>7. MissedMatchIsExplained'
  <2>. HIDE DEF given, limit
  <2>1. ASSUME NEW a \in answer'
        PROVE  a.query = query /\ a.limit = limit /\ a.matches = given(r)
    BY <1>3, <2>1
  <2>2. /\ Rows' = Rows /\ \A q : Matches(q)' = Matches(q)
        /\ \A q, p : Score(q, p)' = Score(q, p)
    BY <1>1 DEF Rows, Matches, Score
  <2>. QED  BY <1>1, <1>6, <2>1, <2>2 DEF MissedMatchIsExplained
<1>. QED  BY <1>1, <1>7 DEF IInv, RowsOK, RowsHoldTokens, Rows

-----------------------------------------------------------------------------
LEMMA NextInv == IInv /\ [Next]_vars => IInv'
<1>. SUFFICES ASSUME IInv, [Next]_vars PROVE IInv'
  OBVIOUS
<1>1. CASE UNCHANGED vars
  BY <1>1 DEF vars, IInv, RowsOK, RowsHoldTokens, Rows, Matches, Score, MissedMatchIsExplained
<1>. QED  BY <1>1, TickStep, UpsertStep, DeleteStep, SearchStep DEF Next

\* A row that answers a question and is missing in the answer has been beaten
\* by as many as the answer holds, or by as many as the search looks at
\* (Search, ListIndexEntries), whatever the texts, the limit and the clock.
THEOREM MissedMatchesAreExplained == Spec => []MissedMatchIsExplained
<1>1. IInv => MissedMatchIsExplained
  BY DEF IInv
<1>. QED  BY <1>1, InitInv, NextInv, PTL DEF Spec

\* The score of a row is the share of words that its text and the question
\* have in common (tokenize, similarity), for every text and every question.
THEOREM ScoresAreShares == Spec => []ScoreIsShare
<1>1. IInv => ScoreIsShare
  <2>. SUFFICES ASSUME IInv, NEW query \in Queries, NEW p \in Rows
                PROVE  IF Words(query) = {} \/ Words(rows[p].text) = {}
                       THEN Score(query, p)[1] = 0
                       ELSE Score(query, p) =
                              <<Cardinality(Words(query) \cap Words(rows[p].text)),
                                Cardinality(Words(query) \cup Words(rows[p].text))>>
    BY DEF ScoreIsShare
  <2>1. rows[p].text \in Texts /\ rows[p].tokens = tokenize(rows[p].text)
    BY DEF IInv, RowsHoldTokens
  <2>2. query \in Seq(ToSet(query)) /\ rows[p].text \in Seq(ToSet(rows[p].text))
    BY <2>1, IndexSearchAssumption
  <2>3. IsTokens(tokenize(query), query) /\ IsTokens(rows[p].tokens, rows[p].text)
    BY <2>1, <2>2, TokenizeFindsWords
  <2>. QED  BY <2>3, SimilarityIsShare DEF Score
<1>. QED  BY <1>1, InitInv, NextInv, PTL DEF Spec

\* What a search may leave out while the index fits into the window.
MissedMatchIsOutscored ==
  \A a \in answer : \A p \in Matches(a.query) \ ToSet(a.matches) :
    /\ Len(a.matches) = a.limit
    /\ \A q \in ToSet(a.matches) : ~Greater(Score(a.query, p), Score(a.query, q))

\* With no more files than ListIndexEntries looks at, the order of the times
\* plays no part: only better scores keep a row out of an answer (Search).
THEOREM OnlyScoresDecide ==
  Cardinality(Paths) <= Window => (Spec => []MissedMatchIsOutscored)
<1>. SUFFICES ASSUME Cardinality(Paths) <= Window
              PROVE  Spec => []MissedMatchIsOutscored
  OBVIOUS
<1>1. ASSUME NEW p \in Rows
      PROVE  ~(Cardinality({q \in Rows \ {p} : rows[q].at.sec >= rows[p].at.sec}) >= Window)
  <2>. DEFINE later == {q \in Rows \ {p} : rows[q].at.sec >= rows[p].at.sec}
  <2>1. p \in Paths /\ IsFiniteSet(Paths) /\ Cardinality(Paths) \in Nat
    BY Assumptions, FS_CardinalityType DEF Rows
  <2>2. IsFiniteSet(Paths \ {p}) /\ Cardinality(Paths \ {p}) = Cardinality(Paths) - 1
    BY <2>1, FS_RemoveElement
  <2>3. later \subseteq Paths \ {p}
    BY DEF Rows
  <2>. HIDE DEF later
  <2>4. Cardinality(later) <= Cardinality(Paths \ {p}) /\ Cardinality(later) \in Nat
    BY <2>2, <2>3, FS_Subset, FS_CardinalityType
  <2>5. Cardinality(later) < Window
    BY <2>1, <2>2, <2>4, Assumptions
  <2>. QED  BY <2>4, <2>5, Assumptions DEF later
<1>2. MissedMatchIsExplained => MissedMatchIsOutscored
  BY <1>1 DEF MissedMatchIsExplained, MissedMatchIsOutscored, Matches
<1>3. IInv => MissedMatchIsOutscored
  BY <1>2 DEF IInv
<1>. QED  BY <1>3, InitInv, NextInv, PTL DEF Spec
=============================================================================
