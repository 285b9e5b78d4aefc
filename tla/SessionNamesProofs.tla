--------------------------- MODULE SessionNamesProofs ---------------------------
(***************************************************************************)
(* What TLAPS proves of the names of session files, for every alphabet,    *)
(* every set of session ids and every length of a file name.               *)
(***************************************************************************)
EXTENDS SessionNames, WellFoundedInduction, SequenceTheorems, TLAPS

-----------------------------------------------------------------------------
(* A nonempty set of natural numbers has a least element.                  *)
LEMMA LeastExists ==
  ASSUME NEW S \in SUBSET Nat, S # {}
  PROVE  \E i \in S : \A j \in S : i <= j
<1>1. IsWellFoundedOn(OpToRel(<, Nat), Nat)
  BY NatLessThanWellFounded
<1>2. PICK i \in S : \A j \in S : ~(<<j, i>> \in OpToRel(<, Nat))
  BY <1>1, WFMin
<1>3. \A j \in S : ~(j < i)
  BY <1>2 DEF OpToRel
<1> QED BY <1>3

(* A nonempty set of positions has a greatest element.                     *)
LEMMA GreatestExists ==
  ASSUME NEW n \in Nat, NEW S \in SUBSET (1..n), S # {}
  PROVE  \E i \in S : \A j \in S : j <= i
<1> DEFINE T == {n - i : i \in S}
<1>1. T \in SUBSET Nat /\ T # {}
  <2>1. \A i \in S : n - i \in Nat
    OBVIOUS
  <2> QED BY <2>1
<1>2. PICK k \in T : \A j \in T : k <= j
  BY <1>1, LeastExists
<1>3. PICK i \in S : k = n - i
  OBVIOUS
<1>4. \A j \in S : n - i <= n - j
  BY <1>2, <1>3
<1>5. \A j \in S : j <= i
  BY <1>4
<1> QED BY <1>5

(* Mapping an id rune by rune leaves kept runes and dashes.                *)
LEMMA MapRuneType == \A r : mapRune(r) \in Kept \cup {Dash}
BY SessionNamesAssumption DEF mapRune, Kept

LEMMA MapType ==
  ASSUME NEW id, \E S : id \in Seq(S)
  PROVE  [i \in DOMAIN id |-> mapRune(id[i])] \in Seq(Kept \cup {Dash})
BY MapRuneType

(* What is kept once is kept again.                                        *)
LEMMA MapRuneIdempotent == \A r \in Kept \cup {Dash} : mapRune(r) = r
BY SessionNamesAssumption DEF mapRune, Kept

-----------------------------------------------------------------------------
(* strings.Trim: what is left begins and ends with another byte.           *)
LEMMA TrimEnds ==
  ASSUME NEW s \in Seq(Kept \cup {Dash}), Trim(s) # <<>>
  PROVE  /\ Trim(s) \in Seq(Kept \cup {Dash})
         /\ Len(Trim(s)) \in Nat \ {0}
         /\ Trim(s)[1] # Dash
         /\ Trim(s)[Len(Trim(s))] # Dash
<1> DEFINE other == {i \in DOMAIN s : s[i] # Dash}
           first == CHOOSE i \in other : \A j \in other : i <= j
           last == CHOOSE i \in other : \A j \in other : j <= i
<1>1. other # {}
  BY DEF Trim
<1>2. other \in SUBSET (1..Len(s)) /\ other \in SUBSET Nat /\ Len(s) \in Nat
  OBVIOUS
<1>3. first \in other /\ \A j \in other : first <= j
  BY <1>1, <1>2, LeastExists
<1>4. last \in other /\ \A j \in other : j <= last
  BY <1>1, <1>2, GreatestExists
<1>5. Trim(s) = SubSeq(s, first, last)
  BY <1>1 DEF Trim
<1> HIDE DEF first, last
<1>6. first \in 1..Len(s) /\ last \in 1..Len(s) /\ first <= last
      /\ s[first] # Dash /\ s[last] # Dash
  BY <1>2, <1>3, <1>4
<1>7. /\ SubSeq(s, first, last) \in Seq(Kept \cup {Dash})
      /\ Len(SubSeq(s, first, last)) = last - first + 1
      /\ \A i \in 1..(last - first + 1) : SubSeq(s, first, last)[i] = s[first + i - 1]
  BY <1>6, SubSeqProperties
<1> QED BY <1>5, <1>6, <1>7

(* A name that begins and ends with another byte is left alone.            *)
LEMMA TrimKeeps ==
  ASSUME NEW R, NEW s \in Seq(R), s # <<>>, s[1] # Dash, s[Len(s)] # Dash
  PROVE  Trim(s) = s
<1> DEFINE other == {i \in DOMAIN s : s[i] # Dash}
<1>1. /\ Len(s) \in Nat \ {0} /\ DOMAIN s = 1..Len(s)
      /\ 1 \in other /\ Len(s) \in other
      /\ \A j \in other : 1 <= j /\ j <= Len(s)
  OBVIOUS
<1>2. (CHOOSE i \in other : \A j \in other : i <= j) = 1
  BY <1>1
<1>3. (CHOOSE i \in other : \A j \in other : j <= i) = Len(s)
  BY <1>1
<1>4. Trim(s) = SubSeq(s, 1, Len(s))
  BY <1>1, <1>2, <1>3 DEF Trim
<1> QED BY <1>4, <1>1, SubSeqFull

-----------------------------------------------------------------------------
\* What FileNamesSafe says of one file name.
Safe(f) ==
  /\ Len(f) \in 1..MaxLen
  /\ \A i \in DOMAIN f : f[i] \in Kept \cup {Dash}
  /\ f[1] # Dash
  /\ sanitizeID(f) = f \/ (Len(f) = MaxLen /\ f[MaxLen] = Dash)

(* Sanitizing a safe text that does not end in a dash changes nothing.     *)
LEMMA SanitizeKeeps ==
  ASSUME NEW f \in Seq(Kept \cup {Dash}), Len(f) \in 1..MaxLen,
         f[1] # Dash, f[Len(f)] # Dash
  PROVE  sanitizeID(f) = f
<1> DEFINE mapped == [i \in DOMAIN f |-> mapRune(f[i])]
<1>1. mapped = f
  BY MapRuneIdempotent
<1>2. Trim(f) = f /\ f # <<>>
  <2>1. f # <<>>
    OBVIOUS
  <2> QED BY <2>1, TrimKeeps
<1>3. Cut(f) = f
  BY SessionNamesAssumption DEF Cut
<1> QED BY <1>1, <1>2, <1>3 DEF sanitizeID

(* Every name sanitizeID returns is a safe one.                            *)
LEMMA SanitizeIsSafe ==
  ASSUME NEW R, NEW id \in Seq(R)
  PROVE  Safe(sanitizeID(id))
<1> DEFINE mapped == [i \in DOMAIN id |-> mapRune(id[i])]
<1>1. mapped \in Seq(Kept \cup {Dash})
  BY MapType
<1> HIDE DEF mapped
<1>2. sanitizeID(id) = IF Trim(mapped) = <<>> THEN Session ELSE Cut(Trim(mapped))
  BY DEF sanitizeID, mapped
<1>3. CASE Trim(mapped) = <<>>
  <2>1. Session \in Seq(Kept \cup {Dash}) /\ Len(Session) \in 1..MaxLen
        /\ \A i \in DOMAIN Session : Session[i] \in Letters
    BY SessionNamesAssumption DEF Kept
  <2>2. Session[1] # Dash /\ Session[Len(Session)] # Dash
    BY <2>1, SessionNamesAssumption DEF Kept
  <2>3. sanitizeID(Session) = Session
    BY <2>1, <2>2, SanitizeKeeps
  <2> QED BY <1>2, <1>3, <2>1, <2>2, <2>3 DEF Safe
<1>4. CASE Trim(mapped) # <<>> /\ Len(Trim(mapped)) <= MaxLen
  <2> DEFINE f == Trim(mapped)
  <2>1. /\ f \in Seq(Kept \cup {Dash}) /\ Len(f) \in 1..MaxLen
        /\ f[1] # Dash /\ f[Len(f)] # Dash
    BY <1>1, <1>4, TrimEnds, SessionNamesAssumption
  <2>2. sanitizeID(id) = f
    BY <1>2, <1>4, <2>1, SessionNamesAssumption DEF Cut
  <2> HIDE DEF f
  <2>3. sanitizeID(f) = f
    BY <2>1, SanitizeKeeps
  <2> QED BY <2>1, <2>2, <2>3 DEF Safe
<1>5. CASE Trim(mapped) # <<>> /\ Len(Trim(mapped)) > MaxLen
  <2> DEFINE t == Trim(mapped)
             f == SubSeq(t, 1, MaxLen)
  <2>1. t \in Seq(Kept \cup {Dash}) /\ t[1] # Dash /\ Len(t) \in Nat
    BY <1>1, <1>5, TrimEnds
  <2>2. sanitizeID(id) = f
    BY <1>2, <1>5 DEF Cut
  <2> HIDE DEF t
  <2>3. /\ f \in Seq(Kept \cup {Dash}) /\ Len(f) = MaxLen
        /\ \A i \in 1..MaxLen : f[i] = t[i]
    <3>1. Len(t) > MaxLen /\ MaxLen \in Nat \ {0}
      BY <1>5, SessionNamesAssumption DEF t
    <3>2. /\ f \in Seq(Kept \cup {Dash}) /\ Len(f) = MaxLen - 1 + 1
          /\ \A i \in 1..(MaxLen - 1 + 1) : f[i] = t[1 + i - 1]
      BY <2>1, <3>1, SubSeqProperties
    <3> QED BY <3>1, <3>2
  <2> HIDE DEF f
  <2>4. MaxLen \in Nat \ {0} /\ f[1] # Dash /\ Len(f) \in 1..MaxLen
    <3>1. MaxLen \in Nat \ {0} /\ 1 \in 1..MaxLen /\ MaxLen \in 1..MaxLen
      BY SessionNamesAssumption
    <3>2. f[1] = t[1]
      BY <2>3, <3>1
    <3> QED BY <2>1, <2>3, <3>1, <3>2
  <2>5. f[MaxLen] = Dash \/ sanitizeID(f) = f
    BY <2>3, <2>4, SanitizeKeeps
  <2> QED BY <2>2, <2>3, <2>4, <2>5 DEF Safe
<1> QED BY <1>3, <1>4, <1>5, TrimEnds, <1>1, SessionNamesAssumption

LEMMA SanitizeIsText ==
  ASSUME NEW R, NEW id \in Seq(R)
  PROVE  sanitizeID(id) \in Seq(Kept \cup {Dash})
<1> DEFINE m == [i \in DOMAIN id |-> mapRune(id[i])]
<1>1. m \in Seq(Kept \cup {Dash})
  BY MapType
<1> HIDE DEF m
<1>2. sanitizeID(id) = IF Trim(m) = <<>> THEN Session ELSE Cut(Trim(m))
  BY DEF sanitizeID, m
<1>3. Session \in Seq(Kept \cup {Dash})
  BY SessionNamesAssumption DEF Kept
<1>4. Trim(m) # <<>> => Trim(m) \in Seq(Kept \cup {Dash}) /\ Len(Trim(m)) \in Nat
  BY <1>1, TrimEnds
<1>5. ASSUME NEW s \in Seq(Kept \cup {Dash})
      PROVE  Cut(s) \in Seq(Kept \cup {Dash})
  BY SessionNamesAssumption DEF Cut
<1> QED BY <1>2, <1>3, <1>4, <1>5

(* The file of a session id has a safe name, the blank ids included.       *)
LEMMA FileNameIsSafe ==
  ASSUME NEW id \in Ids
  PROVE  Safe(FileName(id))
<1>1. id \in Seq(Runes) /\ Unknown \in Seq(Letters)
  BY SessionNamesAssumption
<1> QED BY <1>1, SanitizeIsSafe DEF FileName, Named

(* The file of a chat is named for its number, without the sign.           *)
LEMMA ChatFileName ==
  ASSUME NEW id \in Ids, IsChat(id)
  PROVE  FileName(id) = Unsigned(id)
<1> DEFINE n == Unsigned(id)
           mapped == [i \in DOMAIN id |-> mapRune(id[i])]
<1>1. id \in Seq(Runes) /\ n # <<>> /\ \A i \in DOMAIN n : n[i] \in Digits
  BY SessionNamesAssumption DEF IsChat, IsNumber
<1>2. Digits \subseteq Kept /\ Dash \notin Kept
  BY SessionNamesAssumption DEF Kept
<1>3. Len(n) \in 1..MaxLen /\ n \in Seq(Runes)
  BY <1>1, SessionNamesAssumption DEF IsChat, IsNumber, Unsigned
<1>4. n \in Seq(Kept \cup {Dash})
  BY <1>1, <1>2, <1>3
<1>5. n[1] # Dash /\ n[Len(n)] # Dash
  BY <1>1, <1>2, <1>3
<1>6. CASE id # <<>> /\ id[1] = Dash
  <2>1. n = Tail(id) /\ Len(id) = Len(n) + 1
        /\ \A i \in 1..Len(n) : n[i] = id[i + 1]
    BY <1>1, <1>6 DEF Unsigned
  <2>2. Named(id) = id
    BY <1>1, <1>6, SessionNamesAssumption DEF Named
  <2>3. mapped = id
    <3>1. \A i \in DOMAIN id : id[i] \in Kept \cup {Dash}
      <4> SUFFICES ASSUME NEW i \in 1..Len(id) PROVE id[i] \in Kept \cup {Dash}
        BY <1>1
      <4>1. CASE i = 1
        BY <4>1, <1>6
      <4>2. CASE i # 1
        <5>1. i - 1 \in 1..Len(n) /\ n[i - 1] = id[i]
          BY <4>2, <2>1, <1>3
        <5> QED BY <5>1, <1>1, <1>2, <1>3
      <4> QED BY <4>1, <4>2
    <3> QED BY <1>1, <3>1, MapRuneIdempotent
  <2>4. Trim(id) = n
    <3> DEFINE other == {i \in DOMAIN id : id[i] # Dash}
    <3>1. /\ 2 \in other /\ Len(id) \in other /\ Len(id) \in Nat /\ Len(id) >= 2
          /\ \A j \in other : j \in Nat /\ 2 <= j /\ j <= Len(id)
      BY <1>1, <1>3, <1>5, <1>6, <2>1
    <3> HIDE DEF other
    <3>2. (CHOOSE i \in other : \A j \in other : i <= j) = 2
      BY <3>1
    <3>3. (CHOOSE i \in other : \A j \in other : j <= i) = Len(id)
      BY <3>1
    <3>4. Trim(id) = SubSeq(id, 2, Len(id))
      BY <3>1, <3>2, <3>3 DEF Trim, other
    <3> QED BY <3>4, <2>1, <1>1, <1>6, TailIsSubSeq
  <2>5. Cut(n) = n
    BY <1>3, SessionNamesAssumption DEF Cut
  <2> QED BY <1>1, <2>2, <2>3, <2>4, <2>5 DEF FileName, sanitizeID
<1>7. CASE ~(id # <<>> /\ id[1] = Dash)
  <2>1. n = id
    BY <1>7 DEF Unsigned
  <2>2. Named(id) = id
    BY <1>1, <1>2, <1>3, <2>1, SessionNamesAssumption DEF Named
  <2>3. sanitizeID(n) = n
    BY <1>3, <1>4, <1>5, SanitizeKeeps
  <2> QED BY <2>1, <2>2, <2>3 DEF FileName
<1> QED BY <1>6, <1>7

-----------------------------------------------------------------------------
\* The first kept rune of an id is its a-th.
Begins(id, a) ==
  /\ a \in DOMAIN id
  /\ mapRune(id[a]) # Dash
  /\ \A i \in 1..(a - 1) : mapRune(id[i]) = Dash

HasKept(id) == \E i \in DOMAIN id : mapRune(id[i]) # Dash

\* The name holds the runes of the id from the a-th on, and no others.
Holds(f, id, a) ==
  \A i \in 0..(MaxLen - 1) : At(id, a + i) = IF i < Len(f) THEN f[i + 1] ELSE NoRune

(* The name of an id that keeps a rune holds what counts for its file.     *)
LEMMA NameHolds ==
  ASSUME NEW R, NEW id \in Seq(R), HasKept(id)
  PROVE  \E a : Begins(id, a) /\ Holds(sanitizeID(id), id, a)
<1> DEFINE m == [i \in DOMAIN id |-> mapRune(id[i])]
           other == {i \in DOMAIN m : m[i] # Dash}
           first == CHOOSE i \in other : \A j \in other : i <= j
           last == CHOOSE i \in other : \A j \in other : j <= i
           n == last - first + 1
<1>1. /\ m \in Seq(Kept \cup {Dash}) /\ Len(m) = Len(id) /\ Len(id) \in Nat
      /\ DOMAIN m = DOMAIN id /\ DOMAIN id = 1..Len(id)
      /\ \A i \in DOMAIN id : m[i] = mapRune(id[i])
  BY MapType
<1>2. other # {} /\ other \in SUBSET (1..Len(id)) /\ other \in SUBSET Nat
  BY <1>1 DEF HasKept
<1>3. first \in other /\ \A j \in other : first <= j
  BY <1>2, LeastExists
<1>4. last \in other /\ \A j \in other : j <= last
  BY <1>1, <1>2, GreatestExists
<1>5. Trim(m) = SubSeq(m, first, last)
  BY <1>2 DEF Trim
<1>6. sanitizeID(id) = IF Trim(m) = <<>> THEN Session ELSE Cut(Trim(m))
  BY DEF sanitizeID
<1>7. \A k \in DOMAIN id : k \in other <=> mapRune(id[k]) # Dash
  BY <1>1
<1> HIDE DEF m, other, first, last
<1>8. /\ first \in 1..Len(id) /\ last \in 1..Len(id) /\ first <= last
      /\ n \in Nat \ {0}
  BY <1>1, <1>2, <1>3, <1>4
<1>9. Begins(id, first)
  BY <1>1, <1>2, <1>3, <1>7, <1>8 DEF Begins
<1>10. \A i \in Nat : At(id, first + i) = IF i < n THEN m[first + i] ELSE NoRune
  <2> SUFFICES ASSUME NEW i \in Nat
               PROVE  At(id, first + i) = IF i < n THEN m[first + i] ELSE NoRune
    OBVIOUS
  <2>1. (\E j \in DOMAIN id : j >= first + i /\ mapRune(id[j]) # Dash) <=> i < n
    <3>1. CASE i < n
      BY <1>4, <1>1, <1>7, <1>8, <3>1
    <3>2. CASE ~(i < n)
      BY <1>4, <1>1, <1>7, <1>8, <3>2
    <3> QED BY <3>1, <3>2
  <2>2. i < n => first + i \in DOMAIN id
    BY <1>1, <1>8
  <2> QED BY <1>1, <2>1, <2>2 DEF At
<1>11. /\ SubSeq(m, first, last) \in Seq(Kept \cup {Dash})
       /\ Len(SubSeq(m, first, last)) = n
       /\ \A i \in 1..n : SubSeq(m, first, last)[i] = m[first + i - 1]
  BY <1>1, <1>8, SubSeqProperties
<1> DEFINE t == Trim(m)
<1>12. t \in Seq(Kept \cup {Dash}) /\ Len(t) = n /\ t # <<>>
       /\ \A i \in 1..n : t[i] = m[first + i - 1]
  <2>1. t \in Seq(Kept \cup {Dash}) /\ Len(t) = n
        /\ \A i \in 1..n : t[i] = m[first + i - 1]
    BY <1>5, <1>11
  <2> HIDE DEF t, n
  <2>2. t # <<>>
    BY <1>8, <2>1
  <2> QED BY <2>1, <2>2
<1> HIDE DEF t, n
<1>13. MaxLen \in Nat \ {0}
  BY SessionNamesAssumption
<1>14. /\ sanitizeID(id) = Cut(t)
       /\ Len(Cut(t)) = IF n > MaxLen THEN MaxLen ELSE n
       /\ \A i \in 1..Len(Cut(t)) : Cut(t)[i] = t[i]
  <2>1. sanitizeID(id) = Cut(t)
    BY <1>6, <1>12 DEF t
  <2>2. CASE n > MaxLen
    <3>1. Cut(t) = SubSeq(t, 1, MaxLen)
      BY <1>12, <2>2 DEF Cut
    <3>2. /\ Len(SubSeq(t, 1, MaxLen)) = MaxLen
          /\ \A i \in 1..MaxLen : SubSeq(t, 1, MaxLen)[i] = t[i]
      BY <1>8, <1>12, <1>13, <2>2
    <3> QED BY <2>1, <2>2, <3>1, <3>2
  <2>3. CASE ~(n > MaxLen)
    BY <1>12, <2>1, <2>3 DEF Cut
  <2> QED BY <2>2, <2>3
<1>15. Holds(sanitizeID(id), id, first)
  <2> SUFFICES ASSUME NEW i \in 0..(MaxLen - 1)
               PROVE  At(id, first + i) =
                        IF i < Len(Cut(t)) THEN Cut(t)[i + 1] ELSE NoRune
    BY <1>14 DEF Holds
  <2>1. i \in Nat /\ i < MaxLen
    BY <1>13
  <2>2. i < Len(Cut(t)) <=> i < n
    BY <1>8, <1>13, <1>14, <2>1 DEF n
  <2>3. i < n => Cut(t)[i + 1] = m[first + i]
    <3>1. i < n => i + 1 \in 1..Len(Cut(t)) /\ i + 1 \in 1..n
      BY <1>8, <1>13, <1>14, <2>1, <2>2 DEF n
    <3>2. first + (i + 1) - 1 = first + i
      BY <1>8, <2>1
    <3> QED BY <1>12, <1>14, <3>1, <3>2
  <2> QED BY <1>10, <2>1, <2>2, <2>3
<1> QED BY <1>9, <1>15

LEMMA BeginsOnce ==
  ASSUME NEW R, NEW id \in Seq(R), NEW a, NEW b, Begins(id, a), Begins(id, b)
  PROVE  a = b
BY DEF Begins

(* Names are the same if and only if what they hold is.                    *)
LEMMA SameNameSameRunes ==
  ASSUME NEW f, NEW g, Safe(f), Safe(g), f \in Seq(Kept \cup {Dash}),
         g \in Seq(Kept \cup {Dash}),
         NEW x, NEW y, NEW a, NEW b, Holds(f, x, a), Holds(g, y, b)
  PROVE  f = g <=> \A i \in 0..(MaxLen - 1) : At(x, a + i) = At(y, b + i)
<1>1. f = g => \A i \in 0..(MaxLen - 1) : At(x, a + i) = At(y, b + i)
  BY DEF Holds
<1>2. ASSUME \A i \in 0..(MaxLen - 1) : At(x, a + i) = At(y, b + i)
      PROVE  f = g
  <2>1. MaxLen \in Nat \ {0} /\ NoRune \notin Kept \cup {Dash}
    BY SessionNamesAssumption
  <2>2. Len(f) \in 1..MaxLen /\ Len(g) \in 1..MaxLen
    BY DEF Safe
  <2>3. ASSUME NEW i \in 0..(MaxLen - 1)
        PROVE  /\ i < Len(f) <=> i < Len(g)
               /\ i < Len(f) => f[i + 1] = g[i + 1]
    <3>1. (IF i < Len(f) THEN f[i + 1] ELSE NoRune) = (IF i < Len(g) THEN g[i + 1] ELSE NoRune)
      BY <1>2 DEF Holds
    <3>2. i < Len(f) => f[i + 1] \in Kept \cup {Dash}
      BY <2>1, <2>2
    <3>3. i < Len(g) => g[i + 1] \in Kept \cup {Dash}
      BY <2>1, <2>2
    <3> QED BY <2>1, <3>1, <3>2, <3>3
  <2>4. Len(f) = Len(g)
    <3>1. Len(f) - 1 \in 0..(MaxLen - 1) /\ Len(g) - 1 \in 0..(MaxLen - 1)
      BY <2>1, <2>2
    <3>2. Len(f) - 1 < Len(g) /\ Len(g) - 1 < Len(f)
      BY <2>2, <2>3, <3>1
    <3> QED BY <2>2, <3>2
  <2>5. ASSUME NEW k \in 1..Len(f)
        PROVE  f[k] = g[k]
    <3>1. k - 1 \in 0..(MaxLen - 1) /\ k - 1 < Len(f) /\ (k - 1) + 1 = k
      BY <2>1, <2>2
    <3> QED BY <2>3, <3>1
  <2> QED BY <2>4, <2>5
<1> QED BY <1>1, <1>2

\* An id of which nothing is kept goes by the name of Session.
Stand(id) == IF HasKept(id) THEN id ELSE Session

LEMMA StandIn ==
  ASSUME NEW id \in Seq(Runes)
  PROVE  /\ Stand(id) \in Seq(Runes) /\ HasKept(Stand(id))
         /\ sanitizeID(Stand(id)) = sanitizeID(id)
<1>1. /\ Session \in Seq(Letters) /\ Len(Session) \in 1..MaxLen
      /\ Letters \subseteq Kept /\ Kept \subseteq Runes /\ Dash \notin Kept
      /\ MaxLen \in Nat
  BY SessionNamesAssumption DEF Kept
<1>2. /\ Session \in Seq(Runes) /\ Session \in Seq(Kept \cup {Dash})
      /\ Session[1] # Dash /\ Session[Len(Session)] # Dash /\ 1 \in DOMAIN Session
      /\ Session[1] \in Kept
  BY <1>1
<1>3. HasKept(Session)
  BY <1>1, <1>2, MapRuneIdempotent DEF HasKept
<1>4. sanitizeID(Session) = Session
  BY <1>1, <1>2, SanitizeKeeps
<1>5. ~HasKept(id) => sanitizeID(id) = Session
  BY DEF HasKept, sanitizeID, Trim
<1> QED BY <1>2, <1>3, <1>4, <1>5 DEF Stand

LEMMA SameFileIfAlike ==
  ASSUME NEW x \in Seq(Runes), NEW y \in Seq(Runes)
  PROVE  sanitizeID(x) = sanitizeID(y) <=> Alike(x, y)
<1> DEFINE v == Stand(x)
           w == Stand(y)
           same(a, b) == \A i \in 0..(MaxLen - 1) : At(v, a + i) = At(w, b + i)
<1>1. /\ v \in Seq(Runes) /\ HasKept(v) /\ sanitizeID(v) = sanitizeID(x)
      /\ w \in Seq(Runes) /\ HasKept(w) /\ sanitizeID(w) = sanitizeID(y)
  BY StandIn
<1>2. Alike(x, y) <=> \E a, b : Begins(v, a) /\ Begins(w, b) /\ same(a, b)
  <2>1. Alike(x, y) <=>
          \E a \in DOMAIN Stand(x), b \in DOMAIN Stand(y) :
            /\ \A i \in 1..(a - 1) : mapRune(Stand(x)[i]) = Dash
            /\ \A i \in 1..(b - 1) : mapRune(Stand(y)[i]) = Dash
            /\ mapRune(Stand(x)[a]) # Dash /\ mapRune(Stand(y)[b]) # Dash
            /\ \A i \in 0..(MaxLen - 1) : At(Stand(x), a + i) = At(Stand(y), b + i)
    BY Zenon DEF Alike, Stand, HasKept
  <2> QED BY <2>1, Zenon DEF Begins
<1> HIDE DEF v, w
<1>3. PICK a : Begins(v, a) /\ Holds(sanitizeID(v), v, a)
  BY <1>1, NameHolds
<1>4. PICK b : Begins(w, b) /\ Holds(sanitizeID(w), w, b)
  BY <1>1, NameHolds
<1>5. /\ Safe(sanitizeID(v)) /\ sanitizeID(v) \in Seq(Kept \cup {Dash})
      /\ Safe(sanitizeID(w)) /\ sanitizeID(w) \in Seq(Kept \cup {Dash})
  BY <1>1, SanitizeIsSafe, SanitizeIsText
<1>6. sanitizeID(v) = sanitizeID(w) <=> same(a, b)
  BY <1>3, <1>4, <1>5, SameNameSameRunes
<1>7. (\E c, d : Begins(v, c) /\ Begins(w, d) /\ same(c, d)) <=> same(a, b)
  BY <1>1, <1>3, <1>4, BeginsOnce
<1> QED BY <1>1, <1>2, <1>6, <1>7

-----------------------------------------------------------------------------
(* The store only sees session ids.                                        *)
THEOREM NamesTypeCorrect == NamesSpec => []NamesTypeOK
<1>1. NamesInit => NamesTypeOK
  BY DEF NamesInit, NamesTypeOK
<1>2. NamesTypeOK /\ [NamesNext]_sessions => NamesTypeOK'
  BY DEF NamesNext, NamesQuiet, Use, NamesTypeOK
<1> QED BY <1>1, <1>2, PTL DEF NamesSpec

LEMMA UsedAreIds == NamesTypeOK => Used \subseteq Ids
BY DEF NamesTypeOK, Used

(* Every session id has a safe file name, which stands for the same file   *)
(* when it is used as a session id, unless the cut left a dash at its end. *)
THEOREM NamesAreSafe == NamesSpec => []FileNamesSafe
<1>1. NamesTypeOK => FileNamesSafe
  BY UsedAreIds, FileNameIsSafe DEF FileNamesSafe, Safe
<1> QED BY <1>1, NamesTypeCorrect, PTL

(* Two chats meet in one session file exactly if they have the same number *)
(* but for the sign.                                                       *)
THEOREM ChatsKeepTheirFiles == NamesSpec => []ChatsKeepApart
<1>1. NamesTypeOK => ChatsKeepApart
  BY UsedAreIds, ChatFileName DEF ChatsKeepApart
<1> QED BY <1>1, NamesTypeCorrect, PTL
(* Two session ids share a file exactly if they are alike, whatever their  *)
(* runes and lengths.                                                      *)
THEOREM FilesAreShared == NamesSpec => []SharedIffAlike
<1>1. ASSUME NEW id \in Ids
      PROVE  Named(id) \in Seq(Runes)
  BY SessionNamesAssumption DEF Named, Kept
<1>2. NamesTypeOK => SharedIffAlike
  BY <1>1, UsedAreIds, SameFileIfAlike DEF SharedIffAlike, FileName
<1> QED BY <1>2, NamesTypeCorrect, PTL
=============================================================================
