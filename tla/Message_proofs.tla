--------------------------- MODULE Message_proofs ---------------------------
(***************************************************************************)
(* Proofs about the operations of Message, for texts of any length, with   *)
(* any number of Vias, any payload and any values.                         *)
(*                                                                         *)
(* A letter is what a text says to those who read it: the start line, the  *)
(* four headers a dialog is made of, the Vias and the payload.  A message  *)
(* that is stored says a letter with its text; a copy that is being        *)
(* changed (Draft, Written) says one with its lines, wherever they are     *)
(* allocated.  Every setter turns a draft of a letter into a draft of the  *)
(* letter with one value changed, compileMessage turns a draft into a      *)
(* stored message of the same letter, and none of them adds an error.      *)
(***************************************************************************)
EXTENDS Message, FiniteSetTheorems, SequenceTheorems, NaturalsInduction, TLAPS

\* A sequence, whatever its elements are.
IsSeq(s) == s \in Seq(Range(s))

\* What it is to be a sequence.
LEMMA SeqFacts ==
    ASSUME NEW s, IsSeq(s)
    PROVE  /\ Len(s) \in Nat
           /\ DOMAIN s = 1..Len(s)
           /\ s = [k \in 1..Len(s) |-> s[k]]
<1>1. s \in [1..Len(s) -> Range(s)] /\ Len(s) \in Nat /\ DOMAIN s = 1..Len(s)
    BY LenProperties DEF IsSeq
<1> QED
    BY <1>1

\* A function on 1..n is a sequence of length n.
LEMMA SeqIntro ==
    ASSUME NEW n \in Nat, NEW s, s = [k \in 1..n |-> s[k]]
    PROVE  IsSeq(s) /\ Len(s) = n /\ DOMAIN s = 1..n
<1>1. s \in [1..n -> Range(s)]
    BY DEF Range
<1>2. s \in Seq(Range(s))
    BY <1>1, SeqDef
<1>3. DOMAIN s = 1..n /\ DOMAIN s = 1..Len(s) /\ Len(s) \in Nat
    BY <1>1, <1>2, LenProperties
<1>4. Len(s) = n
    BY <1>3
<1> QED
    BY <1>2, <1>3, <1>4 DEF IsSeq

\* The elements of a concatenation are those of a, then those of b.
LEMMA ConcatFacts ==
    ASSUME NEW a, NEW b, IsSeq(a), IsSeq(b)
    PROVE  /\ IsSeq(a \o b)
           /\ Len(a \o b) = Len(a) + Len(b)
           /\ \A i \in 1..Len(a) : (a \o b)[i] = a[i]
           /\ \A i \in 1..Len(b) : (a \o b)[Len(a) + i] = b[i]
<1> DEFINE S == Range(a) \cup Range(b)
<1>1. a \in Seq(S) /\ b \in Seq(S)
    BY SeqMonotonic DEF IsSeq
<1>2. /\ a \o b \in Seq(S)
      /\ Len(a \o b) = Len(a) + Len(b)
      /\ \A i \in 1..Len(a) + Len(b) :
             (a \o b)[i] = IF i <= Len(a) THEN a[i] ELSE b[i - Len(a)]
    BY <1>1, ConcatProperties
<1>3. Len(a) \in Nat /\ Len(b) \in Nat
    BY SeqFacts
<1>4. IsSeq(a \o b)
    BY <1>2, SeqOfRange DEF IsSeq
<1> HIDE DEF S
<1>5. \A i \in 1..Len(a) : (a \o b)[i] = a[i]
    BY <1>2, <1>3
<1>6. ASSUME NEW i \in 1..Len(b)
      PROVE  (a \o b)[Len(a) + i] = b[i]
    <2>1. Len(a) + i \in 1..Len(a) + Len(b) /\ ~(Len(a) + i <= Len(a))
          /\ (Len(a) + i) - Len(a) = i
        BY <1>3
    <2> QED
        BY <1>2, <2>1
<1> QED
    BY <1>2, <1>4, <1>5, <1>6

\* Sequences with the same elements in the same places are equal.
LEMMA SameSeq ==
    ASSUME NEW a, NEW b, IsSeq(a), IsSeq(b), Len(a) = Len(b),
           \A i \in 1..Len(a) : a[i] = b[i]
    PROVE  a = b
<1>1. a = [k \in 1..Len(a) |-> a[k]] /\ b = [k \in 1..Len(b) |-> b[k]]
    BY SeqFacts
<1> QED
    BY <1>1

\* The order of the natural numbers, as a relation.
Below == {ss \in Nat \X Nat : ss[1] < ss[2]}
\* The order of the natural numbers is well founded.
LEMMA BelowWellFounded == IsWellFoundedOn(Below, Nat)
    BY NatLessThanWellFounded DEF OpToRel, Below

\* A set of natural numbers has a least element, which Min chooses.
LEMMA LeastOf ==
    ASSUME NEW I, I \subseteq Nat, I # {}
    PROVE  Min(I) \in I /\ \A j \in I : Min(I) <= j
<1>1. PICK m \in I : \A j \in I : ~(<<j, m>> \in Below)
    BY BelowWellFounded, WFMin
<1>2. ASSUME NEW j \in I PROVE m <= j
    <2>1. <<j, m>> \in Nat \X Nat /\ <<j, m>>[1] = j /\ <<j, m>>[2] = m
        OBVIOUS
    <2>2. ~(j < m)
        BY <1>1, <2>1 DEF Below
    <2> QED
        BY <2>2
<1>3. \A x, y \in I : (\A j \in I : x <= j) /\ (\A j \in I : y <= j) => x = y
    OBVIOUS
<1> QED
    BY <1>2 DEF Min

\* A finite set of positions has a greatest element, which Max chooses.
LEMMA GreatestOf ==
    ASSUME NEW n \in Nat, NEW I, I \subseteq 1..n, I # {}
    PROVE  Max(I) \in I /\ \A j \in I : j <= Max(I)
<1> DEFINE J == {n - i : i \in I}
<1>1. J \subseteq Nat /\ J # {}
    <2>1. \A i \in I : i \in Nat /\ n - i \in Nat
        OBVIOUS
    <2> QED
        BY <2>1
<1>2. PICK m \in J : \A j \in J : ~(<<j, m>> \in Below)
    <2> HIDE DEF J
    <2> QED BY <1>1, BelowWellFounded, WFMin
<1>3. PICK i \in I : m = n - i
    BY <1>2
<1>4. \A j \in I : j <= i
    <2>1. SUFFICES ASSUME NEW j \in I PROVE j <= i
        OBVIOUS
    <2>2. n - j \in J /\ n - j \in Nat /\ m \in Nat /\ ~(<<n - j, m>> \in Below)
        BY <1>1, <1>2
    <2>3. ~(n - j < m)
        BY <2>2 DEF Below
    <2>4. i \in 1..n /\ j \in 1..n
        OBVIOUS
    <2> QED
        BY <1>3, <2>3, <2>4
<1>5. \A x, y \in I : (\A j \in I : x >= j) /\ (\A j \in I : y >= j) => x = y
    OBVIOUS
<1> QED
    BY <1>4 DEF Max

---------------------------------------------------------------------------
(* Searches. *)

\* The scan from the front (purgeGenericHeader, setGenericHeader) finds the first
\* line of a header, or 0.
LEMMA FirstAtFacts ==
    ASSUME NEW lines, IsSeq(lines), NEW from \in Nat \ {0}, NEW header
    PROVE  LET i == FirstAt(lines, from, header)
           IN  /\ i = 0 \/ (i \in from..Len(lines) /\ lines[i].h = header)
               /\ \A j \in from..Len(lines) : lines[j].h = header => i # 0 /\ i <= j
<1> DEFINE I == {j \in from..Len(lines) : lines[j].h = header}
<1>1. Len(lines) \in Nat
    BY SeqFacts
<1>2. I \subseteq Nat
    BY <1>1
<1>3. FirstAt(lines, from, header) = IF I # {} THEN Min(I) ELSE 0
    BY DEF FirstAt, SelectInSubSeq
<1>4. I # {} => Min(I) \in I /\ \A j \in I : Min(I) <= j
    BY <1>2, LeastOf
<1> HIDE DEF I
<1>5. CASE I = {}
    BY <1>3, <1>5 DEF I
<1>6. CASE I # {}
    <2>1. Min(I) \in I /\ (\A j \in I : Min(I) <= j) /\ Min(I) \in Nat /\ Min(I) # 0
        BY <1>1, <1>2, <1>4, <1>6 DEF I
    <2> QED
        BY <1>3, <1>6, <2>1 DEF I
<1> QED
    BY <1>5, <1>6

\* The scan that does not stop (getGenericHeader and the getters) finds the last one.
LEMMA LastAtFacts ==
    ASSUME NEW lines, IsSeq(lines), NEW header
    PROVE  LET i == LastAt(lines, header)
           IN  /\ i = 0 \/ (i \in 1..Len(lines) /\ lines[i].h = header)
               /\ \A j \in 1..Len(lines) : lines[j].h = header => i # 0 /\ j <= i
<1> DEFINE I == {j \in 1..Len(lines) : lines[j].h = header}
<1>1. Len(lines) \in Nat
    BY SeqFacts
<1>2. I \subseteq 1..Len(lines)
    BY <1>1
<1>3. LastAt(lines, header) = IF I # {} THEN Max(I) ELSE 0
    BY DEF LastAt, SelectLastInSeq
<1> QED
    BY <1>1, <1>2, <1>3, GreatestOf

\* fillIn splits at the first empty line.
LEMMA BlankAtFacts ==
    ASSUME NEW text, IsSeq(text)
    PROVE  LET i == BlankAt(text)
           IN  /\ i = 0 \/ (i \in 1..Len(text) /\ text[i] = Blank)
               /\ \A j \in 1..Len(text) : text[j] = Blank => i # 0 /\ i <= j
<1> DEFINE I == {j \in 1..Len(text) : text[j] = Blank}
<1>1. Len(text) \in Nat
    BY SeqFacts
<1>2. I \subseteq Nat
    BY <1>1
<1>3. BlankAt(text) = IF I # {} THEN Min(I) ELSE 0
    BY DEF BlankAt, SelectInSeq
<1>4. I # {} => Min(I) \in I /\ \A j \in I : Min(I) <= j
    BY <1>2, LeastOf
<1> HIDE DEF I
<1>5. CASE I = {}
    BY <1>3, <1>5 DEF I
<1>6. CASE I # {}
    <2>1. Min(I) \in I /\ (\A j \in I : Min(I) <= j) /\ Min(I) \in Nat /\ Min(I) # 0
        BY <1>1, <1>2, <1>4, <1>6 DEF I
    <2> QED
        BY <1>3, <1>6, <2>1 DEF I
<1> QED
    BY <1>5, <1>6

---------------------------------------------------------------------------
(* Lines at given positions. *)

Rank(P, i) == Cardinality({j \in P : j <= i})

\* The positions that are kept are counted one after the other, in their order.
LEMMA RankFacts ==
    ASSUME NEW n \in Nat, NEW P, P \subseteq 1..n
    PROVE  /\ Cardinality(P) \in Nat
           /\ \A i \in P : Rank(P, i) \in 1..Cardinality(P)
           /\ \A i, k \in P : i < k => Rank(P, i) < Rank(P, k)
           /\ \A r \in 1..Cardinality(P) : \E i \in P : Rank(P, i) = r
<1>1. IsFiniteSet(P) /\ Cardinality(P) \in Nat
    <2>1. IsFiniteSet(1..n)
        BY FS_Interval
    <2>2. IsFiniteSet(P)
        BY <2>1, FS_Subset
    <2> QED
        BY <2>2, FS_CardinalityType
<1>2. ASSUME NEW i \in P
      PROVE  Rank(P, i) \in 1..Cardinality(P)
    <2> DEFINE T == {j \in P : j <= i}
    <2>1. T \in SUBSET P /\ T # {}
        <3>1. i <= i
            OBVIOUS
        <3> QED
            BY <3>1
    <2>2. IsFiniteSet(T) /\ Cardinality(T) <= Cardinality(P)
        BY <1>1, <2>1, FS_Subset
    <2>3. Cardinality(T) \in Nat /\ Cardinality(T) # 0
        BY <2>1, <2>2, FS_CardinalityType, FS_EmptySet
    <2>4. Rank(P, i) = Cardinality(T)
        BY DEF Rank
    <2> HIDE DEF T
    <2> QED
        BY <1>1, <2>2, <2>3, <2>4
<1>3. ASSUME NEW i \in P, NEW k \in P, i < k
      PROVE  Rank(P, i) < Rank(P, k)
    <2> DEFINE T == {j \in P : j <= i}
               U == {j \in P : j <= k}
    <2>1. T \in SUBSET U /\ k \in U /\ k \notin T
        <3>1. \A j \in P : j <= i => j <= k
            BY <1>3
        <3>2. k <= k /\ ~(k <= i)
            BY <1>3
        <3> QED
            BY <3>1, <3>2
    <2>2. IsFiniteSet(U) /\ U \in SUBSET P
        BY <1>1, FS_Subset
    <2>3. Rank(P, i) = Cardinality(T) /\ Rank(P, k) = Cardinality(U)
        BY DEF Rank
    <2> HIDE DEF T, U
    <2>4. IsFiniteSet(T) /\ Cardinality(T) <= Cardinality(U)
          /\ Cardinality(T) # Cardinality(U)
        BY <2>1, <2>2, FS_Subset
    <2>5. Cardinality(T) \in Nat /\ Cardinality(U) \in Nat
        BY <2>2, <2>4, FS_CardinalityType
    <2> QED
        BY <2>3, <2>4, <2>5
<1>4. \A r \in 1..Cardinality(P) : \E i \in P : Rank(P, i) = r
    <2> DEFINE c == Cardinality(P)
               f == [i \in P |-> Rank(P, i)]
    <2>1. \A i, k \in P : Rank(P, i) = Rank(P, k) => i = k
        <3>1. ASSUME NEW i \in P, NEW k \in P, i # k
              PROVE  Rank(P, i) # Rank(P, k)
            <4>1. i < k \/ k < i
                BY <3>1
            <4>2. Rank(P, i) \in Nat /\ Rank(P, k) \in Nat
                BY <1>2
            <4> QED
                BY <1>3, <4>1, <4>2
        <3> QED
            BY <3>1
    <2>2. f \in Injection(P, 1..c)
        <3>1. f \in [P -> 1..c]
            BY <1>2
        <3>2. \A i, k \in P : f[i] = f[k] => i = k
            BY <2>1
        <3> QED
            BY <3>1, <3>2 DEF Injection, IsInjective
    <2>3. IsFiniteSet(1..c) /\ Cardinality(1..c) = c
        BY <1>1, FS_Interval
    <2> HIDE DEF f
    <2>4. f \in Surjection(P, 1..c)
        BY <2>2, <2>3, FS_Injection
    <2> USE DEF f
    <2> QED
        BY <2>4 DEF Surjection
<1> QED
    BY <1>1, <1>2, <1>3, <1>4

\* cut is the sequence of the lines at the positions in P, in their order.
IsCut(cut, lines, P) ==
    /\ IsSeq(cut)
    /\ Cardinality(P) \in Nat
    /\ Len(cut) = Cardinality(P)
    /\ DOMAIN cut = 1..Cardinality(P)
    /\ \A i \in P : Rank(P, i) \in 1..Cardinality(P) /\ cut[Rank(P, i)] = lines[i]
    /\ \A k \in 1..Cardinality(P) : \E i \in P : Rank(P, i) = k /\ cut[k] = lines[i]

\* The lines at some positions are those lines, none else, in their order.
LEMMA LinesAtFacts ==
    ASSUME NEW n \in Nat, NEW P, P \subseteq 1..n, NEW lines
    PROVE  IsCut(LinesAt(lines, P), lines, P)
<1> DEFINE c == Cardinality(P)
           L == LinesAt(lines, P)
<1>1. /\ c \in Nat
      /\ \A i \in P : Rank(P, i) \in 1..c
      /\ \A i, k \in P : Rank(P, i) = Rank(P, k) => i = k
      /\ \A r \in 1..c : \E i \in P : Rank(P, i) = r
    <2>1. /\ c \in Nat
          /\ \A i \in P : Rank(P, i) \in 1..c
          /\ \A i, k \in P : i < k => Rank(P, i) < Rank(P, k)
          /\ \A r \in 1..c : \E i \in P : Rank(P, i) = r
        BY RankFacts
    <2> HIDE DEF c
    <2>2. ASSUME NEW i \in P, NEW k \in P, i # k
          PROVE  Rank(P, i) # Rank(P, k)
        <3>1. i < k \/ k < i
            BY <2>2
        <3>2. Rank(P, i) \in Nat /\ Rank(P, k) \in Nat
            BY <2>1
        <3> QED
            BY <2>1, <3>1, <3>2
    <2> QED
        BY <2>1, <2>2
<1>2. L = [k \in 1..c |-> lines[CHOOSE i \in P : Rank(P, i) = k]]
    BY DEF LinesAt, Rank
<1>3. L = [k \in 1..c |-> L[k]]
    BY <1>2
<1> HIDE DEF c, L
<1>4. IsSeq(L) /\ Len(L) = c /\ DOMAIN L = 1..c
    BY <1>1, <1>3, SeqIntro
<1>5. ASSUME NEW i \in P
      PROVE  Rank(P, i) \in 1..c /\ L[Rank(P, i)] = lines[i]
    <2>1. Rank(P, i) \in 1..c
        BY <1>1
    <2>2. (CHOOSE j \in P : Rank(P, j) = Rank(P, i)) = i
        BY <1>1
    <2> QED
        BY <1>2, <2>1, <2>2
<1>6. ASSUME NEW k \in 1..c
      PROVE  \E i \in P : Rank(P, i) = k /\ L[k] = lines[i]
    BY <1>1, <1>5
<1> QED
    BY <1>1, <1>4, <1>5, <1>6 DEF c, L, IsCut

\* A run of lines.
LEMMA LinesAtInterval ==
    ASSUME NEW a \in Nat \ {0}, NEW b \in Nat, a <= b + 1, NEW lines
    PROVE  /\ Len(LinesAt(lines, a..b)) = b - a + 1
           /\ \A k \in 1..(b - a + 1) : LinesAt(lines, a..b)[k] = lines[a + k - 1]
<1>1. Cardinality(a..b) = b - a + 1
    <2>1. a \in Int /\ b \in Int
        OBVIOUS
    <2>2. Cardinality(a..b) = IF a > b THEN 0 ELSE b - a + 1
        BY <2>1, FS_Interval
    <2> QED
        BY <2>2
<1>2. ASSUME NEW i \in a..b
      PROVE  Rank(a..b, i) = i - a + 1
    <2>1. {j \in a..b : j <= i} = a..i
        OBVIOUS
    <2>2. Cardinality(a..i) = i - a + 1
        BY FS_Interval
    <2> QED
        BY <2>1, <2>2 DEF Rank
<1>3. a..b \subseteq 1..b
    OBVIOUS
<1>4. /\ Len(LinesAt(lines, a..b)) = Cardinality(a..b)
      /\ \A i \in a..b : LinesAt(lines, a..b)[Rank(a..b, i)] = lines[i]
    <2>1. IsCut(LinesAt(lines, a..b), lines, a..b)
        BY <1>3, LinesAtFacts
    <2> QED
        BY <2>1 DEF IsCut
<1>5. ASSUME NEW k \in 1..(b - a + 1)
      PROVE  LinesAt(lines, a..b)[k] = lines[a + k - 1]
    <2>1. a + k - 1 \in a..b /\ (a + k - 1) - a + 1 = k
        OBVIOUS
    <2> QED
        BY <1>2, <1>4, <2>1
<1> QED
    BY <1>1, <1>4, <1>5

\* Only the lines at the positions count.
LEMMA LinesAtSame ==
    ASSUME NEW P, NEW n \in Nat, P \subseteq 1..n, NEW a, NEW b,
           \A i \in P : a[i] = b[i]
    PROVE  LinesAt(a, P) = LinesAt(b, P)
<1>1. IsCut(LinesAt(a, P), a, P) /\ IsCut(LinesAt(b, P), b, P)
    BY LinesAtFacts
<1>2. \A k \in 1..Cardinality(P) : LinesAt(a, P)[k] = LinesAt(b, P)[k]
    BY <1>1 DEF IsCut
<1> QED
    BY <1>1, <1>2, SameSeq DEF IsCut

---------------------------------------------------------------------------
(* Which headers a sequence of lines has. *)

\* The header has one line, and this value; it has none; the lines begin with
\* the only start line.
One(lines, header, value) ==
    \E i \in DOMAIN lines : Positions(lines, header) = {i} /\ lines[i].v = value
None(lines, header) == Positions(lines, header) = {}
Begins(lines, value) ==
    /\ 1 \in DOMAIN lines
    /\ Positions(lines, "start") = {1}
    /\ lines[1].v = value

\* Lines are left out: a header none of whose lines is left out keeps its one line.
LEMMA CutOne ==
    ASSUME NEW lines, IsSeq(lines), NEW P, P \subseteq DOMAIN lines, NEW h, NEW v,
           One(lines, h, v), \A i \in DOMAIN lines : lines[i].h = h => i \in P
    PROVE  One(LinesAt(lines, P), h, v)
<1> DEFINE L == LinesAt(lines, P)
<1>1. DOMAIN lines = 1..Len(lines) /\ Len(lines) \in Nat
    BY SeqFacts
<1>2. IsCut(L, lines, P)
    BY <1>1, LinesAtFacts
<1>3. PICK i \in DOMAIN lines : Positions(lines, h) = {i} /\ lines[i].v = v
    BY DEF One
<1>4. lines[i].h = h /\ i \in P /\ \A j \in DOMAIN lines : lines[j].h = h => j = i
    BY <1>3 DEF Positions
<1> HIDE DEF L
<1>5. Rank(P, i) \in DOMAIN L /\ L[Rank(P, i)] = lines[i]
    BY <1>2, <1>4 DEF IsCut
<1>6. ASSUME NEW k \in DOMAIN L, L[k].h = h
      PROVE  k = Rank(P, i)
    BY <1>2, <1>4, <1>6 DEF IsCut
<1>7. Positions(L, h) = {Rank(P, i)}
    BY <1>4, <1>5, <1>6 DEF Positions
<1>8. One(L, h, v)
    BY <1>3, <1>5, <1>7 DEF One
<1> QED
    BY <1>8 DEF L

\* A header of which no line is kept is gone.
LEMMA CutNone ==
    ASSUME NEW lines, IsSeq(lines), NEW P, P \subseteq DOMAIN lines, NEW h,
           \A i \in P : lines[i].h # h
    PROVE  None(LinesAt(lines, P), h)
<1> DEFINE L == LinesAt(lines, P)
<1>1. DOMAIN lines = 1..Len(lines) /\ Len(lines) \in Nat
    BY SeqFacts
<1>2. IsCut(L, lines, P)
    BY <1>1, LinesAtFacts
<1> HIDE DEF L
<1>3. \A k \in DOMAIN L : L[k].h # h
    BY <1>2 DEF IsCut
<1>4. None(L, h)
    BY <1>3 DEF None, Positions
<1> QED
    BY <1>4 DEF L

\* The start line stays first when it is kept.
LEMMA CutBegins ==
    ASSUME NEW lines, IsSeq(lines), NEW P, P \subseteq DOMAIN lines, NEW v,
           Begins(lines, v), 1 \in P
    PROVE  Begins(LinesAt(lines, P), v) /\ LinesAt(lines, P)[1] = lines[1]
<1> DEFINE L == LinesAt(lines, P)
<1>1. DOMAIN lines = 1..Len(lines) /\ Len(lines) \in Nat
    BY SeqFacts
<1>2. IsCut(L, lines, P)
    BY <1>1, LinesAtFacts
<1>3. Rank(P, 1) = 1
    <2>1. {j \in P : j <= 1} = {1}
        BY <1>1
    <2> QED
        BY <2>1, FS_Singleton DEF Rank
<1>4. lines[1].h = "start" /\ lines[1].v = v
      /\ \A i \in DOMAIN lines : lines[i].h = "start" => i = 1
    BY DEF Begins, Positions
<1> HIDE DEF L
<1>5. 1 \in DOMAIN L /\ L[1] = lines[1]
    BY <1>2, <1>3 DEF IsCut
<1>6. ASSUME NEW k \in DOMAIN L, L[k].h = "start"
      PROVE  k = 1
    <2>1. PICK i \in P : Rank(P, i) = k /\ L[k] = lines[i]
        BY <1>2 DEF IsCut
    <2> QED
        BY <1>3, <1>4, <1>6, <2>1
<1>7. Begins(L, v)
    BY <1>4, <1>5, <1>6 DEF Begins, Positions
<1> QED
    BY <1>5, <1>7 DEF L

\* Where a header is in two runs of lines, one after the other.
LEMMA ConcatPositions ==
    ASSUME NEW a, NEW b, IsSeq(a), IsSeq(b), NEW h
    PROVE  /\ DOMAIN a = 1..Len(a) /\ Len(a) \in Nat
           /\ DOMAIN b = 1..Len(b) /\ Len(b) \in Nat
           /\ IsSeq(a \o b)
           /\ DOMAIN (a \o b) = 1..(Len(a) + Len(b))
           /\ \A i \in DOMAIN a : (a \o b)[i] = a[i]
           /\ \A i \in DOMAIN b : (a \o b)[Len(a) + i] = b[i]
           /\ Positions(a \o b, h) =
                  Positions(a, h) \cup {Len(a) + i : i \in Positions(b, h)}
<1> DEFINE c == a \o b
<1>1. /\ DOMAIN a = 1..Len(a) /\ Len(a) \in Nat
      /\ DOMAIN b = 1..Len(b) /\ Len(b) \in Nat
    BY SeqFacts
<1>2. /\ IsSeq(c)
      /\ Len(c) = Len(a) + Len(b)
      /\ \A i \in 1..Len(a) : c[i] = a[i]
      /\ \A i \in 1..Len(b) : c[Len(a) + i] = b[i]
    BY ConcatFacts
<1>3. DOMAIN c = 1..(Len(a) + Len(b))
    BY <1>2, SeqFacts
<1> HIDE DEF c
<1>4. ASSUME NEW k \in DOMAIN c
      PROVE  k \in DOMAIN a \/ \E i \in DOMAIN b : k = Len(a) + i
    <2>1. CASE k <= Len(a)
        BY <1>1, <1>3, <2>1
    <2>2. CASE ~(k <= Len(a))
        <3>1. k - Len(a) \in 1..Len(b) /\ k = Len(a) + (k - Len(a))
            BY <1>1, <1>3, <2>2
        <3> QED
            BY <1>1, <3>1
    <2> QED
        BY <2>1, <2>2
<1>5. /\ \A i \in DOMAIN a : i \in DOMAIN c /\ c[i] = a[i]
      /\ \A i \in DOMAIN b : Len(a) + i \in DOMAIN c /\ c[Len(a) + i] = b[i]
    <2>1. \A i \in 1..Len(a) : i \in 1..(Len(a) + Len(b))
        BY <1>1
    <2>2. \A i \in 1..Len(b) : Len(a) + i \in 1..(Len(a) + Len(b))
        BY <1>1
    <2> QED
        BY <1>1, <1>2, <1>3, <2>1, <2>2
<1>6. Positions(c, h) = Positions(a, h) \cup {Len(a) + i : i \in Positions(b, h)}
    BY <1>4, <1>5 DEF Positions
<1> QED
    BY <1>1, <1>2, <1>3, <1>5, <1>6 DEF c

\* A header that is in one of two runs only is there once in both together.
LEMMA ConcatOne ==
    ASSUME NEW a, NEW b, IsSeq(a), IsSeq(b), NEW h, NEW v
    PROVE  /\ One(a, h, v) /\ None(b, h) => One(a \o b, h, v)
           /\ None(a, h) /\ One(b, h, v) => One(a \o b, h, v)
           /\ None(a, h) /\ None(b, h) => None(a \o b, h)
<1> DEFINE c == a \o b
<1>1. /\ DOMAIN a = 1..Len(a) /\ Len(a) \in Nat
      /\ DOMAIN b = 1..Len(b) /\ Len(b) \in Nat
      /\ DOMAIN c = 1..(Len(a) + Len(b))
      /\ \A i \in DOMAIN a : c[i] = a[i]
      /\ \A i \in DOMAIN b : c[Len(a) + i] = b[i]
      /\ Positions(c, h) = Positions(a, h) \cup {Len(a) + i : i \in Positions(b, h)}
    BY ConcatPositions
<1> HIDE DEF c
<1>2. ASSUME One(a, h, v), None(b, h)
      PROVE  One(c, h, v)
    <2>1. PICK i \in DOMAIN a : Positions(a, h) = {i} /\ a[i].v = v
        BY <1>2 DEF One
    <2>2. Positions(c, h) = {i}
        BY <1>1, <1>2, <2>1 DEF None
    <2>3. i \in DOMAIN c /\ c[i].v = v
        BY <1>1, <2>1
    <2> QED
        BY <2>2, <2>3 DEF One
<1>3. ASSUME None(a, h), One(b, h, v)
      PROVE  One(c, h, v)
    <2>1. PICK i \in DOMAIN b : Positions(b, h) = {i} /\ b[i].v = v
        BY <1>3 DEF One
    <2>2. Positions(c, h) = {Len(a) + i}
        BY <1>1, <1>3, <2>1 DEF None
    <2>3. Len(a) + i \in DOMAIN c
        BY <1>1, <2>1
    <2> QED
        BY <1>1, <2>1, <2>2, <2>3 DEF One
<1>4. ASSUME None(a, h), None(b, h)
      PROVE  None(c, h)
    BY <1>1, <1>4 DEF None
<1> QED
    BY <1>2, <1>3, <1>4 DEF c

\* The start line of the first run is that of both.
LEMMA ConcatBegins ==
    ASSUME NEW a, NEW b, IsSeq(a), IsSeq(b), NEW v, Begins(a, v), None(b, "start")
    PROVE  Begins(a \o b, v) /\ (a \o b)[1] = a[1]
<1> DEFINE c == a \o b
<1>1. /\ DOMAIN a = 1..Len(a) /\ Len(a) \in Nat
      /\ DOMAIN b = 1..Len(b) /\ Len(b) \in Nat
      /\ DOMAIN c = 1..(Len(a) + Len(b))
      /\ \A i \in DOMAIN a : c[i] = a[i]
      /\ Positions(c, "start") =
             Positions(a, "start") \cup {Len(a) + i : i \in Positions(b, "start")}
    BY ConcatPositions
<1> HIDE DEF c
<1>2. Begins(c, v) /\ c[1] = a[1]
    BY <1>1 DEF Begins, None
<1> QED
    BY <1>2 DEF c

\* A line is replaced by another one of the same header.
LEMMA ReplaceFacts ==
    ASSUME NEW lines, IsSeq(lines), NEW i \in DOMAIN lines, NEW l, l.h = lines[i].h
    PROVE  LET r == [lines EXCEPT ![i] = l]
           IN  /\ IsSeq(r) /\ Len(r) = Len(lines) /\ DOMAIN r = DOMAIN lines
               /\ r[i] = l /\ \A j \in DOMAIN lines : j # i => r[j] = lines[j]
               /\ \A h : Positions(r, h) = Positions(lines, h)
<1> DEFINE r == [lines EXCEPT ![i] = l]
<1>1. DOMAIN lines = 1..Len(lines) /\ Len(lines) \in Nat
    BY SeqFacts
<1>2. r = [k \in 1..Len(lines) |-> r[k]]
    BY <1>1
<1>3. r[i] = l /\ \A j \in DOMAIN lines : j # i => r[j] = lines[j]
    OBVIOUS
<1> HIDE DEF r
<1>4. IsSeq(r) /\ Len(r) = Len(lines) /\ DOMAIN r = DOMAIN lines
    BY <1>1, <1>2, SeqIntro
<1>5. \A h : Positions(r, h) = Positions(lines, h)
    <2>1. \A j \in DOMAIN lines : r[j].h = lines[j].h
        BY <1>3
    <2> QED
        BY <1>4, <2>1 DEF Positions
<1> QED
    BY <1>3, <1>4, <1>5 DEF r

\* Then that header has the new value, and any other one has what it had.
LEMMA ReplaceOne ==
    ASSUME NEW lines, IsSeq(lines), NEW i \in DOMAIN lines, NEW l, l.h = lines[i].h
    PROVE  LET r == [lines EXCEPT ![i] = l]
           IN  /\ \A h, v : h # l.h /\ One(lines, h, v) => One(r, h, v)
               /\ \A v : One(lines, l.h, v) => One(r, l.h, l.v)
               /\ \A h : None(lines, h) => None(r, h)
               /\ \A v : Begins(lines, v) /\ i # 1 => Begins(r, v)
               /\ \A v : Begins(lines, v) /\ i = 1 => Begins(r, l.v)
<1> DEFINE r == [lines EXCEPT ![i] = l]
<1>1. /\ DOMAIN r = DOMAIN lines
      /\ r[i] = l /\ \A j \in DOMAIN lines : j # i => r[j] = lines[j]
      /\ \A h : Positions(r, h) = Positions(lines, h)
    BY ReplaceFacts
<1> HIDE DEF r
<1>2. ASSUME NEW h, NEW v, h # l.h, One(lines, h, v)
      PROVE  One(r, h, v)
    <2>1. PICK j \in DOMAIN lines : Positions(lines, h) = {j} /\ lines[j].v = v
        BY <1>2 DEF One
    <2>2. lines[j].h = h
        BY <2>1 DEF Positions
    <2> QED
        BY <1>1, <1>2, <2>1, <2>2 DEF One
<1>3. ASSUME NEW v, One(lines, l.h, v)
      PROVE  One(r, l.h, l.v)
    <2>1. PICK j \in DOMAIN lines : Positions(lines, l.h) = {j} /\ lines[j].v = v
        BY <1>3 DEF One
    <2>2. i = j
        BY <2>1 DEF Positions
    <2> QED
        BY <1>1, <2>1, <2>2 DEF One
<1>4. \A h : None(lines, h) => None(r, h)
    BY <1>1 DEF None
<1>5. /\ \A v : Begins(lines, v) /\ i # 1 => Begins(r, v)
      /\ \A v : Begins(lines, v) /\ i = 1 => Begins(r, l.v)
    BY <1>1 DEF Begins
<1> QED
    BY <1>2, <1>3, <1>4, <1>5 DEF r

\* Lines in another representation, with the headers and values they had.
LEMMA SameHeaders ==
    ASSUME NEW a, NEW b, DOMAIN a = DOMAIN b,
           \A i \in DOMAIN a : a[i].h = b[i].h /\ a[i].v = b[i].v
    PROVE  /\ \A h : Positions(a, h) = Positions(b, h)
           /\ \A h, v : One(a, h, v) <=> One(b, h, v)
           /\ \A h : None(a, h) <=> None(b, h)
           /\ \A v : Begins(a, v) <=> Begins(b, v)
<1>1. \A h : Positions(a, h) = Positions(b, h)
    BY DEF Positions
<1> QED
    BY <1>1 DEF One, None, Begins

\* fillIn points at the text: headers and values are those of the text.
LEMMA InBufferFacts ==
    ASSUME NEW lines, IsSeq(lines)
    PROVE  LET b == InBuffer(lines)
           IN  /\ IsSeq(b) /\ Len(b) = Len(lines) /\ DOMAIN b = DOMAIN lines
               /\ \A i \in DOMAIN lines :
                      b[i].h = lines[i].h /\ b[i].v = lines[i].v /\ b[i].own = "buffer"
<1> DEFINE b == InBuffer(lines)
<1>1. DOMAIN lines = 1..Len(lines) /\ Len(lines) \in Nat
    BY SeqFacts
<1>2. b = [k \in 1..Len(lines) |-> b[k]]
    BY <1>1 DEF InBuffer
<1>3. \A i \in DOMAIN lines :
          b[i].h = lines[i].h /\ b[i].v = lines[i].v /\ b[i].own = "buffer"
    BY DEF InBuffer
<1> HIDE DEF b
<1>4. IsSeq(b) /\ Len(b) = Len(lines) /\ DOMAIN b = DOMAIN lines
    BY <1>1, <1>2, SeqIntro
<1> QED
    BY <1>3, <1>4 DEF b

\* compileMessage writes the lines as they are.
LEMMA AsTextFacts ==
    ASSUME NEW lines, IsSeq(lines)
    PROVE  LET t == AsText(lines)
           IN  /\ IsSeq(t) /\ Len(t) = Len(lines) /\ DOMAIN t = DOMAIN lines
               /\ \A i \in DOMAIN lines :
                      /\ t[i].h = lines[i].h /\ t[i].v = lines[i].v
                      /\ t[i] = Line(lines[i].h, lines[i].v)
<1> DEFINE t == AsText(lines)
<1>1. DOMAIN lines = 1..Len(lines) /\ Len(lines) \in Nat
    BY SeqFacts
<1>2. t = [k \in 1..Len(lines) |-> t[k]]
    BY <1>1 DEF AsText
<1>3. \A i \in DOMAIN lines :
          /\ t[i].h = lines[i].h /\ t[i].v = lines[i].v
          /\ t[i] = Line(lines[i].h, lines[i].v)
    BY DEF AsText, Line
<1> HIDE DEF t
<1>4. IsSeq(t) /\ Len(t) = Len(lines) /\ DOMAIN t = DOMAIN lines
    BY <1>1, <1>2, SeqIntro
<1> QED
    BY <1>3, <1>4 DEF t

---------------------------------------------------------------------------
(* Texts and letters. *)

\* A Via stack, or a payload, has lines of one header.
LEMMA LinesOfFacts ==
    ASSUME NEW h, NEW lines, LinesOf(h, lines)
    PROVE  /\ IsSeq(lines)
           /\ \A i \in DOMAIN lines : lines[i].h = h /\ lines[i] = Line(h, lines[i].v)
<1> DEFINE S == {Line(h, lines[i].v) : i \in DOMAIN lines}
<1>1. lines \in Seq(S)
    BY DEF LinesOf
<1>2. IsSeq(lines)
    BY <1>1, SeqOfRange DEF IsSeq
<1>3. \A i \in DOMAIN lines : lines[i] \in S
    <2> HIDE DEF S
    <2> QED
        BY <1>1, LenProperties, ElementOfSeq
<1>4. \A i \in DOMAIN lines : \E j \in DOMAIN lines : lines[i] = Line(h, lines[j].v)
    BY <1>3
<1>5. \A i \in DOMAIN lines : lines[i].h = h /\ lines[i] = Line(h, lines[i].v)
    BY <1>4 DEF Line
<1> QED
    BY <1>2, <1>5

\* sub is the part of s from m to n.
IsPart(sub, s, m, n) ==
    /\ IsSeq(sub)
    /\ Len(sub) = n - m + 1
    /\ \A i \in 1..(n - m + 1) : sub[i] = s[m + i - 1]

\* SubSeq takes the part from m to n.
LEMMA SubSeqFacts ==
    ASSUME NEW s, IsSeq(s), NEW m \in Nat \ {0}, NEW n \in Nat, n <= Len(s), m <= n + 1
    PROVE  IsPart(SubSeq(s, m, n), s, m, n)
<1>1. Len(s) \in Nat /\ DOMAIN s = 1..Len(s) /\ \A i \in DOMAIN s : s[i] \in Range(s)
    BY SeqFacts DEF Range
<1>2. m \in Int /\ n \in Int /\ \A i \in m..n : s[i] \in Range(s)
    BY <1>1
<1>3. /\ SubSeq(s, m, n) \in Seq(Range(s))
      /\ Len(SubSeq(s, m, n)) = IF m <= n THEN n - m + 1 ELSE 0
      /\ \A i \in 1..(n - m + 1) : SubSeq(s, m, n)[i] = s[m + i - 1]
    BY <1>2, SubSeqProperties
<1>4. IsSeq(SubSeq(s, m, n))
    BY <1>3, SeqOfRange DEF IsSeq
<1>5. (IF m <= n THEN n - m + 1 ELSE 0) = n - m + 1
    OBVIOUS
<1> QED
    BY <1>3, <1>4, <1>5 DEF IsPart

\* A sequence of one line.
LEMMA OneLine ==
    ASSUME NEW l
    PROVE  /\ IsSeq(<<l>>) /\ Len(<<l>>) = 1 /\ DOMAIN <<l>> = {1} /\ <<l>>[1] = l
           /\ One(<<l>>, l.h, l.v)
           /\ \A h : h # l.h => None(<<l>>, h)
<1>1. DOMAIN <<l>> = 1..1 /\ <<l>>[1] = l /\ 1..1 = {1}
    OBVIOUS
<1>2. IsSeq(<<l>>) /\ Len(<<l>>) = 1
    <2>1. <<l>> = [k \in 1..1 |-> <<l>>[k]]
        OBVIOUS
    <2> QED
        BY <2>1, SeqIntro
<1>3. \A h : Positions(<<l>>, h) = IF h = l.h THEN {1} ELSE {}
    BY <1>1 DEF Positions
<1> QED
    BY <1>1, <1>2, <1>3 DEF One, None

\* The empty line is a line of no header.
LEMMA NoHeaderFacts ==
    NoHeader \notin {"start", "Via", "From", "To", "Call-ID", "CSeq", "Content-Length",
                    "Content-Type", "sdp"}
    BY Zenon DEF NoHeader, Absent

\* The empty line and what follows it.
PayloadOf(body) == <<Blank>> \o body

\* The payload with its empty line has no header of the message.
LEMMA PayloadFacts ==
    ASSUME NEW body, LinesOf("sdp", body)
    PROVE  /\ IsSeq(PayloadOf(body)) /\ Len(PayloadOf(body)) = Len(body) + 1
           /\ PayloadOf(body)[1] = Blank
           /\ PayloadOf(body) # <<>> /\ Tail(PayloadOf(body)) = body
           /\ One(PayloadOf(body), NoHeader, Other)
           /\ \A h : h \notin {NoHeader, "sdp"} => None(PayloadOf(body), h)
<1> DEFINE p == PayloadOf(body)
<1>1. IsSeq(body) /\ \A i \in DOMAIN body : body[i].h = "sdp"
    BY LinesOfFacts
<1>2. /\ IsSeq(<<Blank>>) /\ Len(<<Blank>>) = 1 /\ DOMAIN <<Blank>> = {1} /\ <<Blank>>[1] = Blank
      /\ One(<<Blank>>, NoHeader, Other)
      /\ \A h : h # NoHeader => None(<<Blank>>, h)
    <2>1. Blank.h = NoHeader /\ Blank.v = Other
        BY DEF Blank, Line
    <2> QED
        BY <2>1, OneLine
<1>3. \A h : h # "sdp" => None(body, h)
    BY <1>1 DEF None, Positions
<1>4. /\ IsSeq(p) /\ Len(p) = 1 + Len(body) /\ p[1] = Blank
      /\ \A i \in 1..Len(body) : p[1 + i] = body[i]
    <2>1. ASSUME NEW x, x = <<Blank>>
          PROVE  /\ IsSeq(x \o body) /\ Len(x \o body) = 1 + Len(body)
                 /\ (x \o body)[1] = Blank
                 /\ \A i \in 1..Len(body) : (x \o body)[1 + i] = body[i]
        <3>1. IsSeq(x) /\ IsSeq(body)
            BY <1>1, <1>2, <2>1
        <3>2. /\ IsSeq(x \o body) /\ Len(x \o body) = Len(x) + Len(body)
              /\ \A i \in 1..Len(x) : (x \o body)[i] = x[i]
              /\ \A i \in 1..Len(body) : (x \o body)[Len(x) + i] = body[i]
            BY <3>1, ConcatFacts
        <3>3. Len(x) = 1 /\ x[1] = Blank
            BY <1>2, <2>1
        <3> QED
            BY <3>2, <3>3
    <2> QED
        BY <2>1 DEF PayloadOf
<1>5. One(p, NoHeader, Other)
    BY NoHeaderFacts, <1>1, <1>2, <1>3, ConcatOne DEF PayloadOf
<1>6. ASSUME NEW h, h \notin {NoHeader, "sdp"}
      PROVE  None(p, h)
    BY <1>1, <1>2, <1>3, <1>6, ConcatOne DEF PayloadOf
<1>7. Len(body) \in Nat
    BY <1>1, SeqFacts
<1> HIDE DEF p
<1>8. p # <<>>
    BY <1>4, <1>7, EmptySeq
<1>9. Tail(p) = body
    <2>1. p \in Seq(Range(p))
        BY <1>4 DEF IsSeq
    <2>2. /\ Tail(p) \in Seq(Range(p))
          /\ Len(Tail(p)) = Len(p) - 1
          /\ \A i \in 1..Len(Tail(p)) : Tail(p)[i] = p[i + 1]
        BY <2>1, <1>8, HeadTailProperties
    <2>3. IsSeq(Tail(p))
        BY <2>2, SeqOfRange DEF IsSeq
    <2>4. Len(Tail(p)) = Len(body)
        BY <1>4, <1>7, <2>2
    <2>5. \A i \in 1..Len(body) : Tail(p)[i] = body[i]
        BY <1>4, <1>7, <2>2, <2>4
    <2> QED
        BY <1>1, <2>3, <2>4, <2>5, SameSeq
<1> QED
    BY <1>4, <1>5, <1>6, <1>7, <1>8, <1>9 DEF p

\* A text is split at its first empty line.
LEMMA SplitAt ==
    ASSUME NEW head, IsSeq(head), None(head, NoHeader), NEW p, IsSeq(p), Len(p) # 0, p[1] = Blank,
           NEW t, t = head \o p
    PROVE  IsSeq(t) /\ HeadOf(t) = head /\ BodyOf(t) = p
           /\ BlankAt(t) = Len(head) + 1 /\ Len(t) = Len(head) + Len(p)
<1>2. Len(head) \in Nat /\ Len(p) \in Nat /\ DOMAIN head = 1..Len(head)
    BY SeqFacts
<1>3. /\ IsSeq(t) /\ Len(t) = Len(head) + Len(p)
      /\ \A i \in 1..Len(head) : t[i] = head[i]
      /\ \A i \in 1..Len(p) : t[Len(head) + i] = p[i]
    BY ConcatFacts
<1>4. t[Len(head) + 1] = Blank /\ Len(head) + 1 \in 1..Len(t)
    BY <1>2, <1>3
<1>5. \A i \in 1..Len(head) : t[i] # Blank
    <2>1. \A i \in 1..Len(head) : head[i].h # NoHeader
        BY <1>2 DEF None, Positions
    <2> QED
        BY <1>3, <2>1 DEF Blank, Line
<1>6. BlankAt(t) = Len(head) + 1
    <2>1. /\ BlankAt(t) = 0 \/ (BlankAt(t) \in 1..Len(t) /\ t[BlankAt(t)] = Blank)
          /\ \A j \in 1..Len(t) : t[j] = Blank => BlankAt(t) # 0 /\ BlankAt(t) <= j
        BY <1>3, BlankAtFacts
    <2>2. BlankAt(t) # 0 /\ BlankAt(t) <= Len(head) + 1
        BY <1>4, <2>1
    <2>3. BlankAt(t) \in 1..Len(t) /\ BlankAt(t) \notin 1..Len(head)
        BY <1>5, <2>1, <2>2
    <2> QED
        BY <1>2, <1>3, <2>2, <2>3
<1>7. HeadOf(t) = SubSeq(t, 1, Len(head)) /\ BodyOf(t) = SubSeq(t, Len(head) + 1, Len(t))
    BY <1>2, <1>6 DEF HeadOf, BodyOf
<1>8. SubSeq(t, 1, Len(head)) = head
    <2>1. ASSUME NEW n, n = Len(head)
          PROVE  IsPart(SubSeq(t, 1, n), t, 1, n)
        <3>1. n \in Nat /\ n <= Len(t) /\ 1 <= n + 1 /\ 1 \in Nat \ {0}
            BY <1>2, <1>3, <2>1
        <3> QED
            BY <1>3, <3>1, SubSeqFacts
    <2>2. IsPart(SubSeq(t, 1, Len(head)), t, 1, Len(head))
        BY <2>1
    <2>3. /\ IsSeq(SubSeq(t, 1, Len(head))) /\ Len(SubSeq(t, 1, Len(head))) = Len(head)
          /\ \A i \in 1..Len(head) : SubSeq(t, 1, Len(head))[i] = head[i]
        BY <1>2, <1>3, <2>2 DEF IsPart
    <2> QED
        BY <2>3, SameSeq
<1>9. SubSeq(t, Len(head) + 1, Len(t)) = p
    <2>1. ASSUME NEW m, NEW n, m = Len(head) + 1, n = Len(t)
          PROVE  SubSeq(t, m, n) = p
        <3>1. m \in Nat \ {0} /\ n \in Nat /\ n <= Len(t) /\ m <= n + 1
              /\ n - m + 1 = Len(p)
              /\ \A i \in 1..Len(p) : m + i - 1 = Len(head) + i
            BY <1>2, <1>3, <2>1
        <3>2. IsPart(SubSeq(t, m, n), t, m, n)
            BY <1>3, <3>1, SubSeqFacts
        <3>3. /\ IsSeq(SubSeq(t, m, n)) /\ Len(SubSeq(t, m, n)) = Len(p)
              /\ \A i \in 1..Len(p) : SubSeq(t, m, n)[i] = p[i]
            BY <1>3, <3>1, <3>2 DEF IsPart
        <3> QED
            BY <3>3, SameSeq
    <2> QED
        BY <2>1
<1> QED
    BY <1>3, <1>6, <1>7, <1>8, <1>9

\* Head and payload of a text are found again.
LEMMA SplitText ==
    ASSUME NEW head, IsSeq(head), None(head, NoHeader), NEW body, LinesOf("sdp", body)
    PROVE  LET t == head \o PayloadOf(body)
           IN  IsSeq(t) /\ HeadOf(t) = head /\ BodyOf(t) = PayloadOf(body)
<1>1. /\ IsSeq(PayloadOf(body)) /\ Len(PayloadOf(body)) = Len(body) + 1
      /\ PayloadOf(body)[1] = Blank
    BY PayloadFacts
<1>2. Len(body) \in Nat
    BY LinesOfFacts, SeqFacts
<1>3. Len(PayloadOf(body)) # 0
    BY <1>1, <1>2
<1> QED
    BY <1>1, <1>3, SplitAt, ZenonT(40)

\* A letter is what a message says: the value of its start line and of the
\* headers that a dialog is made of, its Vias and its payload.
Named == {"From", "To", "Call-ID", "CSeq"}
LetterFields == Named \cup {"start", "Via", "sdp"}
IsLetter(w) ==
    /\ DOMAIN w = LetterFields
    /\ LinesOf("Via", w["Via"]) /\ w["Via"] # <<>>
    /\ LinesOf("sdp", w["sdp"])

\* Lines that say what a letter says, Vias and payload apart.
LinesSay(lines, w) ==
    /\ IsSeq(lines)
    /\ Begins(lines, w["start"])
    /\ \A h \in Named : One(lines, h, w[h])
    /\ None(lines, NoHeader)

\* A text that says what a letter says.
TextSays(t, w) ==
    /\ IsLetter(w)
    /\ t = HeadOf(t) \o PayloadOf(w["sdp"])
    /\ LinesSay(HeadOf(t), w)
    /\ One(HeadOf(t), "Content-Length", [length |-> Len(w["sdp"])])
    /\ With(HeadOf(t), {"Via"}) = w["Via"]

\* What can be read from the text of a letter.
LEMMA TextFacts ==
    ASSUME NEW t, NEW w, TextSays(t, w)
    PROVE  /\ IsSeq(t) /\ BodyOf(t) = PayloadOf(w["sdp"]) /\ Payload(t) = w["sdp"]
           /\ Begins(t, w["start"])
           /\ \A h \in Named : One(t, h, w[h])
           /\ One(t, "Content-Length", [length |-> Len(w["sdp"])])
           /\ One(t, NoHeader, Other)
           /\ With(t, {"Via"}) = w["Via"]
<1> DEFINE head == HeadOf(t)
           p == PayloadOf(w["sdp"])
<1>1. /\ LinesOf("sdp", w["sdp"]) /\ t = head \o p
      /\ IsSeq(head) /\ None(head, NoHeader)
      /\ Begins(head, w["start"])
      /\ \A h \in Named : One(head, h, w[h])
      /\ One(head, "Content-Length", [length |-> Len(w["sdp"])])
      /\ With(head, {"Via"}) = w["Via"]
    BY DEF TextSays, IsLetter, LinesSay
<1>2. IsSeq(t) /\ BodyOf(t) = p
    BY <1>1, SplitText
<1>3. /\ IsSeq(p) /\ p # <<>> /\ Tail(p) = w["sdp"]
      /\ One(p, NoHeader, Other)
      /\ \A h : h \notin {NoHeader, "sdp"} => None(p, h)
    BY <1>1, PayloadFacts
<1>4. Payload(t) = w["sdp"]
    BY <1>2, <1>3 DEF Payload
<1> HIDE DEF head, p
<1>5. \A h \in Named \cup {"start", "Content-Length", "Via"} : None(p, h)
    BY <1>3, NoHeaderFacts DEF Named
<1>6. Begins(t, w["start"])
    BY <1>1, <1>3, <1>5, ConcatBegins
<1>7. ASSUME NEW h \in Named
      PROVE  One(t, h, w[h])
    BY <1>1, <1>3, <1>5, ConcatOne
<1>8. One(t, "Content-Length", [length |-> Len(w["sdp"])])
    <2>1. ASSUME NEW v, One(head, "Content-Length", v)
          PROVE  One(t, "Content-Length", v)
        BY <1>1, <1>3, <1>5, <2>1, ConcatOne
    <2> QED
        BY <1>1, <2>1
<1>9. One(t, NoHeader, Other)
    BY <1>1, <1>3, ConcatOne
<1>10. With(t, {"Via"}) = w["Via"]
    <2> DEFINE P == Positions(head, "Via")
    <2>1. /\ DOMAIN head = 1..Len(head) /\ Len(head) \in Nat
          /\ \A i \in DOMAIN head : t[i] = head[i]
          /\ Positions(t, "Via") = P \cup {Len(head) + i : i \in Positions(p, "Via")}
        BY <1>1, <1>3, ConcatPositions
    <2>2. Positions(t, "Via") = P
        BY <1>5, <2>1 DEF None
    <2>3. P \subseteq 1..Len(head) /\ \A i \in P : t[i] = head[i]
        BY <2>1 DEF Positions
    <2>4. /\ With(t, {"Via"}) = LinesAt(t, Positions(t, "Via"))
          /\ With(head, {"Via"}) = LinesAt(head, P)
        <3>1. \A x : x \in {"Via"} <=> x = "Via"
            OBVIOUS
        <3> QED
            BY <3>1 DEF With, Positions
    <2> HIDE DEF P
    <2>5. LinesAt(t, P) = LinesAt(head, P)
        BY <2>1, <2>3, LinesAtSame
    <2> QED
        BY <1>1, <2>2, <2>4, <2>5
<1> QED
    BY <1>2, <1>4, <1>6, <1>7, <1>8, <1>9, <1>10 DEF p

\* The text of a letter is well formed.
LEMMA TextWellFormed ==
    ASSUME NEW t, NEW w, TextSays(t, w)
    PROVE  WellFormed(t)
<1>1. /\ Payload(t) = w["sdp"]
      /\ Begins(t, w["start"])
      /\ \A h \in Named : One(t, h, w[h])
      /\ One(t, "Content-Length", [length |-> Len(w["sdp"])])
      /\ One(t, NoHeader, Other)
    BY TextFacts
<1>2. Positions(t, "start") = {1}
    BY <1>1 DEF Begins
<1>3. \A h \in {"Call-ID", "CSeq", "From", "To", "Content-Length", NoHeader} :
          \E i \in DOMAIN t : Positions(t, h) = {i}
    BY <1>1 DEF Named, One
<1>4. \A i \in Positions(t, "Content-Length") : t[i].v.length = Len(Payload(t))
    <2>1. PICK i \in DOMAIN t : Positions(t, "Content-Length") = {i}
                              /\ t[i].v = [length |-> Len(w["sdp"])]
        BY <1>1 DEF One
    <2>2. t[i].v.length = Len(w["sdp"])
        BY <2>1
    <2> QED
        BY <1>1, <2>1, <2>2
<1> QED
    BY <1>2, <1>3, <1>4 DEF WellFormed

---------------------------------------------------------------------------
(* Messages that are kept, and messages that are being written. *)

Fields == {"text", "status", "message_line", "via_line", "sdp_line", "hasSdp",
           "hasvialines", "cache", "contact", "modulus", "fills", "compiles", "echo",
           "route", "nat", "errors"}
IsMessage(m) == DOMAIN m = Fields

\* The lines are those of the text, as fillIn left them.
IsSplit(m) ==
    /\ m.message_line = InBuffer(Without(HeadOf(m.text), {"Via"}))
    /\ m.via_line = InBuffer(With(HeadOf(m.text), {"Via"}))
    /\ m.sdp_line = InBuffer(BodyOf(m.text))
    /\ m.hasSdp = TRUE
    /\ m.hasvialines = TRUE

\* A message that no setter has changed since its text was received or written.
Stored(m, w) ==
    /\ IsMessage(m)
    /\ TextSays(m.text, w)
    /\ m.errors = {} /\ m.contact = {}
    /\ \/ m.status = 0 /\ m.fills \in {0, 1} /\ m.modulus = {}
       \/ /\ m.status = 1 /\ m.fills \in {1, 2} /\ IsSplit(m)
          /\ DOMAIN m.cache \subseteq Parsed
          /\ \A f \in DOMAIN m.cache : m.cache[f] = Lookup(m, f)
          /\ m.modulus \subseteq {GetGenericHeader(m, "Call-ID")}

\* What the lines of a message say.
Says(m, w) ==
    /\ IsLetter(w)
    /\ LinesSay(m.message_line, w) /\ None(m.message_line, "Via")
    /\ IsSeq(m.via_line) /\ AsText(m.via_line) = w["Via"]
    /\ IsSeq(m.sdp_line)
    /\ m.hasvialines = TRUE
    /\ IF m.hasSdp THEN AsText(m.sdp_line) = PayloadOf(w["sdp"]) ELSE w["sdp"] = <<>>

\* A copy that is being changed.  start and sdp say where the first line and the
\* payload are: in the buffer as copied, purged, or on the heap as set.
Draft(m, w, start, sdp) ==
    /\ IsMessage(m)
    /\ m.errors = {} /\ m.contact = {} /\ m.modulus = {}
    /\ m.status \in {1, 2} /\ m.fills = 1 /\ m.compiles = 0
    /\ Says(m, w)
    /\ start = "buffer" => m.message_line[1].own = "buffer"
    /\ m.hasSdp = (sdp # "purged")
    /\ sdp # "heap" => Owned(m.sdp_line) = {}
    /\ Dangling(m.sdp_line) = {}

\* Lines of a text have a header and a value, and nothing else.
IsText(x) == IsSeq(x) /\ \A i \in DOMAIN x : x[i] = Line(x[i].h, x[i].v)

\* A text is written as it is.
LEMMA AsTextSame ==
    ASSUME NEW x, IsText(x)
    PROVE  AsText(x) = x
<1>1. DOMAIN x = 1..Len(x) /\ x = [k \in 1..Len(x) |-> x[k]]
    BY SeqFacts DEF IsText
<1> QED
    BY <1>1 DEF AsText, IsText

\* Two texts make a text.
LEMMA ConcatText ==
    ASSUME NEW a, NEW b, IsText(a), IsText(b)
    PROVE  IsText(a \o b)
<1>1. IsSeq(a) /\ IsSeq(b)
    BY DEF IsText
<1>2. /\ IsSeq(a \o b) /\ Len(a \o b) = Len(a) + Len(b)
      /\ \A i \in 1..Len(a) : (a \o b)[i] = a[i]
      /\ \A i \in 1..Len(b) : (a \o b)[Len(a) + i] = b[i]
    BY <1>1, ConcatFacts
<1>3. /\ Len(a) \in Nat /\ DOMAIN a = 1..Len(a)
      /\ Len(b) \in Nat /\ DOMAIN b = 1..Len(b)
      /\ DOMAIN (a \o b) = 1..Len(a \o b)
    BY <1>1, <1>2, SeqFacts
<1>4. ASSUME NEW i \in DOMAIN (a \o b)
      PROVE  (a \o b)[i] = Line((a \o b)[i].h, (a \o b)[i].v)
    <2>1. CASE i <= Len(a)
        <3>1. i \in 1..Len(a)
            BY <1>3, <2>1
        <3>2. (a \o b)[i] = a[i] /\ a[i] = Line(a[i].h, a[i].v)
            BY <1>2, <1>3, <3>1 DEF IsText
        <3> QED
            BY <3>2
    <2>2. CASE ~(i <= Len(a))
        <3>1. PICK j \in 1..Len(b) : i = Len(a) + j
            <4>1. i - Len(a) \in 1..Len(b) /\ i = Len(a) + (i - Len(a))
                BY <1>2, <1>3, <2>2
            <4> QED
                BY <4>1
        <3>2. (a \o b)[i] = b[j] /\ b[j] = Line(b[j].h, b[j].v)
            BY <1>2, <1>3, <3>1 DEF IsText
        <3> QED
            BY <3>2
    <2> QED
        BY <2>1, <2>2
<1> QED
    BY <1>2, <1>4 DEF IsText

\* One line is a text.
LEMMA LineText ==
    ASSUME NEW h, NEW v
    PROVE  IsText(<<Line(h, v)>>)
<1>1. IsSeq(<<Line(h, v)>>)
    BY OneLine
<1>2. Line(h, v) = Line(Line(h, v).h, Line(h, v).v)
    BY DEF Line
<1> QED
    BY <1>1, <1>2 DEF IsText

\* A Via stack is a text, and written as it is.
LEMMA StackText ==
    ASSUME NEW h, NEW lines, LinesOf(h, lines)
    PROVE  IsText(lines) /\ IsSeq(lines) /\ AsText(lines) = lines
<1>1. IsSeq(lines) /\ \A i \in DOMAIN lines : lines[i].h = h /\ lines[i] = Line(h, lines[i].v)
    BY LinesOfFacts
<1>2. IsText(lines)
    BY <1>1 DEF IsText
<1> QED
    BY <1>1, <1>2, AsTextSame

\* So is the payload with its empty line.
LEMMA PayloadText ==
    ASSUME NEW body, LinesOf("sdp", body)
    PROVE  /\ IsText(PayloadOf(body)) /\ IsSeq(PayloadOf(body))
           /\ AsText(PayloadOf(body)) = PayloadOf(body)
<1>1. IsText(body)
    BY StackText
<1>2. IsText(<<Blank>>)
    BY LineText DEF Blank
<1>3. IsText(PayloadOf(body))
    BY <1>1, <1>2, ConcatText DEF PayloadOf
<1> QED
    BY <1>3, AsTextSame DEF IsText

\* A message whose lines were just cut from the text of a letter says that letter.
LEMMA SplitSays ==
    ASSUME NEW m, NEW w, IsMessage(m), TextSays(m.text, w), IsSplit(m)
    PROVE  /\ Says(m, w)
           /\ m.message_line[1].own = "buffer"
           /\ Owned(m.sdp_line) = {} /\ Dangling(m.sdp_line) = {}
<1> DEFINE t == m.text
           head == HeadOf(t)
           P == {i \in DOMAIN head : head[i].h \notin {"Via"}}
           kept == LinesAt(head, P)
<1>1. /\ IsLetter(w)
      /\ LinesSay(head, w)
      /\ With(head, {"Via"}) = w["Via"]
      /\ BodyOf(t) = PayloadOf(w["sdp"])
    BY TextFacts DEF TextSays
<1>2. LinesOf("Via", w["Via"]) /\ LinesOf("sdp", w["sdp"])
    BY <1>1 DEF IsLetter
<1>3. /\ m.message_line = InBuffer(kept)
      /\ m.via_line = InBuffer(w["Via"])
      /\ m.sdp_line = InBuffer(PayloadOf(w["sdp"]))
      /\ m.hasSdp = TRUE /\ m.hasvialines = TRUE
    BY <1>1 DEF IsSplit, Without
<1>4. /\ IsSeq(head) /\ Begins(head, w["start"])
      /\ \A h \in Named : One(head, h, w[h])
      /\ None(head, NoHeader)
    BY <1>1 DEF LinesSay
<1>5. /\ P \subseteq DOMAIN head
      /\ \A i \in DOMAIN head : i \in P <=> head[i].h # "Via"
    OBVIOUS
<1> HIDE DEF P
<1>6. IsSeq(kept)
    <2>1. DOMAIN head = 1..Len(head) /\ Len(head) \in Nat
        BY <1>4, SeqFacts
    <2>2. IsCut(kept, head, P)
        BY <1>5, <2>1, LinesAtFacts
    <2> QED
        BY <2>2 DEF IsCut
<1>7. Begins(kept, w["start"])
    <2>1. 1 \in DOMAIN head /\ head[1].h = "start"
        BY <1>4 DEF Begins, Positions
    <2>2. 1 \in P
        BY <1>5, <2>1
    <2> QED
        BY <1>4, <1>5, <2>2, CutBegins
<1>8. ASSUME NEW h \in Named
      PROVE  One(kept, h, w[h])
    <2>1. h # "Via"
        BY DEF Named
    <2>2. \A i \in DOMAIN head : head[i].h = h => i \in P
        BY <1>5, <2>1
    <2> QED
        BY <1>4, <1>5, <2>2, CutOne
<1>9. None(kept, "Via") /\ None(kept, NoHeader)
    <2>1. \A i \in P : head[i].h # "Via" /\ head[i].h # NoHeader
        BY <1>4, <1>5 DEF None, Positions
    <2> QED
        BY <1>4, <1>5, <2>1, CutNone
<1> HIDE DEF kept, head, t
<1>10. ASSUME NEW x, IsSeq(x)
       PROVE  /\ IsSeq(InBuffer(x)) /\ AsText(InBuffer(x)) = AsText(x)
              /\ Owned(InBuffer(x)) = {} /\ Dangling(InBuffer(x)) = {}
    <2>1. /\ IsSeq(InBuffer(x)) /\ DOMAIN InBuffer(x) = DOMAIN x
          /\ \A i \in DOMAIN x : /\ InBuffer(x)[i].h = x[i].h /\ InBuffer(x)[i].v = x[i].v
                                 /\ InBuffer(x)[i].own = "buffer"
        BY <1>10, InBufferFacts
    <2> QED
        BY <2>1 DEF AsText, Owned, Dangling
<1>12. IsSeq(w["Via"]) /\ AsText(w["Via"]) = w["Via"]
    BY <1>2, StackText
<1>13. IsSeq(PayloadOf(w["sdp"])) /\ AsText(PayloadOf(w["sdp"])) = PayloadOf(w["sdp"])
    BY <1>2, PayloadText
<1>14. /\ LinesSay(m.message_line, w) /\ None(m.message_line, "Via")
       /\ m.message_line[1].own = "buffer"
    <2>1. /\ IsSeq(InBuffer(kept)) /\ DOMAIN InBuffer(kept) = DOMAIN kept
          /\ \A i \in DOMAIN kept : /\ InBuffer(kept)[i].h = kept[i].h
                                    /\ InBuffer(kept)[i].v = kept[i].v
                                    /\ InBuffer(kept)[i].own = "buffer"
        BY <1>6, InBufferFacts
    <2>2. /\ \A h, v : One(InBuffer(kept), h, v) <=> One(kept, h, v)
          /\ \A h : None(InBuffer(kept), h) <=> None(kept, h)
          /\ \A v : Begins(InBuffer(kept), v) <=> Begins(kept, v)
        BY <2>1, SameHeaders
    <2>3. 1 \in DOMAIN kept
        BY <1>7 DEF Begins
    <2> QED
        BY <1>3, <1>7, <1>8, <1>9, <2>1, <2>2, <2>3 DEF LinesSay
<1>15. Says(m, w)
    <2>1. /\ IsSeq(m.via_line) /\ AsText(m.via_line) = w["Via"]
          /\ IsSeq(m.sdp_line) /\ AsText(m.sdp_line) = PayloadOf(w["sdp"])
        BY <1>3, <1>10, <1>12, <1>13
    <2> QED
        BY <1>1, <1>3, <1>14, <2>1 DEF Says
<1>16. Owned(m.sdp_line) = {} /\ Dangling(m.sdp_line) = {}
    BY <1>3, <1>10, <1>13
<1> QED
    BY <1>14, <1>15, <1>16

---------------------------------------------------------------------------
(* Getters, of a message whose lines say what the letter says. *)

\* The only line of a header is the first and the last one, and not line 1.
LEMMA FoundAt ==
    ASSUME NEW lines, NEW w, LinesSay(lines, w), NEW h \in Named
    PROVE  \E i \in DOMAIN lines :
               /\ i # 1 /\ lines[i].h = h /\ lines[i].v = w[h]
               /\ \A j \in DOMAIN lines : lines[j].h = h => j = i
               /\ FirstAt(lines, 1, h) = i /\ FirstAt(lines, 2, h) = i
               /\ LastAt(lines, h) = i
               /\ i # 0
<1>1. /\ IsSeq(lines) /\ 1 \in DOMAIN lines /\ lines[1].h = "start"
      /\ One(lines, h, w[h])
    BY DEF LinesSay, Begins, Positions
<1>2. DOMAIN lines = 1..Len(lines) /\ Len(lines) \in Nat
    BY <1>1, SeqFacts
<1>3. PICK i \in DOMAIN lines : Positions(lines, h) = {i} /\ lines[i].v = w[h]
    BY <1>1 DEF One
<1>4. lines[i].h = h /\ \A j \in DOMAIN lines : lines[j].h = h => j = i
    BY <1>3 DEF Positions
<1>5. i # 1
    BY <1>1, <1>4 DEF Named
<1>6. i \in 1..Len(lines) /\ i \in 2..Len(lines)
    BY <1>2, <1>5
<1>7. FirstAt(lines, 1, h) = i
    <2>1. LET k == FirstAt(lines, 1, h)
          IN  /\ k = 0 \/ (k \in 1..Len(lines) /\ lines[k].h = h)
              /\ \A j \in 1..Len(lines) : lines[j].h = h => k # 0 /\ k <= j
        BY <1>1, FirstAtFacts
    <2> QED
        BY <1>2, <1>4, <1>6, <2>1
<1>8. FirstAt(lines, 2, h) = i
    <2>1. LET k == FirstAt(lines, 2, h)
          IN  /\ k = 0 \/ (k \in 2..Len(lines) /\ lines[k].h = h)
              /\ \A j \in 2..Len(lines) : lines[j].h = h => k # 0 /\ k <= j
        BY <1>1, FirstAtFacts
    <2>2. 2..Len(lines) \subseteq DOMAIN lines
        BY <1>2
    <2> QED
        BY <1>4, <1>6, <2>1, <2>2
<1>9. LastAt(lines, h) = i
    <2>1. LET k == LastAt(lines, h)
          IN  /\ k = 0 \/ (k \in 1..Len(lines) /\ lines[k].h = h)
              /\ \A j \in 1..Len(lines) : lines[j].h = h => k # 0 /\ j <= k
        BY <1>1, LastAtFacts
    <2> QED
        BY <1>2, <1>4, <1>6, <2>1
<1> QED
    BY <1>3, <1>4, <1>5, <1>6, <1>7, <1>8, <1>9

\* What _getProperty finds in a value.
PropertyIn(v, property) ==
    IF property \in DOMAIN v /\ v[property] # Absent THEN v[property] ELSE NotFound

\* Whatever representation the lines are in, the getters return what the letter says.
LEMMA GetterFacts ==
    ASSUME NEW m, NEW w, Says(m, w)
    PROVE  /\ \A h \in Named : GetGenericHeader(m, h) = w[h]
           /\ \A h \in Named : \A p : GetProperty(m, h, p) = PropertyIn(w[h], p)
           /\ GetReqRepType(m) = w["start"]
           /\ m.via_line # <<>> /\ Len(m.via_line) = Len(w["Via"])
           /\ GetViaLine(m) = w["Via"][1].v
           /\ \A p : GetProperty(m, "Via", p) =
                         IF PropertyIn(w["Via"][1].v, p) # NotFound
                         THEN PropertyIn(w["Via"][1].v, p) ELSE Absent
<1>1. /\ LinesSay(m.message_line, w)
      /\ IsSeq(m.message_line)
      /\ Begins(m.message_line, w["start"])
      /\ IsSeq(m.via_line) /\ AsText(m.via_line) = w["Via"] /\ m.hasvialines = TRUE
      /\ w["Via"] # <<>>
    BY DEF Says, LinesSay, IsLetter
<1>2. ASSUME NEW h \in Named
      PROVE  /\ GetGenericHeader(m, h) = w[h]
             /\ \A p : GetProperty(m, h, p) = PropertyIn(w[h], p)
    <2>1. PICK i \in DOMAIN m.message_line :
              /\ m.message_line[i].v = w[h]
              /\ FirstAt(m.message_line, 1, h) = i /\ FirstAt(m.message_line, 2, h) = i
              /\ i # 0
        BY <1>1, FoundAt
    <2>2. h # "Via"
        BY DEF Named
    <2>3. GetGenericHeader(m, h) = w[h]
        BY <2>1, <2>2 DEF GetGenericHeader
    <2>4. ASSUME NEW p
          PROVE  GetProperty(m, h, p) = PropertyIn(w[h], p)
        BY <2>1, <2>2 DEF GetProperty, PropertyOf, PropertyIn
    <2> QED
        BY <2>3, <2>4
<1>3. GetReqRepType(m) = w["start"]
    <2>1. 1 \in DOMAIN m.message_line /\ m.message_line[1].v = w["start"]
        BY <1>1 DEF Begins
    <2>2. m.message_line # <<>>
        BY <2>1
    <2> QED
        BY <2>1, <2>2 DEF GetReqRepType
<1>4. /\ m.via_line # <<>> /\ Len(m.via_line) = Len(w["Via"])
      /\ 1 \in DOMAIN m.via_line /\ w["Via"][1].v = m.via_line[1].v
    <2>1. /\ IsSeq(w["Via"]) /\ Len(w["Via"]) = Len(m.via_line)
          /\ DOMAIN w["Via"] = DOMAIN m.via_line
          /\ \A i \in DOMAIN m.via_line : w["Via"][i].v = m.via_line[i].v
        BY <1>1, AsTextFacts
    <2>2. Len(w["Via"]) \in Nat /\ DOMAIN w["Via"] = 1..Len(w["Via"])
        BY <2>1, SeqFacts
    <2>3. Len(w["Via"]) # 0
        BY <1>1, <2>1, EmptySeq DEF IsSeq
    <2>4. 1 \in DOMAIN m.via_line
        BY <2>1, <2>2, <2>3
    <2>5. m.via_line # <<>>
        BY <2>4
    <2> QED
        BY <2>1, <2>4, <2>5
<1>5. GetViaLine(m) = w["Via"][1].v
    BY <1>4 DEF GetViaLine
<1>6. ASSUME NEW p
      PROVE  GetProperty(m, "Via", p) =
                 IF PropertyIn(w["Via"][1].v, p) # NotFound
                 THEN PropertyIn(w["Via"][1].v, p) ELSE Absent
    BY <1>1, <1>4 DEF GetProperty, PropertyOf, PropertyIn
<1> QED
    BY <1>2, <1>3, <1>4, <1>5, <1>6

\* A getter looks at the lines only.
LEMMA LookupSame ==
    ASSUME NEW m, NEW n, m.message_line = n.message_line, m.via_line = n.via_line,
           m.hasvialines = n.hasvialines
    PROVE  /\ \A f \in Parsed : Lookup(m, f) = Lookup(n, f)
           /\ \A h : GetGenericHeader(m, h) = GetGenericHeader(n, h)
<1>1. \A h : GetGenericHeader(m, h) = GetGenericHeader(n, h)
    BY DEF GetGenericHeader
<1>2. \A h, p : GetProperty(m, h, p) = GetProperty(n, h, p)
    BY DEF GetProperty
<1>3. GetReqRepType(m) = GetReqRepType(n)
    BY DEF GetReqRepType
<1>4. \A f \in Parsed : Lookup(m, f) = Lookup(n, f)
    <2>1. SUFFICES ASSUME NEW f \in Parsed PROVE Lookup(m, f) = Lookup(n, f)
        OBVIOUS
    <2> QED
        BY <1>1, <1>2, <1>3 DEF Lookup, Parsed
<1> QED
    BY <1>1, <1>4

---------------------------------------------------------------------------
(* Filling and reading. *)

\* The branch of fillIn that cuts the text: the lines are there, the caches empty.
LEMMA CutMessage ==
    ASSUME NEW m, NEW w, IsMessage(m), TextSays(m.text, w), m.fills \in {0, 1}
    PROVE  LET c == Cut(m)
           IN  /\ IsMessage(c) /\ c.text = m.text /\ IsSplit(c) /\ c.status = 1
               /\ c.fills = m.fills + 1 /\ c.compiles = m.compiles
               /\ c.cache = Forgotten /\ c.contact = m.contact /\ c.modulus = m.modulus
               /\ c.echo = m.echo /\ c.route = m.route /\ c.nat = m.nat
               /\ c.errors = m.errors
<1>1. /\ BodyOf(m.text) = PayloadOf(w["sdp"])
      /\ With(HeadOf(m.text), {"Via"}) = w["Via"] /\ w["Via"] # <<>>
      /\ LinesOf("sdp", w["sdp"]) /\ LinesOf("Via", w["Via"])
      /\ IsSeq(HeadOf(m.text))
    BY TextFacts DEF TextSays, IsLetter, LinesSay
<1>2. BodyOf(m.text) # <<>>
    BY <1>1, PayloadFacts
<1>3. \E l \in Range(HeadOf(m.text)) : l.h = "Via"
    <2> DEFINE head == HeadOf(m.text)
               P == {i \in DOMAIN head : head[i].h \in {"Via"}}
    <2>1. DOMAIN head = 1..Len(head) /\ Len(head) \in Nat
        BY <1>1, SeqFacts
    <2>2. P \subseteq 1..Len(head)
        BY <2>1
    <2>3. w["Via"] = LinesAt(head, P)
        BY <1>1 DEF With
    <2> HIDE DEF P, head
    <2>4. IsCut(w["Via"], head, P)
        BY <2>1, <2>2, <2>3, LinesAtFacts
    <2>5. 1 \in DOMAIN w["Via"]
        <3>1. Len(w["Via"]) \in Nat /\ DOMAIN w["Via"] = 1..Len(w["Via"]) /\ IsSeq(w["Via"])
            BY <1>1, LinesOfFacts, SeqFacts
        <3>2. Len(w["Via"]) # 0
            BY <1>1, <3>1, EmptySeq DEF IsSeq
        <3> QED
            BY <3>1, <3>2
    <2>6. PICK i : i \in P
        BY <2>4, <2>5 DEF IsCut
    <2> QED
        BY <2>6 DEF P, head, Range
<1>4. ~(m.fills >= MaxFills)
    BY DEF MaxFills
<1> DEFINE c == Cut(m)
<1>5. /\ IsMessage(c) /\ c.text = m.text /\ c.status = 1
      /\ c.fills = m.fills + 1 /\ c.compiles = m.compiles
      /\ c.cache = Forgotten /\ c.contact = m.contact /\ c.modulus = m.modulus
      /\ c.echo = m.echo /\ c.route = m.route /\ c.nat = m.nat
    BY DEF Cut, IsMessage, Fields
<1>6. c.errors = m.errors
    BY <1>4 DEF Cut, IsMessage, Fields
<1>7. /\ c.message_line = InBuffer(Without(HeadOf(m.text), {"Via"}))
      /\ c.via_line = InBuffer(With(HeadOf(m.text), {"Via"}))
      /\ c.sdp_line = InBuffer(BodyOf(m.text))
    BY DEF Cut, IsMessage, Fields
<1>8. c.hasSdp = TRUE
    BY <1>2 DEF Cut, IsMessage, Fields
<1>9. c.hasvialines = TRUE
    BY <1>3 DEF Cut, IsMessage, Fields
<1>10. IsSplit(c)
    BY <1>5, <1>7, <1>8, <1>9 DEF IsSplit
<1> QED
    BY <1>5, <1>6, <1>10

\* A stored message whose lines are there.
Open(m, w) == Stored(m, w) /\ m.status = 1

\* What else a message is: reading keeps it.
SameMessage(m, n) ==
    m.text = n.text /\ m.echo = n.echo /\ m.route = n.route /\ m.nat = n.nat

\* A message that was received is as good as one that is stored.
LEMMA NewStored ==
    ASSUME NEW text, NEW w, TextSays(text, w), NEW echo
    PROVE  LET m == NewMessage(text, echo)
           IN  Stored(m, w) /\ m.status = 0 /\ m.fills = 0 /\ m.text = text /\ m.echo = echo
    BY DEF NewMessage, Stored, IsMessage, Fields

\* fillIn makes the lines of a stored message and changes nothing else.
LEMMA FillInStored ==
    ASSUME NEW m, NEW w, Stored(m, w)
    PROVE  LET f == FillIn(m)
           IN  /\ Open(f, w) /\ SameMessage(f, m) /\ f.modulus = m.modulus
               /\ m.status = 1 => f = m
<1>1. CASE m.status = 1
    BY <1>1 DEF FillIn, Open, SameMessage
<1>2. CASE m.status # 1
    <2>1. /\ m.status = 0 /\ m.fills \in {0, 1} /\ m.modulus = {}
          /\ IsMessage(m) /\ TextSays(m.text, w) /\ m.errors = {} /\ m.contact = {}
        BY <1>2 DEF Stored
    <2>2. FillIn(m) = Cut(m)
        BY <1>2, <2>1 DEF FillIn, CompileMessage
    <2> DEFINE c == Cut(m)
    <2>3. /\ IsMessage(c) /\ c.text = m.text /\ IsSplit(c) /\ c.status = 1
          /\ c.fills = m.fills + 1
          /\ c.cache = Forgotten /\ c.contact = m.contact /\ c.modulus = m.modulus
          /\ c.echo = m.echo /\ c.route = m.route /\ c.nat = m.nat
          /\ c.errors = m.errors
        BY <2>1, CutMessage
    <2> HIDE DEF c
    <2>4. DOMAIN c.cache = {}
        BY <2>3 DEF Forgotten
    <2>5. Open(c, w)
        BY <2>1, <2>3, <2>4 DEF Open, Stored
    <2> QED
        BY <1>2, <2>1, <2>2, <2>3, <2>5 DEF SameMessage, c
<1> QED
    BY <1>1, <1>2

\* A stored message with its lines: what they say, and that no line is on the heap.
LEMMA OpenFacts ==
    ASSUME NEW m, NEW w, Open(m, w)
    PROVE  /\ IsMessage(m) /\ IsSplit(m) /\ Says(m, w) /\ TextSays(m.text, w)
           /\ m.status = 1 /\ m.errors = {} /\ m.contact = {} /\ m.fills \in {1, 2}
           /\ m.message_line[1].own = "buffer"
           /\ Owned(m.sdp_line) = {} /\ Dangling(m.sdp_line) = {}
           /\ DOMAIN m.cache \subseteq Parsed
           /\ \A f \in DOMAIN m.cache : m.cache[f] = Lookup(m, f)
           /\ \A f \in Parsed : Value(m, f) = Lookup(m, f)
           /\ m.modulus \subseteq {GetGenericHeader(m, "Call-ID")}
<1>1. /\ IsMessage(m) /\ IsSplit(m) /\ TextSays(m.text, w)
      /\ m.status = 1 /\ m.errors = {} /\ m.contact = {} /\ m.fills \in {1, 2}
      /\ DOMAIN m.cache \subseteq Parsed
      /\ \A f \in DOMAIN m.cache : m.cache[f] = Lookup(m, f)
      /\ m.modulus \subseteq {GetGenericHeader(m, "Call-ID")}
    BY DEF Open, Stored
<1>2. \A f \in Parsed : Value(m, f) = Lookup(m, f)
    BY <1>1 DEF Value
<1>3. /\ Says(m, w)
      /\ m.message_line[1].own = "buffer"
      /\ Owned(m.sdp_line) = {} /\ Dangling(m.sdp_line) = {}
    BY <1>1, SplitSays
<1> QED
    BY <1>1, <1>2, <1>3

\* What the getters return.
LEMMA OpenGetters ==
    ASSUME NEW m, NEW w, Open(m, w)
    PROVE  /\ \A h \in Named : GetGenericHeader(m, h) = w[h]
           /\ GetHeadSipReply(m) = w["start"]
           /\ GetHeadCallId(m) = w["Call-ID"]
           /\ GetHeadCSeq(m) = w["CSeq"]
           /\ GetHeadTo(m) = w["To"]
           /\ GetToTag(m) = PropertyIn(w["To"], "tag")
           /\ GetViaLine(m) = w["Via"][1].v
           /\ GetProperty(m, "Via", "received") =
                  (IF PropertyIn(w["Via"][1].v, "received") # NotFound
                   THEN PropertyIn(w["Via"][1].v, "received") ELSE Absent)
           /\ HasSDP(m) /\ GetSDP(m) = PayloadOf(w["sdp"])
<1>1. Says(m, w) /\ m.hasSdp = TRUE /\ \A f \in Parsed : Value(m, f) = Lookup(m, f)
    BY OpenFacts DEF IsSplit
<1>2. /\ \A h \in Named : GetGenericHeader(m, h) = w[h]
      /\ \A h \in Named : \A p : GetProperty(m, h, p) = PropertyIn(w[h], p)
      /\ GetReqRepType(m) = w["start"]
      /\ GetViaLine(m) = w["Via"][1].v
      /\ \A p : GetProperty(m, "Via", p) =
                    IF PropertyIn(w["Via"][1].v, p) # NotFound
                    THEN PropertyIn(w["Via"][1].v, p) ELSE Absent
    BY <1>1, GetterFacts
<1>3. /\ GetHeadSipReply(m) = Lookup(m, "reqRep")
      /\ GetHeadCallId(m) = Lookup(m, "callId")
      /\ GetHeadCSeq(m) = Lookup(m, "cSeq")
      /\ GetHeadTo(m) = Lookup(m, "headTo")
      /\ GetToTag(m) = Lookup(m, "toTag")
    BY <1>1 DEF GetHeadSipReply, GetHeadCallId, GetHeadCSeq, GetHeadTo, GetToTag, Parsed
<1>4. /\ Lookup(m, "reqRep") = GetReqRepType(m)
      /\ Lookup(m, "callId") = GetGenericHeader(m, "Call-ID")
      /\ Lookup(m, "cSeq") = GetGenericHeader(m, "CSeq")
      /\ Lookup(m, "headTo") = GetGenericHeader(m, "To")
      /\ Lookup(m, "toTag") = GetProperty(m, "To", "tag")
    BY DEF Lookup
<1>5. HasSDP(m) /\ GetSDP(m) = PayloadOf(w["sdp"])
    BY <1>1 DEF HasSDP, GetSDP, Says
<1> QED
    BY <1>2, <1>3, <1>4, <1>5 DEF Named

\* Getters leave a stored message as it was, but for their caches.
LEMMA ReadStored ==
    ASSUME NEW m, NEW w, Stored(m, w), NEW fields, fields \subseteq Parsed
    PROVE  LET r == Read(m, fields)
           IN  /\ Open(r, w) /\ SameMessage(r, m) /\ r.modulus = m.modulus
               /\ fields \subseteq DOMAIN r.cache
<1> DEFINE f == FillIn(m)
           r == [f EXCEPT !.cache = [x \in DOMAIN @ \cup fields |-> Value(f, x)]]
<1>1. Open(f, w) /\ SameMessage(f, m) /\ f.modulus = m.modulus
    BY FillInStored
<1>2. Read(m, fields) = r
    BY DEF Read
<1> HIDE DEF f
<1>3. /\ IsMessage(f) /\ IsSplit(f) /\ TextSays(f.text, w)
      /\ f.status = 1 /\ f.errors = {} /\ f.contact = {} /\ f.fills \in {1, 2}
      /\ DOMAIN f.cache \subseteq Parsed
      /\ \A x \in Parsed : Value(f, x) = Lookup(f, x)
      /\ f.modulus \subseteq {GetGenericHeader(f, "Call-ID")}
    BY <1>1, OpenFacts
<1>4. /\ IsMessage(r)
      /\ r.text = f.text /\ r.status = f.status /\ r.errors = f.errors
      /\ r.contact = f.contact /\ r.fills = f.fills /\ r.modulus = f.modulus
      /\ r.echo = f.echo /\ r.route = f.route /\ r.nat = f.nat
      /\ r.message_line = f.message_line /\ r.via_line = f.via_line
      /\ r.sdp_line = f.sdp_line /\ r.hasSdp = f.hasSdp /\ r.hasvialines = f.hasvialines
    BY <1>3 DEF IsMessage, Fields
<1>5. r.cache = [x \in DOMAIN f.cache \cup fields |-> Value(f, x)]
    BY <1>3 DEF IsMessage, Fields
<1> HIDE DEF r
<1>6. \A x \in Parsed : Lookup(r, x) = Lookup(f, x)
    BY <1>4, LookupSame
<1>7. GetGenericHeader(r, "Call-ID") = GetGenericHeader(f, "Call-ID")
    BY <1>4, LookupSame
<1>8. /\ DOMAIN r.cache = DOMAIN f.cache \cup fields
      /\ DOMAIN r.cache \subseteq Parsed
      /\ \A x \in DOMAIN r.cache : r.cache[x] = Lookup(r, x)
    BY <1>3, <1>5, <1>6
<1>9. IsSplit(r)
    BY <1>3, <1>4 DEF IsSplit
<1>10. Open(r, w)
    BY <1>3, <1>4, <1>7, <1>8, <1>9 DEF Open, Stored
<1> QED
    BY <1>1, <1>2, <1>4, <1>8, <1>10 DEF SameMessage

\* And so does the getter of the modulus, which nothing resets.
LEMMA ReadModulusStored ==
    ASSUME NEW m, NEW w, Stored(m, w)
    PROVE  LET r == ReadModulus(m)
           IN  Open(r, w) /\ SameMessage(r, m)
<1> DEFINE q == Read(m, {"callId"})
           r == [q EXCEPT !.modulus = {GetHeadCallId(q)}]
<1>1. Open(q, w) /\ SameMessage(q, m)
    <2>1. {"callId"} \subseteq Parsed
        BY DEF Parsed
    <2> QED
        BY <2>1, ReadStored
<1>2. ReadModulus(m) = IF q.modulus # {} THEN q ELSE r
    BY DEF ReadModulus
<1> HIDE DEF q
<1>3. /\ IsMessage(q) /\ IsSplit(q) /\ TextSays(q.text, w)
      /\ q.status = 1 /\ q.errors = {} /\ q.contact = {} /\ q.fills \in {1, 2}
      /\ DOMAIN q.cache \subseteq Parsed
      /\ \A x \in DOMAIN q.cache : q.cache[x] = Lookup(q, x)
    BY <1>1, OpenFacts
<1>4. GetHeadCallId(q) = GetGenericHeader(q, "Call-ID")
    BY <1>1, OpenGetters DEF Named
<1>5. /\ IsMessage(r)
      /\ r.text = q.text /\ r.status = q.status /\ r.errors = q.errors
      /\ r.contact = q.contact /\ r.fills = q.fills /\ r.cache = q.cache
      /\ r.echo = q.echo /\ r.route = q.route /\ r.nat = q.nat
      /\ r.message_line = q.message_line /\ r.via_line = q.via_line
      /\ r.sdp_line = q.sdp_line /\ r.hasSdp = q.hasSdp /\ r.hasvialines = q.hasvialines
      /\ r.modulus = {GetHeadCallId(q)}
    BY <1>3 DEF IsMessage, Fields
<1> HIDE DEF r
<1>6. \A x \in Parsed : Lookup(r, x) = Lookup(q, x)
    BY <1>5, LookupSame
<1>7. GetGenericHeader(r, "Call-ID") = GetGenericHeader(q, "Call-ID")
    BY <1>5, LookupSame
<1>8. \A x \in DOMAIN r.cache : r.cache[x] = Lookup(r, x)
    BY <1>3, <1>5, <1>6
<1>9. IsSplit(r)
    BY <1>3, <1>5 DEF IsSplit
<1>10. Open(r, w)
    BY <1>3, <1>4, <1>5, <1>7, <1>8, <1>9 DEF Open, Stored
<1>11. SameMessage(r, m)
    BY <1>1, <1>5 DEF SameMessage
<1> QED
    BY <1>1, <1>2, <1>10, <1>11

\* A copy can be read and changed.
LEMMA CopyFacts ==
    ASSUME NEW m, NEW w, TextSays(m.text, w)
    PROVE  LET c == Copy(m)
           IN  /\ Open(c, w) /\ Draft(c, w, "buffer", "buffer")
               /\ c.text = m.text /\ c.echo = m.echo /\ c.modulus = {}
               /\ c.route = Absent /\ c.nat = Absent
<1> DEFINE n == NewMessage(m.text, m.echo)
           c == FillIn(n)
<1>1. Stored(n, w) /\ n.status = 0 /\ n.fills = 0 /\ n.text = m.text /\ n.echo = m.echo
    BY NewStored
<1>2. n.modulus = {} /\ n.compiles = 0 /\ n.route = Absent /\ n.nat = Absent
    BY DEF NewMessage
<1>3. Copy(m) = c
    BY DEF Copy
<1>4. c = Cut(n)
    BY <1>1 DEF FillIn, CompileMessage
<1> HIDE DEF n, c
<1>5. Open(c, w) /\ SameMessage(c, n) /\ c.modulus = n.modulus
    BY <1>1, FillInStored DEF c
<1>6. c.fills = 1 /\ c.compiles = 0
    <2>1. IsMessage(n) /\ TextSays(n.text, w) /\ n.fills \in {0, 1}
        BY <1>1 DEF Stored
    <2>2. c.fills = n.fills + 1 /\ c.compiles = n.compiles
        BY <1>4, <2>1, CutMessage
    <2> QED
        BY <1>1, <1>2, <2>2
<1>7. /\ IsMessage(c) /\ Says(c, w) /\ c.hasSdp = TRUE
      /\ c.status = 1 /\ c.errors = {} /\ c.contact = {}
      /\ c.message_line[1].own = "buffer"
      /\ Owned(c.sdp_line) = {} /\ Dangling(c.sdp_line) = {}
    BY <1>5, OpenFacts DEF IsSplit
<1>8. Draft(c, w, "buffer", "buffer")
    BY <1>2, <1>5, <1>6, <1>7 DEF Draft
<1> QED
    BY <1>1, <1>2, <1>3, <1>5, <1>8 DEF SameMessage

---------------------------------------------------------------------------
(* Setters, of a copy that is being changed. *)

\* A letter, a line and lines with another value.
Amended(w, h, v) == [w EXCEPT ![h] = v]
WithLine(lines, i, h, v) == [lines EXCEPT ![i] = OnHeap(h, v)]
WithLines(m, lines) == [m EXCEPT !.message_line = lines]

\* The letter that differs in one value.
LEMMA LetterExcept ==
    ASSUME NEW w, IsLetter(w), NEW h \in LetterFields \ {"Via", "sdp"}, NEW v,
           NEW x, x = Amended(w, h, v)
    PROVE  IsLetter(x) /\ x[h] = v /\ \A g \in LetterFields : g # h => x[g] = w[g]
<1>1. DOMAIN w = LetterFields /\ h \in LetterFields
    BY DEF IsLetter, LetterFields
<1>2. DOMAIN x = LetterFields /\ x[h] = v /\ \A g \in LetterFields : g # h => x[g] = w[g]
    BY <1>1 DEF Amended
<1>3. h # "Via" /\ h # "sdp"
    OBVIOUS
<1>4. x["Via"] = w["Via"] /\ x["sdp"] = w["sdp"]
    BY <1>2, <1>3 DEF LetterFields
<1>5. IsLetter(x)
    BY <1>2, <1>4 DEF IsLetter
<1> QED
    BY <1>2, <1>5

\* A setter works on the lines, and forgets the caches.
LEMMA ChangedFacts ==
    ASSUME NEW m, NEW w, NEW start, NEW sdp, Draft(m, w, start, sdp)
    PROVE  LET c == Changed(m)
           IN  /\ Filled(m) = m
               /\ Draft(c, w, start, sdp) /\ c.status = 2
<1>1. Filled(m) = m
    BY DEF Filled, Draft
<1>2. Changed(m) = [m EXCEPT !.status = 2]
    BY <1>1 DEF Changed
<1> DEFINE c == [m EXCEPT !.status = 2]
<1>3. /\ IsMessage(c) /\ c.status = 2
      /\ c.errors = m.errors /\ c.contact = m.contact /\ c.modulus = m.modulus
      /\ c.fills = m.fills /\ c.compiles = m.compiles
      /\ c.message_line = m.message_line /\ c.via_line = m.via_line
      /\ c.sdp_line = m.sdp_line /\ c.hasSdp = m.hasSdp /\ c.hasvialines = m.hasvialines
    BY DEF Draft, IsMessage, Fields
<1> HIDE DEF c
<1>4. Says(c, w)
    BY <1>3 DEF Draft, Says
<1>5. Draft(c, w, start, sdp)
    BY <1>3, <1>4 DEF Draft
<1> QED
    BY <1>1, <1>2, <1>3, <1>5 DEF c

\* Other lines, which say another letter; Vias and payload as before.
LEMMA LinesReplaced ==
    ASSUME NEW m, NEW w, NEW start, NEW sdp, Draft(m, w, start, sdp),
           NEW lines, NEW x, NEW first,
           IsLetter(x), x["Via"] = w["Via"], x["sdp"] = w["sdp"],
           LinesSay(lines, x), None(lines, "Via"),
           first = "buffer" => lines[1].own = "buffer"
    PROVE  LET r == WithLines(m, lines)
           IN  Draft(r, x, first, sdp) /\ r.status = m.status
<1> DEFINE r == WithLines(m, lines)
<1>1. /\ IsMessage(r) /\ r.status = m.status
      /\ r.errors = m.errors /\ r.contact = m.contact /\ r.modulus = m.modulus
      /\ r.fills = m.fills /\ r.compiles = m.compiles
      /\ r.message_line = lines /\ r.via_line = m.via_line
      /\ r.sdp_line = m.sdp_line /\ r.hasSdp = m.hasSdp /\ r.hasvialines = m.hasvialines
    BY DEF Draft, IsMessage, Fields, WithLines
<1> HIDE DEF r
<1>2. Says(r, x)
    BY <1>1 DEF Draft, Says
<1>3. Draft(r, x, first, sdp)
    BY <1>1, <1>2 DEF Draft
<1> QED
    BY <1>1, <1>3 DEF r

\* One line with another value, in a message whose lines say a letter.
LEMMA LineSays ==
    ASSUME NEW lines, NEW w, LinesSay(lines, w), None(lines, "Via"), IsLetter(w),
           NEW i \in DOMAIN lines, NEW h \in LetterFields \ {"Via", "sdp"},
           lines[i].h = h, NEW v, NEW x, x = Amended(w, h, v)
    PROVE  LET r == WithLine(lines, i, h, v)
           IN  /\ LinesSay(r, x) /\ None(r, "Via")
               /\ h # "start" => r[1] = lines[1]
<1> DEFINE l == OnHeap(h, v)
           r == [lines EXCEPT ![i] = l]
<1>0. WithLine(lines, i, h, v) = r
    BY DEF WithLine
<1>1. l.h = h /\ l.v = v
    BY DEF OnHeap
<1>2. /\ IsSeq(lines) /\ Begins(lines, w["start"])
      /\ \A g \in Named : One(lines, g, w[g])
      /\ None(lines, NoHeader)
    BY DEF LinesSay
<1>3. x[h] = v /\ \A g \in LetterFields : g # h => x[g] = w[g]
    BY LetterExcept
<1> HIDE DEF l
<1>4. /\ \A g, u : g # l.h /\ One(lines, g, u) => One(r, g, u)
      /\ \A u : One(lines, l.h, u) => One(r, l.h, l.v)
      /\ \A g : None(lines, g) => None(r, g)
      /\ \A u : Begins(lines, u) /\ i # 1 => Begins(r, u)
      /\ \A u : Begins(lines, u) /\ i = 1 => Begins(r, l.v)
    BY <1>1, <1>2, ReplaceOne
<1>5. IsSeq(r) /\ \A j \in DOMAIN lines : j # i => r[j] = lines[j]
    BY <1>1, <1>2, ReplaceFacts
<1> HIDE DEF r
<1>6. (i = 1 <=> h = "start") /\ h \in Named \cup {"start"}
    BY <1>2 DEF Begins, Positions, LetterFields
<1>7. Begins(r, x["start"])
    BY <1>1, <1>2, <1>3, <1>4, <1>6 DEF LetterFields
<1>8. ASSUME NEW g \in Named
      PROVE  One(r, g, x[g])
    <2>1. CASE g = h
        BY <1>1, <1>2, <1>3, <1>4, <2>1
    <2>2. CASE g # h
        BY <1>1, <1>2, <1>3, <1>4, <2>2 DEF LetterFields
    <2> QED
        BY <2>1, <2>2
<1>9. LinesSay(r, x) /\ None(r, "Via")
    BY <1>2, <1>4, <1>5, <1>7, <1>8 DEF LinesSay
<1>10. h # "start" => r[1] = lines[1]
    BY <1>2, <1>5, <1>6 DEF Begins
<1> QED
    BY <1>0, <1>9, <1>10

\* A line of a header that the letter does not have is replaced.
LEMMA OtherLineSays ==
    ASSUME NEW lines, NEW w, LinesSay(lines, w), None(lines, "Via"),
           NEW i \in DOMAIN lines, NEW h, h \notin Named \cup {"start", "Via", NoHeader},
           lines[i].h = h, NEW v
    PROVE  LET r == WithLine(lines, i, h, v)
           IN  LinesSay(r, w) /\ None(r, "Via") /\ r[1] = lines[1]
<1> DEFINE l == OnHeap(h, v)
           r == [lines EXCEPT ![i] = l]
<1>1. WithLine(lines, i, h, v) = r
    BY DEF WithLine
<1>2. l.h = h /\ l.v = v
    BY DEF OnHeap
<1>3. /\ IsSeq(lines) /\ Begins(lines, w["start"])
      /\ \A g \in Named : One(lines, g, w[g])
      /\ None(lines, NoHeader)
    BY DEF LinesSay
<1> HIDE DEF l
<1>4. i # 1 /\ 1 \in DOMAIN lines
    BY <1>3 DEF Begins, Positions
<1>5. /\ \A g, u : g # l.h /\ One(lines, g, u) => One(r, g, u)
      /\ \A g : None(lines, g) => None(r, g)
      /\ \A u : Begins(lines, u) /\ i # 1 => Begins(r, u)
    BY <1>2, <1>3, ReplaceOne
<1>6. IsSeq(r) /\ \A j \in DOMAIN lines : j # i => r[j] = lines[j]
    BY <1>2, <1>3, ReplaceFacts
<1> HIDE DEF r
<1>7. LinesSay(r, w) /\ None(r, "Via")
    BY <1>2, <1>3, <1>4, <1>5, <1>6 DEF LinesSay
<1> QED
    BY <1>1, <1>4, <1>6, <1>7

\* A copy that a setter has changed, and what it says then.
Written(r, w, start, sdp) == Draft(r, w, start, sdp) /\ r.status = 2

\* setHeadSipRequest, setHeadSipReply: the start line is on the heap from now on, so
\* this may happen once only.
LEMMA SetFirstLineDraft ==
    ASSUME NEW m, NEW w, NEW sdp, Draft(m, w, "buffer", sdp), NEW v,
           NEW x, x = Amended(w, "start", v)
    PROVE  Written(SetFirstLine(m, v), x, "heap", sdp)
<1> DEFINE c == Changed(m)
           lines == WithLine(c.message_line, 1, "start", v)
           r == WithLines(c, lines)
<1>1. Draft(c, w, "buffer", sdp) /\ c.status = 2
    BY ChangedFacts
<1> HIDE DEF c
<1>2. /\ LinesSay(c.message_line, w) /\ None(c.message_line, "Via") /\ IsLetter(w)
      /\ c.message_line[1].own = "buffer"
    BY <1>1 DEF Draft, Says
<1>3. 1 \in DOMAIN c.message_line /\ c.message_line[1].h = "start"
    BY <1>2 DEF LinesSay, Begins, Positions
<1>10. "start" \in LetterFields \ {"Via", "sdp"}
    BY DEF LetterFields
<1>4. LinesSay(lines, x) /\ None(lines, "Via")
    BY <1>2, <1>3, <1>10, LineSays
<1>5. IsLetter(x) /\ x["Via"] = w["Via"] /\ x["sdp"] = w["sdp"]
    <2>1. IsLetter(x) /\ \A g \in LetterFields : g # "start" => x[g] = w[g]
        BY <1>2, <1>10, LetterExcept
    <2> QED
        BY <2>1 DEF LetterFields
<1>6. SetFirstLine(m, v) = r
    <2>1. SetFirstLine(m, v) = Error(r, c.message_line[1].own = "heap", "leaked line")
        BY DEF SetFirstLine, WithLines, WithLine, c
    <2>2. ~(c.message_line[1].own = "heap")
        BY <1>2
    <2> QED
        BY <2>1, <2>2 DEF Error
<1> HIDE DEF lines
<1>7. Draft(r, x, "heap", sdp) /\ r.status = c.status
    <2>1. ASSUME NEW first, first # "buffer"
          PROVE  Draft(r, x, first, sdp) /\ r.status = c.status
        BY <1>1, <1>4, <1>5, <2>1, LinesReplaced
    <2> QED
        BY <2>1
<1> QED
    BY <1>1, <1>6, <1>7 DEF Written

\* setGenericHeader, for a header of the letter.
LEMMA SetNamedDraft ==
    ASSUME NEW m, NEW w, NEW start, NEW sdp, Draft(m, w, start, sdp),
           NEW h \in Named, NEW v, NEW x, x = Amended(w, h, v)
    PROVE  Written(SetGenericHeader(m, h, v), x, start, sdp)
<1> DEFINE c == Changed(m)
           i == FirstAt(c.message_line, 2, h)
           lines == WithLine(c.message_line, i, h, v)
           r == WithLines(c, lines)
<1>1. Draft(c, w, start, sdp) /\ c.status = 2
    BY ChangedFacts
<1> HIDE DEF c
<1>2. /\ LinesSay(c.message_line, w) /\ None(c.message_line, "Via") /\ IsLetter(w)
      /\ start = "buffer" => c.message_line[1].own = "buffer"
    BY <1>1 DEF Draft, Says
<1>3. i \in DOMAIN c.message_line /\ c.message_line[i].h = h /\ i # 0
    BY <1>2, FoundAt
<1>4. SetGenericHeader(m, h, v) = r
    BY <1>3 DEF SetGenericHeader, WithLines, WithLine, c
<1> HIDE DEF i
<1>10. h \in LetterFields \ {"Via", "sdp"}
    BY DEF LetterFields, Named
<1>5. LinesSay(lines, x) /\ None(lines, "Via") /\ lines[1] = c.message_line[1]
    <2>1. h # "start"
        BY DEF Named
    <2> QED
        BY <1>2, <1>3, <1>10, <2>1, LineSays
<1>6. IsLetter(x) /\ x["Via"] = w["Via"] /\ x["sdp"] = w["sdp"]
    <2>1. IsLetter(x) /\ \A g \in LetterFields : g # h => x[g] = w[g]
        BY <1>2, <1>10, LetterExcept
    <2> QED
        BY <2>1 DEF LetterFields, Named
<1> HIDE DEF lines
<1>7. Draft(r, x, start, sdp) /\ r.status = c.status
    BY <1>1, <1>2, <1>5, <1>6, LinesReplaced, ZenonT(40)
<1> QED
    BY <1>1, <1>4, <1>7 DEF Written

\* Any other header may be there or not; a letter does not say.
LEMMA SetUnnamedDraft ==
    ASSUME NEW m, NEW w, NEW start, NEW sdp, Draft(m, w, start, sdp),
           NEW h, h \notin Named \cup {"start", "Via", NoHeader}, NEW v
    PROVE  Written(SetGenericHeader(m, h, v), w, start, sdp)
<1> DEFINE c == Changed(m)
           i == FirstAt(c.message_line, 2, h)
           lines == WithLine(c.message_line, i, h, v)
           r == WithLines(c, lines)
<1>1. Draft(c, w, start, sdp) /\ c.status = 2
    BY ChangedFacts
<1>2. SetGenericHeader(m, h, v) = IF i = 0 THEN c ELSE r
    BY DEF SetGenericHeader, WithLines, WithLine
<1> HIDE DEF c
<1>3. CASE i = 0
    BY <1>1, <1>2, <1>3 DEF Written
<1>4. CASE i # 0
    <2>1. /\ LinesSay(c.message_line, w) /\ None(c.message_line, "Via") /\ IsLetter(w)
          /\ start = "buffer" => c.message_line[1].own = "buffer"
        BY <1>1 DEF Draft, Says
    <2>2. /\ IsSeq(c.message_line) /\ Begins(c.message_line, w["start"])
          /\ \A g \in Named : One(c.message_line, g, w[g])
          /\ None(c.message_line, NoHeader)
        BY <2>1 DEF LinesSay
    <2>3. DOMAIN c.message_line = 1..Len(c.message_line) /\ Len(c.message_line) \in Nat
        BY <2>2, SeqFacts
    <2>4. i \in DOMAIN c.message_line /\ c.message_line[i].h = h /\ i # 1
        <3>1. i = 0 \/ (i \in 2..Len(c.message_line) /\ c.message_line[i].h = h)
            BY <2>2, FirstAtFacts
        <3> HIDE DEF i
        <3> QED
            BY <1>4, <2>3, <3>1
    <2> HIDE DEF i
    <2>5. LinesSay(lines, w) /\ None(lines, "Via") /\ lines[1] = c.message_line[1]
        BY <2>1, <2>4, OtherLineSays
    <2> HIDE DEF lines
    <2>6. Draft(r, w, start, sdp) /\ r.status = c.status
        BY <1>1, <2>1, <2>5, LinesReplaced
    <2> QED
        BY <1>1, <1>2, <1>4, <2>6 DEF Written
<1> QED
    BY <1>3, <1>4

\* setProperty: one property of a header of the letter.
LEMMA SetPropertyDraft ==
    ASSUME NEW m, NEW w, NEW start, NEW sdp, Draft(m, w, start, sdp),
           NEW h \in Named, NEW property, NEW value,
           NEW x, x = Amended(w, h, [w[h] EXCEPT ![property] = value])
    PROVE  Written(SetProperty(m, h, property, value), x, start, sdp)
<1> DEFINE c == Changed(m)
           i == LastAt(c.message_line, h)
           v == [w[h] EXCEPT ![property] = value]
           lines == WithLine(c.message_line, i, h, v)
           r == WithLines(c, lines)
<1>1. Draft(c, w, start, sdp) /\ c.status = 2
    BY ChangedFacts
<1> HIDE DEF c
<1>2. /\ LinesSay(c.message_line, w) /\ None(c.message_line, "Via") /\ IsLetter(w)
      /\ start = "buffer" => c.message_line[1].own = "buffer"
    BY <1>1 DEF Draft, Says
<1>3. i \in DOMAIN c.message_line /\ c.message_line[i].h = h /\ i # 0
      /\ c.message_line[i].v = w[h]
    BY <1>2, FoundAt
<1>4. SetProperty(m, h, property, value) = r
    <2>1. h # "Via"
        BY DEF Named
    <2> QED
        BY <1>3, <2>1 DEF SetProperty, WithLines, WithLine, c
<1> HIDE DEF i, v
<1>5. h \in LetterFields \ {"Via", "sdp"} /\ h # "start"
    BY DEF LetterFields, Named
<1>6. x = Amended(w, h, v)
    BY DEF v
<1>7. LinesSay(lines, x) /\ None(lines, "Via") /\ lines[1] = c.message_line[1]
    BY <1>2, <1>3, <1>5, <1>6, LineSays
<1>8. IsLetter(x) /\ x["Via"] = w["Via"] /\ x["sdp"] = w["sdp"]
    <2>1. IsLetter(x) /\ \A g \in LetterFields : g # h => x[g] = w[g]
        BY <1>2, <1>5, <1>6, LetterExcept
    <2> QED
        BY <2>1 DEF LetterFields, Named
<1> HIDE DEF lines
<1>9. Draft(r, x, start, sdp) /\ r.status = c.status
    BY <1>1, <1>2, <1>7, <1>8, LinesReplaced, ZenonT(60)
<1> QED
    BY <1>1, <1>4, <1>9 DEF Written

\* A line of a header that the letter does not have is taken out.
LEMMA DropSays ==
    ASSUME NEW lines, NEW w, LinesSay(lines, w), None(lines, "Via"),
           NEW i \in DOMAIN lines, NEW h, h \notin Named \cup {"start", "Via", NoHeader},
           lines[i].h = h
    PROVE  LET r == LinesAt(lines, DOMAIN lines \ {i})
           IN  LinesSay(r, w) /\ None(r, "Via") /\ r[1] = lines[1]
<1> DEFINE P == DOMAIN lines \ {i}
           r == LinesAt(lines, P)
<1>1. /\ IsSeq(lines) /\ Begins(lines, w["start"])
      /\ \A g \in Named : One(lines, g, w[g])
      /\ None(lines, NoHeader)
    BY DEF LinesSay
<1>2. P \subseteq DOMAIN lines /\ \A j \in DOMAIN lines : lines[j].h # h => j \in P
    OBVIOUS
<1>3. 1 \in P
    BY <1>1, <1>2 DEF Begins, Positions
<1> HIDE DEF P
<1>4. Begins(r, w["start"]) /\ r[1] = lines[1]
    BY <1>1, <1>2, <1>3, CutBegins
<1>5. ASSUME NEW g \in Named
      PROVE  One(r, g, w[g])
    <2>1. \A j \in DOMAIN lines : lines[j].h = g => j \in P
        BY <1>2
    <2> QED
        BY <1>1, <1>2, <2>1, CutOne
<1>6. None(r, "Via") /\ None(r, NoHeader)
    <2>1. \A j \in P : lines[j].h # "Via" /\ lines[j].h # NoHeader
        BY <1>1, <1>2 DEF None, Positions
    <2> QED
        BY <1>1, <1>2, <2>1, CutNone
<1>7. IsSeq(r)
    <2>1. DOMAIN lines = 1..Len(lines) /\ Len(lines) \in Nat
        BY <1>1, SeqFacts
    <2>2. IsCut(r, lines, P)
        BY <1>2, <2>1, LinesAtFacts
    <2> QED
        BY <2>2 DEF IsCut
<1>8. LinesSay(r, w)
    BY <1>1, <1>4, <1>5, <1>6, <1>7 DEF LinesSay
<1> QED
    BY <1>4, <1>6, <1>8 DEF P

\* dropHeader, for a header that may be there or not: it says the same letter.
LEMMA DropHeaderDraft ==
    ASSUME NEW m, NEW w, NEW start, NEW sdp, Draft(m, w, start, sdp),
           NEW h, h \notin Named \cup {"start", "Via", NoHeader}
    PROVE  LET r == DropHeader(m, h)
           IN  /\ Draft(r, w, start, sdp)
               /\ m.status = 2 => r.status = 2
<1> DEFINE i == FirstAt(m.message_line, 1, h)
           lines == LinesAt(m.message_line, DOMAIN m.message_line \ {i})
           s == WithLines(m, lines)
           r == [s EXCEPT !.status = 2]
<1>1. Filled(m) = m
    BY ChangedFacts
<1>2. DropHeader(m, h) = IF i = 0 THEN m ELSE r
    <2>1. IsMessage(m)
        BY DEF Draft
    <2>2. r = [m EXCEPT !.message_line = lines, !.status = 2]
        BY DEF WithLines
    <2> QED
        BY <1>1, <2>2 DEF DropHeader
<1>3. CASE i = 0
    BY <1>2, <1>3
<1>4. CASE i # 0
    <2>1. /\ LinesSay(m.message_line, w) /\ None(m.message_line, "Via") /\ IsLetter(w)
          /\ start = "buffer" => m.message_line[1].own = "buffer"
        BY DEF Draft, Says
    <2>2. IsSeq(m.message_line)
        BY <2>1 DEF LinesSay
    <2>3. i \in DOMAIN m.message_line /\ m.message_line[i].h = h
        <3>1. i = 0 \/ (i \in 1..Len(m.message_line) /\ m.message_line[i].h = h)
            BY <2>2, FirstAtFacts
        <3>2. DOMAIN m.message_line = 1..Len(m.message_line)
            BY <2>2, SeqFacts
        <3> HIDE DEF i
        <3> QED
            BY <1>4, <3>1, <3>2
    <2> HIDE DEF i
    <2>4. LinesSay(lines, w) /\ None(lines, "Via") /\ lines[1] = m.message_line[1]
        BY <2>1, <2>3, DropSays
    <2> HIDE DEF lines
    <2>5. Draft(s, w, start, sdp) /\ s.status = m.status
        BY <2>1, <2>4, LinesReplaced
    <2> HIDE DEF s
    <2>6. Draft(r, w, start, sdp) /\ r.status = 2
        <3>1. Changed(s) = r
            BY <2>5, ChangedFacts DEF Changed
        <3> QED
            BY <2>5, <3>1, ChangedFacts
    <2> QED
        BY <1>2, <1>4, <2>5, <2>6
<1> QED
    BY <1>3, <1>4

\* Lines of one header are a stack.
LEMMA LinesOfIntro ==
    ASSUME NEW h, NEW lines, IsSeq(lines), \A i \in DOMAIN lines : lines[i] = Line(h, lines[i].v)
    PROVE  LinesOf(h, lines)
<1> DEFINE S == {Line(h, lines[i].v) : i \in DOMAIN lines}
<1>1. DOMAIN lines = 1..Len(lines) /\ Len(lines) \in Nat
      /\ lines = [k \in 1..Len(lines) |-> lines[k]]
    BY SeqFacts
<1>2. \A i \in 1..Len(lines) : lines[i] \in S
    BY <1>1
<1> HIDE DEF S
<1>3. lines \in [1..Len(lines) -> S]
    BY <1>1, <1>2
<1>4. lines \in Seq(S)
    BY <1>1, <1>3, SeqDef
<1> QED
    BY <1>4 DEF LinesOf, S

\* Tail takes the first element away.
LEMMA TailFacts ==
    ASSUME NEW s, IsSeq(s), s # <<>>
    PROVE  /\ IsSeq(Tail(s)) /\ Len(Tail(s)) = Len(s) - 1
           /\ \A i \in 1..(Len(s) - 1) : Tail(s)[i] = s[i + 1]
<1>1. s \in Seq(Range(s))
    BY DEF IsSeq
<1>2. /\ Tail(s) \in Seq(Range(s))
      /\ Len(Tail(s)) = Len(s) - 1
      /\ \A i \in 1..Len(Tail(s)) : Tail(s)[i] = s[i + 1]
    BY <1>1, HeadTailProperties
<1>3. IsSeq(Tail(s))
    BY <1>2, SeqOfRange DEF IsSeq
<1> QED
    BY <1>2, <1>3

\* A sequence with one element before it.
Before(l, s) == <<l>> \o s

\* One element is put before a sequence.
LEMMA BeforeFacts ==
    ASSUME NEW l, NEW s, IsSeq(s)
    PROVE  /\ IsSeq(Before(l, s)) /\ Len(Before(l, s)) = 1 + Len(s) /\ Before(l, s) # <<>>
           /\ Before(l, s)[1] = l
           /\ \A i \in 1..Len(s) : Before(l, s)[1 + i] = s[i]
<1> DEFINE a == <<l>>
<1>1. IsSeq(a) /\ Len(a) = 1 /\ a[1] = l
    BY OneLine
<1>7. IsSeq(a)
    BY <1>1
<1> HIDE DEF a
<1>2. /\ IsSeq(a \o s) /\ Len(a \o s) = Len(a) + Len(s)
      /\ \A i \in 1..Len(a) : (a \o s)[i] = a[i]
      /\ \A i \in 1..Len(s) : (a \o s)[Len(a) + i] = s[i]
    BY <1>7, ConcatFacts
<1>3. /\ Len(a \o s) = 1 + Len(s)
      /\ \A i \in 1..Len(s) : (a \o s)[1 + i] = s[i]
    BY <1>1, <1>2
<1>4. (a \o s)[1] = l
    BY <1>1, <1>2
<1>5. a \o s # <<>>
    <2>1. Len(s) \in Nat /\ 1 + Len(s) # 0
        BY SeqFacts
    <2> QED
        BY <1>2, <1>3, <2>1, EmptySeq DEF IsSeq
<1>6. Before(l, s) = a \o s
    BY DEF Before, a
<1> QED
    BY <1>2, <1>3, <1>4, <1>5, <1>6

\* The stack of Vias with another one on top.
OnTop(via, stack) == <<Line("Via", via)>> \o Tail(stack)

\* It is a stack, with that Via first.
LEMMA OnTopFacts ==
    ASSUME NEW stack, LinesOf("Via", stack), stack # <<>>, NEW via
    PROVE  /\ LinesOf("Via", OnTop(via, stack)) /\ OnTop(via, stack) # <<>>
           /\ OnTop(via, stack)[1] = Line("Via", via)
<1> DEFINE t == Tail(stack)
           s == OnTop(via, stack)
<1>1. /\ IsSeq(stack)
      /\ \A i \in DOMAIN stack : stack[i] = Line("Via", stack[i].v)
      /\ DOMAIN stack = 1..Len(stack) /\ Len(stack) \in Nat
    BY LinesOfFacts, SeqFacts
<1>2. IsSeq(t) /\ Len(t) = Len(stack) - 1 /\ \A i \in 1..(Len(stack) - 1) : t[i] = stack[i + 1]
    BY <1>1, TailFacts
<1>3. \A i \in 1..Len(t) : t[i] = Line("Via", t[i].v)
    BY <1>1, <1>2
<1>9. s = Before(Line("Via", via), t)
    BY DEF OnTop, Before
<1> HIDE DEF t, s
<1>4. /\ IsSeq(s) /\ Len(s) = 1 + Len(t) /\ s # <<>> /\ s[1] = Line("Via", via)
      /\ \A i \in 1..Len(t) : s[1 + i] = t[i]
    BY <1>2, <1>9, BeforeFacts
<1>5. DOMAIN s = 1..(1 + Len(t)) /\ Len(t) \in Nat
    BY <1>2, <1>4, SeqFacts
<1>6. Line("Via", via) = Line("Via", Line("Via", via).v)
    BY DEF Line
<1>7. ASSUME NEW i \in DOMAIN s
      PROVE  s[i] = Line("Via", s[i].v)
    <2>1. CASE i = 1
        BY <1>4, <1>6, <2>1
    <2>2. CASE i # 1
        <3>1. i - 1 \in 1..Len(t) /\ 1 + (i - 1) = i
            BY <1>5, <2>2
        <3> QED
            BY <1>3, <1>4, <3>1
    <2> QED
        BY <2>1, <2>2
<1>8. LinesOf("Via", s)
    BY <1>4, <1>7, LinesOfIntro
<1> QED
    BY <1>4, <1>8 DEF s

\* The Via on top is popped and another one is pushed.
PushedVia(m, via) == PushNewVia(PopVia(m), via)

\* popVia and pushNewVia: the stack of the letter has another Via on top.
LEMMA ViaDraft ==
    ASSUME NEW m, NEW w, NEW start, NEW sdp, Draft(m, w, start, sdp), NEW via,
           NEW x, x = Amended(w, "Via", OnTop(via, w["Via"]))
    PROVE  Written(PushedVia(m, via), x, start, sdp)
<1> DEFINE c == Changed(m)
           q == [c EXCEPT !.via_line = Tail(@)]
           l == OnHeap("Via", via)
           lines == <<l>> \o Tail(c.via_line)
           r == [c EXCEPT !.via_line = lines]
<1>1. Draft(c, w, start, sdp) /\ c.status = 2
    BY ChangedFacts
<1> HIDE DEF c
<1>2. /\ IsMessage(c) /\ Says(c, w) /\ IsLetter(w) /\ c.hasvialines = TRUE
      /\ IsSeq(c.via_line) /\ AsText(c.via_line) = w["Via"]
      /\ LinesOf("Via", w["Via"]) /\ w["Via"] # <<>>
    BY <1>1 DEF Draft, Says, IsLetter
<1>3. c.via_line # <<>>
    BY <1>2, GetterFacts
<1>4. PopVia(m) = q
    <2>1. PopVia(m) = CASE ~c.hasvialines -> c
              [] c.hasvialines /\ c.via_line = <<>> ->
                     Error(c, TRUE, "front of an empty vector")
              [] OTHER -> q
        BY DEF PopVia, c
    <2> QED
        BY <1>2, <1>3, <2>1
<1>5. PushedVia(m, via) = r
    <2>1. q.status = 2 /\ q.via_line = Tail(c.via_line)
        BY <1>1, <1>2 DEF IsMessage, Fields
    <2>2. Changed(q) = q
        <3>1. Filled(q) = q
            BY <2>1 DEF Filled
        <3>2. [q EXCEPT !.status = 2] = q
            BY <1>1, <1>2 DEF IsMessage, Fields
        <3> HIDE DEF q
        <3> QED
            BY <3>1, <3>2 DEF Changed
    <2>3. PushedVia(m, via) = [Changed(q) EXCEPT !.via_line = <<l>> \o @]
        BY <1>4 DEF PushedVia, PushNewVia
    <2> QED
        BY <1>2, <2>1, <2>2, <2>3 DEF IsMessage, Fields
<1> HIDE DEF q, l
<1>6. IsSeq(lines) /\ AsText(lines) = OnTop(via, w["Via"])
    <2> DEFINE t == Tail(c.via_line)
               u == Tail(w["Via"])
    <2>1. /\ Len(c.via_line) \in Nat /\ Len(w["Via"]) = Len(c.via_line)
          /\ IsSeq(w["Via"])
          /\ \A i \in 1..Len(c.via_line) :
                 w["Via"][i] = Line(c.via_line[i].h, c.via_line[i].v)
        BY <1>2, AsTextFacts, SeqFacts
    <2>2. /\ IsSeq(t) /\ Len(t) = Len(c.via_line) - 1
          /\ \A i \in 1..(Len(c.via_line) - 1) : t[i] = c.via_line[i + 1]
        BY <1>2, <1>3, TailFacts
    <2>3. /\ IsSeq(u) /\ Len(u) = Len(w["Via"]) - 1
          /\ \A i \in 1..(Len(w["Via"]) - 1) : u[i] = w["Via"][i + 1]
        BY <1>2, <2>1, TailFacts
    <2>4. Len(t) = Len(u) /\ \A i \in 1..Len(t) : u[i] = Line(t[i].h, t[i].v)
        BY <2>1, <2>2, <2>3
    <2> HIDE DEF t, u
    <2>5. /\ IsSeq(Before(l, t)) /\ Len(Before(l, t)) = 1 + Len(t)
          /\ Before(l, t)[1] = l
          /\ \A i \in 1..Len(t) : Before(l, t)[1 + i] = t[i]
        BY <2>2, BeforeFacts
    <2> DEFINE k == Line("Via", via)
    <2>6. l.h = "Via" /\ l.v = via
        BY DEF l, OnHeap
    <2> HIDE DEF k
    <2>7. /\ IsSeq(Before(k, u)) /\ Len(Before(k, u)) = 1 + Len(u)
          /\ Before(k, u)[1] = k
          /\ \A i \in 1..Len(u) : Before(k, u)[1 + i] = u[i]
        BY <2>3, BeforeFacts
    <2>8. /\ IsSeq(AsText(Before(l, t))) /\ Len(AsText(Before(l, t))) = Len(Before(l, t))
          /\ \A i \in 1..Len(Before(l, t)) :
                 AsText(Before(l, t))[i] = Line(Before(l, t)[i].h, Before(l, t)[i].v)
        BY <2>5, AsTextFacts, SeqFacts
    <2>9. Len(t) \in Nat
        BY <2>2, SeqFacts
    <2> DEFINE a == AsText(Before(l, t))
               b == Before(k, u)
    <2>10. Len(a) = 1 + Len(t) /\ Len(b) = 1 + Len(t) /\ IsSeq(a) /\ IsSeq(b)
        BY <2>4, <2>5, <2>7, <2>8
    <2>11. a[1] = b[1]
        BY <2>5, <2>6, <2>7, <2>8, <2>9 DEF k
    <2>12. \A i \in 1..Len(t) : a[1 + i] = b[1 + i]
        <3>1. \A i \in 1..Len(t) : 1 + i \in 1..Len(Before(l, t))
            BY <2>5, <2>9
        <3> QED
            BY <2>4, <2>5, <2>7, <2>8, <3>1
    <2> HIDE DEF a, b
    <2>13. \A i \in 1..Len(a) : a[i] = b[i]
        <3>1. SUFFICES ASSUME NEW i \in 1..Len(a) PROVE a[i] = b[i]
            OBVIOUS
        <3>2. CASE i = 1
            BY <2>11, <3>2
        <3>3. CASE i # 1
            <4>1. i - 1 \in 1..Len(t) /\ 1 + (i - 1) = i
                BY <2>9, <2>10, <3>3
            <4> QED
                BY <2>12, <4>1
        <3> QED
            BY <3>2, <3>3
    <2>14. a = b
        BY <2>10, <2>13, SameSeq
    <2> QED
        BY <2>5, <2>14 DEF t, u, a, b, k, OnTop, Before
<1> HIDE DEF lines
<1>7. /\ IsLetter(x) /\ x["Via"] = OnTop(via, w["Via"])
      /\ \A g \in LetterFields : g # "Via" => x[g] = w[g]
    <2>1. DOMAIN w = LetterFields /\ "Via" \in LetterFields
        BY <1>2 DEF IsLetter, LetterFields
    <2>2. DOMAIN x = LetterFields /\ x["Via"] = OnTop(via, w["Via"])
          /\ \A g \in LetterFields : g # "Via" => x[g] = w[g]
        BY <2>1 DEF Amended
    <2>3. x["sdp"] = w["sdp"]
        BY <2>2 DEF LetterFields
    <2> QED
        BY <1>2, <2>2, <2>3, OnTopFacts DEF IsLetter
<1>8. /\ IsMessage(r) /\ r.status = c.status
      /\ r.errors = c.errors /\ r.contact = c.contact /\ r.modulus = c.modulus
      /\ r.fills = c.fills /\ r.compiles = c.compiles
      /\ r.message_line = c.message_line /\ r.via_line = lines
      /\ r.sdp_line = c.sdp_line /\ r.hasSdp = c.hasSdp /\ r.hasvialines = c.hasvialines
    BY <1>2 DEF IsMessage, Fields
<1> HIDE DEF r
<1>9. /\ x["start"] = w["start"] /\ x["sdp"] = w["sdp"]
      /\ \A h \in Named : x[h] = w[h]
    BY <1>7 DEF LetterFields, Named
<1>10. LinesSay(r.message_line, x)
    BY <1>2, <1>8, <1>9 DEF Says, LinesSay
<1>11. Says(r, x)
    BY <1>2, <1>6, <1>7, <1>8, <1>9, <1>10 DEF Says
<1>12. Draft(r, x, start, sdp)
    BY <1>1, <1>8, <1>11 DEF Draft
<1> QED
    BY <1>1, <1>5, <1>8, <1>12 DEF Written

\* What a text is composed of: lines, the Vias, lines, the payload.
LEMMA ComposedText ==
    ASSUME NEW w, IsLetter(w), NEW a, NEW b, NEW c, IsSeq(a), IsSeq(c), b = w["Via"],
           Begins(a, w["start"]), None(c, "start"),
           \A h \in Named : \/ One(a, h, w[h]) /\ None(c, h)
                            \/ None(a, h) /\ One(c, h, w[h]),
           None(a, NoHeader), None(c, NoHeader), None(a, "Via"), None(c, "Via"),
           None(a, "Content-Length"),
           One(c, "Content-Length", [length |-> Len(w["sdp"])]),
           NEW t, t = ((a \o b) \o c) \o PayloadOf(w["sdp"])
    PROVE  TextSays(t, w)
<1> DEFINE ab == a \o b
           head == ab \o c
<1>1. /\ LinesOf("Via", b) /\ LinesOf("sdp", w["sdp"])
      /\ IsSeq(b) /\ \A i \in DOMAIN b : b[i].h = "Via"
    BY LinesOfFacts DEF IsLetter
<1>2. \A h : h # "Via" => None(b, h)
    BY <1>1 DEF None, Positions
<1>3. \A h \in Named \cup {"start", NoHeader, "Content-Length"} : None(b, h)
    BY <1>2, NoHeaderFacts DEF Named
<1>4. IsSeq(ab) /\ IsSeq(head)
    BY <1>1, ConcatFacts
<1>5. Begins(ab, w["start"])
    BY <1>1, <1>3, ConcatBegins
<1>6. Begins(head, w["start"])
    <2> HIDE DEF ab
    <2> QED
        BY <1>4, <1>5, ConcatBegins
<1>7. \A h \in Named : \/ One(ab, h, w[h]) /\ None(c, h)
                       \/ None(ab, h) /\ One(c, h, w[h])
    BY <1>1, <1>3, ConcatOne
<1>8. None(ab, NoHeader) /\ None(ab, "Content-Length")
    BY <1>1, <1>3, ConcatOne
<1>9. \A h \in Named : One(head, h, w[h])
    <2> HIDE DEF ab
    <2> QED
        BY <1>4, <1>7, ConcatOne
<1>10. None(head, NoHeader)
    <2> HIDE DEF ab
    <2> QED
        BY <1>4, <1>8, ConcatOne
<1>11. One(head, "Content-Length", [length |-> Len(w["sdp"])])
    <2> HIDE DEF ab
    <2>1. ASSUME NEW v, One(c, "Content-Length", v)
          PROVE  One(head, "Content-Length", v)
        BY <1>4, <1>8, <2>1, ConcatOne
    <2> QED
        BY <2>1
<1>12. With(head, {"Via"}) = b
    <2> DEFINE m == Len(a) + 1
               n == Len(a) + Len(b)
    <2>1. /\ DOMAIN a = 1..Len(a) /\ Len(a) \in Nat
          /\ DOMAIN b = 1..Len(b) /\ Len(b) \in Nat
          /\ DOMAIN ab = 1..n
          /\ \A i \in DOMAIN b : ab[Len(a) + i] = b[i]
          /\ Positions(ab, "Via") = Positions(a, "Via") \cup {Len(a) + i : i \in Positions(b, "Via")}
        BY <1>1, ConcatPositions
    <2>2. Positions(b, "Via") = DOMAIN b /\ Positions(a, "Via") = {}
        BY <1>1 DEF Positions, None
    <2>3. {Len(a) + i : i \in 1..Len(b)} = m..n
        <3>1. ASSUME NEW k \in m..n PROVE k - Len(a) \in 1..Len(b) /\ k = Len(a) + (k - Len(a))
            BY <2>1
        <3>2. \A i \in 1..Len(b) : Len(a) + i \in m..n
            BY <2>1
        <3> QED
            BY <3>1, <3>2
    <2>4. Positions(ab, "Via") = m..n
        BY <2>1, <2>2, <2>3
    <2> HIDE DEF ab
    <2>5. /\ DOMAIN ab = 1..Len(ab) /\ Len(ab) \in Nat
          /\ DOMAIN head = 1..(Len(ab) + Len(c))
          /\ \A i \in DOMAIN ab : head[i] = ab[i]
          /\ Positions(head, "Via") = Positions(ab, "Via") \cup {Len(ab) + i : i \in Positions(c, "Via")}
        BY <1>4, ConcatPositions
    <2>6. Positions(head, "Via") = m..n
        BY <2>4, <2>5 DEF None
    <2>7. With(head, {"Via"}) = LinesAt(head, m..n)
        <3>1. \A x : x \in {"Via"} <=> x = "Via"
            OBVIOUS
        <3> QED
            BY <2>6, <3>1 DEF With, Positions
    <2> HIDE DEF head
    <2>8. /\ Len(LinesAt(head, m..n)) = Len(b) /\ IsSeq(LinesAt(head, m..n))
          /\ \A k \in 1..Len(b) : LinesAt(head, m..n)[k] = head[Len(a) + k]
        <3>1. ASSUME NEW p, NEW q, p = m, q = n
              PROVE  /\ Len(LinesAt(head, p..q)) = Len(b) /\ IsSeq(LinesAt(head, p..q))
                     /\ \A k \in 1..Len(b) : LinesAt(head, p..q)[k] = head[Len(a) + k]
            <4>1. /\ p \in Nat \ {0} /\ q \in Nat /\ p <= q + 1 /\ q - p + 1 = Len(b)
                  /\ p..q \subseteq 1..q /\ \A k \in 1..Len(b) : p + k - 1 = Len(a) + k
                BY <2>1, <3>1
            <4>2. /\ Len(LinesAt(head, p..q)) = q - p + 1
                  /\ \A k \in 1..(q - p + 1) : LinesAt(head, p..q)[k] = head[p + k - 1]
                BY <4>1, LinesAtInterval
            <4>3. IsCut(LinesAt(head, p..q), head, p..q)
                BY <4>1, LinesAtFacts
            <4> QED
                BY <4>1, <4>2, <4>3 DEF IsCut
        <3> QED
            BY <3>1
    <2>9. \A k \in 1..Len(b) : head[Len(a) + k] = b[k]
        <3>1. \A k \in 1..Len(b) : Len(a) + k \in DOMAIN ab
            BY <2>1
        <3> QED
            BY <2>1, <2>5, <3>1
    <2> DEFINE l == LinesAt(head, m..n)
    <2>10. IsSeq(l) /\ IsSeq(b) /\ Len(l) = Len(b) /\ \A i \in 1..Len(l) : l[i] = b[i]
        BY <1>1, <2>8, <2>9
    <2> HIDE DEF l
    <2>11. l = b
        BY <2>10, SameSeq
    <2> QED
        BY <2>7, <2>11 DEF l
<1> HIDE DEF head
<1>13. HeadOf(t) = head /\ t = head \o PayloadOf(w["sdp"])
    <2>1. t = head \o PayloadOf(w["sdp"])
        BY DEF head
    <2> QED
        BY <1>1, <1>4, <1>10, <2>1, SplitText
<1> QED
    BY <1>4, <1>6, <1>9, <1>10, <1>11, <1>12, <1>13 DEF TextSays, LinesSay

\* There may be no payload.
LEMMA EmptyFacts ==
    IsSeq(<<>>) /\ LinesOf("sdp", <<>>) /\ Len(<<>>) = 0
<1>1. IsSeq(<<>>) /\ Len(<<>>) = 0
    BY EmptySeq DEF IsSeq
<1>2. DOMAIN <<>> = {}
    OBVIOUS
<1> QED
    BY <1>1, <1>2, LinesOfIntro

\* A letter with another payload.
LEMMA PayloadExcept ==
    ASSUME NEW w, IsLetter(w), NEW body, LinesOf("sdp", body),
           NEW x, x = Amended(w, "sdp", body)
    PROVE  /\ IsLetter(x) /\ x["sdp"] = body
           /\ \A g \in LetterFields : g # "sdp" => x[g] = w[g]
<1>1. DOMAIN w = LetterFields /\ "sdp" \in LetterFields
    BY DEF IsLetter, LetterFields
<1>2. DOMAIN x = LetterFields /\ x["sdp"] = body
      /\ \A g \in LetterFields : g # "sdp" => x[g] = w[g]
    BY <1>1 DEF Amended
<1>3. x["Via"] = w["Via"]
    BY <1>2 DEF LetterFields
<1>4. IsLetter(x)
    BY <1>2, <1>3 DEF IsLetter
<1> QED
    BY <1>2, <1>4

\* Another payload, in a message whose other lines stay.
LEMMA PayloadReplaced ==
    ASSUME NEW m, NEW w, NEW start, NEW sdp, Draft(m, w, start, sdp),
           NEW body, LinesOf("sdp", body), NEW x, x = Amended(w, "sdp", body),
           NEW r, IsMessage(r),
           r.errors = m.errors, r.contact = m.contact, r.modulus = m.modulus,
           r.fills = m.fills, r.compiles = m.compiles, r.status \in {1, 2},
           r.message_line = m.message_line, r.via_line = m.via_line,
           r.hasvialines = m.hasvialines,
           IsSeq(r.sdp_line), Dangling(r.sdp_line) = {},
           NEW new, r.hasSdp = (new # "purged"), new # "heap" => Owned(r.sdp_line) = {},
           IF r.hasSdp THEN AsText(r.sdp_line) = PayloadOf(body) ELSE body = <<>>
    PROVE  Draft(r, x, start, new)
<1>1. IsLetter(w)
    BY DEF Draft, Says
<1>2. /\ IsLetter(x) /\ x["sdp"] = body
      /\ \A g \in LetterFields : g # "sdp" => x[g] = w[g]
    BY <1>1, PayloadExcept
<1>3. /\ x["start"] = w["start"] /\ x["Via"] = w["Via"]
      /\ \A g \in Named : x[g] = w[g]
    BY <1>2 DEF LetterFields, Named
<1>4. LinesSay(r.message_line, x)
    BY <1>3 DEF Draft, Says, LinesSay
<1>5. Says(r, x)
    BY <1>2, <1>3, <1>4 DEF Draft, Says
<1> QED
    BY <1>5 DEF Draft

\* purgeSDP: no payload any more, and the empty line is freed; once only.
LEMMA PurgeDraft ==
    ASSUME NEW m, NEW w, NEW start, Draft(m, w, start, "buffer"),
           NEW x, x = Amended(w, "sdp", <<>>)
    PROVE  Written(PurgeSDP(m), x, start, "purged")
<1> DEFINE c == Changed(m)
           lines == DeleteOwned(c.sdp_line)
           r == [c EXCEPT !.hasSdp = FALSE, !.sdp_line = lines]
<1>1. Draft(c, w, start, "buffer") /\ c.status = 2
    BY ChangedFacts
<1> HIDE DEF c
<1>2. /\ IsMessage(c) /\ IsSeq(c.sdp_line)
      /\ Owned(c.sdp_line) = {} /\ Dangling(c.sdp_line) = {}
    BY <1>1 DEF Draft, Says
<1>3. PurgeSDP(m) = r
    <2>1. PurgeSDP(m) = Error(r, Dangling(c.sdp_line) # {}, "double deletion")
        BY <1>2 DEF PurgeSDP, c, IsMessage, Fields
    <2> QED
        BY <1>2, <2>1 DEF Error
<1>4. DOMAIN c.sdp_line = 1..Len(c.sdp_line) /\ Len(c.sdp_line) \in Nat
      /\ c.sdp_line = [k \in 1..Len(c.sdp_line) |-> c.sdp_line[k]]
    BY <1>2, SeqFacts
<1>5. lines = c.sdp_line
    <2>1. \A i \in DOMAIN c.sdp_line : ~(c.sdp_line[i].own = "heap")
        BY <1>2 DEF Owned
    <2> QED
        BY <1>4, <2>1 DEF DeleteOwned
<1> HIDE DEF lines
<1>6. /\ IsMessage(r) /\ r.status = c.status
      /\ r.errors = c.errors /\ r.contact = c.contact /\ r.modulus = c.modulus
      /\ r.fills = c.fills /\ r.compiles = c.compiles
      /\ r.message_line = c.message_line /\ r.via_line = c.via_line
      /\ r.sdp_line = lines /\ r.hasSdp = FALSE /\ r.hasvialines = c.hasvialines
    BY <1>2 DEF IsMessage, Fields
<1> HIDE DEF r
<1>7. LinesOf("sdp", <<>>)
    BY EmptyFacts
<1>8. Draft(r, x, start, "purged")
    <2>1. ASSUME NEW new, NEW body, new = "purged", body = <<>>
          PROVE  Draft(r, x, start, new)
        <3>1. LinesOf("sdp", body) /\ x = Amended(w, "sdp", body)
            BY <1>7, <2>1
        <3>2. /\ r.hasSdp = (new # "purged")
              /\ new # "heap" => Owned(r.sdp_line) = {}
              /\ IF r.hasSdp THEN AsText(r.sdp_line) = PayloadOf(body) ELSE body = <<>>
            BY <1>2, <1>5, <1>6, <2>1
        <3>3. /\ IsSeq(r.sdp_line) /\ Dangling(r.sdp_line) = {} /\ r.status \in {1, 2}
            BY <1>1, <1>2, <1>5, <1>6
        <3> QED
            BY <1>1, <1>6, <3>1, <3>2, <3>3, PayloadReplaced
    <2> QED
        BY <2>1
<1> QED
    BY <1>1, <1>3, <1>6, <1>8 DEF Written

\* setSDP: the payload is on the heap.
LEMMA SetSDPDraft ==
    ASSUME NEW m, NEW w, NEW start, NEW sdp, Draft(m, w, start, sdp),
           NEW body, LinesOf("sdp", body), NEW x, x = Amended(w, "sdp", body)
    PROVE  Written(SetSDP(m, PayloadOf(body)), x, start, "heap")
<1> DEFINE c == Changed(m)
           p == PayloadOf(body)
           lines == [i \in DOMAIN p |-> OnHeap(p[i].h, p[i].v)]
           r == [c EXCEPT !.hasSdp = TRUE, !.sdp_line = lines]
<1>1. Draft(c, w, start, sdp) /\ c.status = 2
    BY ChangedFacts
<1> HIDE DEF c
<1>2. IsMessage(c) /\ Dangling(c.sdp_line) = {}
    BY <1>1 DEF Draft
<1>3. SetSDP(m, p) = r
    <2>1. SetSDP(m, p) = Error(r, Dangling(c.sdp_line) # {}, "double deletion")
        BY <1>2 DEF SetSDP, c
    <2> QED
        BY <1>2, <2>1 DEF Error
<1>4. IsSeq(p) /\ AsText(p) = p
    BY PayloadText
<1> HIDE DEF p
<1>5. DOMAIN p = 1..Len(p) /\ Len(p) \in Nat
    BY <1>4, SeqFacts
<1>6. /\ IsSeq(lines) /\ DOMAIN lines = DOMAIN p
      /\ \A i \in DOMAIN p : lines[i] = OnHeap(p[i].h, p[i].v)
    <2>1. lines = [k \in 1..Len(p) |-> lines[k]]
        BY <1>5
    <2>2. DOMAIN lines = DOMAIN p /\ \A i \in DOMAIN p : lines[i] = OnHeap(p[i].h, p[i].v)
        OBVIOUS
    <2> HIDE DEF lines
    <2>3. IsSeq(lines)
        BY <1>5, <2>1, SeqIntro
    <2> QED
        BY <2>2, <2>3
<1> HIDE DEF lines
<1>7. AsText(lines) = p
    <2>1. \A i \in DOMAIN p : lines[i].h = p[i].h /\ lines[i].v = p[i].v
        BY <1>6 DEF OnHeap
    <2>2. AsText(lines) = AsText(p)
        BY <1>6, <2>1 DEF AsText
    <2> QED
        BY <1>4, <2>2
<1>8. Dangling(lines) = {}
    BY <1>6 DEF Dangling, OnHeap
<1>9. /\ IsMessage(r) /\ r.status = c.status
      /\ r.errors = c.errors /\ r.contact = c.contact /\ r.modulus = c.modulus
      /\ r.fills = c.fills /\ r.compiles = c.compiles
      /\ r.message_line = c.message_line /\ r.via_line = c.via_line
      /\ r.sdp_line = lines /\ r.hasSdp = TRUE /\ r.hasvialines = c.hasvialines
    BY <1>2 DEF IsMessage, Fields
<1> HIDE DEF r
<1>10. Draft(r, x, start, "heap")
    <2>1. ASSUME NEW new, new = "heap"
          PROVE  Draft(r, x, start, new)
        <3>1. /\ r.hasSdp = (new # "purged")
              /\ new # "heap" => Owned(r.sdp_line) = {}
              /\ IF r.hasSdp THEN AsText(r.sdp_line) = PayloadOf(body) ELSE body = <<>>
            BY <1>7, <1>9, <2>1 DEF p
        <3>2. /\ IsSeq(r.sdp_line) /\ Dangling(r.sdp_line) = {} /\ r.status \in {1, 2}
            BY <1>1, <1>6, <1>8, <1>9
        <3> QED
            BY <1>1, <1>9, <3>1, <3>2, PayloadReplaced
    <2> QED
        BY <2>1
<1> QED
    BY <1>1, <1>3, <1>9, <1>10 DEF Written, p

\* The address a message is sent to is not part of what it says, nor what is cached.
LEMMA AddressDraft ==
    ASSUME NEW m, NEW w, NEW start, NEW sdp, Draft(m, w, start, sdp), NEW a
    PROVE  /\ Draft(SetRoute(m, a), w, start, sdp)
           /\ Draft(SetNatTraversal(m, a), w, start, sdp)
           /\ Draft(ForceHeadSipReply(m, a), w, start, sdp)
           /\ ForceHeadSipReply(m, a).status = m.status
<1>1. ASSUME NEW r, IsMessage(r),
             r.status = m.status, r.errors = m.errors, r.contact = m.contact,
             r.modulus = m.modulus, r.fills = m.fills, r.compiles = m.compiles,
             r.message_line = m.message_line, r.via_line = m.via_line,
             r.sdp_line = m.sdp_line, r.hasSdp = m.hasSdp, r.hasvialines = m.hasvialines
      PROVE  Draft(r, w, start, sdp)
    BY <1>1 DEF Draft, Says
<1>2. IsMessage(m)
    BY DEF Draft
<1>3. Draft(SetRoute(m, a), w, start, sdp)
    BY <1>1, <1>2 DEF SetRoute, IsMessage, Fields
<1>4. Draft(SetNatTraversal(m, a), w, start, sdp)
    BY <1>1, <1>2 DEF SetNatTraversal, IsMessage, Fields
<1>5. /\ Draft(ForceHeadSipReply(m, a), w, start, sdp)
      /\ ForceHeadSipReply(m, a).status = m.status
    BY <1>1, <1>2 DEF ForceHeadSipReply, IsMessage, Fields
<1> QED
    BY <1>3, <1>4, <1>5

---------------------------------------------------------------------------
(* Compiling: what the lines said, the text says. *)

\* The lines that compileMessage writes itself.
Measured(body) == [length |-> Len(body)]
LengthLine(body) == Line("Content-Length", Measured(body))
TypeLine == Line("Content-Type", [type |-> "application/sdp"])

\* Content-Type and Content-Length, as compileMessage writes them.
LEMMA MeasureFacts ==
    ASSUME NEW body
    PROVE  /\ IsSeq(<<LengthLine(body)>>)
           /\ One(<<LengthLine(body)>>, "Content-Length", Measured(body))
           /\ \A h : h # "Content-Length" => None(<<LengthLine(body)>>, h)
           /\ IsSeq(<<TypeLine, LengthLine(body)>>)
           /\ <<TypeLine, LengthLine(body)>> = <<TypeLine>> \o <<LengthLine(body)>>
           /\ One(<<TypeLine, LengthLine(body)>>, "Content-Length", Measured(body))
           /\ \A h : h \notin {"Content-Length", "Content-Type"}
                         => None(<<TypeLine, LengthLine(body)>>, h)
<1> DEFINE l == LengthLine(body)
           t == TypeLine
<1>1. l.h = "Content-Length" /\ l.v = Measured(body) /\ t.h = "Content-Type"
    BY DEF LengthLine, TypeLine, Line
<1> HIDE DEF l, t
<1>2. /\ IsSeq(<<l>>)
      /\ One(<<l>>, "Content-Length", Measured(body))
      /\ \A h : h # "Content-Length" => None(<<l>>, h)
    BY <1>1, OneLine
<1>3. <<t, l>> = <<t>> \o <<l>>
    OBVIOUS
<1> DEFINE s == <<t, l>>
<1>4. DOMAIN s = 1..2 /\ s[1] = t /\ s[2] = l /\ s = [k \in 1..2 |-> s[k]]
    OBVIOUS
<1> HIDE DEF s
<1>5. IsSeq(s)
    BY <1>4, SeqIntro
<1>6. DOMAIN s = {1, 2}
    BY <1>4
<1>7. Positions(s, "Content-Length") = {2}
    BY <1>1, <1>4, <1>6 DEF Positions
<1>8. One(s, "Content-Length", Measured(body))
    BY <1>1, <1>4, <1>6, <1>7 DEF One
<1>9. \A h : h \notin {"Content-Length", "Content-Type"} => None(s, h)
    BY <1>1, <1>4, <1>6 DEF None, Positions
<1> QED
    BY <1>2, <1>3, <1>5, <1>8, <1>9 DEF s, l, t

\* compileMessage writes a text that says what the lines said; the message can be
\* stored, and is filled in anew when it is asked.
LEMMA CompileDraft ==
    ASSUME NEW m, NEW w, NEW start, NEW sdp, Draft(m, w, start, sdp), m.status = 2
    PROVE  LET r == CompileMessage(m)
           IN  Stored(r, w) /\ r.status = 0 /\ r.fills = 1 /\ r.modulus = {}
<1> DEFINE H == {"Content-Length", "Content-Type", NoHeader}
           P == {i \in DOMAIN m.message_line : m.message_line[i].h \notin H}
           sent == LinesAt(m.message_line, P)
           a == AsText(sent)
           b == AsText(m.via_line)
           body == w["sdp"]
           payload ==
               IF m.hasSdp
               THEN <<TypeLine, Line("Content-Length", [length |-> Len(m.sdp_line) - 1])>>
                    \o AsText(m.sdp_line)
               ELSE <<Line("Content-Length", [length |-> 0]), Blank>>
           t == (a \o b) \o payload
           c == IF m.hasSdp THEN <<TypeLine, LengthLine(body)>> ELSE <<LengthLine(body)>>
<1>1. /\ IsMessage(m) /\ m.errors = {} /\ m.contact = {} /\ m.modulus = {}
      /\ m.fills = 1 /\ m.compiles = 0
      /\ Says(m, w) /\ Dangling(m.sdp_line) = {}
      /\ ~m.hasSdp => Owned(m.sdp_line) = {}
    BY DEF Draft
<1>2. /\ IsLetter(w) /\ LinesOf("sdp", body) /\ LinesOf("Via", w["Via"])
      /\ LinesSay(m.message_line, w) /\ None(m.message_line, "Via")
      /\ b = w["Via"] /\ IsSeq(m.sdp_line)
      /\ IF m.hasSdp THEN AsText(m.sdp_line) = PayloadOf(body) ELSE body = <<>>
    BY <1>1 DEF Says, IsLetter
<1>3. /\ IsSeq(m.message_line) /\ Begins(m.message_line, w["start"])
      /\ \A h \in Named : One(m.message_line, h, w[h])
      /\ None(m.message_line, NoHeader)
    BY <1>2 DEF LinesSay
<1>4. /\ IsSeq(sent) /\ Begins(sent, w["start"])
      /\ \A h \in Named : One(sent, h, w[h])
      /\ None(sent, NoHeader) /\ None(sent, "Via") /\ None(sent, "Content-Length")
    <2>1. /\ P \subseteq DOMAIN m.message_line
          /\ \A i \in DOMAIN m.message_line : i \in P <=> m.message_line[i].h \notin H
        OBVIOUS
    <2>2. "start" \notin H /\ \A h \in Named : h \notin H
        BY NoHeaderFacts DEF Named
    <2> HIDE DEF P
    <2>3. 1 \in P
        BY <1>3, <2>1, <2>2 DEF Begins, Positions
    <2>4. Begins(sent, w["start"])
        BY <1>3, <2>1, <2>3, CutBegins
    <2>5. ASSUME NEW h \in Named
          PROVE  One(sent, h, w[h])
        <3>1. \A i \in DOMAIN m.message_line : m.message_line[i].h = h => i \in P
            BY <2>1, <2>2
        <3> QED
            BY <1>3, <2>1, <3>1, CutOne
    <2>6. /\ \A i \in P : /\ m.message_line[i].h # NoHeader
                          /\ m.message_line[i].h # "Content-Length"
                          /\ m.message_line[i].h # "Via"
        BY <1>2, <2>1 DEF None, Positions
    <2>7. None(sent, NoHeader) /\ None(sent, "Via") /\ None(sent, "Content-Length")
        BY <1>3, <2>1, <2>6, CutNone
    <2>8. IsSeq(sent)
        <3>1. DOMAIN m.message_line = 1..Len(m.message_line) /\ Len(m.message_line) \in Nat
            BY <1>3, SeqFacts
        <3>2. IsCut(sent, m.message_line, P)
            BY <2>1, <3>1, LinesAtFacts
        <3> QED
            BY <3>2 DEF IsCut
    <2> QED
        BY <2>4, <2>5, <2>7, <2>8
<1> HIDE DEF P
<1>5. /\ IsSeq(a) /\ Begins(a, w["start"])
      /\ \A h \in Named : One(a, h, w[h])
      /\ None(a, NoHeader) /\ None(a, "Via") /\ None(a, "Content-Length")
    <2> HIDE DEF sent
    <2>1. /\ IsSeq(a) /\ DOMAIN a = DOMAIN sent
          /\ \A i \in DOMAIN sent : a[i].h = sent[i].h /\ a[i].v = sent[i].v
        BY <1>4, AsTextFacts
    <2>2. /\ \A h, v : One(a, h, v) <=> One(sent, h, v)
          /\ \A h : None(a, h) <=> None(sent, h)
          /\ \A v : Begins(a, v) <=> Begins(sent, v)
        BY <2>1, SameHeaders
    <2> QED
        BY <1>4, <2>1, <2>2
<1>6. /\ IsSeq(c) /\ One(c, "Content-Length", Measured(body))
      /\ \A h : h \notin {"Content-Length", "Content-Type"} => None(c, h)
    BY MeasureFacts
<1>7. payload = c \o PayloadOf(body)
    <2>1. CASE m.hasSdp
        <3>1. Len(m.sdp_line) - 1 = Len(body)
            <4>1. Len(AsText(m.sdp_line)) = Len(m.sdp_line)
                BY <1>2, AsTextFacts
            <4>2. Len(PayloadOf(body)) = Len(body) + 1 /\ Len(body) \in Nat
                BY <1>2, PayloadFacts, LinesOfFacts, SeqFacts
            <4> QED
                BY <1>2, <2>1, <4>1, <4>2
        <3> QED
            BY <1>2, <2>1, <3>1 DEF LengthLine, Measured
    <2>2. CASE ~m.hasSdp
        <3>1. body = <<>>
            BY <1>2, <2>2
        <3>2. Len(body) = 0
            BY <3>1, EmptyFacts
        <3>3. PayloadOf(body) = <<Blank>>
            BY <3>1 DEF PayloadOf
        <3>4. payload = <<LengthLine(body), Blank>> /\ c = <<LengthLine(body)>>
            BY <2>2, <3>2 DEF LengthLine, Measured
        <3>5. \A x : <<x, Blank>> = <<x>> \o <<Blank>>
            OBVIOUS
        <3> QED
            BY <3>3, <3>4, <3>5
    <2> QED
        BY <2>1, <2>2
<1> HIDE DEF payload, c, a, b
<1>8. t = ((a \o b) \o c) \o PayloadOf(body)
    <2> DEFINE ab == a \o b
               p == PayloadOf(body)
               S == (Range(ab) \cup Range(c)) \cup Range(p)
    <2>1. IsSeq(b)
        BY <1>2, LinesOfFacts
    <2>2. IsSeq(ab) /\ IsSeq(p)
        BY <1>2, <1>5, <2>1, ConcatFacts, PayloadFacts
    <2> HIDE DEF ab, p
    <2>3. ab \in Seq(S) /\ c \in Seq(S) /\ p \in Seq(S)
        BY <1>6, <2>2, SeqMonotonic DEF IsSeq
    <2> HIDE DEF S
    <2>4. (ab \o c) \o p = ab \o (c \o p)
        BY <2>3, ConcatAssociative, SMTT(40)
    <2> QED
        BY <1>7, <2>4 DEF ab, p
<1>9. TextSays(t, w)
    <2>1. \A h \in Named \cup {"start", "Via", NoHeader} : h \notin {"Content-Length", "Content-Type"}
        BY NoHeaderFacts DEF Named
    <2>2. /\ None(c, "start") /\ None(c, NoHeader) /\ None(c, "Via")
          /\ \A h \in Named : None(c, h)
        BY <1>6, <2>1
    <2>3. One(c, "Content-Length", [length |-> Len(w["sdp"])])
        BY <1>6 DEF Measured
    <2> HIDE DEF t
    <2>4. \A h \in Named : \/ One(a, h, w[h]) /\ None(c, h)
                           \/ None(a, h) /\ One(c, h, w[h])
        BY <1>5, <2>2
    <2> QED
        BY <1>2, <1>5, <1>6, <1>8, <2>2, <2>3, <2>4, ComposedText
<1> DEFINE done == [m EXCEPT !.text = t,
                             !.status = 0,
                             !.message_line = <<>>, !.via_line = <<>>, !.sdp_line = <<>>,
                             !.cache = Forgotten,
                             !.compiles = @ + 1]
<1>10. CompileMessage(m) = done
    <2>1. CompileMessage(m) =
            Error(Error(Error(done, m.compiles >= MaxFills, "compileCounter"),
                    m.hasSdp /\ Dangling(m.sdp_line) # {}, "use of a freed line"),
              ~m.hasSdp /\ Owned(m.sdp_line) # {}, "leaked line")
        BY DEF CompileMessage, Without, TypeLine, t, a, b, payload, sent, P
    <2>2. ~(m.compiles >= MaxFills)
        BY <1>1 DEF MaxFills
    <2> HIDE DEF done
    <2> QED
        BY <1>1, <2>1, <2>2 DEF Error
<1> HIDE DEF t
<1>11. /\ IsMessage(done) /\ done.text = t /\ done.status = 0 /\ done.fills = m.fills
       /\ done.errors = m.errors /\ done.contact = m.contact /\ done.modulus = m.modulus
    BY <1>1 DEF IsMessage, Fields
<1> HIDE DEF done
<1>12. Stored(done, w)
    BY <1>1, <1>9, <1>11 DEF Stored
<1> QED
    BY <1>1, <1>10, <1>11, <1>12

---------------------------------------------------------------------------
(* What a message that is kept promises. *)

\* Another address: the route of a stored message is set when it is made.
LEMMA RouteStored ==
    ASSUME NEW m, NEW w, Stored(m, w), NEW a
    PROVE  LET r == SetRoute(m, a)
           IN  Stored(r, w) /\ r.text = m.text /\ r.echo = m.echo
<1> DEFINE r == SetRoute(m, a)
<1>1. IsMessage(m)
    BY DEF Stored
<1>2. /\ IsMessage(r) /\ r.text = m.text /\ r.echo = m.echo
      /\ r.status = m.status /\ r.errors = m.errors /\ r.contact = m.contact
      /\ r.modulus = m.modulus /\ r.fills = m.fills /\ r.cache = m.cache
      /\ r.message_line = m.message_line /\ r.via_line = m.via_line
      /\ r.sdp_line = m.sdp_line /\ r.hasSdp = m.hasSdp /\ r.hasvialines = m.hasvialines
    BY <1>1 DEF SetRoute, IsMessage, Fields
<1> HIDE DEF r
<1>3. /\ \A f \in Parsed : Lookup(r, f) = Lookup(m, f)
      /\ GetGenericHeader(r, "Call-ID") = GetGenericHeader(m, "Call-ID")
    BY <1>2, LookupSame
<1>4. ASSUME m.status = 0 PROVE Stored(r, w)
    BY <1>2, <1>4 DEF Stored
<1>5. ASSUME m.status = 1 PROVE Stored(r, w)
    <2>1. Open(m, w)
        BY <1>5 DEF Open
    <2>2. /\ IsSplit(m) /\ m.fills \in {1, 2} /\ m.errors = {} /\ m.contact = {}
          /\ TextSays(m.text, w)
          /\ DOMAIN m.cache \subseteq Parsed
          /\ \A f \in DOMAIN m.cache : m.cache[f] = Lookup(m, f)
          /\ m.modulus \subseteq {GetGenericHeader(m, "Call-ID")}
        BY <2>1, OpenFacts
    <2>3. IsSplit(r)
        BY <1>2, <2>2 DEF IsSplit
    <2>4. \A f \in DOMAIN r.cache : r.cache[f] = Lookup(r, f)
        BY <1>2, <1>3, <2>2
    <2> QED
        BY <1>2, <1>3, <1>5, <2>2, <2>3, <2>4 DEF Stored
<1>6. m.status \in {0, 1}
    BY DEF Stored
<1> QED
    BY <1>2, <1>4, <1>5, <1>6 DEF r

\* Nothing goes wrong when it is deleted, and its caches are right.
LEMMA StoredFacts ==
    ASSUME NEW m, NEW w, Stored(m, w)
    PROVE  /\ Destroy(m).errors = {} /\ Coherent(m)
           /\ m.status \in {0, 1} /\ m.fills <= MaxFills /\ TextSays(m.text, w)
<1>1. /\ m.status \in {0, 1} /\ m.fills <= MaxFills /\ TextSays(m.text, w)
      /\ m.errors = {} /\ m.contact = {}
    BY DEF Stored, MaxFills
<1>2. Destroy(m).errors = {}
    <2>1. ~(m.status # 0 /\ Dangling(m.sdp_line) # {})
        <3>1. CASE m.status = 1
            BY <3>1, OpenFacts DEF Open
        <3>2. CASE m.status = 0
            BY <3>2
        <3> QED
            BY <1>1, <3>1, <3>2
    <2> QED
        BY <1>1, <2>1 DEF Destroy, Error
<1>3. Coherent(m)
    <2> DEFINE f == FillIn(m)
    <2>1. Open(f, w) /\ f.modulus = m.modulus /\ (m.status = 1 => f = m)
        BY FillInStored
    <2> HIDE DEF f
    <2>2. m.modulus \subseteq {GetGenericHeader(f, "Call-ID")}
        BY <2>1, OpenFacts
    <2>3. m.status = 1 => \A x \in DOMAIN m.cache : m.cache[x] = Lookup(m, x)
        <3>1. SUFFICES ASSUME m.status = 1
                       PROVE  \A x \in DOMAIN m.cache : m.cache[x] = Lookup(m, x)
            OBVIOUS
        <3>2. Open(m, w)
            BY <3>1 DEF Open
        <3> QED
            BY <3>2, OpenFacts
    <2> QED
        BY <1>1, <2>2, <2>3 DEF Coherent, f
<1> QED
    BY <1>1, <1>2, <1>3

\* The Contact is not in every letter; where the text has one, it is found.
LEMMA ContactFound ==
    ASSUME NEW m, NEW w, Open(m, w), NEW c, One(HeadOf(m.text), "Contact", c)
    PROVE  GetGenericHeader(m, "Contact") = c
<1> DEFINE head == HeadOf(m.text)
           P == {i \in DOMAIN head : head[i].h \notin {"Via"}}
           kept == LinesAt(head, P)
           lines == m.message_line
<1>1. /\ IsSplit(m) /\ TextSays(m.text, w) /\ Says(m, w)
    BY OpenFacts
<1>2. IsSeq(head) /\ IsSeq(lines) /\ Begins(lines, w["start"])
    BY <1>1 DEF TextSays, LinesSay, Says
<1>3. lines = InBuffer(kept)
    BY <1>1 DEF IsSplit, Without
<1>4. P \subseteq DOMAIN head /\ \A i \in DOMAIN head : head[i].h = "Contact" => i \in P
    OBVIOUS
<1> HIDE DEF head, P
<1>5. One(kept, "Contact", c) /\ IsSeq(kept)
    <2>1. One(head, "Contact", c)
        BY DEF head
    <2>2. One(kept, "Contact", c)
        BY <1>2, <1>4, <2>1, CutOne
    <2>3. DOMAIN head = 1..Len(head) /\ Len(head) \in Nat
        BY <1>2, SeqFacts
    <2>4. IsCut(kept, head, P)
        BY <1>4, <2>3, LinesAtFacts
    <2> QED
        BY <2>2, <2>4 DEF IsCut
<1> HIDE DEF kept
<1>6. One(lines, "Contact", c)
    <2>1. /\ DOMAIN InBuffer(kept) = DOMAIN kept
          /\ \A i \in DOMAIN kept : /\ InBuffer(kept)[i].h = kept[i].h
                                    /\ InBuffer(kept)[i].v = kept[i].v
        BY <1>5, InBufferFacts
    <2>2. One(InBuffer(kept), "Contact", c) <=> One(kept, "Contact", c)
        BY <2>1, SameHeaders
    <2> QED
        BY <1>3, <1>5, <2>2
<1> HIDE DEF lines
<1>7. PICK i \in DOMAIN lines : Positions(lines, "Contact") = {i} /\ lines[i].v = c
    BY <1>6 DEF One
<1>8. /\ lines[i].h = "Contact" /\ \A j \in DOMAIN lines : lines[j].h = "Contact" => j = i
      /\ lines[1].h = "start"
    BY <1>2, <1>7 DEF Positions, Begins
<1>9. DOMAIN lines = 1..Len(lines) /\ Len(lines) \in Nat
    BY <1>2, SeqFacts
<1>10. i \in 2..Len(lines)
    BY <1>8, <1>9
<1>11. FirstAt(lines, 2, "Contact") = i
    <2>1. LET k == FirstAt(lines, 2, "Contact")
          IN  /\ k = 0 \/ (k \in 2..Len(lines) /\ lines[k].h = "Contact")
              /\ \A j \in 2..Len(lines) : lines[j].h = "Contact" => k # 0 /\ k <= j
        BY <1>2, FirstAtFacts
    <2>2. 2..Len(lines) \subseteq DOMAIN lines
        BY <1>9
    <2> QED
        BY <1>8, <1>10, <2>1, <2>2
<1>12. i # 0
    BY <1>10
<1> QED
    BY <1>7, <1>11, <1>12 DEF GetGenericHeader, lines

\* getContactUri, of a message whose Contact was not asked for before: the other
\* getters return what they did, and deleting the message is safe.
LEMMA ReadContactFacts ==
    ASSUME NEW m, NEW w, Open(m, w)
    PROVE  LET r == ReadContact(m)
           IN  /\ GetContact(r) = GetGenericHeader(m, "Contact")
               /\ \A h \in Named : GetGenericHeader(r, h) = w[h]
               /\ GetHeadSipReply(r) = w["start"]
               /\ HasSDP(r) /\ GetSDP(r) = PayloadOf(w["sdp"])
               /\ Destroy(r).errors = {}
<1> DEFINE r == [m EXCEPT !.contact = {GetContact(m)}]
<1>1. /\ IsMessage(m) /\ m.status = 1 /\ m.errors = {} /\ m.contact = {}
      /\ Dangling(m.sdp_line) = {}
      /\ \A h \in Named : GetGenericHeader(m, h) = w[h]
      /\ GetHeadSipReply(m) = w["start"]
      /\ HasSDP(m) /\ GetSDP(m) = PayloadOf(w["sdp"])
    BY OpenFacts, OpenGetters
<1>2. GetContact(m) = GetGenericHeader(m, "Contact")
    BY <1>1 DEF GetContact
<1>3. ReadContact(m) = r
    BY <1>1 DEF ReadContact, FillIn
<1>4. /\ r.status = m.status /\ r.errors = m.errors /\ r.cache = m.cache
      /\ r.message_line = m.message_line /\ r.via_line = m.via_line
      /\ r.sdp_line = m.sdp_line /\ r.hasSdp = m.hasSdp /\ r.hasvialines = m.hasvialines
      /\ r.contact = {GetContact(m)}
    BY <1>1 DEF IsMessage, Fields
<1> HIDE DEF r
<1>5. GetContact(r) = GetContact(m)
    BY <1>4 DEF GetContact
<1>6. /\ \A h : GetGenericHeader(r, h) = GetGenericHeader(m, h)
      /\ Lookup(r, "reqRep") = Lookup(m, "reqRep")
    BY <1>4, LookupSame DEF Parsed
<1>7. GetHeadSipReply(r) = GetHeadSipReply(m)
    BY <1>4, <1>6 DEF GetHeadSipReply, Value
<1>8. HasSDP(r) = HasSDP(m) /\ GetSDP(r) = GetSDP(m)
    BY <1>4 DEF HasSDP, GetSDP
<1>9. Destroy(r).errors = {}
    BY <1>1, <1>4 DEF Destroy, Error
<1> QED
    BY <1>1, <1>2, <1>3, <1>5, <1>6, <1>7, <1>8, <1>9
=============================================================================
