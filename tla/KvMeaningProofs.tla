-------------------------- MODULE KvMeaningProofs --------------------------
(***************************************************************************)
(* Proof that KvParser, for any text, any chunks and any buffer sizes,     *)
(* calls back what the text means as a whole, a definition that is         *)
(* recursive over the text; and that what config_store writes, line after  *)
(* line, is a file of which KvParserProofs shows that it is read back.     *)
(*                                                                         *)
(* The library's induction theorems take a predicate; WFMin takes a set,   *)
(* and gives induction and least elements for sets of numbers.             *)
(***************************************************************************)
EXTENDS KvParserProofs, WellFoundedInduction

Less == {p \in Nat \X Nat : p[1] < p[2]}

LEMMA LessIsWellFounded == IsWellFoundedOn(Less, Nat)
<1>1. OpToRel(<, Nat) = Less
  BY DEF OpToRel, Less
<1> QED
  BY <1>1, NatLessThanWellFounded

(* A set of numbers that is not empty has a least one.                      *)
LEMMA LeastNumber ==
    ASSUME NEW T \in SUBSET Nat, T # {}
    PROVE  \E n \in T : \A m \in T : n <= m
<1>1. PICK n \in T : \A m \in T : <<m, n>> \notin Less
  BY WFMin, LessIsWellFounded
<1>2. ASSUME NEW m \in T, ~(n <= m) PROVE FALSE
  <2>1. <<m, n>> \in Nat \X Nat /\ m < n
    BY <1>2
  <2>2. <<m, n>> \in Less
    BY <2>1 DEF Less
  <2> QED
    BY <1>1, <2>2
<1> QED
  BY <1>2

(* Induction, over a set.                                                   *)
LEMMA InductionOverSet ==
    ASSUME NEW T, 0 \in T, \A n \in Nat : n \in T => n + 1 \in T
    PROVE  Nat \subseteq T
<1> SUFFICES ASSUME Nat \ T # {} PROVE FALSE
  OBVIOUS
<1>1. Nat \ T \in SUBSET Nat
  OBVIOUS
<1>2. PICK n \in Nat \ T : \A m \in Nat \ T : n <= m
  BY <1>1, LeastNumber
<1>3. n \in Nat /\ n # 0
  BY <1>2
<1>4. PICK k \in Nat : n = k + 1 /\ ~(n <= k)
  <2>1. n - 1 \in Nat /\ n = (n - 1) + 1 /\ ~(n <= n - 1)
    BY <1>3
  <2> QED
    BY <2>1
<1>5. k \in T
  BY <1>2, <1>4
<1> QED
  BY <1>2, <1>4, <1>5

-----------------------------------------------------------------------------
(* Where a key or a value ends.                                             *)

(* There is an end, before the first b or with the text...                  *)
LEMMA EndFound ==
    ASSUME NEW s \in Seq(Byte), NEW b, NEW p \in 0..Len(s)
    PROVE  /\ EndOf(b, s, p) \in p..Len(s)
           /\ \A j \in p + 1 .. EndOf(b, s, p) : s[j] # b
           /\ EndOf(b, s, p) < Len(s) => s[EndOf(b, s, p) + 1] = b
<1>1. Len(s) \in Nat
  BY LenProperties
<1> DEFINE T == {e \in p..Len(s) : e < Len(s) => s[e + 1] = b}
<1>2. T \in SUBSET Nat /\ Len(s) \in T
  BY <1>1
<1>3. PICK e \in T : \A m \in T : e <= m
  BY <1>2, LeastNumber
<1>4. ASSUME NEW j \in p + 1 .. e, s[j] = b PROVE FALSE
  <2>1. j - 1 \in p..Len(s) /\ (j - 1) + 1 = j /\ ~(e <= j - 1)
    BY <1>1, <1>3, <1>4
  <2>2. j - 1 \in T
    BY <1>4, <2>1
  <2> QED
    BY <1>3, <2>1, <2>2
<1>5. \E x \in p..Len(s) :
         (\A j \in p + 1 .. x : s[j] # b) /\ (x < Len(s) => s[x + 1] = b)
  BY <1>3, <1>4
<1> QED
  BY <1>5 DEF EndOf

(* ... it is no nearer than the bytes without b...                          *)
LEMMA EndNotBefore ==
    ASSUME NEW s \in Seq(Byte), NEW b, NEW p \in 0..Len(s), NEW e \in p..Len(s),
           \A j \in p + 1 .. e : s[j] # b
    PROVE  e <= EndOf(b, s, p)
<1> DEFINE x == EndOf(b, s, p)
<1>1. Len(s) \in Nat
  BY LenProperties
<1>2. x \in p..Len(s) /\ (x < Len(s) => s[x + 1] = b)
  BY EndFound
<1> HIDE DEF x
<1>3. ASSUME ~(e <= x) PROVE FALSE
  <2>1. x + 1 \in p + 1 .. e /\ x < Len(s)
    BY <1>1, <1>2, <1>3
  <2> QED
    BY <1>2, <2>1
<1>4. e <= x
  BY <1>3
<1> QED
  BY <1>4 DEF x

(* ... and only one end is both.                                            *)
LEMMA EndIs ==
    ASSUME NEW s \in Seq(Byte), NEW b, NEW p \in 0..Len(s), NEW e \in p..Len(s),
           \A j \in p + 1 .. e : s[j] # b, e < Len(s) => s[e + 1] = b
    PROVE  EndOf(b, s, p) = e
<1> DEFINE x == EndOf(b, s, p)
<1>1. Len(s) \in Nat
  BY LenProperties
<1>2. x \in p..Len(s) /\ \A j \in p + 1 .. x : s[j] # b
  BY EndFound
<1>3. e <= x
  BY EndNotBefore
<1> HIDE DEF x
<1>4. ASSUME e < x PROVE FALSE
  <2>1. e + 1 \in p + 1 .. x /\ e < Len(s)
    BY <1>1, <1>2, <1>4
  <2> QED
    BY <1>2, <2>1
<1>5. x = e
  BY <1>1, <1>2, <1>3, <1>4
<1> QED
  BY <1>5 DEF x

-----------------------------------------------------------------------------
(* What a text means is well defined.                                       *)

Pair == Seq(Byte) \X Seq(Byte)
Result == [pairs : Seq(Pair), end : {"failed", "ended", "refused"}]

(* The parts of a text that MeaningAfter speaks of.                         *)
LEMMA Parts ==
    ASSUME NEW s \in Seq(Byte), NEW p \in 0..Len(s),
           NEW e, e = EndOf(Equals, s, p), NEW f, f = EndOf(Newline, s, e + 1)
    PROVE  /\ Len(s) \in Nat /\ e \in p..Len(s)
           /\ e # Len(s) =>
                 /\ f \in e + 1 .. Len(s)
                 /\ f # Len(s) => f + 1 \in p + 1 .. Len(s)
                 /\ <<SubSeq(s, p + 1, e), SubSeq(s, e + 2, f)>> \in Pair
<1>1. Len(s) \in Nat /\ e \in p..Len(s)
  BY EndFound, LenProperties
<1>2. ASSUME e # Len(s)
      PROVE  /\ f \in e + 1 .. Len(s)
             /\ f # Len(s) => f + 1 \in p + 1 .. Len(s)
             /\ <<SubSeq(s, p + 1, e), SubSeq(s, e + 2, f)>> \in Pair
  <2>1. e + 1 \in 0..Len(s)
    BY <1>1, <1>2
  <2>2. f \in e + 1 .. Len(s)
    BY <2>1, EndFound
  <2>3. f # Len(s) => f + 1 \in p + 1 .. Len(s)
    BY <1>1, <2>2
  <2>4. /\ p + 1 \in Int /\ e \in Int /\ e + 2 \in Int /\ f \in Int
        /\ \A i \in p + 1 .. e : i \in 1..Len(s)
        /\ \A i \in e + 2 .. f : i \in 1..Len(s)
    BY <1>1, <2>2
  <2>5. \A i \in 1..Len(s) : s[i] \in Byte
    BY ElementOfSeq
  <2>6. SubSeq(s, p + 1, e) \in Seq(Byte) /\ SubSeq(s, e + 2, f) \in Seq(Byte)
    BY <2>4, <2>5, SubSeqProperties
  <2> QED
    BY <2>2, <2>3, <2>6 DEF Pair
<1> QED
  BY <1>1, <1>2

(* A text that says nothing more.                                           *)
LEMMA NothingType == \A end \in {"failed", "ended", "refused"} : Nothing(end) \in Result
<1>1. <<>> \in Seq(Pair)
  BY EmptySeq
<1> QED
  BY <1>1 DEF Nothing, Result

(* A line, and what is said after it.                                       *)
LEMMA LineType ==
    ASSUME NEW pair \in Pair, NEW rest \in Result
    PROVE  [pairs |-> <<pair>> \o rest.pairs, end |-> rest.end] \in Result
<1>1. <<pair>> \in Seq(Pair)
  OBVIOUS
<1>2. <<pair>> \o rest.pairs \in Seq(Pair)
  BY <1>1, ConcatProperties DEF Result
<1> QED
  BY <1>2 DEF Result

(* What is said after p has its type, if what is said later has...          *)
LEMMA MeaningType ==
    ASSUME NEW s \in Seq(Byte), NEW p \in 0..Len(s), NEW m,
           \A q \in p + 1 .. Len(s) : m[q] \in Result
    PROVE  MeaningAfter(s, p, m) \in Result
<1> DEFINE e == EndOf(Equals, s, p)
           f == EndOf(Newline, s, e + 1)
           rest == IF f = Len(s) THEN Nothing("ended") ELSE m[f + 1]
<1>1. /\ Len(s) \in Nat /\ e \in p..Len(s)
      /\ e # Len(s) =>
            /\ f \in e + 1 .. Len(s)
            /\ f # Len(s) => f + 1 \in p + 1 .. Len(s)
            /\ <<SubSeq(s, p + 1, e), SubSeq(s, e + 2, f)>> \in Pair
  BY Parts
<1>2. KeySize \in Nat /\ ValueSize \in Nat
  BY Sizes
<1>3. ASSUME e # Len(s)
      PROVE  [pairs |-> <<<<SubSeq(s, p + 1, e), SubSeq(s, e + 2, f)>>>> \o rest.pairs,
              end |-> rest.end] \in Result
  <2>1. f # Len(s) => m[f + 1] \in Result
    BY <1>1, <1>3
  <2>2. rest \in Result
    BY <2>1, NothingType
  <2> QED
    BY <1>1, <1>3, <2>2, LineType
<1> HIDE DEF e, f, rest
<1> QED
  BY <1>1, <1>2, <1>3, NothingType DEF MeaningAfter, e, f, rest

(* ... and depends only on what is said after later positions.              *)
LEMMA MeaningDepends ==
    ASSUME NEW s \in Seq(Byte), NEW p \in 0..Len(s), NEW m, NEW n,
           \A q \in p + 1 .. Len(s) : m[q] = n[q]
    PROVE  MeaningAfter(s, p, m) = MeaningAfter(s, p, n)
<1> DEFINE e == EndOf(Equals, s, p)
           f == EndOf(Newline, s, e + 1)
<1>1. /\ Len(s) \in Nat /\ e \in p..Len(s)
      /\ e # Len(s) /\ f # Len(s) => f + 1 \in p + 1 .. Len(s)
  BY Parts
<1>2. KeySize \in Nat /\ ValueSize \in Nat
  BY Sizes
<1>3. e # Len(s) /\ f # Len(s) => m[f + 1] = n[f + 1]
  BY <1>1
<1>4. CASE e = Len(s)
  <2>1. \A k : MeaningAfter(s, p, k) =
           IF e - p >= KeySize THEN Nothing("failed")
           ELSE Nothing(IF p = Len(s) THEN "ended" ELSE "refused")
    BY <1>1, <1>2, <1>4 DEF MeaningAfter
  <2> QED
    BY <2>1
<1>5. CASE e # Len(s)
  BY <1>1, <1>2, <1>3, <1>5 DEF MeaningAfter
<1> QED
  BY <1>4, <1>5

(* From n positions before the end of the text on, m is what it says there. *)
Says(s, m, n) == \A p \in 0..Len(s) : Len(s) < p + n => m[p] = MeaningAfter(s, p, m)

(* One more position, given the later ones.                                 *)
LEMMA SaysMore ==
    ASSUME NEW s \in Seq(Byte), NEW n \in Nat, n + 1 <= Len(s) + 1,
           NEW m \in [0..Len(s) -> Result], Says(s, m, n)
    PROVE  \E k \in [0..Len(s) -> Result] : Says(s, k, n + 1)
<1>1. Len(s) \in Nat
  BY LenProperties
<1> DEFINE q == Len(s) - n
           new == MeaningAfter(s, q, m)
           k == [p \in 0..Len(s) |-> IF p = q THEN new ELSE m[p]]
<1>2. q \in 0..Len(s)
  BY <1>1
<1>3. new \in Result
  <2>1. \A r \in q + 1 .. Len(s) : m[r] \in Result
    BY <1>1, <1>2
  <2> QED
    BY <1>2, <2>1, MeaningType
<1> HIDE DEF new
<1>4. k \in [0..Len(s) -> Result]
  BY <1>3
<1>5. ASSUME NEW p \in 0..Len(s), Len(s) < p + (n + 1)
      PROVE  k[p] = MeaningAfter(s, p, k)
  <2>1. p = q \/ (p # q /\ Len(s) < p + n)
    BY <1>1, <1>5
  <2>2. \A r \in p + 1 .. Len(s) : r \in 0..Len(s) /\ r # q
    BY <1>1, <1>5
  <2>3. \A r \in p + 1 .. Len(s) : k[r] = m[r]
    BY <2>2
  <2>4. k[p] = MeaningAfter(s, p, m)
    BY <2>1 DEF Says, new
  <2> HIDE DEF k
  <2>5. MeaningAfter(s, p, m) = MeaningAfter(s, p, k)
    BY <2>3, MeaningDepends
  <2> QED
    BY <2>4, <2>5
<1> QED
  BY <1>4, <1>5 DEF Says

(* The recursive definition of what a text means has a solution.            *)
LEMMA MeaningExists ==
    ASSUME NEW s \in Seq(Byte)
    PROVE  \E m \in [0..Len(s) -> Result] :
              m = [p \in 0..Len(s) |-> MeaningAfter(s, p, m)]
<1>1. Len(s) \in Nat
  BY LenProperties
<1> DEFINE T == {n \in Nat : n <= Len(s) + 1 =>
                                \E m \in [0..Len(s) -> Result] : Says(s, m, n)}
<1>2. 0 \in T
  <2>1. [p \in 0..Len(s) |-> Nothing("ended")] \in [0..Len(s) -> Result]
    BY NothingType
  <2>2. \A m : Says(s, m, 0)
    BY <1>1 DEF Says
  <2> QED
    BY <2>1, <2>2
<1>3. ASSUME NEW n \in Nat, n \in T PROVE n + 1 \in T
  <2>1. CASE n + 1 <= Len(s) + 1
    <3>1. PICK m \in [0..Len(s) -> Result] : Says(s, m, n)
      BY <1>1, <1>3, <2>1
    <3>2. \E k \in [0..Len(s) -> Result] : Says(s, k, n + 1)
      BY <2>1, <3>1, SaysMore
    <3> QED
      BY <3>2
  <2> QED
    BY <2>1
<1>4. Nat \subseteq T
  <2> HIDE DEF T
  <2> QED
    BY <1>2, <1>3, InductionOverSet
<1>5. PICK m \in [0..Len(s) -> Result] : Says(s, m, Len(s) + 1)
  BY <1>1, <1>4
<1>6. \A p \in 0..Len(s) : m[p] = MeaningAfter(s, p, m)
  BY <1>1, <1>5 DEF Says
<1>7. m = [p \in 0..Len(s) |-> MeaningAfter(s, p, m)]
  BY <1>6
<1> QED
  BY <1>7

(* Any solution is typed.                                                   *)
LEMMA SolutionType ==
    ASSUME NEW s \in Seq(Byte), NEW m, m = [p \in 0..Len(s) |-> MeaningAfter(s, p, m)]
    PROVE  m \in [0..Len(s) -> Result]
<1>1. Len(s) \in Nat
  BY LenProperties
<1>2. \A p \in 0..Len(s) : m[p] = MeaningAfter(s, p, m)
  OBVIOUS
<1> DEFINE T == {n \in Nat : \A p \in 0..Len(s) : Len(s) < p + n => m[p] \in Result}
<1>3. 0 \in T
  BY <1>1
<1>4. ASSUME NEW n \in Nat, n \in T PROVE n + 1 \in T
  <2> SUFFICES ASSUME NEW p \in 0..Len(s), Len(s) < p + (n + 1) PROVE m[p] \in Result
    OBVIOUS
  <2>1. \A q \in p + 1 .. Len(s) : q \in 0..Len(s) /\ Len(s) < q + n
    BY <1>1
  <2>2. \A q \in p + 1 .. Len(s) : m[q] \in Result
    BY <1>4, <2>1
  <2> QED
    BY <1>2, <2>2, MeaningType
<1>5. Nat \subseteq T
  <2> HIDE DEF T
  <2> QED
    BY <1>3, <1>4, InductionOverSet
<1>6. \A p \in 0..Len(s) : m[p] \in Result
  <2>1. Len(s) + 1 \in T /\ \A p \in 0..Len(s) : Len(s) < p + (Len(s) + 1)
    BY <1>1, <1>5
  <2> QED
    BY <2>1
<1> QED
  BY <1>6

(* What a text means is what it says after its beginning, by that equation. *)
LEMMA MeaningIs ==
    ASSUME NEW s \in Seq(Byte)
    PROVE  \E m \in [0..Len(s) -> Result] :
              /\ Meaning(s) = m[0]
              /\ \A p \in 0..Len(s) : m[p] = MeaningAfter(s, p, m)
<1> DEFINE m == CHOOSE m : m = [p \in 0..Len(s) |-> MeaningAfter(s, p, m)]
<1>1. m = [p \in 0..Len(s) |-> MeaningAfter(s, p, m)]
  BY MeaningExists
<1>2. Meaning(s) = m[0]
  BY DEF Meaning
<1> HIDE DEF m
<1>3. m \in [0..Len(s) -> Result]
  BY <1>1, SolutionType
<1>4. \A p \in 0..Len(s) : m[p] = MeaningAfter(s, p, m)
  BY <1>1
<1> QED
  BY <1>2, <1>3, <1>4

-----------------------------------------------------------------------------
(* What a text means, of the keys and values that buffers read from it.     *)

(* SubSeq, by a name of its own.                                            *)
Part(s, first, last) == SubSeq(s, first, last)

(* What a buffer has read, where the text has it.                           *)
LEMMA ReadBytes ==
    ASSUME NEW t \in Seq(Byte), NEW s \in Seq(Byte), NEW p \in Nat, At(s, t, p)
    PROVE  /\ p + Len(s) \in p..Len(t) /\ Len(t) \in Nat /\ Len(s) \in Nat
           /\ \A b : ~Has(s, b) => \A j \in p + 1 .. p + Len(s) : t[j] # b
           /\ Part(t, p + 1, p + Len(s)) = s
<1>1. /\ Len(t) \in Nat /\ Len(s) \in Nat /\ p + Len(s) <= Len(t)
      /\ \A j \in 1..Len(s) : t[p + j] = s[j]
  BY LenProperties DEF At
<1>2. ASSUME NEW b, ~Has(s, b), NEW j \in p + 1 .. p + Len(s) PROVE t[j] # b
  <2>1. j - p \in 1..Len(s) /\ p + (j - p) = j
    BY <1>1, <1>2
  <2>2. t[p + (j - p)] = s[j - p]
    BY <1>1, <2>1
  <2> QED
    BY <1>2, <2>1, <2>2 DEF Has
<1> DEFINE u == SubSeq(t, p + 1, p + Len(s))
<1>3. u \in Seq(Byte) /\ Len(u) = Len(s) /\ \A j \in 1..Len(s) : u[j] = t[p + j]
  <2>1. p + 1 \in Int /\ p + Len(s) \in Int /\ (p + Len(s)) - (p + 1) + 1 = Len(s)
    BY <1>1
  <2>2. \A j \in p + 1 .. p + Len(s) : t[j] \in Byte
    <3>1. \A j \in p + 1 .. p + Len(s) : j \in 1..Len(t)
      BY <1>1
    <3> QED
      BY <3>1, ElementOfSeq
  <2>3. /\ u \in Seq(Byte)
        /\ Len(u) = IF p + 1 <= p + Len(s) THEN (p + Len(s)) - (p + 1) + 1 ELSE 0
        /\ \A j \in 1 .. (p + Len(s)) - (p + 1) + 1 : u[j] = t[p + 1 + j - 1]
    BY <2>1, <2>2, SubSeqProperties
  <2>4. \A j \in 1..Len(s) : p + 1 + j - 1 = p + j
    BY <1>1
  <2> HIDE DEF u
  <2> QED
    BY <1>1, <2>1, <2>3, <2>4
<1>4. u = s
  <2> HIDE DEF u
  <2> QED
    BY <1>1, <1>3, SeqEqual
<1> QED
  BY <1>1, <1>2, <1>4 DEF Part

(* A pair, and what the text says after its line.                           *)
Line(pair, rest) == [pairs |-> <<pair>> \o rest.pairs, end |-> rest.end]
Rest(s, f, m) == IF f = Len(s) THEN Nothing("ended") ELSE m[f + 1]

(* A key that fits has a value, which fits or does not.                     *)
LEMMA ValueMeans ==
    ASSUME NEW s, NEW p \in Nat, NEW m, NEW e \in Nat, NEW f \in Nat,
           EndOf(Equals, s, p) = e, EndOf(Newline, s, e + 1) = f,
           e # Len(s), e - p < KeySize
    PROVE  /\ f - e - 1 >= ValueSize => MeaningAfter(s, p, m) = Nothing("failed")
           /\ f - e - 1 < ValueSize =>
                MeaningAfter(s, p, m) =
                    Line(<<Part(s, p + 1, e), Part(s, e + 2, f)>>, Rest(s, f, m))
<1>1. ~(e - p >= KeySize) /\ ~(f - e - 1 >= ValueSize /\ f - e - 1 < ValueSize)
  BY Sizes
<1> DEFINE line == Line(<<Part(s, p + 1, e), Part(s, e + 2, f)>>, Rest(s, f, m))
<1>2. MeaningAfter(s, p, m) =
        CASE e - p >= KeySize -> Nothing("failed")
          [] e - p < KeySize /\ e = Len(s) ->
                Nothing(IF p = Len(s) THEN "ended" ELSE "refused")
          [] e - p < KeySize /\ e # Len(s) /\ f - e - 1 >= ValueSize -> Nothing("failed")
          [] OTHER -> line
  BY DEF MeaningAfter, Line, Rest, Part
<1> HIDE DEF line
<1>3. /\ f - e - 1 >= ValueSize => MeaningAfter(s, p, m) = Nothing("failed")
      /\ f - e - 1 < ValueSize => MeaningAfter(s, p, m) = line
  BY <1>1, <1>2
<1> QED
  BY <1>3 DEF line

(* A key that fills its buffer.                                             *)
LEMMA KeyTooLong ==
    ASSUME NEW s \in Seq(Byte), NEW p \in Nat, NEW m, NEW key \in Seq(Byte),
           At(key, s, p), ~Has(key, Equals), Len(key) = KeySize
    PROVE  MeaningAfter(s, p, m) = Nothing("failed")
<1> DEFINE e == EndOf(Equals, s, p)
<1>1. p \in 0..Len(s) /\ Len(s) \in Nat /\ KeySize \in Nat
  BY ReadBytes, Sizes
<1>2. p + KeySize <= e /\ e \in p..Len(s)
  BY <1>1, ReadBytes, EndNotBefore, EndFound
<1>3. e - p >= KeySize
  <2> HIDE DEF e
  <2> QED
    BY <1>1, <1>2
<1> QED
  BY <1>3 DEF MeaningAfter

(* The text ends in a key.                                                  *)
LEMMA KeyAtEnd ==
    ASSUME NEW s \in Seq(Byte), NEW p \in Nat, NEW m, NEW key \in Seq(Byte),
           At(key, s, p), ~Has(key, Equals), Len(key) < KeySize, p + Len(key) = Len(s)
    PROVE  MeaningAfter(s, p, m) = Nothing(IF key = <<>> THEN "ended" ELSE "refused")
<1>1. /\ p \in 0..Len(s) /\ Len(s) \in Nat /\ Len(key) \in Nat /\ KeySize \in Nat
      /\ Len(s) \in p..Len(s)
      /\ \A j \in p + 1 .. Len(s) : s[j] # Equals
  BY ReadBytes, Sizes
<1>2. EndOf(Equals, s, p) = Len(s)
  BY <1>1, EndIs
<1>3. Len(s) - p < KeySize /\ ~(Len(s) - p >= KeySize)
  BY <1>1
<1>4. p = Len(s) <=> key = <<>>
  BY <1>1, EmptySeq
<1> QED
  BY <1>2, <1>3, <1>4 DEF MeaningAfter

(* A key that fits and its "=".                                             *)
LEMMA KeyEnds ==
    ASSUME NEW s \in Seq(Byte), NEW p \in Nat, NEW key \in Seq(Byte),
           At(key, s, p), ~Has(key, Equals), Len(key) < KeySize,
           At(<<Equals>>, s, p + Len(key))
    PROVE  \E e \in Nat, q \in Nat :
              /\ e = p + Len(key) /\ q = e + 1 /\ Len(s) \in Nat
              /\ EndOf(Equals, s, p) = e /\ e # Len(s) /\ q \in 0..Len(s)
              /\ e - p < KeySize /\ Part(s, p + 1, e) = key
<1> DEFINE e == p + Len(key)
<1>1. /\ p \in 0..Len(s) /\ Len(s) \in Nat /\ Len(key) \in Nat /\ KeySize \in Nat
      /\ e \in p..Len(s) /\ e \in Nat /\ Part(s, p + 1, e) = key
      /\ \A j \in p + 1 .. e : s[j] # Equals
  BY ReadBytes, Sizes
<1>2. e + 1 <= Len(s) /\ s[e + 1] = Equals
  BY <1>1, OneAt
<1>3. e - p < KeySize
  BY <1>1
<1> HIDE DEF e
<1>4. EndOf(Equals, s, p) = e
  BY <1>1, <1>2, EndIs
<1>5. e # Len(s) /\ e + 1 \in 0..Len(s) /\ e + 1 \in Nat
  BY <1>1, <1>2
<1> QED
  BY <1>1, <1>3, <1>4, <1>5 DEF e

(* A value that fills its buffer.                                           *)
LEMMA ValueTooLong ==
    ASSUME NEW s \in Seq(Byte), NEW p \in Nat, NEW m, NEW key \in Seq(Byte),
           At(key, s, p), ~Has(key, Equals), Len(key) < KeySize,
           At(<<Equals>>, s, p + Len(key)),
           NEW value \in Seq(Byte), At(value, s, p + Len(key) + 1),
           ~Has(value, Newline), Len(value) = ValueSize
    PROVE  MeaningAfter(s, p, m) = Nothing("failed")
<1>1. PICK e \in Nat, q \in Nat :
         /\ e = p + Len(key) /\ q = e + 1 /\ Len(s) \in Nat
         /\ EndOf(Equals, s, p) = e /\ e # Len(s) /\ q \in 0..Len(s)
         /\ e - p < KeySize
  BY KeyEnds
<1> DEFINE f == EndOf(Newline, s, q)
<1>2. ValueSize \in Nat
  BY Sizes
<1>3. At(value, s, q)
  BY <1>1
<1>4. /\ q + ValueSize \in q..Len(s)
      /\ \A j \in q + 1 .. q + ValueSize : s[j] # Newline
  BY <1>3, ReadBytes
<1>5. q + ValueSize <= f /\ f \in q..Len(s)
  BY <1>1, <1>4, EndNotBefore, EndFound
<1> HIDE DEF f
<1>6. f \in Nat /\ f - e - 1 >= ValueSize
  BY <1>1, <1>2, <1>5
<1>7. EndOf(Newline, s, e + 1) = f
  BY <1>1 DEF f
<1> QED
  BY <1>1, <1>6, <1>7, ValueMeans

(* A line whose key and value fit.                                          *)
LEMMA LineMeans ==
    ASSUME NEW s \in Seq(Byte), NEW p \in Nat, NEW m, NEW key \in Seq(Byte),
           At(key, s, p), ~Has(key, Equals), Len(key) < KeySize,
           At(<<Equals>>, s, p + Len(key)),
           NEW value \in Seq(Byte), At(value, s, p + Len(key) + 1),
           ~Has(value, Newline), Len(value) < ValueSize,
           p + Len(key) + 1 + Len(value) < Len(s) =>
              s[p + Len(key) + 1 + Len(value) + 1] = Newline
    PROVE  MeaningAfter(s, p, m) =
              Line(<<key, value>>, Rest(s, p + Len(key) + 1 + Len(value), m))
<1>1. PICK e \in Nat, q \in Nat :
         /\ e = p + Len(key) /\ q = e + 1 /\ Len(s) \in Nat
         /\ EndOf(Equals, s, p) = e /\ e # Len(s) /\ q \in 0..Len(s)
         /\ e - p < KeySize /\ Part(s, p + 1, e) = key
  BY KeyEnds
<1>2. ValueSize \in Nat /\ Len(value) \in Nat
  BY Sizes, LenProperties
<1> DEFINE f == q + Len(value)
<1>3. At(value, s, q) /\ p + Len(key) + 1 + Len(value) = f
  BY <1>1
<1>4. /\ f \in q..Len(s) /\ \A j \in q + 1 .. f : s[j] # Newline
      /\ Part(s, q + 1, f) = value
  BY <1>3, ReadBytes
<1>5. f < Len(s) => s[f + 1] = Newline
  BY <1>3
<1>6. f \in Nat /\ f - e - 1 < ValueSize /\ q + 1 = e + 2
  BY <1>1, <1>2
<1> HIDE DEF f
<1>7. EndOf(Newline, s, q) = f
  BY <1>1, <1>4, <1>5, EndIs
<1>8. EndOf(Newline, s, e + 1) = f
  BY <1>1, <1>7
<1>9. MeaningAfter(s, p, m) =
        Line(<<Part(s, p + 1, e), Part(s, e + 2, f)>>, Rest(s, f, m))
  BY <1>1, <1>2, <1>6, <1>8, ValueMeans
<1> QED
  BY <1>1, <1>3, <1>4, <1>6, <1>9

-----------------------------------------------------------------------------
(* The parser does what the text means.                                     *)

(* The callbacks made and what the text says after the last line read are   *)
(* what the text means; m is what it says after each position.              *)
MeantSoFar(m) ==
    IF Finished
    THEN pairs = m[0].pairs /\ pc = m[0].end
    ELSE \E from \in 0..pos :
            /\ RestRead(from)
            /\ m[0].pairs = pairs \o m[from].pairs /\ m[0].end = m[from].end

Meant ==
    \E m \in [0..Len(input) -> Result] :
        /\ Meaning(input) = m[0]
        /\ \A p \in 0..Len(input) : m[p] = MeaningAfter(input, p, m)
        /\ MeantSoFar(m)

(* Nothing has been called back, and everything is still to be read.        *)
LEMMA InitMeant == Init => Meant
<1> SUFFICES ASSUME Init PROVE Meant
  OBVIOUS
<1>1. /\ input \in Seq(Byte) /\ Len(input) \in Nat /\ ~hasKey /\ kbuf = <<>>
      /\ pairs = <<>> /\ pos = 0 /\ ~Finished
  BY InputsAssumption, LenProperties DEF Init, Finished
<1>2. PICK m \in [0..Len(input) -> Result] :
         /\ Meaning(input) = m[0]
         /\ \A p \in 0..Len(input) : m[p] = MeaningAfter(input, p, m)
  BY <1>1, MeaningIs
<1>3. RestRead(0)
  <2>1. Len(<<>>) = 0
    OBVIOUS
  <2> QED
    BY <1>1, <2>1, NoneAt DEF RestRead
<1>4. m[0].pairs = pairs \o m[0].pairs
  <2>1. m[0].pairs \in Seq(Pair)
    BY <1>1 DEF Result
  <2> QED
    BY <1>1, <2>1, ConcatEmptySeq
<1>5. MeantSoFar(m)
  BY <1>1, <1>3, <1>4 DEF MeantSoFar
<1> QED
  BY <1>2, <1>5 DEF Meant

(* A pair called back is the first of those the text still has.             *)
LEMMA OnePairMore ==
    ASSUME NEW done \in Seq(Pair), NEW pair \in Pair, NEW rest \in Seq(Pair)
    PROVE  done \o (<<pair>> \o rest) = Append(done, pair) \o rest
<1>1. <<pair>> \in Seq(Pair)
  OBVIOUS
<1> QED
  BY <1>1, AppendIsConcat, ConcatAssociative

(* Every step does what the text means.                                     *)
LEMMA StepMeant ==
    ASSUME TypeOK, Safe, [Next]_vars,
           NEW m \in [0..Len(input) -> Result],
           \A p \in 0..Len(input) : m[p] = MeaningAfter(input, p, m),
           MeantSoFar(m)
    PROVE  MeantSoFar(m)'
<1> USE DEF parser
<1>a. /\ input \in Seq(Byte) /\ Len(input) \in Nat
      /\ pos \in Nat /\ pos <= Len(input)
      /\ stop \in Nat /\ stop <= Len(input)
      /\ kbuf \in Seq(Byte) /\ vbuf \in Seq(Byte) /\ hasKey \in BOOLEAN
      /\ Len(kbuf) \in Nat /\ Len(vbuf) \in Nat
  BY Counts
<1>b. pairs \in Seq(Pair) /\ <<kbuf, vbuf>> \in Pair
  BY <1>a DEF TypeOK, Pair
<1>c. /\ input' = input
      /\ hasKey => Len(kbuf) < KeySize
      /\ hasKey /\ pc # "failed" => Len(vbuf) < ValueSize
      /\ ~hasKey /\ pc # "failed" => Len(kbuf) < KeySize
  BY Destination DEF Next, AddBegin, StoreByte, KeyFound, ValueFound, AddEnd, End, vars,
     Safe, InBounds
<1>1. CASE UNCHANGED vars
  BY <1>1 DEF vars, MeantSoFar, Finished, RestRead, ReadsPair
<1>2. ASSUME ~UNCHANGED vars
      PROVE  /\ ~Finished
             /\ \E from \in 0..pos :
                   /\ RestRead(from)
                   /\ m[0].pairs = pairs \o m[from].pairs /\ m[0].end = m[from].end
  BY <1>2 DEF Next, AddBegin, StoreByte, KeyFound, ValueFound, AddEnd, End, Finished,
     MeantSoFar
<1>3. ASSUME ~UNCHANGED vars, NEW from \in 0..pos, RestRead(from),
             m[0].pairs = pairs \o m[from].pairs, m[0].end = m[from].end
      PROVE  MeantSoFar(m)'
  <2>a. from \in Nat /\ from <= pos /\ from \in 0..Len(input)
    BY <1>a
  <2>b. m[from] = MeaningAfter(input, from, m)
    BY <2>a
  <2>1. ASSUME NEW n \in 1..Len(input), AddBegin(n) PROVE MeantSoFar(m)'
    BY <1>3, <2>1 DEF AddBegin, MeantSoFar, Finished, RestRead, ReadsPair
  <2>2. CASE AddEnd
    BY <1>3, <2>2 DEF AddEnd, MeantSoFar, Finished, RestRead, ReadsPair
  <2>3. CASE StoreByte
    <3>1. /\ RestRead(from)' /\ pairs' = pairs /\ from \in 0..pos'
          /\ pc' \in {"add", "failed"} /\ (pc' = "failed" => Len(Dst') = DstSize')
      BY <1>a, <1>3, <2>a, <2>3, StoreByteReads DEF StoreByte
    <3>2. CASE pc' = "add"
      BY <1>3, <3>1, <3>2 DEF MeantSoFar, Finished
    <3>3. CASE pc' = "failed"
      <4>1. kbuf' \in Seq(Byte) /\ vbuf' \in Seq(Byte)
        BY StepSafe DEF Safe, Buffers
      <4>2. m[from] = Nothing("failed")
        <5>1. CASE hasKey
          <6>1. /\ hasKey' /\ kbuf' = kbuf /\ Len(vbuf') = ValueSize
            BY <2>3, <3>1, <3>3, <5>1, Destination DEF StoreByte
          <6>2. /\ ~Has(kbuf, Equals) /\ ~Has(vbuf', Newline)
                /\ At(kbuf, input, from) /\ At(<<Equals>>, input, from + Len(kbuf))
                /\ At(vbuf', input, from + Len(kbuf) + 1)
            BY <1>c, <3>1, <6>1 DEF RestRead, ReadsPair
          <6> QED
            BY <1>a, <1>c, <2>a, <2>b, <4>1, <5>1, <6>1, <6>2, ValueTooLong
        <5>2. CASE ~hasKey
          <6>1. ~hasKey' /\ Len(kbuf') = KeySize
            BY <2>3, <3>1, <3>3, <5>2, Destination DEF StoreByte
          <6>2. ~Has(kbuf', Equals) /\ At(kbuf', input, from)
            BY <1>c, <3>1, <6>1 DEF RestRead
          <6> QED
            BY <1>a, <2>a, <2>b, <4>1, <6>1, <6>2, KeyTooLong
        <5> QED
          BY <5>1, <5>2
      <4>3. m[0].pairs = pairs /\ m[0].end = "failed"
        BY <1>b, <1>3, <4>2, ConcatEmptySeq DEF Nothing
      <4> QED
        BY <3>1, <3>3, <4>3 DEF MeantSoFar, Finished
    <3> QED
      BY <3>1, <3>2, <3>3
  <2>4. CASE KeyFound
    <3>1. RestRead(from)' /\ pairs' = pairs /\ from \in 0..pos' /\ pc' = "add"
      BY <1>a, <1>3, <2>a, <2>4, KeyFoundReads DEF KeyFound
    <3> QED
      BY <1>3, <3>1 DEF MeantSoFar, Finished
  <2>5. CASE ValueFound
    <3>0. PICK next \in Nat : next = pos + 1
      BY <1>a
    <3>1. /\ pc = "add" /\ pc' = "add" /\ pos < stop /\ pos' = next /\ hasKey
          /\ pairs' = Append(pairs, <<kbuf, vbuf>>) /\ input[pos + 1] = Newline
      BY <2>5, <3>0, Counts DEF ValueFound, Next1
    <3>2. RestRead(next)'
      BY <2>5, <3>0, ValueFoundReads
    <3>3. next \in 0..pos' /\ next \in 0..Len(input) /\ pos < Len(input) /\ pos # Len(input)
      BY <1>a, <3>0, <3>1
    <3>4. /\ ~Has(kbuf, Equals) /\ ~Has(vbuf, Newline)
          /\ At(kbuf, input, from) /\ At(<<Equals>>, input, from + Len(kbuf))
          /\ At(vbuf, input, from + Len(kbuf) + 1)
          /\ pos = from + Len(kbuf) + 1 + Len(vbuf)
      BY <1>3, <3>1 DEF RestRead, ReadsPair
    <3>5. m[from] = Line(<<kbuf, vbuf>>, m[next])
      <4>1. Len(kbuf) < KeySize /\ Len(vbuf) < ValueSize
        BY <1>c, <3>1
      <4>2. input[from + Len(kbuf) + 1 + Len(vbuf) + 1] = Newline
        BY <3>1, <3>4
      <4>3. MeaningAfter(input, from, m) =
              Line(<<kbuf, vbuf>>, Rest(input, from + Len(kbuf) + 1 + Len(vbuf), m))
        BY <1>a, <2>a, <3>4, <4>1, <4>2, LineMeans
      <4>4. Rest(input, pos, m) = m[next]
        BY <3>0, <3>3 DEF Rest
      <4> QED
        BY <2>b, <3>4, <4>3, <4>4
    <3>6. /\ m[next].pairs \in Seq(Pair) /\ m[from].end = m[next].end
          /\ m[from].pairs = <<<<kbuf, vbuf>>>> \o m[next].pairs
      BY <3>3, <3>5 DEF Result, Line
    <3>7. m[0].pairs = pairs' \o m[next].pairs /\ m[0].end = m[next].end
      <4>1. pairs \o (<<<<kbuf, vbuf>>>> \o m[next].pairs)
              = Append(pairs, <<kbuf, vbuf>>) \o m[next].pairs
        BY <1>b, <3>6, OnePairMore
      <4> QED
        BY <1>3, <3>1, <3>6, <4>1
    <3> QED
      BY <3>1, <3>2, <3>3, <3>7 DEF MeantSoFar, Finished
  <2>6. CASE End
    <3>1. pc = "idle" /\ pos = Len(input)
      BY <2>6 DEF End
    <3>2. CASE hasKey
      <4>1. pairs' = Append(pairs, <<kbuf, vbuf>>) /\ pc' = "ended"
        BY <2>6, <3>2 DEF End
      <4>2. /\ ~Has(kbuf, Equals) /\ ~Has(vbuf, Newline)
            /\ At(kbuf, input, from) /\ At(<<Equals>>, input, from + Len(kbuf))
            /\ At(vbuf, input, from + Len(kbuf) + 1)
            /\ pos = from + Len(kbuf) + 1 + Len(vbuf)
        BY <1>3, <3>2 DEF RestRead, ReadsPair
      <4>3. m[from] = Line(<<kbuf, vbuf>>, Nothing("ended"))
        <5>1. Len(kbuf) < KeySize /\ Len(vbuf) < ValueSize
          BY <1>c, <3>1, <3>2
        <5>2. from + Len(kbuf) + 1 + Len(vbuf) < Len(input) =>
                input[from + Len(kbuf) + 1 + Len(vbuf) + 1] = Newline
          BY <1>a, <3>1, <4>2
        <5>3. MeaningAfter(input, from, m) =
                Line(<<kbuf, vbuf>>, Rest(input, from + Len(kbuf) + 1 + Len(vbuf), m))
          BY <1>a, <2>a, <4>2, <5>1, <5>2, LineMeans
        <5>4. Rest(input, pos, m) = Nothing("ended")
          BY <3>1 DEF Rest
        <5> QED
          BY <2>b, <4>2, <5>3, <5>4
      <4>4. m[0].pairs = pairs \o (<<<<kbuf, vbuf>>>> \o <<>>) /\ m[0].end = "ended"
        BY <1>3, <4>3 DEF Line, Nothing
      <4>5. <<>> \in Seq(Pair) /\ pairs' \in Seq(Pair)
        BY <1>b, <4>1, EmptySeq, AppendProperties
      <4>6. m[0].pairs = pairs'
        BY <1>b, <4>1, <4>4, <4>5, OnePairMore, ConcatEmptySeq
      <4> QED
        BY <4>1, <4>4, <4>6 DEF MeantSoFar, Finished
    <3>3. CASE ~hasKey
      <4>1. pairs' = pairs /\ pc' = IF kbuf = <<>> THEN "ended" ELSE "refused"
        BY <2>6, <3>3 DEF End
      <4>2. ~Has(kbuf, Equals) /\ At(kbuf, input, from) /\ pos = from + Len(kbuf)
        BY <1>3, <3>3 DEF RestRead
      <4>3. m[from] = Nothing(IF kbuf = <<>> THEN "ended" ELSE "refused")
        BY <1>a, <1>c, <2>a, <2>b, <3>1, <3>3, <4>2, KeyAtEnd
      <4>4. m[0].pairs = pairs /\ m[0].end = pc'
        BY <1>b, <1>3, <4>1, <4>3, ConcatEmptySeq DEF Nothing
      <4>5. pc' \in {"ended", "refused"}
        BY <4>1
      <4> QED
        BY <4>1, <4>4, <4>5 DEF MeantSoFar, Finished
    <3> QED
      BY <3>2, <3>3
  <2> QED
    BY <1>3, <2>1, <2>2, <2>3, <2>4, <2>5, <2>6 DEF Next
<1> QED
  BY <1>1, <1>2, <1>3

(* Whatever the text, the sizes of the buffers and the cut into chunks, the *)
(* callbacks and the result of the incremental parser are those of the text *)
(* read as a whole, and the callbacks made before the end are the first of  *)
(* them.                                                                    *)
THEOREM ParsesToMeaning == Spec => []ParsesMeaning
<1>1. TypeOK /\ Safe /\ Meant /\ [Next]_vars => Meant'
  <2> SUFFICES ASSUME TypeOK, Safe, Meant, [Next]_vars PROVE Meant'
    OBVIOUS
  <2>1. input' = input
    BY DEF Next, AddBegin, StoreByte, KeyFound, ValueFound, AddEnd, End, vars, parser
  <2>2. PICK m \in [0..Len(input) -> Result] :
           /\ Meaning(input) = m[0]
           /\ \A p \in 0..Len(input) : m[p] = MeaningAfter(input, p, m)
           /\ MeantSoFar(m)
    BY DEF Meant
  <2>3. MeantSoFar(m)'
    BY <2>2, StepMeant
  <2> QED
    BY <2>1, <2>2, <2>3 DEF Meant
<1>2. TypeOK /\ Safe /\ Meant => ParsesMeaning
  <2> SUFFICES ASSUME TypeOK, Safe, Meant PROVE ParsesMeaning
    OBVIOUS
  <2>1. PICK m \in [0..Len(input) -> Result] : Meaning(input) = m[0] /\ MeantSoFar(m)
    BY DEF Meant
  <2>2. \E rest \in Seq(Pair) : m[0].pairs = pairs \o rest
    <3>1. CASE Finished
      <4>1. m[0].pairs = pairs /\ pairs \in Seq(Pair) /\ <<>> \in Seq(Pair)
        BY <2>1, <3>1, EmptySeq DEF MeantSoFar, TypeOK, Pair
      <4> QED
        BY <4>1, ConcatEmptySeq
    <3>2. CASE ~Finished
      <4>1. PICK from \in 0..pos : m[0].pairs = pairs \o m[from].pairs
        BY <2>1, <3>2 DEF MeantSoFar
      <4>2. m[from].pairs \in Seq(Pair)
        BY Counts DEF Result
      <4> QED
        BY <4>1, <4>2
    <3> QED
      BY <3>1, <3>2
  <2>3. At(pairs, m[0].pairs, 0)
    <3>1. PICK rest \in Seq(Pair) : m[0].pairs = pairs \o rest
      BY <2>2
    <3>2. pairs \in Seq(Pair)
      BY DEF TypeOK, Pair
    <3>3. /\ Len(pairs) \in Nat /\ Len(rest) \in Nat
          /\ Len(pairs \o rest) = Len(pairs) + Len(rest)
          /\ \A i \in 1 .. Len(pairs) + Len(rest) :
                (pairs \o rest)[i] = IF i <= Len(pairs) THEN pairs[i] ELSE rest[i - Len(pairs)]
      BY <3>2, LenProperties, ConcatProperties
    <3>4. \A j \in 1..Len(pairs) : (pairs \o rest)[0 + j] = pairs[j]
      BY <3>3
    <3>5. 0 + Len(pairs) <= Len(pairs \o rest)
      BY <3>3
    <3> QED
      BY <3>1, <3>4, <3>5 DEF At
  <2> QED
    BY <2>1, <2>3 DEF ParsesMeaning, MeantSoFar
<1> QED
  BY <1>1, <1>2, InitMeant, InitType, InitSafe, StepType, StepSafe, PTL DEF Spec

-----------------------------------------------------------------------------
(* What the loop of config_store leaves in a file.                          *)

(* text[i] is what the file holds after i lines.                            *)
Written(line, text, n) ==
    /\ text \in [0..n -> Seq(Byte)] /\ text[0] = <<>>
    /\ \A i \in 1..n : line[i] \in Seq(Byte) /\ text[i] = text[i - 1] \o line[i]

(* A line stays where it was written.                                       *)
Stay(line, text, i) ==
    /\ \A j \in 0..i : Len(text[j]) <= Len(text[i])
    /\ \A j \in 1..i : At(line[j], text[i], Len(text[j - 1]))

(* What stands in a text stays when a line is put behind it.                *)
LEMMA AppendKeeps ==
    ASSUME NEW before \in Seq(Byte), NEW last \in Seq(Byte), NEW after,
           after = before \o last
    PROVE  /\ Len(before) \in Nat /\ Len(after) \in Nat /\ Len(before) <= Len(after)
           /\ Len(after) = Len(before) + Len(last)
           /\ At(last, after, Len(before))
           /\ \A s \in Seq(Byte), from \in Nat : At(s, before, from) => At(s, after, from)
<1> DEFINE b == Len(before)
           n == Len(last)
<1>1. b \in Nat /\ n \in Nat
  BY LenProperties
<1>2. /\ Len(after) = b + n
      /\ \A j \in 1 .. b + n : after[j] = IF j <= b THEN before[j] ELSE last[j - b]
  BY ConcatProperties
<1> HIDE DEF b, n
<1>3. Len(after) \in Nat /\ b <= Len(after) /\ b + n <= Len(after)
  BY <1>1, <1>2
<1>4. ASSUME NEW j \in 1..n PROVE after[b + j] = last[j]
  <2>1. b + j \in 1 .. b + n /\ ~(b + j <= b) /\ (b + j) - b = j
    BY <1>1
  <2> QED
    BY <1>2, <2>1
<1>5. ASSUME NEW s \in Seq(Byte), NEW from \in Nat, At(s, before, from)
      PROVE  At(s, after, from)
  <2> DEFINE len == Len(s)
  <2>1. len \in Nat
    BY LenProperties
  <2>2. from + len <= b /\ \A j \in 1..len : before[from + j] = s[j]
    BY <1>5 DEF At, b
  <2> HIDE DEF len
  <2>3. from + len <= Len(after)
    BY <1>1, <1>3, <2>1, <2>2
  <2>4. ASSUME NEW j \in 1..len PROVE after[from + j] = s[j]
    <3>1. from + j \in 1 .. b + n /\ from + j <= b
      BY <1>1, <2>1, <2>2
    <3> QED
      BY <1>2, <2>2, <3>1
  <2> QED
    BY <2>3, <2>4 DEF At, len
<1> QED
  BY <1>1, <1>2, <1>3, <1>4, <1>5 DEF At, b, n

(* One more line is appended.                                               *)
LEMMA AppendLine ==
    ASSUME NEW line, NEW text, NEW n \in Nat, Written(line, text, n),
           NEW i \in 0 .. n - 1, Stay(line, text, i)
    PROVE  Stay(line, text, i + 1)
<1>1. PICK k \in 1..n :
         /\ k = i + 1 /\ k - 1 = i /\ i \in 0..n /\ k \in 0..n
         /\ \A j \in 0..k : j \in 0..i \/ j = k
         /\ \A j \in 1..k : j \in 1..i \/ j = k
         /\ \A j \in 1..i : j \in 1..n /\ j - 1 \in 0..n
         /\ \A j \in 0..i : j \in 0..n
  <2>1. i + 1 \in 1..n /\ (i + 1) - 1 = i
    OBVIOUS
  <2> QED
    BY <2>1
<1> DEFINE before == text[i]
           after == text[k]
<1>2. /\ before \in Seq(Byte) /\ line[k] \in Seq(Byte) /\ after = before \o line[k]
      /\ \A j \in 0..n : Len(text[j]) \in Nat
      /\ \A j \in 1..n : line[j] \in Seq(Byte)
  <2>1. \A j \in 0..n : text[j] \in Seq(Byte)
    BY DEF Written
  <2>2. \A j \in 0..n : Len(text[j]) \in Nat
    BY <2>1, LenProperties
  <2>3. \A j \in 1..n : line[j] \in Seq(Byte) /\ text[j] = text[j - 1] \o line[j]
    BY DEF Written
  <2> QED
    BY <1>1, <2>1, <2>2, <2>3
<1>3. /\ \A j \in 0..i : Len(text[j]) <= Len(before)
      /\ \A j \in 1..i : At(line[j], before, Len(text[j - 1]))
  BY DEF Stay
<1> HIDE DEF before, after
<1>4. /\ Len(before) \in Nat /\ Len(after) \in Nat /\ Len(before) <= Len(after)
      /\ At(line[k], after, Len(before))
      /\ \A s \in Seq(Byte), from \in Nat : At(s, before, from) => At(s, after, from)
  BY <1>2, AppendKeeps
<1>5. ASSUME NEW j \in 0..k PROVE Len(text[j]) <= Len(after)
  <2>1. CASE j \in 0..i
    <3> DEFINE len == Len(text[j])
    <3>1. len \in Nat /\ len <= Len(before)
      BY <1>1, <1>2, <1>3, <2>1
    <3> HIDE DEF len
    <3>2. len <= Len(after)
      BY <1>4, <3>1
    <3> QED
      BY <3>2 DEF len
  <2>2. CASE j = k
    <3>1. Len(after) <= Len(after)
      BY <1>4
    <3> QED
      BY <2>2, <3>1 DEF after
  <2> QED
    BY <1>1, <2>1, <2>2
<1>6. ASSUME NEW j \in 1..k PROVE At(line[j], after, Len(text[j - 1]))
  <2>1. CASE j \in 1..i
    BY <1>1, <1>2, <1>3, <1>4, <2>1
  <2>2. CASE j = k
    BY <1>1, <1>4, <2>2 DEF before
  <2> QED
    BY <1>1, <2>1, <2>2
<1> QED
  BY <1>1, <1>5, <1>6 DEF Stay, after

(* However many are appended.                                               *)
LEMMA LinesAreThere ==
    ASSUME NEW line, NEW text, NEW n \in Nat, Written(line, text, n)
    PROVE  Stay(line, text, n)
<1> DEFINE T == {i \in Nat : i <= n => Stay(line, text, i)}
<1>1. 0 \in T
  <2>1. \A j \in 0..0 : j = 0
    OBVIOUS
  <2>2. Len(text[0]) <= Len(text[0])
    BY EmptySeq DEF Written
  <2>3. \A j \in 1..0 : FALSE
    OBVIOUS
  <2> QED
    BY <2>1, <2>2, <2>3 DEF Stay
<1>2. ASSUME NEW i \in Nat, i \in T PROVE i + 1 \in T
  <2>1. CASE i + 1 <= n
    <3>1. i \in 0 .. n - 1 /\ i <= n
      BY <2>1
    <3> QED
      BY <1>2, <3>1, AppendLine
  <2> QED
    BY <2>1
<1> HIDE DEF T
<1>3. n \in T
  BY <1>1, <1>2, InductionOverSet
<1> QED
  BY <1>3 DEF T

(* An item of the configuration that config_load can take back.             *)
Fits(key, value) ==
    /\ Len(key) < KeySize /\ ~Has(key, Equals)
    /\ Len(value) < ValueSize /\ ~Has(value, Newline)
    /\ WriteStr(LineSize, key, value) # <<>>

(* What the loop of config_store leaves behind for items that fit (main.cpp *)
(* 99-115), the lines appended one by one, is a file in the sense of        *)
(* IsFile, and so one that is read back: what FilesAssumption asks for is   *)
(* what the code writes, for any number of items of any length.             *)
THEOREM WrittenIsFile ==
    ASSUME NEW items \in Seq(Seq(Byte) \X Seq(Byte)), NEW text,
           Written([i \in 1..Len(items) |-> WriteStr(LineSize, items[i][1], items[i][2])],
                   text, Len(items)),
           \A i \in 1..Len(items) : Fits(items[i][1], items[i][2])
    PROVE  IsFile([items |-> items, text |-> text[Len(items)],
                   lineAt |-> [i \in 1..Len(items) + 1 |-> Len(text[i - 1])]])
<1> DEFINE n == Len(items)
           line == [i \in 1..n |-> WriteStr(LineSize, items[i][1], items[i][2])]
           lineAt == [i \in 1..n + 1 |-> Len(text[i - 1])]
           file == [items |-> items, text |-> text[n], lineAt |-> lineAt]
<1>1. n \in Nat
  BY LenProperties
<1>2. Written(line, text, n)
  OBVIOUS
<1>3. \A i \in 1..n : line[i] = WriteStr(LineSize, items[i][1], items[i][2])
  OBVIOUS
<1>4. /\ file.items = items /\ file.text = text[n] /\ file.lineAt = lineAt
      /\ Len(file.items) = n
  OBVIOUS
<1>5. \A i \in 1 .. n + 1 : lineAt[i] = Len(text[i - 1])
  OBVIOUS
<1>a. lineAt = [i \in 1 .. n + 1 |-> Len(text[i - 1])]
  OBVIOUS
<1> HIDE DEF n, line, lineAt, file
<1>6. Stay(line, text, n)
  BY <1>1, <1>2, LinesAreThere
<1>7. /\ \A i \in 0..n : text[i] \in Seq(Byte)
      /\ \A i \in 1..n : line[i] \in Seq(Byte) /\ text[i] = text[i - 1] \o line[i]
  BY <1>2 DEF Written
<1>8. \A i \in 0..n : Len(text[i]) \in Nat
  BY <1>7, LenProperties
<1>9. lineAt \in [1 .. n + 1 -> 0..Len(text[n])]
  <2>1. ASSUME NEW i \in 1 .. n + 1 PROVE Len(text[i - 1]) \in 0..Len(text[n])
    <3>1. i - 1 \in 0..n /\ n \in 0..n
      BY <1>1
    <3>2. Len(text[i - 1]) <= Len(text[n])
      BY <1>6, <3>1 DEF Stay
    <3> QED
      BY <1>8, <3>1, <3>2
  <2> QED
    BY <1>a, <2>1
<1>10. lineAt[1] = 0 /\ lineAt[n + 1] = Len(text[n])
  <2>1. 1 \in 1 .. n + 1 /\ n + 1 \in 1 .. n + 1 /\ 1 - 1 = 0 /\ (n + 1) - 1 = n
    BY <1>1
  <2>2. Len(text[0]) = 0
    BY <1>2, EmptySeq DEF Written
  <2> QED
    BY <1>5, <2>1, <2>2
<1>11. ASSUME NEW i \in 1..n
       PROVE  /\ At(line[i], text[n], lineAt[i])
              /\ lineAt[i + 1] = lineAt[i] + Len(line[i])
  <2>1. /\ i \in 1 .. n + 1 /\ i + 1 \in 1 .. n + 1 /\ (i + 1) - 1 = i
        /\ i \in 0..n /\ i - 1 \in 0..n
    BY <1>1
  <2>2. lineAt[i] = Len(text[i - 1]) /\ lineAt[i + 1] = Len(text[i])
    BY <1>5, <2>1
  <2>3. Len(text[i]) = Len(text[i - 1]) + Len(line[i])
    BY <1>7, <2>1, AppendKeeps
  <2> QED
    BY <1>6, <2>2, <2>3 DEF Stay
<1>12. text[n] \in Seq(Byte)
  BY <1>1, <1>7
<1>13. \A i \in 1..n : Fits(items[i][1], items[i][2])
  BY DEF n
<1>14. IsFile(file)
  BY <1>3, <1>4, <1>9, <1>10, <1>11, <1>12, <1>13 DEF IsFile, Fits
<1> QED
  BY <1>14 DEF file, lineAt, n

=============================================================================
