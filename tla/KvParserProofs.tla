--------------------------- MODULE KvParserProofs ---------------------------
(***************************************************************************)
(* Proofs about KvParser: for any text, any chunks and any buffer sizes,   *)
(* the parser stays inside its buffers, reads line by line what the text   *)
(* says, and reads back what config_store writes.                          *)
(***************************************************************************)
EXTENDS KvParser, SequenceTheorems, TLAPS

(* What TypeOK and the two invariants need of the buffers and the counters. *)
Buffers ==
    /\ input \in Seq(Byte)
    /\ pos \in Nat
    /\ stop \in Nat /\ stop <= Len(input)
    /\ hasKey \in BOOLEAN
    /\ kbuf \in Seq(Byte) /\ vbuf \in Seq(Byte)
    /\ space \in Int

(* The inductive invariant: the buffer that is not being filled is within   *)
(* its size too, and has room for its NUL.                                  *)
Safe ==
    /\ Buffers
    /\ InBounds
    /\ SpaceIsExact
    /\ hasKey => Len(kbuf) < KeySize
    /\ ~hasKey => Len(vbuf) < ValueSize

(* Both buffers have room for a NUL.                                        *)
LEMMA Sizes ==
    /\ KeySize \in Nat /\ KeySize >= 1
    /\ ValueSize \in Nat /\ ValueSize >= 1
  BY SizesAssumption

(* The destination while a value is read, and while a key is read.          *)
LEMMA Destination ==
    /\ hasKey => Dst = vbuf /\ DstSize = ValueSize
    /\ ~hasKey => Dst = kbuf /\ DstSize = KeySize
    /\ hasKey' => Dst' = vbuf' /\ DstSize' = ValueSize
    /\ ~hasKey' => Dst' = kbuf' /\ DstSize' = KeySize
  BY DEF Dst, DstSize

(* kv_parser_init leaves the parser safe.                                   *)
LEMMA InitSafe == Init => Safe
  <1> SUFFICES ASSUME Init PROVE Safe
    OBVIOUS
  <1>1. input \in Seq(Byte) /\ Len(input) \in Nat
    BY InputsAssumption DEF Init
  <1>2. /\ kbuf \in Seq(Byte) /\ Len(kbuf) = 0
        /\ vbuf \in Seq(Byte) /\ Len(vbuf) = 0
    BY EmptySeq DEF Init
  <1>3. pos = 0 /\ stop = 0 /\ space = KeySize /\ pc = "idle"
    BY DEF Init
  <1>4. hasKey \in BOOLEAN /\ ~hasKey
    BY Zenon DEF Init
  <1>5. Dst = kbuf /\ DstSize = KeySize
    BY <1>4, Destination
  <1>6. pos \in Nat /\ stop \in Nat /\ stop <= Len(input) /\ space \in Int
    BY <1>1, <1>3, Sizes
  <1>7. Buffers
    BY <1>1, <1>2, <1>4, <1>6 DEF Buffers
  <1>8. InBounds /\ SpaceIsExact
    BY <1>2, <1>3, <1>5, Sizes DEF InBounds, SpaceIsExact
  <1> QED
    BY <1>2, <1>4, <1>7, <1>8, Sizes DEF Safe

(* Every step of the parser and its caller leaves it safe.                  *)
LEMMA StepSafe == Safe /\ [Next]_vars => Safe'
<1> SUFFICES ASSUME Safe, [Next]_vars PROVE Safe'
  OBVIOUS
<1> USE DEF parser
<1>a. /\ Len(kbuf) \in Nat /\ Len(vbuf) \in Nat /\ Len(input) \in Nat
      /\ kbuf \in Seq(Byte) /\ vbuf \in Seq(Byte)
      /\ pos \in Nat /\ stop \in Nat /\ space \in Int
  BY DEF Safe, Buffers
<1>b. input \in Seq(Byte) /\ stop <= Len(input) /\ hasKey \in BOOLEAN
  BY DEF Safe, Buffers
<1>c. /\ Len(kbuf) <= KeySize /\ Len(vbuf) <= ValueSize
      /\ pc # "failed" /\ hasKey => Len(vbuf) < ValueSize
      /\ pc # "failed" /\ ~hasKey => Len(kbuf) < KeySize
      /\ hasKey => Len(kbuf) < KeySize
      /\ ~hasKey => Len(vbuf) < ValueSize
  BY Destination DEF Safe, InBounds
<1>d. pc = "add" =>
        /\ hasKey => space = ValueSize - Len(vbuf)
        /\ ~hasKey => space = KeySize - Len(kbuf)
        /\ target = IF hasKey THEN Newline ELSE Equals
  BY Destination DEF Safe, SpaceIsExact
<1>1. ASSUME NEW n \in 1..Len(input), AddBegin(n) PROVE Safe'
  <2>1. Buffers'
    BY <1>1, <1>a, <1>b, <1>c, Destination, Sizes DEF AddBegin, Buffers
  <2>2. hasKey' = hasKey /\ Dst' = Dst /\ DstSize' = DstSize
    BY <1>1 DEF AddBegin, Dst, DstSize
  <2>3. SpaceIsExact'
    BY <1>1, <2>2 DEF AddBegin, SpaceIsExact
  <2>4. InBounds'
    BY <1>1, <2>2 DEF AddBegin, Safe, InBounds
  <2> QED
    BY <1>1, <1>c, <2>1, <2>3, <2>4 DEF AddBegin, Safe
<1>2. CASE StoreByte
  <2>1. Next1 \in Byte
    BY <1>2, <1>a, <1>b DEF StoreByte, Next1
  <2>2. CASE hasKey
    <3>1. vbuf' = Append(vbuf, Next1) /\ kbuf' = kbuf
      BY <1>2, <2>2 DEF StoreByte
    <3>2. vbuf' \in Seq(Byte) /\ Len(vbuf') = Len(vbuf) + 1
      BY <2>1, <3>1, <1>a, AppendProperties
    <3>3. /\ hasKey' /\ hasKey' = hasKey
          /\ Dst' = vbuf' /\ DstSize' = ValueSize
      BY <1>2, <2>2, Destination DEF StoreByte
    <3>4. space = ValueSize - Len(vbuf) /\ target = Newline
      BY <1>2, <2>2, <1>d DEF StoreByte
    <3>5. Buffers'
      BY <1>2, <1>a, <1>b, <3>1, <3>2, <3>3 DEF StoreByte, Buffers
    <3>6. InBounds' /\ SpaceIsExact'
      BY <1>2, <1>a, <1>c, <2>2, <3>1, <3>2, <3>3, <3>4, Sizes
      DEF StoreByte, InBounds, SpaceIsExact
    <3> QED
      BY <1>c, <2>2, <3>1, <3>3, <3>5, <3>6 DEF Safe
  <2>3. CASE ~hasKey
    <3>1. kbuf' = Append(kbuf, Next1) /\ vbuf' = vbuf
      BY <1>2, <2>3 DEF StoreByte
    <3>2. kbuf' \in Seq(Byte) /\ Len(kbuf') = Len(kbuf) + 1
      BY <2>1, <3>1, <1>a, AppendProperties
    <3>3. /\ ~hasKey' /\ hasKey' = hasKey
          /\ Dst' = kbuf' /\ DstSize' = KeySize
      BY <1>2, <2>3, Destination DEF StoreByte
    <3>4. space = KeySize - Len(kbuf) /\ target = Equals
      BY <1>2, <2>3, <1>d DEF StoreByte
    <3>5. Buffers'
      BY <1>2, <1>a, <1>b, <3>1, <3>2, <3>3 DEF StoreByte, Buffers
    <3>6. InBounds' /\ SpaceIsExact'
      BY <1>2, <1>a, <1>c, <2>3, <3>1, <3>2, <3>3, <3>4, Sizes
      DEF StoreByte, InBounds, SpaceIsExact
    <3> QED
      BY <1>c, <2>3, <3>1, <3>3, <3>5, <3>6 DEF Safe
  <2> QED
    BY <2>2, <2>3
<1>3. CASE KeyFound
  <2>1. vbuf' \in Seq(Byte) /\ Len(vbuf') = 0 /\ kbuf' = kbuf
    BY <1>3, EmptySeq DEF KeyFound
  <2>2. hasKey' /\ hasKey' \in BOOLEAN /\ Dst' = vbuf' /\ DstSize' = ValueSize
    BY <1>3, Destination DEF KeyFound
  <2>3. Buffers'
    BY <1>3, <1>a, <1>b, <2>1, <2>2, Sizes DEF KeyFound, Buffers
  <2>4. InBounds' /\ SpaceIsExact'
    BY <1>3, <1>c, <2>1, <2>2, Sizes DEF KeyFound, InBounds, SpaceIsExact
  <2>5. Len(kbuf) < KeySize
    BY <1>3, <1>c DEF KeyFound
  <2> QED
    BY <2>1, <2>2, <2>3, <2>4, <2>5 DEF Safe
<1>4. CASE ValueFound
  <2>1. kbuf' \in Seq(Byte) /\ Len(kbuf') = 0 /\ vbuf' = vbuf
    BY <1>4, EmptySeq DEF ValueFound
  <2>2. ~hasKey' /\ hasKey' \in BOOLEAN /\ Dst' = kbuf' /\ DstSize' = KeySize
    BY <1>4, Destination DEF ValueFound
  <2>3. Buffers'
    BY <1>4, <1>a, <1>b, <2>1, <2>2, Sizes DEF ValueFound, Buffers
  <2>4. InBounds' /\ SpaceIsExact'
    BY <1>4, <1>c, <2>1, <2>2, Sizes DEF ValueFound, InBounds, SpaceIsExact
  <2>5. Len(vbuf) < ValueSize
    BY <1>4, <1>c DEF ValueFound
  <2> QED
    BY <2>1, <2>2, <2>3, <2>4, <2>5 DEF Safe
<1>5. CASE AddEnd \/ End \/ UNCHANGED vars
  <2>1. /\ UNCHANGED <<input, pos, stop, parser, target, space>>
        /\ pc' = pc \/ (pc # "failed" /\ pc' # "failed" /\ pc' # "add")
    BY <1>5 DEF AddEnd, End, vars
  <2>2. Dst' = Dst /\ DstSize' = DstSize
    BY <2>1 DEF Dst, DstSize
  <2> QED
    BY <2>1, <2>2 DEF Safe, Buffers, InBounds, SpaceIsExact
<1> QED
  BY <1>1, <1>2, <1>3, <1>4, <1>5 DEF Next

(* No byte and no NUL is ever written past the end of kbuf or vbuf.         *)
THEOREM StaysInBounds == Spec => []InBounds
<1>1. Safe => InBounds
  BY DEF Safe
<1> QED
  BY <1>1, InitSafe, StepSafe, PTL DEF Spec

(* The countdown of dstspc is right across chunk boundaries.                *)
THEOREM CountsSpace == Spec => []SpaceIsExact
<1>1. Safe => SpaceIsExact
  BY DEF Safe
<1> QED
  BY <1>1, InitSafe, StepSafe, PTL DEF Spec

-----------------------------------------------------------------------------
(* Type correctness.                                                        *)

(* kv_parser_init leaves every variable in its type.                        *)
LEMMA InitType == Init => TypeOK
<1> SUFFICES ASSUME Init PROVE TypeOK
  OBVIOUS
<1>1. input \in Inputs /\ Len(input) \in Nat
  BY InputsAssumption DEF Init
<1>2. hasKey \in BOOLEAN
  BY Zenon DEF Init
<1>3. <<>> \in Seq(Byte) /\ <<>> \in Seq(Seq(Byte) \X Seq(Byte))
  BY EmptySeq
<1>4. space \in 0..KeySize
  BY Sizes DEF Init
<1> QED
  BY <1>1, <1>2, <1>3, <1>4 DEF Init, TypeOK

(* So does every step of a parser that is safe.                             *)
LEMMA StepType == TypeOK /\ Safe /\ [Next]_vars => TypeOK'
<1> SUFFICES ASSUME TypeOK, Safe, [Next]_vars PROVE TypeOK'
  OBVIOUS
<1> USE DEF parser
<1>a. /\ Len(input) \in Nat /\ pos \in Nat /\ stop \in Nat
      /\ pos <= Len(input) /\ stop <= Len(input)
      /\ Len(kbuf) \in Nat /\ Len(vbuf) \in Nat /\ hasKey \in BOOLEAN
  BY DEF Safe, Buffers, TypeOK
<1>b. pc # "failed" =>
        /\ hasKey => Len(vbuf) < ValueSize
        /\ ~hasKey => Len(kbuf) < KeySize
  BY Destination DEF Safe, InBounds
<1>c. pc = "add" =>
        /\ hasKey => space = ValueSize - Len(vbuf)
        /\ ~hasKey => space = KeySize - Len(kbuf)
  BY Destination DEF Safe, SpaceIsExact
<1>d. kbuf' \in Seq(Byte) /\ vbuf' \in Seq(Byte) /\ hasKey' \in BOOLEAN
  BY StepSafe DEF Safe, Buffers
<1>1. input' = input
  BY DEF Next, AddBegin, StoreByte, KeyFound, ValueFound, AddEnd, End, vars
<1>2. pos' \in 0..Len(input') /\ stop' \in 0..Len(input')
  BY <1>1, <1>a DEF Next, AddBegin, StoreByte, KeyFound, ValueFound, AddEnd, End, vars, TypeOK
<1>3. target' \in {Equals, Newline}
  BY DEF Next, AddBegin, StoreByte, KeyFound, ValueFound, AddEnd, End, vars, TypeOK
<1>4. pc' \in {"idle", "add", "failed", "ended", "refused"}
  BY DEF Next, AddBegin, StoreByte, KeyFound, ValueFound, AddEnd, End, vars, TypeOK
<1>5. space' \in 0..KeySize \cup 0..ValueSize
  <2>1. ASSUME NEW n \in 1..Len(input), AddBegin(n) PROVE space' \in 0..KeySize \cup 0..ValueSize
    BY <2>1, <1>a, <1>b, Sizes, Destination DEF AddBegin
  <2>2. CASE StoreByte
    <3>1. hasKey => space - 1 \in 0..ValueSize
      BY <2>2, <1>a, <1>b, <1>c, Sizes DEF StoreByte
    <3>2. ~hasKey => space - 1 \in 0..KeySize
      BY <2>2, <1>a, <1>b, <1>c, Sizes DEF StoreByte
    <3> QED
      BY <2>2, <3>1, <3>2 DEF StoreByte
  <2>3. CASE KeyFound \/ ValueFound
    BY <2>3, Sizes DEF KeyFound, ValueFound
  <2>4. CASE AddEnd \/ End \/ UNCHANGED vars
    BY <2>4 DEF AddEnd, End, vars, TypeOK
  <2> QED
    BY <2>1, <2>2, <2>3, <2>4 DEF Next
<1>6. pairs' \in Seq(Seq(Byte) \X Seq(Byte))
  <2> DEFINE Pair == Seq(Byte) \X Seq(Byte)
  <2>1. pairs \in Seq(Pair) /\ <<kbuf, vbuf>> \in Pair
    BY DEF TypeOK
  <2>2. pairs' = pairs \/ pairs' = Append(pairs, <<kbuf, vbuf>>)
    BY DEF Next, AddBegin, StoreByte, KeyFound, ValueFound, AddEnd, End, vars
  <2> HIDE DEF Pair
  <2>3. Append(pairs, <<kbuf, vbuf>>) \in Seq(Pair)
    BY <2>1, AppendProperties
  <2>4. pairs' \in Seq(Pair)
    BY <2>1, <2>2, <2>3
  <2> QED
    BY <2>4 DEF Pair
<1>7. input' \in Inputs
  BY <1>1 DEF TypeOK
<1> QED
  BY <1>2, <1>3, <1>4, <1>5, <1>6, <1>7, <1>d DEF TypeOK

(* Every variable keeps its type.                                           *)
THEOREM TypeCorrect == Spec => []TypeOK
  BY InitType, StepType, InitSafe, StepSafe, PTL DEF Spec

-----------------------------------------------------------------------------
(* Bytes of a text, as buffers fill with them.                              *)

(* The empty buffer has been read anywhere in a text...                     *)
LEMMA NoneAt ==
    ASSUME NEW t, NEW from \in Nat, from <= Len(t)
    PROVE  At(<<>>, t, from) /\ \A b : ~Has(<<>>, b)
<1>1. Len(<<>>) = 0
  OBVIOUS
<1> QED
  BY <1>1 DEF At, Has

(* ... a single byte where the text has it...                               *)
LEMMA OneAt ==
    ASSUME NEW t, NEW from \in Nat, NEW b, Len(t) \in Nat
    PROVE  At(<<b>>, t, from) <=> from + 1 <= Len(t) /\ t[from + 1] = b
<1>1. Len(<<b>>) = 1 /\ <<b>>[1] = b
  OBVIOUS
<1> QED
  BY <1>1 DEF At

(* ... and a buffer that has been read takes the byte that comes next.      *)
LEMMA AppendAt ==
    ASSUME NEW s \in Seq(Byte), NEW b \in Byte, NEW t, NEW from \in Nat, Len(t) \in Nat,
           At(s, t, from), from + Len(s) + 1 <= Len(t), t[from + Len(s) + 1] = b
    PROVE  /\ Append(s, b) \in Seq(Byte) /\ Len(Append(s, b)) = Len(s) + 1
           /\ At(Append(s, b), t, from)
           /\ \A x : x # b /\ ~Has(s, x) => ~Has(Append(s, b), x)
<1>1. /\ Append(s, b) \in Seq(Byte) /\ Len(Append(s, b)) = Len(s) + 1
      /\ \A i \in 1..Len(s) : Append(s, b)[i] = s[i]
      /\ Append(s, b)[Len(s) + 1] = b
  BY AppendProperties
<1>2. Len(s) \in Nat
  BY LenProperties
<1>3. \A j \in 1..Len(Append(s, b)) : j \in 1..Len(s) \/ j = Len(s) + 1
  BY <1>1, <1>2
<1>4. At(Append(s, b), t, from)
  BY <1>1, <1>2, <1>3 DEF At
<1>5. \A x : x # b /\ ~Has(s, x) => ~Has(Append(s, b), x)
  BY <1>1, <1>2, <1>3 DEF Has
<1> QED
  BY <1>1, <1>4, <1>5

-----------------------------------------------------------------------------
(* What has been parsed is what the text says.                              *)

(* What the proofs about the text need to know of the numbers.              *)
LEMMA Counts ==
    ASSUME TypeOK, Safe
    PROVE  /\ input \in Seq(Byte) /\ Len(input) \in Nat
           /\ pos \in Nat /\ pos <= Len(input)
           /\ stop \in Nat /\ stop <= Len(input)
           /\ kbuf \in Seq(Byte) /\ vbuf \in Seq(Byte) /\ hasKey \in BOOLEAN
           /\ Len(kbuf) \in Nat /\ Len(vbuf) \in Nat /\ Len(pairs) \in Nat
           /\ pc = "add" =>
                /\ target = IF hasKey THEN Newline ELSE Equals
                /\ space = DstSize - Len(Dst)
                /\ DstSize \in Nat
<1>1. /\ input \in Seq(Byte) /\ Len(input) \in Nat
      /\ pos \in Nat /\ pos <= Len(input)
      /\ stop \in Nat /\ stop <= Len(input)
  BY DEF TypeOK, Safe, Buffers
<1>2. /\ kbuf \in Seq(Byte) /\ vbuf \in Seq(Byte) /\ hasKey \in BOOLEAN
      /\ Len(kbuf) \in Nat /\ Len(vbuf) \in Nat
  BY LenProperties DEF Safe, Buffers
<1>3. Len(pairs) \in Nat
  BY LenProperties DEF TypeOK
<1>4. DstSize \in Nat
  BY Sizes DEF DstSize
<1> QED
  BY <1>1, <1>2, <1>3, <1>4 DEF Safe, SpaceIsExact

(* The lines read stay read as long as they stay the first callbacks.       *)
LEMMA LinesStay ==
    ASSUME NEW n \in Nat, NEW at, input' = input,
           \A i \in 1..n : pairs'[i] = pairs[i], LinesRead(n, at)
    PROVE  LinesRead(n, at)'
  BY DEF LinesRead, ReadsPair

(* Before anything is read, nothing has been called back.                   *)
LEMMA InitReads == Init => ReadsText
<1> SUFFICES ASSUME Init PROVE ReadsText
  OBVIOUS
<1>1. /\ ~hasKey /\ kbuf = <<>> /\ pairs = <<>> /\ pos = 0 /\ pc = "idle"
      /\ Len(input) \in Nat
  BY InputsAssumption, LenProperties DEF Init
<1>2. Len(<<>>) = 0
  OBVIOUS
<1> DEFINE at == [i \in 1..1 |-> 0]
<1>3. at \in [1..0 + 1 -> 0..pos] /\ at[1] = 0
  BY <1>1
<1>4. LinesRead(0, at)
  BY <1>3 DEF LinesRead
<1>5. RestRead(at[1])
  BY <1>1, <1>2, <1>3, NoneAt DEF RestRead
<1> HIDE DEF at
<1> QED
  BY <1>1, <1>2, <1>3, <1>4, <1>5 DEF ReadsText

(* The lines read before a step, and where the next one begins.             *)
LEMMA Reading ==
    ASSUME TypeOK, Safe, ReadsText, pc # "ended"
    PROVE  \E n, at, from :
              /\ n \in Nat /\ at \in [1..n + 1 -> 0..pos] /\ from \in 0..pos
              /\ n = Len(pairs) /\ from = at[n + 1] /\ LinesRead(n, at) /\ RestRead(from)
<1>1. Len(pairs) \in Nat
  BY Counts
<1>2. PICK at \in [1..Len(pairs) + 1 -> 0..pos] :
         LinesRead(Len(pairs), at) /\ RestRead(at[Len(pairs) + 1])
  BY DEF ReadsText
<1>3. at[Len(pairs) + 1] \in 0..pos
  BY <1>1
<1> QED
  BY <1>1, <1>2, <1>3

(* A step that makes no callback keeps them, if the buffers keep to what    *)
(* follows.                                                                 *)
LEMMA KeepsReading ==
    ASSUME TypeOK, Safe, input' = input, pairs' = pairs, pos' \in Nat, pos <= pos',
           NEW n \in Nat, NEW at \in [1..n + 1 -> 0..pos], NEW from \in 0..pos,
           n = Len(pairs), from = at[n + 1], LinesRead(n, at), RestRead(from)',
           pc' \in {"idle", "add", "failed"}, pc' = "failed" => Len(Dst') = DstSize'
    PROVE  ReadsText'
<1>1. at \in [1..n + 1 -> 0..pos']
  BY Counts
<1>2. LinesRead(n, at)'
  BY LinesStay
<1>3. \E a \in [1..n + 1 -> 0..pos'] : LinesRead(n, a)' /\ RestRead(a[n + 1])'
  BY <1>1, <1>2
<1> QED
  BY <1>3 DEF ReadsText

(* A byte that is stored continues what the buffers have.                   *)
LEMMA StoreByteReads ==
    ASSUME TypeOK, Safe, StoreByte, NEW from \in 0..pos, RestRead(from)
    PROVE  /\ RestRead(from)'
           /\ pc' \in {"add", "failed"} /\ (pc' = "failed" => Len(Dst') = DstSize')
<1>a. /\ input \in Seq(Byte) /\ Len(input) \in Nat
      /\ pos \in Nat /\ pos <= Len(input)
      /\ stop \in Nat /\ stop <= Len(input)
      /\ kbuf \in Seq(Byte) /\ vbuf \in Seq(Byte) /\ hasKey \in BOOLEAN
      /\ Len(kbuf) \in Nat /\ Len(vbuf) \in Nat
      /\ from \in Nat /\ from <= pos
  BY Counts
<1>b. /\ target = IF hasKey THEN Newline ELSE Equals
      /\ space = DstSize - Len(Dst)
      /\ DstSize \in Nat
  BY Counts DEF StoreByte
<1>1. /\ pos < stop /\ pos' = pos + 1 /\ input' = input /\ hasKey' = hasKey
      /\ Next1 = input[pos + 1] /\ Next1 \in Byte
      /\ Next1 # IF hasKey THEN Newline ELSE Equals
  <2>1. /\ pos < stop /\ pos' = pos + 1 /\ input' = input /\ hasKey' = hasKey
        /\ Next1 # target
    BY DEF StoreByte
  <2>2. pos + 1 \in 1..Len(input)
    BY <1>a, <2>1
  <2>3. Next1 = input[pos + 1] /\ Next1 \in Byte
    BY <1>a, <2>2 DEF Next1
  <2> QED
    BY <1>b, <2>1, <2>3
<1>2. CASE hasKey
  <2>1. /\ ~Has(kbuf, Equals) /\ ~Has(vbuf, Newline)
        /\ At(kbuf, input, from) /\ At(<<Equals>>, input, from + Len(kbuf))
        /\ At(vbuf, input, from + Len(kbuf) + 1)
        /\ pos = from + Len(kbuf) + 1 + Len(vbuf)
    BY <1>2 DEF RestRead, ReadsPair
  <2>2. vbuf' = Append(vbuf, Next1) /\ kbuf' = kbuf
    BY <1>2 DEF StoreByte
  <2>3. from + Len(kbuf) + 1 \in Nat
    BY <1>a
  <2>4. /\ Len(vbuf') = Len(vbuf) + 1 /\ ~Has(vbuf', Newline)
        /\ At(vbuf', input, from + Len(kbuf) + 1)
    BY <1>a, <1>1, <1>2, <2>1, <2>2, <2>3, AppendAt
  <2>5. RestRead(from)'
    BY <1>a, <1>1, <1>2, <2>1, <2>2, <2>4 DEF RestRead, ReadsPair
  <2>6. pc' \in {"add", "failed"} /\ (pc' = "failed" => Len(Dst') = DstSize')
    BY <1>a, <1>b, <1>1, <1>2, <2>2, <2>4, Destination, Sizes DEF StoreByte
  <2> QED
    BY <2>5, <2>6
<1>3. CASE ~hasKey
  <2>1. ~Has(kbuf, Equals) /\ At(kbuf, input, from) /\ pos = from + Len(kbuf)
    BY <1>3 DEF RestRead
  <2>2. kbuf' = Append(kbuf, Next1) /\ vbuf' = vbuf
    BY <1>3 DEF StoreByte
  <2>3. Len(kbuf') = Len(kbuf) + 1 /\ ~Has(kbuf', Equals) /\ At(kbuf', input, from)
    BY <1>a, <1>1, <1>3, <2>1, <2>2, AppendAt
  <2>4. RestRead(from)'
    BY <1>a, <1>1, <1>3, <2>1, <2>3 DEF RestRead
  <2>5. pc' \in {"add", "failed"} /\ (pc' = "failed" => Len(Dst') = DstSize')
    BY <1>a, <1>b, <1>1, <1>3, <2>2, <2>3, Destination, Sizes DEF StoreByte
  <2> QED
    BY <2>4, <2>5
<1> QED
  BY <1>2, <1>3

(* So does the end of a key...                                              *)
LEMMA KeyFoundReads ==
    ASSUME TypeOK, Safe, KeyFound, NEW from \in 0..pos, RestRead(from)
    PROVE  RestRead(from)'
<1>a. /\ input \in Seq(Byte) /\ Len(input) \in Nat
      /\ pos \in Nat /\ pos <= Len(input)
      /\ stop \in Nat /\ stop <= Len(input)
      /\ kbuf \in Seq(Byte) /\ Len(kbuf) \in Nat
      /\ from \in Nat /\ from <= pos
  BY Counts
<1>1. /\ pos < stop /\ pos' = pos + 1 /\ input' = input
      /\ ~hasKey /\ hasKey' /\ kbuf' = kbuf /\ vbuf' = <<>>
      /\ input[pos + 1] = Equals
  BY Counts DEF KeyFound, Next1
<1>2. ~Has(kbuf, Equals) /\ At(kbuf, input, from) /\ pos = from + Len(kbuf)
  BY <1>1 DEF RestRead
<1>3. At(<<Equals>>, input, from + Len(kbuf))
  BY <1>a, <1>1, <1>2, OneAt
<1>4. At(<<>>, input, from + Len(kbuf) + 1) /\ ~Has(<<>>, Newline)
  <2>1. from + Len(kbuf) + 1 \in Nat /\ from + Len(kbuf) + 1 <= Len(input)
    BY <1>a, <1>1, <1>2
  <2> QED
    BY <2>1, NoneAt
<1>5. Len(<<>>) = 0
  OBVIOUS
<1> QED
  BY <1>a, <1>1, <1>2, <1>3, <1>4, <1>5 DEF RestRead, ReadsPair

(* ... and the end of a value begins the next line.                         *)
LEMMA ValueFoundReads ==
    ASSUME TypeOK, Safe, ValueFound, NEW from, from = pos + 1
    PROVE  RestRead(from)'
<1>1. /\ pos \in Nat /\ pos + 1 \in Nat /\ pos + 1 <= Len(input)
      /\ pos' = pos + 1 /\ input' = input /\ ~hasKey' /\ kbuf' = <<>>
  BY Counts DEF ValueFound
<1>2. At(<<>>, input, pos + 1) /\ ~Has(<<>>, Equals)
  BY <1>1, NoneAt
<1>3. Len(<<>>) = 0
  OBVIOUS
<1> QED
  BY <1>1, <1>2, <1>3 DEF RestRead

(* Every iteration of the loop, and every return, keeps to the text.        *)
LEMMA StepReads == TypeOK /\ Safe /\ ReadsText /\ [Next]_vars => ReadsText'
<1> SUFFICES ASSUME TypeOK, Safe, ReadsText, [Next]_vars PROVE ReadsText'
  OBVIOUS
<1> USE DEF parser
<1>a. /\ input \in Seq(Byte) /\ Len(input) \in Nat
      /\ pos \in Nat /\ pos <= Len(input)
      /\ stop \in Nat /\ stop <= Len(input)
      /\ kbuf \in Seq(Byte) /\ vbuf \in Seq(Byte) /\ hasKey \in BOOLEAN
      /\ Len(kbuf) \in Nat /\ Len(vbuf) \in Nat /\ Len(pairs) \in Nat
  BY Counts
<1>b. pc = "add" =>
        /\ target = IF hasKey THEN Newline ELSE Equals
        /\ space = DstSize - Len(Dst)
        /\ DstSize \in Nat
  BY Counts
<1>c. input' = input
  BY DEF Next, AddBegin, StoreByte, KeyFound, ValueFound, AddEnd, End, vars
<1>1. CASE UNCHANGED vars
  <2>1. /\ ReadsText' <=> ReadsText
    BY <1>1 DEF vars, ReadsText, LinesRead, RestRead, ReadsPair, Dst, DstSize
  <2> QED
    BY <2>1
<1>2. ASSUME NEW m \in 1..Len(input), AddBegin(m) PROVE ReadsText'
  BY <1>2, <1>a DEF AddBegin, ReadsText, LinesRead, RestRead, ReadsPair, Dst, DstSize
<1>3. CASE AddEnd
  BY <1>3, <1>a DEF AddEnd, ReadsText, LinesRead, RestRead, ReadsPair, Dst, DstSize
<1>4. CASE StoreByte \/ KeyFound
  <2>1. PICK n, at, from :
           /\ n \in Nat /\ at \in [1..n + 1 -> 0..pos] /\ from \in 0..pos
           /\ n = Len(pairs) /\ from = at[n + 1] /\ LinesRead(n, at) /\ RestRead(from)
    BY <1>4, Reading DEF StoreByte, KeyFound
  <2>2. pos' \in Nat /\ pos <= pos' /\ pairs' = pairs
    BY <1>4, <1>a DEF StoreByte, KeyFound
  <2>3. CASE StoreByte
    BY <1>c, <2>1, <2>2, <2>3, StoreByteReads, KeepsReading
  <2>4. CASE KeyFound
    <3>1. pc' = "add"
      BY <2>4 DEF KeyFound
    <3> QED
      BY <1>c, <2>1, <2>2, <2>4, <3>1, KeyFoundReads, KeepsReading
  <2> QED
    BY <1>4, <2>3, <2>4
<1>5. CASE ValueFound
  <2>1. PICK n, at, from :
           /\ n \in Nat /\ at \in [1..n + 1 -> 0..pos] /\ from \in 0..pos
           /\ n = Len(pairs) /\ from = at[n + 1] /\ LinesRead(n, at) /\ RestRead(from)
    BY <1>5, Reading DEF ValueFound
  <2>a. n \in Nat /\ from \in Nat /\ from <= pos /\ at \in [1..n + 1 -> 0..pos]
    BY <2>1, <1>a
  <2>2. /\ pc = "add" /\ pc' = "add" /\ pos < stop /\ pos' = pos + 1
        /\ hasKey /\ ~hasKey' /\ kbuf' = <<>>
        /\ pairs' = Append(pairs, <<kbuf, vbuf>>)
        /\ input[pos + 1] = Newline
    BY <1>5, <1>b DEF ValueFound, Next1
  <2>3. ReadsPair(<<kbuf, vbuf>>, from) /\ pos = from + Len(kbuf) + 1 + Len(vbuf)
    BY <2>1, <2>2 DEF RestRead
  <2>4. /\ Len(pairs') = n + 1 /\ pairs'[n + 1] = <<kbuf, vbuf>>
        /\ \A i \in 1..n : pairs'[i] = pairs[i]
    BY <2>a, <2>1, <2>2, AppendProperties DEF TypeOK
  <2>5. PICK more :
           /\ more \in [1..n + 2 -> 0..pos'] /\ more[n + 2] = pos + 1
           /\ \A i \in 1..n + 1 : more[i] = at[i]
    <3> DEFINE m == [i \in 1..n + 2 |-> IF i <= n + 1 THEN at[i] ELSE pos + 1]
    <3>1. m \in [1..n + 2 -> 0..pos']
      BY <1>a, <2>a, <2>2
    <3>2. m[n + 2] = pos + 1
      BY <2>a
    <3>3. \A i \in 1..n + 1 : m[i] = at[i]
      BY <2>a
    <3> QED
      BY <3>1, <3>2, <3>3
  <2>6. LinesRead(n + 1, more)'
    <3>1. more[1] = 0
      BY <2>1, <2>5 DEF LinesRead
    <3>2. ASSUME NEW i \in 1..n + 1
          PROVE  /\ ReadsPair(pairs[i], more[i])'
                 /\ more[i + 1] = more[i] + Len(pairs'[i][1]) + Len(pairs'[i][2]) + 2
                 /\ input'[more[i + 1]] = Newline
      <4>1. CASE i \in 1..n
        <5>1. /\ ReadsPair(pairs[i], at[i]) /\ input[at[i + 1]] = Newline
              /\ at[i + 1] = at[i] + Len(pairs[i][1]) + Len(pairs[i][2]) + 2
          BY <2>1, <4>1 DEF LinesRead
        <5>2. more[i] = at[i] /\ more[i + 1] = at[i + 1] /\ pairs'[i] = pairs[i]
          BY <2>a, <2>4, <2>5, <4>1
        <5> QED
          BY <1>c, <5>1, <5>2 DEF ReadsPair
      <4>2. CASE i = n + 1
        <5>1. more[i] = from /\ more[i + 1] = pos + 1 /\ pairs'[i] = <<kbuf, vbuf>>
          BY <2>a, <2>1, <2>4, <2>5, <4>2
        <5> QED
          <6>1. pairs'[i][1] = kbuf /\ pairs'[i][2] = vbuf
            BY <5>1
          <6>2. more[i + 1] = more[i] + Len(kbuf) + Len(vbuf) + 2
            BY <1>a, <2>a, <2>3, <5>1
          <6>3. ReadsPair(pairs[i], more[i])'
            BY <1>c, <2>3, <5>1, <6>1 DEF ReadsPair
          <6> QED
            BY <1>c, <2>2, <5>1, <6>1, <6>2, <6>3
      <4> QED
        BY <2>a, <4>1, <4>2
    <3> QED
      BY <3>1, <3>2 DEF LinesRead
  <2>7. RestRead(more[n + 2])'
    BY <1>5, <2>5, ValueFoundReads
  <2>8. n + 1 + 1 = n + 2 /\ n + 1 \in Nat
    BY <2>a
  <2>9. \E a \in [1..n + 1 + 1 -> 0..pos'] : LinesRead(n + 1, a)' /\ RestRead(a[n + 1 + 1])'
    BY <2>5, <2>6, <2>7, <2>8
  <2> QED
    BY <2>2, <2>4, <2>9 DEF ReadsText
<1>6. CASE End
  <2>1. PICK n, at, from :
           /\ n \in Nat /\ at \in [1..n + 1 -> 0..pos] /\ from \in 0..pos
           /\ n = Len(pairs) /\ from = at[n + 1] /\ LinesRead(n, at) /\ RestRead(from)
    BY <1>6, Reading DEF End
  <2>a. n \in Nat /\ from \in Nat /\ from <= pos /\ at \in [1..n + 1 -> 0..pos]
    BY <2>1, <1>a
  <2>2. /\ pos' = pos /\ pos = Len(input) /\ hasKey' = hasKey /\ kbuf' = kbuf /\ vbuf' = vbuf
    BY <1>6 DEF End
  <2>3. RestRead(from)'
    BY <1>c, <2>1, <2>2 DEF RestRead, ReadsPair
  <2>4. CASE hasKey
    <3>1. pairs' = Append(pairs, <<kbuf, vbuf>>) /\ pc' = "ended"
      BY <1>6, <2>4 DEF End
    <3>2. /\ Len(pairs') = n + 1 /\ pairs'[n + 1] = <<kbuf, vbuf>>
          /\ \A i \in 1..n : pairs'[i] = pairs[i]
      BY <2>1, <3>1, AppendProperties DEF TypeOK
    <3>3. LinesRead(n, at)'
      BY <1>c, <2>1, <3>2, LinesStay
    <3>4. n = Len(pairs') - 1
      BY <2>a, <3>2
    <3>5. \E a \in [1..n + 1 -> 0..pos'] : LinesRead(n, a)' /\ RestRead(a[n + 1])'
      BY <2>1, <2>2, <2>3, <3>3
    <3> QED
      BY <1>c, <2>2, <2>4, <3>1, <3>2, <3>4, <3>5 DEF ReadsText
  <2>5. CASE ~hasKey
    <3>1. pairs' = pairs /\ pc' = IF kbuf = <<>> THEN "ended" ELSE "refused"
      BY <1>6, <2>5 DEF End
    <3>2. LinesRead(n, at)'
      BY <1>c, <2>1, <3>1, LinesStay
    <3>3. \E a \in [1..n + 1 -> 0..pos'] : LinesRead(n, a)' /\ RestRead(a[n + 1])'
      BY <2>1, <2>2, <2>3, <3>2
    <3> QED
      BY <1>c, <2>1, <2>2, <2>5, <3>1, <3>3 DEF ReadsText
  <2> QED
    BY <2>4, <2>5
<1> QED
  BY <1>1, <1>2, <1>3, <1>4, <1>5, <1>6 DEF Next

(* Whatever the text, however it is cut into chunks and whatever the sizes  *)
(* of the buffers, the callbacks are the lines of the text in their order,  *)
(* each with its key and value, and the result is the one the text calls    *)
(* for.                                                                     *)
THEOREM ParsesText == Spec => []ReadsText
<1>1. TypeOK /\ Safe /\ ReadsText /\ [Next]_vars => (TypeOK /\ Safe /\ ReadsText)'
  BY StepType, StepSafe, StepReads
<1> QED
  BY <1>1, InitType, InitSafe, InitReads, PTL DEF Spec

-----------------------------------------------------------------------------
(* A file that config_store wrote is read back.                             *)

(* The bytes of two strings, one after the other.                           *)
LEMMA Joined ==
    ASSUME NEW s \in Seq(Byte), NEW t \in Seq(Byte)
    PROVE  /\ s \o t \in Seq(Byte) /\ Len(s \o t) = Len(s) + Len(t)
           /\ \A j \in 1..Len(s) : (s \o t)[j] = s[j]
           /\ \A j \in 1..Len(t) : (s \o t)[Len(s) + j] = t[j]
<1>1. /\ s \o t \in Seq(Byte) /\ Len(s \o t) = Len(s) + Len(t)
      /\ \A i \in 1 .. Len(s) + Len(t) :
            (s \o t)[i] = IF i <= Len(s) THEN s[i] ELSE t[i - Len(s)]
  BY ConcatProperties
<1>2. Len(s) \in Nat /\ Len(t) \in Nat
  BY LenProperties
<1>3. \A j \in 1..Len(s) : (s \o t)[j] = s[j]
  BY <1>1, <1>2
<1>4. ASSUME NEW j \in 1..Len(t) PROVE (s \o t)[Len(s) + j] = t[j]
  <2>1. Len(s) + j \in 1 .. Len(s) + Len(t) /\ ~(Len(s) + j <= Len(s)) /\ Len(s) + j - Len(s) = j
    BY <1>2
  <2>2. (s \o t)[Len(s) + j] = t[Len(s) + j - Len(s)]
    BY <1>1, <2>1
  <2> QED
    BY <2>1, <2>2
<1> QED
  BY <1>1, <1>3, <1>4

(* The bytes of a line.                                                     *)
LEMMA LineBytes ==
    ASSUME NEW key \in Seq(Byte), NEW value \in Seq(Byte),
           NEW line, line = WriteStr(LineSize, key, value), line # <<>>
    PROVE  /\ Len(line) = Len(key) + Len(value) + 2
           /\ \A j \in 1..Len(key) : line[j] = key[j]
           /\ line[Len(key) + 1] = Equals
           /\ \A j \in 1..Len(value) : line[Len(key) + 1 + j] = value[j]
           /\ line[Len(key) + Len(value) + 2] = Newline
<1> DEFINE begun == key \o <<Equals>>
           most == begun \o value
<1>1. line = most \o <<Newline>>
  BY DEF WriteStr
<1>2. /\ <<Equals>> \in Seq(Byte) /\ Len(<<Equals>>) = 1 /\ <<Equals>>[1] = Equals
      /\ <<Newline>> \in Seq(Byte) /\ Len(<<Newline>>) = 1 /\ <<Newline>>[1] = Newline
  BY DEF Byte
<1>3. Len(key) \in Nat /\ Len(value) \in Nat
  BY LenProperties
<1>4. /\ begun \in Seq(Byte) /\ Len(begun) = Len(key) + 1
      /\ \A j \in 1..Len(key) : begun[j] = key[j]
      /\ begun[Len(key) + 1] = Equals
  BY <1>2, <1>3, Joined
<1> HIDE DEF begun
<1>5. /\ most \in Seq(Byte) /\ Len(most) = Len(begun) + Len(value)
      /\ \A j \in 1..Len(begun) : most[j] = begun[j]
      /\ \A j \in 1..Len(value) : most[Len(begun) + j] = value[j]
  BY <1>4, Joined
<1> HIDE DEF most
<1>6. /\ Len(line) = Len(most) + 1
      /\ \A j \in 1..Len(most) : line[j] = most[j]
      /\ line[Len(most) + 1] = Newline
  BY <1>1, <1>2, <1>5, Joined
<1>7. \A j \in 1..Len(key) : line[j] = key[j]
  BY <1>3, <1>4, <1>5, <1>6
<1>8. line[Len(key) + 1] = Equals
  BY <1>3, <1>4, <1>5, <1>6
<1>9. ASSUME NEW j \in 1..Len(value) PROVE line[Len(key) + 1 + j] = value[j]
  <2>1. Len(key) + 1 + j \in 1..Len(most) /\ Len(key) + 1 + j = Len(begun) + j
    BY <1>3, <1>4, <1>5
  <2> QED
    BY <1>5, <1>6, <2>1
<1>10. Len(most) + 1 = Len(key) + Len(value) + 2
  BY <1>3, <1>4, <1>5
<1> QED
  BY <1>6, <1>7, <1>8, <1>9, <1>10

(* The items of a file, and where its first and last line are.              *)
LEMMA FileType ==
    ASSUME NEW file \in Files
    PROVE  /\ file.items \in Seq(Seq(Byte) \X Seq(Byte)) /\ Len(file.items) \in Nat
           /\ file.text \in Seq(Byte) /\ Len(file.text) \in Nat
           /\ file.lineAt \in [1..Len(file.items) + 1 -> 0..Len(file.text)]
           /\ file.lineAt[1] = 0 /\ file.lineAt[Len(file.items) + 1] = Len(file.text)
<1> DEFINE Pair == Seq(Byte) \X Seq(Byte)
<1>1. /\ file.items \in Seq(Pair) /\ file.text \in Seq(Byte)
      /\ file.lineAt \in [1..Len(file.items) + 1 -> 0..Len(file.text)]
      /\ file.lineAt[1] = 0 /\ file.lineAt[Len(file.items) + 1] = Len(file.text)
  BY FilesAssumption DEF IsFile
<1> HIDE DEF Pair
<1>2. Len(file.items) \in Nat /\ Len(file.text) \in Nat
  BY <1>1, LenProperties
<1> QED
  BY <1>1, <1>2 DEF Pair

(* The i-th item of a file, and the bytes of its line.                      *)
Item(file, i, key, value, from) ==
    /\ i \in 1..Len(file.items)
    /\ key = file.items[i][1] /\ value = file.items[i][2] /\ from = file.lineAt[i]
    /\ key \in Seq(Byte) /\ value \in Seq(Byte) /\ file.items[i] = <<key, value>>
    /\ Len(key) \in Nat /\ Len(value) \in Nat /\ from \in Nat
    /\ Len(key) < KeySize /\ ~Has(key, Equals)
    /\ Len(value) < ValueSize /\ ~Has(value, Newline)
    /\ file.lineAt[i + 1] = from + Len(key) + Len(value) + 2
    /\ file.lineAt[i + 1] <= Len(file.text)
    /\ \A j \in 1..Len(key) : file.text[from + j] = key[j]
    /\ file.text[from + Len(key) + 1] = Equals
    /\ \A j \in 1..Len(value) : file.text[from + Len(key) + 1 + j] = value[j]
    /\ file.text[from + Len(key) + Len(value) + 2] = Newline

(* Every item of a file is one.                                             *)
LEMMA ItemBytes ==
    ASSUME NEW file \in Files, NEW i \in 1..Len(file.items)
    PROVE  \E key, value, from : Item(file, i, key, value, from)
<1> DEFINE key == file.items[i][1]
           value == file.items[i][2]
           from == file.lineAt[i]
           line == WriteStr(LineSize, key, value)
<1>1. /\ file.text \in Seq(Byte)
      /\ file.items \in Seq(Seq(Byte) \X Seq(Byte))
      /\ file.lineAt \in [1..Len(file.items) + 1 -> 0..Len(file.text)]
      /\ Len(key) < KeySize /\ ~Has(key, Equals)
      /\ Len(value) < ValueSize /\ ~Has(value, Newline)
      /\ line # <<>> /\ At(line, file.text, from)
      /\ file.lineAt[i + 1] = from + Len(line)
  BY FilesAssumption DEF IsFile
<1>2. key \in Seq(Byte) /\ value \in Seq(Byte) /\ file.items[i] = <<key, value>>
  <2> DEFINE Text == Seq(Byte)
             Pair == Text \X Text
  <2>1. file.items \in Seq(Pair)
    BY <1>1
  <2> HIDE DEF Pair
  <2>2. file.items[i] \in Pair
    BY <2>1
  <2> HIDE DEF Text
  <2>3. file.items[i] \in Text \X Text
    BY <2>2 DEF Pair
  <2>4. key \in Text /\ value \in Text /\ file.items[i] = <<key, value>>
    BY <2>3
  <2> QED
    BY <2>4 DEF Text
<1>3. i \in 1..Len(file.items) + 1 /\ i + 1 \in 1..Len(file.items) + 1
  BY FileType
<1>4. from \in Nat /\ file.lineAt[i + 1] <= Len(file.text) /\ Len(file.text) \in Nat
  <2>1. Len(file.text) \in Nat
    BY FileType
  <2>2. file.lineAt[i] \in 0..Len(file.text) /\ file.lineAt[i + 1] \in 0..Len(file.text)
    BY <1>1, <1>3
  <2> QED
    BY <2>1, <2>2
<1> HIDE DEF key, value, from
<1>5. Len(key) \in Nat /\ Len(value) \in Nat
  BY <1>2, LenProperties
<1>a. line = WriteStr(LineSize, key, value)
  OBVIOUS
<1> HIDE DEF line
<1>6. /\ Len(line) = Len(key) + Len(value) + 2
      /\ \A j \in 1..Len(key) : line[j] = key[j]
      /\ line[Len(key) + 1] = Equals
      /\ \A j \in 1..Len(value) : line[Len(key) + 1 + j] = value[j]
      /\ line[Len(key) + Len(value) + 2] = Newline
  <2>1. key \in Seq(Byte) /\ value \in Seq(Byte) /\ line # <<>>
    BY <1>1, <1>2
  <2> QED
    BY <1>a, <2>1, LineBytes
<1>7. \A j \in 1..Len(line) : file.text[from + j] = line[j]
  BY <1>1 DEF At
<1>8. \A j \in 1..Len(key) : file.text[from + j] = key[j]
  BY <1>5, <1>6, <1>7
<1>9. file.text[from + Len(key) + 1] = Equals
  <2>1. Len(key) + 1 \in 1..Len(line) /\ from + (Len(key) + 1) = from + Len(key) + 1
    BY <1>4, <1>5, <1>6
  <2>2. file.text[from + (Len(key) + 1)] = Equals
    BY <1>6, <1>7, <2>1
  <2> QED
    BY <2>1, <2>2
<1>10. ASSUME NEW j \in 1..Len(value) PROVE file.text[from + Len(key) + 1 + j] = value[j]
  <2>1. Len(key) + 1 + j \in 1..Len(line) /\ from + (Len(key) + 1 + j) = from + Len(key) + 1 + j
    BY <1>4, <1>5, <1>6
  <2>2. file.text[from + (Len(key) + 1 + j)] = value[j]
    BY <1>6, <1>7, <2>1
  <2> QED
    BY <2>1, <2>2
<1>11. file.text[from + Len(key) + Len(value) + 2] = Newline
  <2>1. /\ Len(key) + Len(value) + 2 \in 1..Len(line)
        /\ from + (Len(key) + Len(value) + 2) = from + Len(key) + Len(value) + 2
    BY <1>4, <1>5, <1>6
  <2>2. file.text[from + (Len(key) + Len(value) + 2)] = Newline
    BY <1>6, <1>7, <2>1
  <2> QED
    BY <2>1, <2>2
<1>12. file.lineAt[i + 1] = from + Len(key) + Len(value) + 2
  BY <1>1, <1>4, <1>5, <1>6
<1>13. key = file.items[i][1] /\ value = file.items[i][2] /\ from = file.lineAt[i]
  BY DEF key, value, from
<1>14. Item(file, i, key, value, from)
  BY <1>1, <1>2, <1>4, <1>5, <1>8, <1>9, <1>10, <1>11, <1>12, <1>13 DEF Item
<1> QED
  BY <1>14

(* How a file is read: the callbacks are its first items, and the buffers   *)
(* have the beginning of the next one.                                      *)
FileRead(file) ==
    LET i == Len(pairs) + 1
    IN  /\ i \in 1..Len(file.items) + 1
        /\ \A j \in 1..Len(pairs) : pairs[j] = file.items[j]
        /\ pc \notin {"failed", "refused"}
        /\ i = Len(file.items) + 1 => ~hasKey /\ kbuf = <<>> /\ pos = Len(file.text)
        /\ i # Len(file.items) + 1 =>
              /\ pc # "ended"
              /\ IF hasKey
                 THEN /\ kbuf = file.items[i][1] /\ At(vbuf, file.items[i][2], 0)
                      /\ pos = file.lineAt[i] + Len(kbuf) + 1 + Len(vbuf)
                 ELSE At(kbuf, file.items[i][1], 0) /\ pos = file.lineAt[i] + Len(kbuf)

FilesRead == \A file \in Files : input = file.text => FileRead(file)

(* Before a parser fails or ends, the byte that comes next is one of the    *)
(* item that is being read.                                                 *)
LEMMA FileNext ==
    ASSUME TypeOK, Safe, NEW file \in Files, input = file.text, FileRead(file),
           pos < Len(input)
    PROVE  \E i, key, value, from :
              /\ i = Len(pairs) + 1 /\ Item(file, i, key, value, from)
              /\ IF hasKey
                 THEN /\ kbuf = key /\ At(vbuf, value, 0)
                      /\ pos = from + Len(key) + 1 + Len(vbuf)
                 ELSE At(kbuf, key, 0) /\ pos = from + Len(kbuf)
<1> DEFINE k == Len(pairs) + 1
<1>1. k \in 1..Len(file.items) + 1 /\ k # Len(file.items) + 1
  BY Counts DEF FileRead
<1>2. k \in 1..Len(file.items)
  BY <1>1, FileType
<1>3. IF hasKey
      THEN /\ kbuf = file.items[k][1] /\ At(vbuf, file.items[k][2], 0)
           /\ pos = file.lineAt[k] + Len(kbuf) + 1 + Len(vbuf)
      ELSE At(kbuf, file.items[k][1], 0) /\ pos = file.lineAt[k] + Len(kbuf)
  BY <1>1 DEF FileRead
<1> HIDE DEF k
<1>4. PICK key, value, from : Item(file, k, key, value, from)
  BY <1>2, ItemBytes
<1>5. IF hasKey
      THEN /\ kbuf = key /\ At(vbuf, value, 0)
           /\ pos = from + Len(key) + 1 + Len(vbuf)
      ELSE At(kbuf, key, 0) /\ pos = from + Len(kbuf)
  BY <1>3, <1>4 DEF Item
<1>6. k = Len(pairs) + 1
  BY DEF k
<1> QED
  BY <1>4, <1>5, <1>6

(* Parsing starts at the first item.                                        *)
LEMMA InitFiles == Init => FilesRead
<1> SUFFICES ASSUME Init, NEW file \in Files, input = file.text PROVE FileRead(file)
  BY DEF FilesRead
<1>1. /\ ~hasKey /\ kbuf = <<>> /\ pairs = <<>> /\ pos = 0 /\ pc = "idle"
  BY DEF Init
<1>2. Len(<<>>) = 0
  OBVIOUS
<1>3. Len(file.items) \in Nat /\ Len(file.text) \in Nat
  BY FileType
<1>4. CASE Len(file.items) = 0
  <2>1. Len(file.text) = 0
    BY <1>4, FileType
  <2> QED
    BY <1>1, <1>2, <1>4, <2>1 DEF FileRead
<1>5. CASE Len(file.items) # 0
  <2>1. 1 \in 1..Len(file.items) + 1 /\ 1 # Len(file.items) + 1
    BY <1>3, <1>5
  <2>2. 1 \in 1..Len(file.items)
    BY <1>3, <1>5
  <2>3. Len(file.items[1][1]) \in Nat
    BY <2>2, ItemBytes DEF Item
  <2>4. At(<<>>, file.items[1][1], 0)
    BY <2>3, NoneAt
  <2>5. file.lineAt[1] = 0
    BY FileType
  <2> QED
    BY <1>1, <1>2, <2>1, <2>4, <2>5 DEF FileRead
<1> QED
  BY <1>4, <1>5

(* Every step goes on with the file.                                        *)
LEMMA StepFile ==
    ASSUME TypeOK, Safe, NEW file \in Files, input = file.text, FileRead(file), [Next]_vars
    PROVE  FileRead(file)'
<1> USE DEF parser
<1>a. /\ input \in Seq(Byte) /\ Len(input) \in Nat
      /\ pos \in Nat /\ pos <= Len(input)
      /\ stop \in Nat /\ stop <= Len(input)
      /\ kbuf \in Seq(Byte) /\ vbuf \in Seq(Byte) /\ hasKey \in BOOLEAN
      /\ Len(kbuf) \in Nat /\ Len(vbuf) \in Nat /\ Len(pairs) \in Nat
  BY Counts
<1>b. pc = "add" =>
        /\ target = IF hasKey THEN Newline ELSE Equals
        /\ hasKey => space = ValueSize - Len(vbuf)
        /\ ~hasKey => space = KeySize - Len(kbuf)
  BY Counts, Destination
<1>c. Len(file.items) \in Nat
  BY FileType
<1>d. /\ Len(pairs) + 1 \in 1..Len(file.items) + 1
      /\ \A j \in 1..Len(pairs) : pairs[j] = file.items[j]
  BY DEF FileRead
<1>1. CASE UNCHANGED vars
  BY <1>1 DEF vars, FileRead
<1>2. ASSUME NEW m \in 1..Len(input), AddBegin(m) PROVE FileRead(file)'
  BY <1>2 DEF AddBegin, FileRead
<1>3. CASE AddEnd
  BY <1>3 DEF AddEnd, FileRead
<1>4. CASE StoreByte \/ KeyFound \/ ValueFound
  <2>1. pc = "add" /\ pos < stop /\ pos < Len(input) /\ pos' = pos + 1
    BY <1>4, <1>a DEF StoreByte, KeyFound, ValueFound
  <2>2. PICK i, key, value, from :
           /\ i = Len(pairs) + 1 /\ Item(file, i, key, value, from)
           /\ IF hasKey
              THEN /\ kbuf = key /\ At(vbuf, value, 0)
                   /\ pos = from + Len(key) + 1 + Len(vbuf)
              ELSE At(kbuf, key, 0) /\ pos = from + Len(kbuf)
    BY <2>1, FileNext
  <2>a. /\ key = file.items[i][1] /\ value = file.items[i][2] /\ file.items[i] = <<key, value>>
        /\ ~Has(key, Equals) /\ ~Has(value, Newline)
        /\ \A j \in 1..Len(key) : input[from + j] = key[j]
        /\ input[from + Len(key) + 1] = Equals
        /\ \A j \in 1..Len(value) : input[from + Len(key) + 1 + j] = value[j]
        /\ input[from + Len(key) + Len(value) + 2] = Newline
    BY <2>2 DEF Item
  <2>3. /\ i = Len(pairs) + 1 /\ i \in Nat /\ i <= Len(file.items) /\ i # Len(file.items) + 1
        /\ Len(key) \in Nat /\ Len(value) \in Nat /\ from \in Nat
        /\ Len(key) < KeySize /\ Len(value) < ValueSize
        /\ key \in Seq(Byte) /\ value \in Seq(Byte) /\ file.lineAt[i] = from
        /\ file.lineAt[i + 1] = from + Len(key) + Len(value) + 2
    <3>1. i \in 1..Len(file.items)
      BY <2>2 DEF Item
    <3>2. i \in Nat /\ i <= Len(file.items) /\ i # Len(file.items) + 1
      BY <1>c, <3>1
    <3> QED
      BY <2>2, <3>2 DEF Item
  <2>4. Next1 = input[pos + 1] /\ Next1 \in Byte
    BY <1>a, <2>1 DEF Next1
  <2>5. hasKey => /\ Len(vbuf) < Len(value) => Next1 = value[Len(vbuf) + 1] /\ Next1 # Newline
                  /\ Len(vbuf) <= Len(value) /\ (Len(vbuf) = Len(value) => Next1 = Newline)
    <3> SUFFICES ASSUME hasKey
                 PROVE  /\ Len(vbuf) < Len(value) => Next1 = value[Len(vbuf) + 1] /\ Next1 # Newline
                        /\ Len(vbuf) <= Len(value) /\ (Len(vbuf) = Len(value) => Next1 = Newline)
      OBVIOUS
    <3>1. At(vbuf, value, 0) /\ pos = from + Len(key) + 1 + Len(vbuf)
      BY <2>2
    <3>2. Len(vbuf) <= Len(value)
      BY <1>a, <2>3, <3>1 DEF At
    <3>3. Len(vbuf) = Len(value) => Next1 = Newline
      <4>1. Len(vbuf) = Len(value) => pos + 1 = from + Len(key) + Len(value) + 2
        BY <2>3, <3>1
      <4> QED
        BY <2>a, <2>4, <4>1
    <3>4. ASSUME Len(vbuf) < Len(value)
          PROVE  Next1 = value[Len(vbuf) + 1] /\ Next1 # Newline
      <4>1. Len(vbuf) + 1 \in 1..Len(value) /\ pos + 1 = from + Len(key) + 1 + (Len(vbuf) + 1)
        <5>1. Len(key) \in Nat /\ Len(value) \in Nat /\ from \in Nat
          BY <2>3
        <5> QED
          BY <1>a, <3>1, <3>4, <5>1
      <4>2. value[Len(vbuf) + 1] # Newline
        BY <2>a, <4>1 DEF Has
      <4>3. input[from + Len(key) + 1 + (Len(vbuf) + 1)] = value[Len(vbuf) + 1]
        BY <2>a, <4>1
      <4> QED
        BY <2>4, <4>1, <4>2, <4>3
    <3> QED
      BY <3>2, <3>3, <3>4
  <2>6. ~hasKey => /\ Len(kbuf) < Len(key) => Next1 = key[Len(kbuf) + 1] /\ Next1 # Equals
                   /\ Len(kbuf) <= Len(key) /\ (Len(kbuf) = Len(key) => Next1 = Equals)
    <3> SUFFICES ASSUME ~hasKey
                 PROVE  /\ Len(kbuf) < Len(key) => Next1 = key[Len(kbuf) + 1] /\ Next1 # Equals
                        /\ Len(kbuf) <= Len(key) /\ (Len(kbuf) = Len(key) => Next1 = Equals)
      OBVIOUS
    <3>1. At(kbuf, key, 0) /\ pos = from + Len(kbuf)
      BY <2>2
    <3>2. Len(kbuf) <= Len(key)
      BY <1>a, <2>3, <3>1 DEF At
    <3>3. Len(kbuf) = Len(key) => Next1 = Equals
      <4>1. Len(kbuf) = Len(key) => pos + 1 = from + Len(key) + 1
        BY <2>3, <3>1
      <4> QED
        BY <2>a, <2>4, <4>1
    <3>4. ASSUME Len(kbuf) < Len(key)
          PROVE  Next1 = key[Len(kbuf) + 1] /\ Next1 # Equals
      <4>1. Len(kbuf) + 1 \in 1..Len(key) /\ pos + 1 = from + (Len(kbuf) + 1)
        BY <1>a, <2>3, <3>1, <3>4
      <4>2. key[Len(kbuf) + 1] # Equals
        BY <2>a, <4>1 DEF Has
      <4>3. input[from + (Len(kbuf) + 1)] = key[Len(kbuf) + 1]
        BY <2>a, <4>1
      <4> QED
        BY <2>4, <4>1, <4>2, <4>3
    <3> QED
      BY <3>2, <3>3, <3>4
  <2>7. CASE StoreByte /\ hasKey
    <3>1. /\ vbuf' = Append(vbuf, Next1) /\ kbuf' = kbuf /\ hasKey' = hasKey /\ pairs' = pairs
          /\ Next1 # Newline /\ pc' = IF space - 1 = 0 THEN "failed" ELSE "add"
      BY <1>b, <2>1, <2>7 DEF StoreByte
    <3>2. Len(vbuf) < Len(value) /\ Next1 = value[Len(vbuf) + 1]
      <4>1. Len(vbuf) \in Nat /\ Len(value) \in Nat
        BY <1>a, <2>3
      <4>2. Len(vbuf) <= Len(value) /\ Len(vbuf) # Len(value)
        BY <2>5, <2>7, <3>1
      <4> QED
        BY <2>5, <2>7, <4>1, <4>2
    <3>3. pc' = "add"
      BY <1>a, <1>b, <2>1, <2>3, <2>7, <3>1, <3>2, Sizes
    <3>4. kbuf = key /\ At(vbuf, value, 0) /\ pos = from + Len(key) + 1 + Len(vbuf)
      BY <2>2, <2>7
    <3>5. 0 + Len(vbuf) + 1 <= Len(value) /\ value[0 + Len(vbuf) + 1] = Next1 /\ 0 \in Nat
      BY <1>a, <2>3, <3>2
    <3>6. Len(vbuf') = Len(vbuf) + 1 /\ At(vbuf', value, 0)
      BY <1>a, <2>3, <2>4, <3>1, <3>4, <3>5, AppendAt
    <3>7. pos' = file.lineAt[i] + Len(kbuf') + 1 + Len(vbuf')
      <4>1. pos' = from + Len(key) + 1 + (Len(vbuf) + 1)
        BY <1>a, <2>1, <2>3, <3>4
      <4> QED
        BY <2>3, <3>1, <3>4, <3>6, <4>1
    <3>8. kbuf' = file.items[i][1] /\ At(vbuf', file.items[i][2], 0)
      BY <2>a, <3>1, <3>4, <3>6
    <3> QED
      BY <1>d, <2>3, <2>7, <3>1, <3>3, <3>7, <3>8 DEF FileRead
  <2>8. CASE StoreByte /\ ~hasKey
    <3>1. /\ kbuf' = Append(kbuf, Next1) /\ hasKey' = hasKey /\ pairs' = pairs
          /\ Next1 # Equals /\ pc' = IF space - 1 = 0 THEN "failed" ELSE "add"
      BY <1>b, <2>1, <2>8 DEF StoreByte
    <3>2. Len(kbuf) < Len(key) /\ Next1 = key[Len(kbuf) + 1]
      <4>1. Len(kbuf) \in Nat /\ Len(key) \in Nat
        BY <1>a, <2>3
      <4>2. Len(kbuf) <= Len(key) /\ Len(kbuf) # Len(key)
        BY <2>6, <2>8, <3>1
      <4> QED
        BY <2>6, <2>8, <4>1, <4>2
    <3>3. pc' = "add"
      BY <1>a, <1>b, <2>1, <2>3, <2>8, <3>1, <3>2, Sizes
    <3>4. At(kbuf, key, 0) /\ pos = from + Len(kbuf)
      BY <2>2, <2>8
    <3>5. 0 + Len(kbuf) + 1 <= Len(key) /\ key[0 + Len(kbuf) + 1] = Next1 /\ 0 \in Nat
      BY <1>a, <2>3, <3>2
    <3>6. Len(kbuf') = Len(kbuf) + 1 /\ At(kbuf', key, 0)
      BY <1>a, <2>3, <2>4, <3>1, <3>4, <3>5, AppendAt
    <3>7. pos' = file.lineAt[i] + Len(kbuf')
      <4>1. pos' = from + (Len(kbuf) + 1)
        BY <1>a, <2>1, <2>3, <3>4
      <4> QED
        BY <2>3, <3>6, <4>1
    <3>8. At(kbuf', file.items[i][1], 0)
      BY <2>a, <3>6
    <3> QED
      BY <1>d, <2>3, <2>8, <3>1, <3>3, <3>7, <3>8 DEF FileRead
  <2>9. CASE KeyFound
    <3>1. /\ ~hasKey /\ hasKey' /\ kbuf' = kbuf /\ vbuf' = <<>> /\ pairs' = pairs /\ pc' = "add"
          /\ Next1 = Equals
      BY <1>b, <2>1, <2>9 DEF KeyFound
    <3>2. Len(kbuf) = Len(key)
      BY <1>a, <2>3, <2>6, <3>1
    <3>3. At(kbuf, key, 0) /\ pos = from + Len(kbuf)
      BY <2>2, <3>1
    <3>4. \A j \in 1..Len(kbuf) : kbuf[j] = key[j]
      BY <1>a, <2>3, <3>2, <3>3 DEF At
    <3>5. kbuf = key
      BY <1>a, <2>3, <3>2, <3>4, SeqEqual
    <3>6. At(<<>>, value, 0) /\ Len(<<>>) = 0
      BY <2>3, NoneAt
    <3>7. pos' = file.lineAt[i] + Len(kbuf') + 1 + Len(vbuf')
      BY <1>a, <2>1, <2>2, <2>3, <3>1, <3>3, <3>6
    <3>8. kbuf' = file.items[i][1] /\ At(vbuf', file.items[i][2], 0)
      BY <2>a, <3>1, <3>5, <3>6
    <3> QED
      BY <1>d, <2>3, <3>1, <3>7, <3>8 DEF FileRead
  <2>10. CASE ValueFound
    <3>1. /\ hasKey /\ ~hasKey' /\ kbuf' = <<>> /\ pairs' = Append(pairs, <<kbuf, vbuf>>)
          /\ pc' = "add" /\ Next1 = Newline
      BY <1>b, <2>1, <2>10 DEF ValueFound
    <3>2. Len(vbuf) = Len(value)
      BY <1>a, <2>3, <2>5, <3>1
    <3>3. kbuf = key /\ At(vbuf, value, 0) /\ pos = from + Len(key) + 1 + Len(vbuf)
      BY <2>2, <3>1
    <3>4. \A j \in 1..Len(vbuf) : vbuf[j] = value[j]
      BY <1>a, <2>3, <3>2, <3>3 DEF At
    <3>5. vbuf = value
      BY <1>a, <2>3, <3>2, <3>4, SeqEqual
    <3>6. /\ Len(pairs') = i /\ pairs'[i] = <<kbuf, vbuf>>
          /\ \A j \in 1..Len(pairs) : pairs'[j] = pairs[j]
      <4> DEFINE P == Seq(Byte) \X Seq(Byte)
                 pair == <<kbuf, vbuf>>
      <4>1. pairs \in Seq(P) /\ pair \in P /\ pairs' = Append(pairs, pair)
        BY <1>a, <3>1 DEF TypeOK
      <4> HIDE DEF P, pair
      <4>2. /\ Len(Append(pairs, pair)) = Len(pairs) + 1
            /\ \A j \in 1..Len(pairs) : Append(pairs, pair)[j] = pairs[j]
            /\ Append(pairs, pair)[Len(pairs) + 1] = pair
        BY <4>1, AppendProperties
      <4>3. /\ Len(pairs') = i /\ pairs'[i] = pair
            /\ \A j \in 1..Len(pairs) : pairs'[j] = pairs[j]
        BY <2>3, <4>1, <4>2
      <4> QED
        BY <4>3 DEF pair
    <3>7. \A j \in 1..Len(pairs') : pairs'[j] = file.items[j]
      <4>1. pairs'[i] = file.items[i]
        BY <2>a, <3>3, <3>5, <3>6
      <4>2. \A j \in 1..Len(pairs') : j \in 1..Len(pairs) \/ j = i
        BY <1>a, <2>3, <3>6
      <4> QED
        BY <1>d, <3>6, <4>1, <4>2
    <3>8. pos' = file.lineAt[i + 1]
      BY <2>1, <2>3, <3>2, <3>3
    <3>9. Len(pairs') + 1 = i + 1 /\ i + 1 \in 1..Len(file.items) + 1
      BY <1>c, <2>3, <3>6
    <3>10. CASE i = Len(file.items)
      <4>1. pos' = Len(file.text)
        BY <3>8, <3>10, FileType
      <4> QED
        BY <3>1, <3>7, <3>9, <3>10, <4>1 DEF FileRead
    <3>11. CASE i # Len(file.items)
      <4>1. i + 1 \in 1..Len(file.items) /\ i + 1 # Len(file.items) + 1
        BY <1>c, <2>3, <3>11
      <4>2. Len(file.items[i + 1][1]) \in Nat
        BY <4>1, ItemBytes DEF Item
      <4>3. At(<<>>, file.items[i + 1][1], 0) /\ Len(<<>>) = 0
        BY <4>2, NoneAt
      <4>4. file.lineAt[i + 1] \in Nat
        BY <3>9, FileType
      <4>5. pos' = file.lineAt[i + 1] + Len(kbuf')
        BY <3>1, <3>8, <4>3, <4>4
      <4> QED
        BY <3>1, <3>7, <3>9, <4>1, <4>3, <4>5 DEF FileRead
    <3> QED
      BY <3>10, <3>11
  <2> QED
    BY <1>4, <2>7, <2>8, <2>9, <2>10
<1>5. CASE End
  <2>1. pos = Len(input) /\ UNCHANGED <<pos, hasKey, kbuf, vbuf>>
    BY <1>5 DEF End
  <2>2. Len(pairs) + 1 = Len(file.items) + 1
    <3> SUFFICES ASSUME Len(pairs) + 1 # Len(file.items) + 1 PROVE FALSE
      OBVIOUS
    <3>1. Len(pairs) + 1 \in 1..Len(file.items)
      BY <1>a, <1>c, <1>d
    <3>2. IF hasKey
          THEN /\ kbuf = file.items[Len(pairs) + 1][1]
               /\ At(vbuf, file.items[Len(pairs) + 1][2], 0)
               /\ pos = file.lineAt[Len(pairs) + 1] + Len(kbuf) + 1 + Len(vbuf)
          ELSE /\ At(kbuf, file.items[Len(pairs) + 1][1], 0)
               /\ pos = file.lineAt[Len(pairs) + 1] + Len(kbuf)
      BY DEF FileRead
    <3>3. PICK key, value, from : Item(file, Len(pairs) + 1, key, value, from)
      BY <3>1, ItemBytes
    <3>4. /\ key = file.items[Len(pairs) + 1][1] /\ value = file.items[Len(pairs) + 1][2]
          /\ from = file.lineAt[Len(pairs) + 1]
      BY <3>3 DEF Item
    <3>5. /\ Len(key) \in Nat /\ Len(value) \in Nat /\ from \in Nat
          /\ from + Len(key) + Len(value) + 2 <= Len(input)
      BY <3>3 DEF Item
    <3>6. CASE hasKey
      <4>1. kbuf = key /\ At(vbuf, value, 0) /\ pos = from + Len(key) + 1 + Len(vbuf)
        BY <3>2, <3>4, <3>6
      <4>2. Len(vbuf) <= Len(value)
        BY <1>a, <3>5, <4>1 DEF At
      <4> QED
        BY <1>a, <2>1, <3>5, <4>1, <4>2
    <3>7. CASE ~hasKey
      <4>1. At(kbuf, key, 0) /\ pos = from + Len(kbuf)
        BY <3>2, <3>4, <3>7
      <4>2. Len(kbuf) <= Len(key)
        BY <1>a, <3>5, <4>1 DEF At
      <4> QED
        BY <1>a, <2>1, <3>5, <4>1, <4>2
    <3> QED
      BY <3>6, <3>7
  <2>3. ~hasKey /\ kbuf = <<>> /\ pos = Len(file.text)
    BY <2>2 DEF FileRead
  <2>4. pc' = "ended" /\ pairs' = pairs
    BY <1>5, <2>3 DEF End
  <2> QED
    BY <1>d, <2>1, <2>2, <2>3, <2>4 DEF FileRead
<1> QED
  BY <1>1, <1>2, <1>3, <1>4, <1>5 DEF Next

(* The items of any file that config_store wrote are called back, all of    *)
(* them and in their order, however config_load cuts it into chunks and     *)
(* whatever bytes other than a newline the values have.                     *)
THEOREM ReadsBack == Spec => []RoundTrip
<1>1. TypeOK /\ Safe /\ FilesRead /\ [Next]_vars => FilesRead'
  <2> SUFFICES ASSUME TypeOK, Safe, FilesRead, [Next]_vars, NEW file \in Files,
                      input' = file.text
               PROVE  FileRead(file)'
    BY DEF FilesRead
  <2>1. input' = input
    BY DEF Next, AddBegin, StoreByte, KeyFound, ValueFound, AddEnd, End, vars
  <2> QED
    BY <2>1, StepFile DEF FilesRead
<1>2. TypeOK /\ Safe /\ FilesRead => RoundTrip
  <2> SUFFICES ASSUME TypeOK, Safe, FilesRead, Finished, NEW file \in Files, input = file.text
               PROVE  pc = "ended" /\ pairs = file.items
    BY DEF RoundTrip
  <2>1. FileRead(file)
    BY DEF FilesRead
  <2>2. pc = "ended" /\ Len(pairs) + 1 = Len(file.items) + 1
    BY <2>1 DEF FileRead, Finished
  <2>3. Len(pairs) = Len(file.items)
    BY <2>2, Counts, FileType
  <2>4. \A j \in 1..Len(pairs) : pairs[j] = file.items[j]
    BY <2>1 DEF FileRead
  <2> DEFINE Pair == Seq(Byte) \X Seq(Byte)
  <2>5. pairs \in Seq(Pair) /\ file.items \in Seq(Pair)
    BY FileType DEF TypeOK
  <2> HIDE DEF Pair
  <2>6. pairs = file.items
    BY <2>3, <2>4, <2>5, SeqEqual
  <2> QED
    BY <2>2, <2>6
<1> QED
  BY <1>1, <1>2, InitType, InitSafe, InitFiles, StepType, StepSafe, PTL DEF Spec
=============================================================================
