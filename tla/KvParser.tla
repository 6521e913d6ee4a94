------------------------------ MODULE KvParser ------------------------------
(***************************************************************************)
(* The incremental parser of key=value lines                               *)
(* (relay/machine-access/components/kv/kv.c), which reads command payloads *)
(* in one chunk and the configuration file in several.  One step of the    *)
(* running parser is one iteration of the loop in kv_parser_add.           *)
(***************************************************************************)
EXTENDS Integers, Sequences

CONSTANTS
    Char,          \* bytes other than the two the parser looks for
    Inputs,        \* texts to parse, sequences of Byte
    KeySize,       \* ksz, the size of kbuf
    ValueSize,     \* vsz, the size of vbuf
    LineSize,      \* size of the buffer config_store writes a line in
    Files          \* what config_store writes (see IsFile)

Equals == "="
Newline == "nl"
Byte == Char \cup {Equals, Newline}

ASSUME InputsAssumption == Inputs \subseteq Seq(Byte)
ASSUME SizesAssumption ==
    KeySize \in Nat \ {0} /\ ValueSize \in Nat \ {0} /\ LineSize \in Nat

VARIABLES
    input,    \* the text, handed over in chunks
    pos,      \* bytes of it parsed
    stop,     \* end of the chunk being parsed
    hasKey,   \* parser->has_key
    kbuf,     \* bytes in kbuf, up to parser->end while a key is read
    vbuf,     \* bytes in vbuf, up to parser->end while a value is read
    target,   \* the loop's target byte
    space,    \* the loop's dstspc
    pairs,    \* arguments of the callbacks made so far
    pc        \* where the caller is; "failed", "ended", "refused" are results

parser == <<hasKey, kbuf, vbuf>>
vars == <<input, pos, stop, parser, target, space, pairs, pc>>

Dst == IF hasKey THEN vbuf ELSE kbuf
DstSize == IF hasKey THEN ValueSize ELSE KeySize

Init ==   \* kv_parser_init
    /\ input \in Inputs
    /\ pos = 0 /\ stop = 0
    /\ hasKey = FALSE
    /\ kbuf = <<>> /\ vbuf = <<>>
    /\ target = Equals
    /\ space = KeySize
    /\ pairs = <<>>
    /\ pc = "idle"

(* Mutant: the room left is not recomputed in the middle of a key or value. *)
AddBeginForgets(n) ==
    /\ pc = "idle"
    /\ pos + n <= Len(input)
    /\ stop' = pos + n
    /\ target' = IF hasKey THEN Newline ELSE Equals
    /\ space' = DstSize
    /\ pc' = "add"
    /\ UNCHANGED <<input, pos, parser, pairs>>

(* kv_parser_add is called with the next n bytes.                           *)
AddBegin(n) ==
    /\ pc = "idle"
    /\ pos + n <= Len(input)
    /\ stop' = pos + n
    /\ target' = IF hasKey THEN Newline ELSE Equals
    /\ space' = DstSize - Len(Dst)
    /\ pc' = "add"
    /\ UNCHANGED <<input, pos, parser, pairs>>

Next1 == input[pos + 1]

(* Mutant: the buffer may be filled to its last byte.                       *)
StoreByteTooLate ==
    /\ pc = "add" /\ pos < stop
    /\ Next1 # target
    /\ IF hasKey
       THEN vbuf' = Append(vbuf, Next1) /\ UNCHANGED kbuf
       ELSE kbuf' = Append(kbuf, Next1) /\ UNCHANGED vbuf
    /\ space' = space - 1
    /\ pc' = IF space - 1 < 0 THEN "failed" ELSE "add"
    /\ pos' = pos + 1
    /\ UNCHANGED <<input, stop, hasKey, target, pairs>>

StoreByte ==
    /\ pc = "add" /\ pos < stop
    /\ Next1 # target
    /\ IF hasKey
       THEN vbuf' = Append(vbuf, Next1) /\ UNCHANGED kbuf
       ELSE kbuf' = Append(kbuf, Next1) /\ UNCHANGED vbuf
    /\ space' = space - 1
    /\ pc' = IF space - 1 = 0 THEN "failed" ELSE "add"
    /\ pos' = pos + 1
    /\ UNCHANGED <<input, stop, hasKey, target, pairs>>

(* Mutant: parser->end is not moved to the start of vbuf.                    *)
KeyFoundKeepsEnd ==
    /\ pc = "add" /\ pos < stop
    /\ Next1 = target /\ ~hasKey
    /\ hasKey' = TRUE
    /\ space' = ValueSize
    /\ target' = Newline
    /\ pos' = pos + 1
    /\ UNCHANGED <<input, stop, kbuf, vbuf, pairs, pc>>

KeyFound ==
    /\ pc = "add" /\ pos < stop
    /\ Next1 = target /\ ~hasKey
    /\ hasKey' = TRUE
    /\ vbuf' = <<>>
    /\ space' = ValueSize
    /\ target' = Newline
    /\ pos' = pos + 1
    /\ UNCHANGED <<input, stop, kbuf, pairs, pc>>

ValueFound ==
    /\ pc = "add" /\ pos < stop
    /\ Next1 = target /\ hasKey
    /\ pairs' = Append(pairs, <<kbuf, vbuf>>)
    /\ hasKey' = FALSE
    /\ kbuf' = <<>>
    /\ space' = KeySize
    /\ target' = Equals
    /\ pos' = pos + 1
    /\ UNCHANGED <<input, stop, vbuf, pc>>

AddEnd ==
    /\ pc = "add" /\ pos = stop
    /\ pc' = "idle"
    /\ UNCHANGED <<input, pos, stop, parser, target, space, pairs>>

(* kv_parser_end, after the last chunk: the end of the text ends a value,   *)
(* and a key that was begun is refused.                                     *)
End ==
    /\ pc = "idle" /\ pos = Len(input)
    /\ IF hasKey
       THEN /\ pairs' = Append(pairs, <<kbuf, vbuf>>)
            /\ pc' = "ended"
       ELSE /\ pc' = IF kbuf = <<>> THEN "ended" ELSE "refused"
            /\ UNCHANGED pairs
    /\ UNCHANGED <<input, pos, stop, parser, target, space>>

Finished == pc \in {"failed", "ended", "refused"}

Next ==
    \/ \E n \in 1..Len(input) : AddBegin(n)
    \/ StoreByte \/ KeyFound \/ ValueFound
    \/ AddEnd
    \/ End

Spec == Init /\ [][Next]_vars

(* Mutant: the line is not ended.                                           *)
WriteStrNoNewline(sz, key, value) == key \o <<Equals>> \o value

(* kv_write_str: one line, or nothing if it does not fit in sz with its NUL *)
WriteStr(sz, key, value) ==
    LET line == key \o <<Equals>> \o value \o <<Newline>>
    IN  IF Len(line) < sz THEN line ELSE <<>>

(* The bytes of s are those of t from the one after from on.                *)
At(s, t, from) == from + Len(s) <= Len(t) /\ \A j \in 1..Len(s) : t[from + j] = s[j]

Has(s, b) == \E j \in 1..Len(s) : s[j] = b

(* A file as config_store writes it: a line for each of its items, which    *)
(* begins where the one before it ends.  An item fits the buffers of        *)
(* config_load, its key has no "=" and its value no newline.                *)
IsFile(file) ==
    LET n == Len(file.items)
    IN  /\ file.text \in Seq(Byte)
        /\ file.items \in Seq(Seq(Byte) \X Seq(Byte))
        /\ file.lineAt \in [1..n + 1 -> 0..Len(file.text)]
        /\ file.lineAt[1] = 0 /\ file.lineAt[n + 1] = Len(file.text)
        /\ \A i \in 1..n :
              LET key == file.items[i][1]
                  value == file.items[i][2]
                  line == WriteStr(LineSize, key, value)
              IN  /\ Len(key) < KeySize /\ ~Has(key, Equals)
                  /\ Len(value) < ValueSize /\ ~Has(value, Newline)
                  /\ line # <<>> /\ At(line, file.text, file.lineAt[i])
                  /\ file.lineAt[i + 1] = file.lineAt[i] + Len(line)

ASSUME FilesAssumption == \A file \in Files : IsFile(file)

-----------------------------------------------------------------------------
(* Properties.                                                              *)

(* Every variable has its type.                                             *)
TypeOK ==
    /\ input \in Inputs
    /\ pos \in 0..Len(input)
    /\ stop \in 0..Len(input)
    /\ hasKey \in BOOLEAN
    /\ kbuf \in Seq(Byte) /\ vbuf \in Seq(Byte)
    /\ target \in {Equals, Newline}
    /\ space \in 0..KeySize \cup 0..ValueSize
    /\ pairs \in Seq(Seq(Byte) \X Seq(Byte))
    /\ pc \in {"idle", "add", "failed", "ended", "refused"}

(* While the parser has not failed the buffer it fills has room for another *)
(* byte: neither the next byte nor the closing NUL (kv.c:49, :64, :93) is   *)
(* written past its end, however the text is cut into chunks.               *)
InBounds ==
    /\ Len(kbuf) <= KeySize /\ Len(vbuf) <= ValueSize
    /\ pc # "failed" => Len(Dst) < DstSize

(* The room the loop counts down is the room that is left, also when a      *)
(* chunk ends in the middle of a key or a value and the next one starts     *)
(* there (kv.c:40).                                                         *)
SpaceIsExact ==
    pc = "add" => /\ space = DstSize - Len(Dst)
                  /\ target = IF hasKey THEN Newline ELSE Equals

(* The pair is what the text says after from, without the end of the line.  *)
ReadsPair(pair, from) ==
    /\ ~Has(pair[1], Equals) /\ ~Has(pair[2], Newline)
    /\ At(pair[1], input, from)
    /\ At(<<Equals>>, input, from + Len(pair[1]))
    /\ At(pair[2], input, from + Len(pair[1]) + 1)

(* The first n callbacks are lines of the text, each of which begins where  *)
(* the one before it ends.                                                  *)
LinesRead(n, at) ==
    /\ at[1] = 0
    /\ \A i \in 1..n :
          /\ ReadsPair(pairs[i], at[i])
          /\ at[i + 1] = at[i] + Len(pairs[i][1]) + Len(pairs[i][2]) + 2
          /\ input[at[i + 1]] = Newline

(* The buffers have what follows, up to pos.                                *)
RestRead(from) ==
    IF hasKey
    THEN ReadsPair(<<kbuf, vbuf>>, from) /\ pos = from + Len(kbuf) + 1 + Len(vbuf)
    ELSE ~Has(kbuf, Equals) /\ At(kbuf, input, from) /\ pos = from + Len(kbuf)

(* However the text is cut into chunks, the callbacks made are, one by one, *)
(* the lines that have been read, and the buffers have the rest: each line  *)
(* is a key up to its first "=" and a value up to the newline.  A parser    *)
(* that fails has a key or a value that fills its buffer; one that ends has *)
(* read all of the text, whose last value may lack its newline (kv.c:91-97).*)
ReadsText ==
    LET n == IF pc = "ended" /\ hasKey THEN Len(pairs) - 1 ELSE Len(pairs)
    IN  /\ \E at \in [1..n + 1 -> 0..pos] : LinesRead(n, at) /\ RestRead(at[n + 1])
        /\ pc = "failed" => Len(Dst) = DstSize
        /\ pc = "refused" => pos = Len(input) /\ ~hasKey /\ kbuf # <<>>
        /\ pc = "ended" =>
              /\ pos = Len(input)
              /\ IF hasKey THEN pairs[Len(pairs)] = <<kbuf, vbuf>> ELSE kbuf = <<>>

(* A file that config_store wrote is read back item by item, whatever bytes *)
(* other than a newline its values have and however it is cut into chunks.  *)
RoundTrip ==
    Finished =>
        \A file \in Files : input = file.text => pc = "ended" /\ pairs = file.items

(* Where what begins after p ends: before the next b, or with the text.     *)
EndOf(b, s, p) ==
    CHOOSE e \in p..Len(s) :
        /\ \A j \in p + 1 .. e : s[j] # b
        /\ e < Len(s) => s[e + 1] = b

Nothing(end) == [pairs |-> <<>>, end |-> end]

(* What the text says after p, given what it says after each line.          *)
MeaningAfter(s, p, m) ==
    LET e == EndOf(Equals, s, p)
        f == EndOf(Newline, s, e + 1)
        rest == IF f = Len(s) THEN Nothing("ended") ELSE m[f + 1]
    IN  CASE e - p >= KeySize -> Nothing("failed")
          [] e - p < KeySize /\ e = Len(s) ->
                Nothing(IF p = Len(s) THEN "ended" ELSE "refused")
          [] e - p < KeySize /\ e # Len(s) /\ f - e - 1 >= ValueSize -> Nothing("failed")
          [] OTHER ->
                [pairs |-> <<<<SubSeq(s, p + 1, e), SubSeq(s, e + 2, f)>>>> \o rest.pairs,
                 end |-> rest.end]

(* What a text means, read as a whole (README.md:44-46: a key, "=", and the *)
(* rest of the line or of the text): its pairs up to the first key or value *)
(* that does not fit, and how parsing it ends.                              *)
Meaning(s) == LET m[p \in 0..Len(s)] == MeaningAfter(s, p, m) IN m[0]

(* However a text is cut into chunks, the callbacks made and the result are *)
(* those of the text as a whole; and until then the callbacks made are the  *)
(* first of those.                                                          *)
ParsesMeaning ==
    LET m == Meaning(input)
    IN  /\ At(pairs, m.pairs, 0)
        /\ Finished => pairs = m.pairs /\ pc = m.end
=============================================================================
