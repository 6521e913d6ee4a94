----------------------------- MODULE MCKvParser -----------------------------
(***************************************************************************)
(* Every short text over three bytes, and every short file, cut into       *)
(* chunks in every way.                                                    *)
(***************************************************************************)
EXTENDS KvParser, SequencesExt

MCChar == {"a"}
MCInputs == BoundedSeq({"a", "=", "nl"}, 6)

(* The files of up to six bytes, of items with short keys and values.       *)
MCItems == BoundedSeq({"a"}, KeySize - 1) \X BoundedSeq({"a", "="}, ValueSize - 1)

Text(items) ==
    FlattenSeq([i \in DOMAIN items |-> WriteStr(LineSize, items[i][1], items[i][2])])

MCFiles ==
    {[items |-> items, text |-> Text(items),
      lineAt |-> [i \in 1..Len(items) + 1 |-> Len(Text(SubSeq(items, 1, i - 1)))]] :
        items \in {f \in BoundedSeq(MCItems, 3) : Len(Text(f)) <= 6}}

=============================================================================
