------------------------------ MODULE TextScan ------------------------------
(***************************************************************************)
(* TextScanOperator cuts a text file into segments of a fixed size, and    *)
(* the work orders of the segments, executed by any workers in any order,  *)
(* load its rows: a segment has the rows that begin after its first        *)
(* newline, up to the row that begins after its last one and may end in a  *)
(* later segment.                                                          *)
(*                                                                         *)
(* A character is a piece of a value that can be parsed ("v") or not       *)
(* ("b"), a field terminator (",") or a newline ("n").  A row is known by  *)
(* the offset at which it begins.                                          *)
(***************************************************************************)
EXTENDS Integers, FiniteSets

CONSTANTS
    Chars,         \* characters that the file may have
    NumColumns,    \* attributes of the relation
    SegmentSizes,  \* values of FLAGS_textscan_text_segment_size
    MaxLength      \* bound: length of the file

TextScanAssumption ==
    /\ Chars \subseteq {"v", "b", ",", "n"}
    /\ NumColumns \in Nat \ {0}
    /\ SegmentSizes \subseteq Nat \ {0}
    /\ MaxLength \in Nat

VARIABLES
    file,            \* offset -> character
    segment_size,
    blocking_met,    \* blocking_dependencies_met_
    work_generated,  \* work_generated_
    orders,          \* segments whose work orders have not been executed
    loaded           \* row -> number of tuples inserted for it

vars == <<file, segment_size, blocking_met, work_generated, orders, loaded>>

Size == Cardinality(DOMAIN file)

Init ==
    /\ \E n \in 0 .. MaxLength : file \in [0 .. n - 1 -> Chars]
    /\ segment_size \in SegmentSizes
    /\ blocking_met = FALSE /\ work_generated = FALSE
    /\ orders = {}
    /\ loaded = [p \in DOMAIN file |-> 0]

-----------------------------------------------------------------------------
(* Segments.                                                               *)

FullSegments == {<<k * segment_size, segment_size>> : k \in 0 .. (Size \div segment_size) - 1}
TextOffset   == (Size \div segment_size) * segment_size

\* The loads and creations of tables before it have ended.
informAllBlockingDependenciesMet ==
    /\ ~blocking_met /\ blocking_met' = TRUE
    /\ UNCHANGED <<file, segment_size, work_generated, orders, loaded>>

\* The full segments and the residual partial one.
getAllWorkOrders ==
    /\ blocking_met /\ ~work_generated
    /\ orders' = FullSegments \cup
        (IF TextOffset < Size THEN {<<TextOffset, Size - TextOffset>>} ELSE {})
    /\ work_generated' = TRUE
    /\ UNCHANGED <<file, segment_size, blocking_met, loaded>>

-----------------------------------------------------------------------------
(* Rows.  Past its end the text of a row is taken to end with a newline.   *)

At(p)       == IF p \in DOMAIN file THEN file[p] ELSE "n"
Next1(p, S) == CHOOSE q \in p .. Size : At(q) \in S /\ \A r \in p .. q - 1 : At(r) \notin S
Beyond      == Size + 1

\* The offset after the next newline, or one that is beyond all rows.
SkipLine(p) == IF p >= Size THEN Beyond ELSE Next1(p, {"n"}) + 1
skipFaultyRow(p) == SkipLine(p)

\* The field at p: where the next one begins, and whether the line ends here.
extractField(p) ==
    LET e == IF p >= Size THEN Size ELSE Next1(p, {",", "n"})
    IN [next |-> e + 1, eol |-> At(e) = "n", good |-> \A q \in p .. e - 1 : At(q) # "b"]

\* The row at p after c columns: too few fields, a value that cannot be
\* parsed, or too many fields make it faulty.
parseRow(p) ==
    LET row[c \in 0 .. NumColumns] ==
          IF c = 0 THEN [ptr |-> p, eol |-> FALSE, faulty |-> FALSE]
          ELSE LET s == row[c - 1]
                   f == extractField(s.ptr)
               IN IF s.faulty THEN s
                  ELSE IF s.eol THEN [s EXCEPT !.faulty = TRUE]
                  ELSE IF f.good THEN [ptr |-> f.next, eol |-> f.eol, faulty |-> FALSE]
                  ELSE [ptr |-> skipFaultyRow(f.next), eol |-> f.eol, faulty |-> TRUE]
        last == row[NumColumns]
    IN IF last.faulty \/ last.eol THEN last
       ELSE [ptr |-> skipFaultyRow(last.ptr), eol |-> TRUE, faulty |-> TRUE]

\* The rows from p up to end, without empty lines and faulty rows.
rowsBetween(p, end) ==
    LET rows[q \in p .. Beyond] ==
          IF q >= end THEN {}
          ELSE IF At(q) = "n" THEN rows[q + 1]
          ELSE LET r == parseRow(q)
               IN (IF r.faulty THEN {} ELSE {q}) \cup rows[r.ptr]
    IN rows[p]

\* Mutant: the row that begins after the last newline is left to the next segment.
NoRowAfter(end) == {}

\* The row that begins after the last newline, if the file goes on there.
rowAfter(end) == IF end < Size /\ ~parseRow(end).faulty THEN {end} ELSE {}

Newlines(off, size) == {p \in off .. off + size - 1 : At(p) = "n"}

\* The rows of a segment.
rowsOf(off, size) ==
    LET newlines == Newlines(off, size)
        nls      == IF off = 0 THEN newlines \cup {-1} ELSE newlines
        first    == CHOOSE p \in nls : \A q \in nls : p <= q
        last     == CHOOSE p \in nls : \A q \in nls : p >= q
    IN IF nls = {} THEN {}
       ELSE rowsBetween(first + 1, last + 1) \cup rowAfter(last + 1)

execute(seg) ==
    /\ seg \in orders
    /\ orders' = orders \ {seg}
    /\ LET rows == rowsOf(seg[1], seg[2])
       IN loaded' = [p \in DOMAIN loaded |-> loaded[p] + (IF p \in rows THEN 1 ELSE 0)]
    /\ UNCHANGED <<file, segment_size, blocking_met, work_generated>>

Next == informAllBlockingDependenciesMet \/ getAllWorkOrders \/ \E seg \in orders : execute(seg)

Spec == Init /\ [][Next]_vars

-----------------------------------------------------------------------------
(* Properties.                                                             *)

\* Every segment lies within the file.
TypeOK ==
    /\ file \in [0 .. Size - 1 -> Chars] /\ Size <= MaxLength
    /\ segment_size \in SegmentSizes /\ blocking_met \in BOOLEAN
    /\ work_generated \in BOOLEAN /\ (work_generated => blocking_met)
    /\ \A s \in orders : s[1] \in DOMAIN file /\ s[2] \in 1 .. Size - s[1]
    /\ loaded \in [DOMAIN file -> Nat]

\* The rows of the file: the lines that are not empty and have as many fields
\* as the relation has attributes, all of which can be parsed.
ValidRows ==
    {p \in DOMAIN file :
        /\ p = 0 \/ At(p - 1) = "n"
        /\ At(p) # "n"
        /\ LET line == p .. Next1(p, {"n"}) - 1
           IN /\ Cardinality({q \in line : At(q) = ","}) = NumColumns - 1
              /\ \A q \in line : At(q) # "b"}

\* No row is loaded by two segments, and nothing that is not a row is.
NoRowTwice ==
    \A p \in DOMAIN loaded : loaded[p] <= IF p \in ValidRows THEN 1 ELSE 0

\* When all segments have been scanned every row of the file has been loaded,
\* wherever the segments begin and whatever faulty rows are around it.
AllRowsLoaded ==
    (work_generated /\ orders = {}) => \A p \in ValidRows : loaded[p] = 1
====
