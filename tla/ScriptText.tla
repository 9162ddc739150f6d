------------------------------ MODULE ScriptText ------------------------------
(***************************************************************************)
(* The source of the Grid Workbench (ide.c): one text, taken apart into    *)
(* numbered lines for each edit and put together again.                    *)
(***************************************************************************)
EXTENDS TextRows, Integers

CONSTANTS
    SourceMax,      \* IDE_SOURCE_MAX
    TextMax,        \* IDE_LINE_MAX
    ScriptMax       \* IDE_LINES_MAX

ASSUME ScriptAssumption == {SourceMax, TextMax, ScriptMax} \subseteq Nat \ {0}

IsNum(c) == c[1] = "num"

(* The lines of a source: what follows the last NL is one if not empty.    *)
SourceRows(s) ==
    LET rows == Rows(s)
    IN  IF Last(rows) = <<>> THEN Front(rows) ELSE rows

(* A line without a number gets ten times its place.                       *)
Numbered(row, i) ==
    IF row # <<>> /\ IsNum(row[1])
    THEN [number |-> row[1][2], text |-> Tail(row)]
    ELSE [number |-> 10 * i, text |-> row]

Listing(s) ==
    LET rows == SourceRows(s)
    IN  [i \in 1..Len(rows) |-> Numbered(rows[i], i)]

(* parse_source_lines: no more than ScriptMax lines, and none longer than  *)
(* there is room for.                                                      *)
parse_source_lines(s) ==
    LET l == Listing(s)
    IN  Upto([i \in 1..Len(l) |->
                [number |-> l[i].number, text |-> Upto(l[i].text, TextMax - 1)]],
             ScriptMax)

Swap(l, i, j) == [l EXCEPT ![i] = l[j], ![j] = l[i]]

(* sort_lines, exchange by exchange: lines of equal number may change      *)
(* places.                                                                 *)
Settle(l, i) ==
    FoldLeft(LAMBDA x, j : IF x[j].number < x[i].number THEN Swap(x, i, j) ELSE x,
             l, [k \in 1..(Len(l) - i) |-> i + k])

sort_lines(l) == FoldLeft(LAMBDA x, i : Settle(x, i), l, [i \in 1..Len(l) |-> i])

Written(l) ==
    LET kept == Only(l, {x \in Range(l) : x.number > 0})
    IN  Lines([i \in 1..Len(kept) |-> <<<<"num", kept[i].number>>>> \o kept[i].text])

(* rebuild_source: lines of number 0 are left out; a source that is too    *)
(* long is cut, and then does not count as modified.                       *)
rebuild_source(b, l) ==
    LET all == Written(l)
    IN  IF Len(all) < SourceMax THEN [b EXCEPT !.source = all, !.modified = TRUE]
        ELSE [b EXCEPT !.source = Upto(all, SourceMax - 1)]

ide_set_line_next(b, n, text) ==
    LET l == parse_source_lines(b.source)
        later == {i \in 1..Len(l) : l[i].number >= n}
        new == [number |-> n, text |-> text]
        edited == IF later # {}
                  THEN ReplaceAt(l, CHOOSE i \in later : \A j \in later : i <= j, new)
                  ELSE IF Len(l) < ScriptMax THEN Append(l, new)
                  ELSE l
    IN  rebuild_source(b, sort_lines(edited))

(* ide_set_line: the first line of that number, or a new one if there is   *)
(* room.                                                                   *)
ide_set_line(b, n, text) ==
    LET l == parse_source_lines(b.source)
        same == {i \in 1..Len(l) : l[i].number = n}
        new == [number |-> n, text |-> text]
        edited == IF same # {}
                  THEN ReplaceAt(l, CHOOSE i \in same : \A j \in same : i <= j, new)
                  ELSE IF Len(l) < ScriptMax THEN Append(l, new)
                  ELSE l
    IN  rebuild_source(b, sort_lines(edited))

(* ide_delete_line: every line of that number.                             *)
ide_delete_line(b, n) ==
    LET l == parse_source_lines(b.source)
    IN  rebuild_source(b, Only(l, {x \in Range(l) : x.number # n}))

Stop == <<"END">>
Stops(x) == x.text # <<>> /\ x.text[1] = Stop

gridscript_lines_unsorted(s) ==
    LET l == parse_source_lines(s)
        ends == {i \in 1..Len(l) : Stops(l[i])}
    IN  IF ends = {} THEN l
        ELSE SubSeq(l, 1, (CHOOSE i \in ends : \A j \in ends : i <= j) - 1)

(* gridscript_run: the lines by number, up to the first that ends it.      *)
gridscript_lines(s) ==
    LET l == sort_lines(parse_source_lines(s))
        ends == {i \in 1..Len(l) : Stops(l[i])}
    IN  IF ends = {} THEN l
        ELSE SubSeq(l, 1, (CHOOSE i \in ends : \A j \in ends : i <= j) - 1)
==============================================================================
