------------------------------ MODULE EditBuffer ------------------------------
(***************************************************************************)
(* The buffer of the GridBASIC editor (basic_ide.c): lines of at most      *)
(* LineLen - 1 symbols, a cursor, the path and whether there are changes.  *)
(* Rows are counted from 1; col is the number of symbols before the cursor.*)
(***************************************************************************)
EXTENDS TextRows, Integers

CONSTANTS
    LineLen,    \* IDE_LINE_LEN
    MaxLines,   \* IDE_MAX_LINES
    SrcMax,     \* BASIC_SRC_MAX
    NoPath

ASSUME BufferAssumption ==
    /\ {LineLen, MaxLines, SrcMax} \subseteq Nat
    /\ LineLen > 2 /\ MaxLines > 0 /\ SrcMax > MaxLines

Blank == <<"sp">>
Tab == 4

EmptyBuffer == [lines |-> <<<<>>>>, row |-> 1, col |-> 0, path |-> NoPath, dirty |-> FALSE]

Line(b) == b.lines[b.row]
Within(x, lo, hi) == IF x < lo THEN lo ELSE IF x > hi THEN hi ELSE x

(* clamp_cursor                                                            *)
clamp_cursor(b) ==
    LET row == Within(b.row, 1, Len(b.lines))
    IN  [b EXCEPT !.row = row, !.col = Within(@, 0, Len(b.lines[row]))]

(* insert_char_at: nothing, when the line is full.                         *)
insert_char_at(b, c) ==
    IF Len(Line(b)) + 1 >= LineLen THEN b
    ELSE [b EXCEPT !.lines[b.row] = InsertAt(@, b.col + 1, c)]

WithoutRow(b, r) == RemoveAt(b.lines, r)

split_line_short(b) ==
    LET l == Line(b)
    IN  IF Len(b.lines) >= MaxLines THEN b
        ELSE [b EXCEPT !.lines = InsertAt([b.lines EXCEPT ![b.row] = SubSeq(l, 1, b.col)],
                                          b.row + 1, SubSeq(l, b.col + 2, Len(l)))]

(* split_line: nothing, when the buffer is full.                           *)
split_line(b) ==
    LET l == Line(b)
    IN  IF Len(b.lines) >= MaxLines THEN b
        ELSE [b EXCEPT !.lines = InsertAt([b.lines EXCEPT ![b.row] = SubSeq(l, 1, b.col)],
                                          b.row + 1, SubSeq(l, b.col + 1, Len(l)))]

(* merge_up: what does not fit of the line is lost, and a line that is     *)
(* full but for one symbol takes nothing.                                  *)
merge_up(b) ==
    LET above == b.lines[b.row - 1]
        fits == Len(above) + Len(Line(b)) + 1 < LineLen
        part == IF fits THEN Line(b) ELSE Upto(Line(b), LineLen - 2 - Len(above))
    IN  IF b.row = 1 \/ (~fits /\ Len(above) + 2 >= LineLen) THEN b
        ELSE [b EXCEPT !.lines = [WithoutRow(b, b.row) EXCEPT ![b.row - 1] = above \o part],
                       !.row = b.row - 1,
                       !.col = Len(above)]

(* delete_char: at the end of a line the next one joins it, or is lost     *)
(* when they do not fit.                                                   *)
delete_char(b) ==
    LET next == b.lines[b.row + 1]
        fits == Len(Line(b)) + Len(next) + 1 < LineLen
    IN  IF b.col < Len(Line(b)) THEN [b EXCEPT !.lines[b.row] = RemoveAt(@, b.col + 1)]
        ELSE IF b.row = Len(b.lines) THEN b
        ELSE [b EXCEPT !.lines = [WithoutRow(b, b.row + 1) EXCEPT
                                    ![b.row] = IF fits THEN Line(b) \o next ELSE Line(b)]]

Changed(b) == [b EXCEPT !.dirty = TRUE]

(* What the loop of basic_ide makes of a key.                              *)
TypeChar(b, c) ==
    Changed(clamp_cursor([insert_char_at(b, c) EXCEPT !.col = @ + 1]))

TypeTab(b) ==
    LET filled == FoldLeft(LAMBDA x, i : insert_char_at(x, Blank), b, [i \in 1..Tab |-> i])
    IN  Changed(clamp_cursor([filled EXCEPT !.col = @ + Tab]))

Enter(b) == Changed(clamp_cursor([split_line(b) EXCEPT !.row = @ + 1, !.col = 0]))

Backspace(b) ==
    Changed(clamp_cursor(IF b.col = 0 THEN merge_up(b)
                         ELSE delete_char([b EXCEPT !.col = @ - 1])))

DeleteQuietly(b) == delete_char(b)

Delete(b) == Changed(delete_char(b))

ArrowByOldLine(b, dr, dc) ==
    [b EXCEPT !.row = Within(@ + dr, 1, Len(b.lines)),
              !.col = Within(@ + dc, 0, Len(Line(b)))]

Arrow(b, dr, dc) == clamp_cursor([b EXCEPT !.row = @ + dr, !.col = @ + dc])

Home(b) == [b EXCEPT !.col = 0]
EndKey(b) == [b EXCEPT !.col = Len(Line(b))]

(* serialize; source_over_limit                                            *)
serialize(b) == Lines(b.lines)
source_over_limit(b) == Len(serialize(b)) >= SrcMax

(* parse_source_into: lines too many or too long are cut, and only the     *)
(* former are reported, like a file of exactly SrcMax - 1 bytes.           *)
parse_source_into(b, path, src) ==
    LET rows == Upto(Rows(src), MaxLines)
    IN  [lines |-> [i \in 1..Len(rows) |-> Upto(rows[i], LineLen - 1)],
         row |-> 1, col |-> 0, path |-> path, dirty |-> FALSE]

TooManyLines(src) ==
    LET rows == Rows(src)
    IN  Len(rows) > MaxLines + 1 \/ (Len(rows) = MaxLines + 1 /\ Last(rows) # <<>>)
==============================================================================
