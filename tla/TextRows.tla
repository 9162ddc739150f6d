------------------------------- MODULE TextRows -------------------------------
(***************************************************************************)
(* Texts as the two editors share them through the disk: a file is a       *)
(* sequence of symbols, of which NL ends a line.  A number with the space  *)
(* behind it is one symbol, <<"num", n>>; others are <<c>>.                *)
(***************************************************************************)
EXTENDS Naturals, Sequences, SequencesExt

NL == <<"nl">>

(* The lines between the ends of lines; there is always a last one, which  *)
(* may be empty.                                                           *)
Rows(s) ==
    FoldLeft(LAMBDA rows, c :
                IF c = NL THEN Append(rows, <<>>)
                ELSE [rows EXCEPT ![Len(rows)] = Append(@, c)],
             <<<<>>>>, s)

(* Lines written to a file, each with its end.                             *)
Lines(rows) == FoldLeft(LAMBDA s, row : s \o row \o <<NL>>, <<>>, rows)

Upto(s, n) == SubSeq(s, 1, IF n < Len(s) THEN n ELSE Len(s))

(* What of s is in S, in its order.                                        *)
Only(s, S) == FoldLeft(LAMBDA kept, x : IF x \in S THEN Append(kept, x) ELSE kept, <<>>, s)
==============================================================================
