-------------------------------- MODULE TextBox --------------------------------
(***************************************************************************)
(* What a screen editor promises: one text with a cursor in it.  A key     *)
(* moves the cursor, puts symbols in at it or erases the one beside it;    *)
(* the ends of lines are symbols like any other.  Only when an end is      *)
(* erased between two lines that do not fit into one may the second be cut.*)
(* A text is otherwise replaced only by a file from the shelf.             *)
(***************************************************************************)
EXTENDS Naturals, Sequences, SequencesExt

CONSTANTS
    Symbols, End,   \* what a text is made of; the end of a line
    Tab,            \* symbols one key may put in
    Fit,            \* symbols a line has room for
    Shown(_)        \* the text of a file, as far as there is room for it

VARIABLES text, at, shelf

vars == <<text, at, shelf>>

Init == (text = <<>> \/ \E f \in shelf : text = Shown(f)) /\ at = 0

Before(s, n) == SubSeq(s, 1, n)
After(s, n) == SubSeq(s, n + 1, Len(s))

Move == text' = text /\ at' \in 0..Len(text) /\ UNCHANGED shelf

(* In a line that is full the cursor may go on without the symbol.         *)
Insert ==
    LET old == text
        new == text'
        k == Len(new) - Len(old)
    IN  /\ k \in 1..Tab
        /\ \E c \in Symbols :
              new = Before(old, at) \o [i \in 1..k |-> c] \o After(old, at)
        /\ at' \in (at + k)..Len(new)
        /\ UNCHANGED shelf

EraseBefore == at > 0 /\ text' = RemoveAt(text, at) /\ at' = at - 1 /\ UNCHANGED shelf

EraseAt == at < Len(text) /\ text' = RemoveAt(text, at + 1) /\ at' = at /\ UNCHANGED shelf

(* Lengths of the lines beside the end at e.                               *)
LineAfter(s, e) ==
    CHOOSE k \in 0..(Len(s) - e) :
        /\ \A i \in 1..k : s[e + i] # End
        /\ e + k = Len(s) \/ s[e + k + 1] = End

LineBefore(s, e) ==
    CHOOSE k \in 0..(e - 1) :
        /\ \A i \in 1..k : s[e - i] # End
        /\ e - k = 1 \/ s[e - k - 1] = End

Cut ==
    LET old == text
        new == text'
    IN  \E e \in {at, at + 1} \cap 1..Len(old) :
            LET next == LineAfter(old, e)
                k == Len(new) - Len(old) + next + 1
            IN  /\ old[e] = End
                /\ LineBefore(old, e) + next >= Fit
                /\ k \in 0..next
                /\ new = Before(old, e - 1) \o SubSeq(old, e + 1, e + k) \o After(old, e + next)
                /\ at' = e - 1
                /\ UNCHANGED shelf

Open == (text' = <<>> \/ \E f \in shelf : text' = Shown(f)) /\ at' = 0 /\ UNCHANGED shelf

ShelfChanges == UNCHANGED <<text, at>>

Next == Move \/ Insert \/ EraseBefore \/ EraseAt \/ Cut \/ Open \/ ShelfChanges

Spec == Init /\ [][Next]_vars
==============================================================================
