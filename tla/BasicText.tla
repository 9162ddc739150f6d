----------------------------- MODULE BasicText -----------------------------
(***************************************************************************)
(* A GridBASIC program as the tokenizer leaves it (src/kernel/basic.c): a  *)
(* flat sequence of tokens that keeps its ends of line, and a table from   *)
(* line numbers to tokens.  A statement keyword and its operands are one   *)
(* token here: a name x, an expression e, the bounds of a FOR, and ns, the  *)
(* line numbers of a jump, the values of a CASE or DATA, or the procedure  *)
(* of a call.  The scans by which the interpreter finds the other end of a *)
(* loop or of a procedure walk over these tokens.                          *)
(***************************************************************************)
EXTENDS Integers, Sequences, FiniteSets, FiniteSetsExt, SequencesExt

\* An expression is a sum of variables and a number, a condition is an
\* expression compared with zero.
Expr(names, k) == [names |-> names, k |-> k]
Num(k)         == Expr(<<>>, k)

Blank == [op |-> "", x |-> "", e |-> Num(0), to |-> 0, step |-> 1, ns |-> <<>>]

Tok(op)        == [Blank EXCEPT !.op = op]
TokE(op, e)    == [Blank EXCEPT !.op = op, !.e = e]
TokN(op, ns)   == [Blank EXCEPT !.op = op, !.ns = ns]
TokX(op, x)    == [Blank EXCEPT !.op = op, !.x = x]
TokXE(op, x, e)   == [Blank EXCEPT !.op = op, !.x = x, !.e = e]
TokFor(x, e, to, step) ==
    [Blank EXCEPT !.op = "for", !.x = x, !.e = e, !.to = to, !.step = step]
TokCall(op, x, f, e) ==
    [Blank EXCEPT !.op = op, !.x = x, !.ns = <<f>>, !.e = e]

NL  == Tok("newline")
Col == Tok(":")

(***************************************************************************)
(* Moving the cursor.                                                      *)
(***************************************************************************)
Ops(t, S) == {i \in DOMAIN t : t[i].op \in S}

\* skip_to_newline: the first end of line at or after token i.
skip_to_newline(t, i) ==
    Min({j \in Ops(t, {"newline", "eof"}) : j >= i})

\* skip_if_false_branch: the first ELSE or ELSEIF of the line, or its end.
skip_if_false_branch(t, i) ==
    Min({j \in Ops(t, {"else", "elseif", "newline", "eof"}) : j >= i})

\* advance stays on the last token.
advance(t, i) == IF i < Len(t) THEN i + 1 ELSE i

(***************************************************************************)
(* Every token whose text has the keyword FOR or WHILE counts in the scan  *)
(* for the end of a loop: EXIT FOR and CONTINUE FOR have it too.           *)
(***************************************************************************)
HasKeyword ==
    [for   |-> {"for", "exit_for", "continue_for"},
     while |-> {"while", "exit_while", "continue_while"}]
Closing == [for |-> {"next"}, while |-> {"wend"}]

Count(t, S, i, j) == Cardinality({k \in Ops(t, S) : i <= k /\ k <= j})

\* The NEXT or WEND at which the scan from token i ends; the end of the
\* program when it finds none.
loop_end(t, kw, i) ==
    LET ends == {j \in Ops(t, Closing[kw]) :
                    /\ j >= i
                    /\ Count(t, Closing[kw], i, j)
                         = 1 + Count(t, HasKeyword[kw], i, j)}
    IN  Min(ends \union {Len(t)})

(***************************************************************************)
(* SUB and FUNCTION: collect_subs takes for a body what is between the     *)
(* line after the heading and the END of the same kind.  With another      *)
(* heading, or another END, in between its count of depth is never zero,   *)
(* for it counts the SUB of END SUB as well, and the body stays empty.     *)
(* find_sub takes the first of a name.                                     *)
(***************************************************************************)
Headings == {"sub", "function"}
EndOf    == [sub |-> "end_sub", function |-> "end_function"]
Ends_    == {"end_sub", "end_function"}

body_start(t, h) == skip_to_newline(t, h) + 1
body_end(t, h) ==
    LET marks == {j \in Ops(t, Headings \union Ends_) : j >= body_start(t, h)}
    IN  IF marks # {} /\ t[Min(marks)].op = EndOf[t[h].op]
        THEN Min(marks) ELSE body_start(t, h)

find_sub(t, name) ==
    LET hs == {h \in Ops(t, Headings) : t[h].x = name}
    IN  IF hs = {} THEN 0 ELSE Min(hs)

\* skip_sub_or_function_body: what the main program does at a heading.  It does
\* not tell the two kinds of END apart.
skip_body(t, h) ==
    LET ends == {j \in Ops(t, Ends_) : j > h /\ Count(t, Ends_, h, j) = Count(t, Headings, h, j)}
    IN  IF ends = {} THEN Len(t) ELSE Min(ends) + 1

\* find_label: the token of a line number.  The table goes with the text that
\* was tokenized last.
find_label(ls, n) == IF n \in DOMAIN ls THEN ls[n] ELSE 0

\* collect_data: the values of all DATA statements, in the order of the text.
collect_data(t) ==
    FlattenSeq([i \in DOMAIN t |-> IF t[i].op = "data" THEN t[i].ns ELSE <<>>])

(***************************************************************************)
(* What the text says, for the properties: the loops that enclose a token, *)
(* outermost first.  An opening is closed by the first closing that        *)
(* balances it.                                                            *)
(***************************************************************************)
Opening  == {"for", "while", "repeat"}
Closings == {"next", "wend", "until"}
ClosedAt(t, i) ==
    Min({j \in Ops(t, Closings) :
            j > i /\ Count(t, Closings, i, j) = Count(t, Opening, i, j)})
Enclosing(t, i) == {j \in Ops(t, Opening) : j < i /\ i <= ClosedAt(t, j)}
============================================================================
