---------------------------- MODULE MCGridBasic ----------------------------
(***************************************************************************)
(* Small GridBASIC programs.  A line is a number, 0 for none, and its      *)
(* tokens.                                                                 *)
(***************************************************************************)
EXTENDS GridBasic

Line(n, ts) == [n |-> n, ts |-> ts]
L(ts) == Line(0, ts)
Text(ls, result) ==
    LET at(i) == 1 + FoldLeft(LAMBDA s, l : s + Len(l.ts) + 1, 0, SubSeq(ls, 1, i - 1))
        numbered == {i \in DOMAIN ls : ls[i].n > 0}
    IN  [tokens |-> FlattenSeq([i \in DOMAIN ls |-> Append(ls[i].ts, NL)]) \o <<Tok("eof")>>,
         lines  |-> [n \in {ls[i].n : i \in numbered} |->
                        at(CHOOSE i \in numbered : ls[i].n = n)],
         result |-> result]

V(x)       == Expr(<<x>>, 0)
Plus(x, k) == Expr(<<x>>, k)
Nothing_   == [x \in {} |-> 0]
\* IF e THEN t
IfThen(e, t) == <<TokE("if", e), t>>

\* FUNCTION S(N): N + S(N - 1), and a SUB that counts its calls in C.
Procedures ==
    <<L(<<TokXE("function", "S", V("N"))>>),
      L(<<TokE("if", V("N")), TokCall("let_call", "T", "S", Plus("N", -1)), Col,
          TokXE("let", "S", Expr(<<"T", "N">>, 0)),
          Tok("else"), TokXE("let", "S", Num(0))>>),
      L(<<Tok("end_function")>>),
      L(<<TokXE("sub", "P", V("N"))>>),
      L(<<TokFor("K", Num(1), 2, 1)>>),
      L(<<TokXE("let", "C", Plus("C", 1)), Col, Tok("next"), TokX("id", "K")>>),
      L(<<Tok("end_sub")>>)>>

Sums ==
    Text(<<L(<<TokXE("let", "N", Num(7)), Col, TokXE("let", "C", Num(0))>>)>> \o Procedures \o
         <<L(<<TokCall("let_call", "X", "S", Num(2))>>),
           L(<<TokFor("I", Num(2), 1, -1)>>),
           L(<<TokCall("call", "", "P", V("I"))>>),
           L(<<Tok("next")>>)>>,
         [X |-> 3, N |-> 7, C |-> 4, I |-> 0])

\* A loop of a FOR around a WHILE, with something done in the inner one and in
\* the outer one when the user says so.
Within == {IfThen(V("G"), Tok("exit_for")), IfThen(V("G"), Tok("exit_while")),
           IfThen(V("G"), Tok("continue_while")), <<TokN("gosub", <<100>>)>>,
           <<TokCall("call", "", "P", V("G"))>>}
After  == {IfThen(V("G"), Tok("exit_for")), IfThen(V("G"), Tok("continue_for")), <<Tok("rem")>>}
Nested(a, b) ==
    Text(<<L(<<TokXE("let", "C", Num(0))>>)>> \o Procedures \o
         <<L(<<TokFor("I", Num(1), 2, 1)>>),
           L(<<TokX("input", "G")>>),
           L(<<TokXE("let", "W", Num(2))>>),
           L(<<TokE("while", V("W"))>>),
           L(<<TokXE("let", "W", Plus("W", -1))>>),
           L(a),
           L(<<Tok("wend")>>),
           L(b),
           L(<<Tok("next"), TokX("id", "I")>>),
           L(<<Tok("end")>>),
           Line(100, <<Tok("repeat"), Col, TokX("input", "U")>>),
           L(<<TokE("until", Num(1))>>),
           L(<<Tok("return")>>)>>, Nothing_)

Jumps ==
  { \* Leaving a loop by GOTO, until there are too many frames.
    Text(<<Line(10, <<TokFor("I", Num(1), 2, 1)>>), L(<<TokN("goto", <<10>>)>>)>>, Nothing_),
    \* IF with line numbers, ELSEIF and ELSE.
    Text(<<L(<<TokX("input", "G"), Col, TokXE("let", "X", Num(0))>>),
           L(<<TokE("if", V("G")), TokN("go_line", <<40>>), TokE("elseif", V("X")),
               Tok("print"), Tok("else"), TokXE("let", "X", Num(1)), Col, Tok("print")>>),
           Line(40, <<TokE("on_gosub", Plus("G", 1)), TokX("rem", "")>>),
           Line(50, <<TokE("if", Num(0)), Tok("print")>>), L(<<Tok("stop")>>),
           Line(60, <<Tok("return")>>)>>, Nothing_),
    Text(<<L(<<TokX("input", "G")>>), L(<<[TokE("on_gosub", V("G")) EXCEPT !.ns = <<60>>]>>),
           L(<<[TokE("on_goto", Plus("G", 1)) EXCEPT !.ns = <<40, 60>>]>>),
           Line(40, <<Tok("return")>>), L(<<Tok("end")>>),
           Line(60, <<Tok("print"), Col, Tok("return")>>)>>, Nothing_),
    \* A subroutine called under IF, and one that calls itself.
    Text(<<L(<<TokE("if", Num(1)), TokN("gosub", <<60>>)>>), L(<<Tok("end")>>),
           Line(60, <<Tok("print")>>), L(<<Tok("return")>>)>>, Nothing_),
    Text(<<Line(10, <<TokN("gosub", <<10>>)>>)>>, Nothing_),
    \* CONTINUE of the outer loop; two EXIT FOR; a loop that is not entered.
    Text(<<L(<<TokFor("I", Num(1), 2, 1)>>), L(<<TokE("while", Num(1))>>),
           L(<<Tok("continue_for")>>), L(<<Tok("wend")>>), L(<<Tok("next")>>)>>, Nothing_),
    Text(<<L(<<TokFor("I", Num(1), 2, 1)>>), L(IfThen(Num(1), Tok("exit_for"))),
           L(IfThen(Num(0), Tok("exit_for"))), L(<<Tok("next")>>)>>, Nothing_),
    Text(<<L(<<TokE("while", Num(0))>>), L(<<Tok("print")>>), L(<<Tok("wend")>>),
           L(<<Tok("wend")>>)>>, Nothing_) }

Errors ==
  { \* An error that is handled, one in the handler, and RESUME in its three forms.
    Text(<<L(<<TokN("on_error", <<90>>), Col, TokX("input", "G"), Col, TokXE("let", "C", Num(2))>>),
           L(<<TokE("index", Num(1)), Tok("print")>>),
           Line(50, <<TokCall("call", "", "NONE", Num(0))>>), L(<<Tok("end")>>),
           Line(90, <<TokE("index", Plus("G", -1)), Col, TokXE("let", "C", Plus("C", -1))>>),
           L(<<TokE("if", V("C")), TokN("resume_line", <<50>>)>>)>>, Nothing_),
    Text(<<L(<<TokN("on_error", <<90>>), Col, TokX("dim", "A")>>),
           L(<<TokCall("call", "", "NONE", Num(0))>>), L(<<Tok("end")>>),
           Line(90, <<TokE("if", Num(1)), Tok("resume")>>)>>, Nothing_),
    Text(<<L(<<TokN("on_error", <<90>>)>>), L(<<TokE("index", Num(1))>>),
           Line(90, <<Tok("resume_next")>>), L(<<Tok("resume")>>)>>, Nothing_),
    \* An error within a SUB, with the handler after the SUB and before it.
    Text(<<L(<<TokN("on_error", <<90>>)>>), L(<<TokX("sub", "P")>>), L(<<Tok("continue_for")>>),
           L(<<Tok("end_sub")>>), L(<<TokCall("call", "", "P", Num(0))>>),
           L(<<Tok("end")>>), Line(90, <<Tok("print")>>)>>, Nothing_),
    \* Constants, DATA, and variables without end.
    Text(<<L(<<TokXE("const", "K", Num(1)), Col, TokXE("let", "K", Num(2))>>)>>, Nothing_),
    Text(<<L(<<TokX("read", "X"), Col, Tok("restore"), Col, TokX("read", "X")>>),
           L(<<TokX("read", "Y"), Col, TokX("read", "Z")>>),
           L(<<TokN("data", <<4, 5>>)>>)>>, [X |-> 4, Y |-> 5]),
    Text(<<L(<<TokXE("let", "A", Expr(<<"B", "C">>, 0)), Col, TokX("dim", "D"), Col,
               TokX("dim", "E"), Col, TokXE("let", "F", V("G"))>>)>>, Nothing_),
    \* LOCAL and SHARED leave the cursor at the name.
    Text(<<L(<<TokX("sub", "P")>>), L(<<TokX("local", "X"), TokX("id", "X")>>),
           L(<<Tok("end_sub")>>), L(<<TokCall("call", "", "P", Num(0))>>)>>, Nothing_),
    Text(<<L(<<TokX("dim", "X")>>), L(<<TokX("sub", "P")>>),
           L(<<TokX("shared", "X"), TokX("id", "X")>>),
           L(<<Tok("end_sub")>>), L(<<TokCall("call", "", "P", Num(0))>>)>>, Nothing_),
    \* A FUNCTION that calls itself without end.
    Text(<<L(<<TokX("function", "F")>>), L(<<TokCall("let_call", "F", "F", Num(0))>>),
           L(<<Tok("end_function")>>), L(<<TokCall("let_call", "Y", "F", Num(0))>>)>>, Nothing_),
    \* Headings in a body, without END, and in the last line; no room for a parameter.
    Text(<<L(<<TokX("sub", "P")>>), L(<<TokX("function", "F")>>), L(<<Tok("end_function")>>),
           L(<<Tok("print")>>), L(<<Tok("end_sub")>>), L(<<TokCall("call", "", "P", Num(0))>>),
           L(<<TokX("sub", "Q")>>), L(<<Tok("print")>>)>>, Nothing_),
    Text(<<L(<<TokCall("call", "", "P", Num(0))>>), L(<<TokX("sub", "P")>>)>>, Nothing_),
    Text(<<L(<<TokXE("sub", "P", V("Z"))>>), L(<<Tok("end_sub")>>),
           L([x \in 1..6 |-> TokX("dim", <<"A", "B", "C", "D", "E", "F">>[x])]),
           L(<<TokCall("call", "", "P", Num(0))>>)>>, Nothing_),
    Text(<<L(<<TokE("if", Num(0)), Tok("print"), Tok("else")>>),
           L(<<TokE("if", Num(1)), Tok("else")>>)>>, Nothing_) }

\* The example of docs/COMMANDS.md.
Select_(n) ==
    Text(<<L(<<TokE("select", Num(n))>>),
           L(<<TokN("case", <<1>>)>>), L(<<Tok("print"), Col, Tok("print")>>),
           L(<<TokN("case", <<2, 3>>)>>), L(<<Tok("print")>>),
           L(<<Tok("case_else")>>), L(<<Tok("print")>>),
           L(<<Tok("end_select")>>), L(<<Tok("print")>>)>>, Nothing_)
NestedSelect ==
    Text(<<L(<<TokE("select", Num(1))>>), L(<<TokN("case", <<2>>)>>),
           L(<<TokE("select", Num(1))>>), L(<<Tok("end_select")>>),
           L(<<Tok("end_select")>>)>>, Nothing_)

AllPrograms == {Sums} \union {Nested(a, b) : a \in Within, b \in After}
                 \union Jumps \union Errors
                 \union {Select_(n) : n \in 1..3} \union {NestedSelect}
============================================================================
