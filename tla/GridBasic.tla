----------------------------- MODULE GridBasic -----------------------------
(***************************************************************************)
(* The GridBASIC interpreter (src/kernel/basic.c).  A global cursor walks  *)
(* over the tokens; FOR, WHILE, REPEAT and GOSUB keep frames in arrays of  *)
(* fixed size, while IF, SELECT CASE and calls of SUB and FUNCTION recur   *)
(* in C.  A statement does not return to where it was started from, it     *)
(* leaves the cursor somewhere, and the C function that ran it goes on     *)
(* from there: `host' is the stack of these C functions.                   *)
(***************************************************************************)
EXTENDS BasicText

CONSTANTS
    Programs,       \* the texts that are run: [tokens, lines, result]
    Inputs,         \* what a user may type at INPUT
    MaxFrames,      \* MAX_FRAMES
    MaxVars,        \* MAX_VARS
    Commands,       \* among "run", "compile", "run_code"
    MaxCommands     \* bound: commands given at the prompt

\* What the tokenizer makes of a text: the last token, and no other, is the end of
\* the program; a line ends before it (join_source); a line number is that of a
\* token.  A name with arguments that is no procedure of the text is an element of
\* an array, "index" and not "let_call".
WellFormed(t, ls) ==
    /\ Len(t) \in Nat \ {0} /\ DOMAIN t = 1 .. Len(t)
    /\ \A i \in DOMAIN t : t[i].op = "eof" <=> i = Len(t)
    /\ Len(t) > 1 => t[Len(t) - 1].op = "newline"
    /\ \A i \in DOMAIN t : t[i].e.names \in Seq(STRING) /\ t[i].x \in STRING
    /\ \A i \in Ops(t, {"let_call"}) : find_sub(t, t[i].ns[1]) # 0
    /\ \A n \in DOMAIN ls : ls[n] \in DOMAIN t

ASSUME BasicAssumption ==
    /\ {MaxFrames, MaxVars, MaxCommands} \subseteq Nat
    /\ \A p \in Programs : WellFormed(p.tokens, p.lines)

VARIABLES
    tokens,         \* g_tokens
    labels,         \* g_labels, g_label_tok: line number -> token
    cur,            \* g_cur
    running,        \* g_running
    failed,         \* g_error
    mem,            \* g_vars, g_nvars
    loops,          \* g_for_stack: FOR has a variable, WHILE -1, REPEAT -2
    gosubs,         \* g_gosub_stack
    host,           \* the C functions under way, with g_sub_stack and the locals
    trap,           \* g_on_error_line, g_in_error_handler, g_error_resume_tok
    read,           \* g_data_read
    given           \* commands given so far

control == <<cur, running, failed, host>>
data    == <<mem, loops, gosubs, read>>
text    == <<tokens, labels, given>>
vars    == <<control, data, text, trap>>

----------------------------------------------------------------------------
(***************************************************************************)
(* Variables.  One that is named for the first time is added at the end of *)
(* g_vars; at the end of a call those the call added are cut off, and      *)
(* their storage stays as it is.                                           *)
(***************************************************************************)
Named(m, x)    == {i \in 1..m.n : m.v[i].name = x}
find_var(m, x) == IF Named(m, x) = {} THEN 0 ELSE Min(Named(m, x))
ValueOf(m, x)  == IF find_var(m, x) = 0 THEN 0 ELSE m.v[find_var(m, x)].val

get_var(m, x) ==
    IF find_var(m, x) # 0 \/ m.n = MaxVars THEN m
    ELSE [n |-> m.n + 1,
          v |-> [m.v EXCEPT ![m.n + 1] =
                    [name |-> x, val |-> 0, const |-> FALSE]]]

NoRoom(m, x) == find_var(m, x) = 0 /\ m.n = MaxVars

Set(m, x, k) == [m EXCEPT !.v[find_var(m, x)].val = k]

Touch(m, names) == FoldLeft(get_var, m, names)
Value(m, e)     == FoldLeft(LAMBDA s, x : s + ValueOf(m, x), e.k, e.names)
True(m, e)      == Value(m, e) # 0

----------------------------------------------------------------------------
(***************************************************************************)
(* Where the interpreter is.                                               *)
(***************************************************************************)
Here == tokens[cur]
Top  == host[Len(host)]
Under(c) == host # <<>> /\ Top.c = c
Running  == running /\ ~failed

\* The entries of g_sub_stack: where the calls under way are in host.
CallsIn(h) == {i \in DOMAIN h : h[i].c = "call"}
Calls      == CallsIn(host)

\* The C functions that run one statement after another without looking at
\* g_error, and come back when it returns.
Chained == {"then", "else", "select"}

\* exec_statement is called here: from run_loop, from the loop of
\* call_user_function, or from the function on top.
AtStatement ==
    /\ host # <<>>
    /\ \/ (Top.c \in Chained /\ Top.st = "do")
       \/ /\ Top.c = "run" /\ Running
          /\ Here.op \notin {"newline", ":", "eof"}
       \/ /\ Top.c = "call" /\ Running /\ cur < Top.end
          /\ Here.op \notin {"newline", ":", "end_sub", "end_function"}

\* The names that get_var is called with.
Declaring == {"let", "let_call", "for", "dim", "read", "input", "const", "local", "id"}
Needs(t) == Range(t.e.names) \union (IF t.op \in Declaring THEN {t.x} ELSE {})
Room == Cardinality({x \in Needs(Here) : find_var(mem, x) = 0}) <= MaxVars - mem.n

Statement(op) == AtStatement /\ Here.op = op /\ Room

\* exec_statement has returned to the function on top.
Done == IF Top.c \in Chained THEN [host EXCEPT ![Len(host)].st = "done"] ELSE host
Pop  == Front(host)

\* The memory once the statement has named its variables.
Mem == LET m == Touch(mem, Here.e.names)
       IN  IF Here.op \in Declaring THEN get_var(m, Here.x) ELSE m

----------------------------------------------------------------------------
(***************************************************************************)
(* How a statement ends.                                                   *)
(***************************************************************************)
Goes(c) == cur' = c /\ host' = Done /\ UNCHANGED <<running, failed>>

set_error ==
    /\ cur' = advance(tokens, cur)
    /\ failed' = TRUE /\ running' = FALSE
    /\ host' = Done
    /\ UNCHANGED trap

\* basic_error: with ON ERROR GOTO set, and outside its handler, the cursor
\* goes to the handler's line and the statement returns as if it had worked.
\* RESUME goes to where the cursor was; 0 is within a statement, where none
\* can start.  The first of the two is a mutant: it handles the errors of the
\* handler too.
basic_error_again(at) ==
    LET handler == IF trap.line > 0 THEN find_label(labels, trap.line) ELSE 0
    IN  IF handler # 0
        THEN /\ trap' = [trap EXCEPT !.active = TRUE, !.resume = at]
             /\ cur' = handler
             /\ failed' = FALSE /\ running' = TRUE
             /\ host' = Done
        ELSE set_error
basic_error(at) ==
    LET handler == IF trap.line > 0 THEN find_label(labels, trap.line) ELSE 0
    IN  IF handler # 0 /\ ~trap.active
        THEN /\ trap' = [trap EXCEPT !.active = TRUE, !.resume = at]
             /\ cur' = handler
             /\ failed' = FALSE /\ running' = TRUE
             /\ host' = Done
        ELSE set_error

\* A jump by line number.
JumpsTo(n) ==
    IF find_label(labels, n) = 0
    THEN set_error
    ELSE Goes(find_label(labels, n)) /\ UNCHANGED trap

----------------------------------------------------------------------------
(***************************************************************************)
(* The loop of run_loop and of call_user_function, and the end of both.    *)
(***************************************************************************)
Separator ==
    /\ Under("run") \/ (Under("call") /\ cur < Top.end)
    /\ Running
    /\ Here.op \in {"newline", ":"}
    /\ cur' = cur + 1
    /\ UNCHANGED <<running, failed, host, data, text, trap>>

ProgramEnds ==
    /\ Under("run")
    /\ ~Running \/ Here.op = "eof"
    /\ host' = <<>>
    /\ UNCHANGED <<cur, running, failed, data, text, trap>>

\* call_user_function: the parameter, of which there is one at most, is a variable
\* like any other, and is given its number back when the call ends.
Called(f, x) ==
    LET h  == find_sub(tokens, f)
        ps == tokens[h].e.names
        m  == Touch(Mem, ps)
    IN  /\ mem' = IF ps = <<>> THEN m ELSE Set(m, ps[1], Value(Mem, Here.e))
        /\ host' = Append(Done,
              [c |-> "call", start |-> body_start(tokens, h),
               end |-> body_end(tokens, h), ret |-> cur + 1, nvars |-> m.n,
               fn |-> IF tokens[h].op = "function" THEN f ELSE "",
               param |-> IF ps = <<>> THEN 0 ELSE find_var(m, ps[1]),
               saved |-> IF ps = <<>> THEN 0 ELSE ValueOf(m, ps[1]),
               into |-> IF x = "" THEN 0 ELSE find_var(m, x)])
        /\ cur' = body_start(tokens, h)
        /\ UNCHANGED <<running, failed, trap>>

call_user_function(f, x) ==
    IF Cardinality(Calls) >= MaxFrames
    THEN basic_error(0) /\ mem' = Mem
    ELSE IF \E p \in Range(tokens[find_sub(tokens, f)].e.names) : NoRoom(Mem, p)
    THEN set_error /\ mem' = Mem
    ELSE Called(f, x)

Dropped(c, m)  == [m EXCEPT !.n = c.nvars]
Restored(c, m) ==
    IF c.param = 0 THEN Dropped(c, m)
    ELSE [m EXCEPT !.n = c.nvars, !.v[c.param].val = c.saved]

\* The value of a FUNCTION is that of the variable of its name; `X = F(1)' is
\* not assigned once there is an error.
CallReturns ==
    /\ Under("call")
    /\ \/ ~Running
       \/ cur >= Top.end
       \/ Here.op \in {"end_sub", "end_function"}
    /\ LET back == Restored(Top, mem)
           val  == IF Top.fn = "" THEN 0 ELSE ValueOf(mem, Top.fn)
       IN  mem' = IF Top.into = 0 \/ failed THEN back
                  ELSE [back EXCEPT !.v[Top.into].val = val]
    /\ cur' = Top.ret
    /\ host' = Pop
    /\ UNCHANGED <<running, failed, loops, gosubs, read, text, trap>>

----------------------------------------------------------------------------
(***************************************************************************)
(* Values.                                                                 *)
(***************************************************************************)
IsConst == mem.v[find_var(Mem, Here.x)].const /\ find_var(mem, Here.x) # 0

TooManyVariables ==
    /\ AtStatement /\ ~Room
    /\ set_error
    /\ UNCHANGED <<data, text>>

\* exec_assign.  An element of an array beyond its bound is "index": the
\* statement is left in the middle.
Let ==
    /\ Statement("let")
    /\ IF IsConst
       THEN basic_error(0) /\ mem' = Mem
       ELSE /\ mem' = Set(Mem, Here.x, Value(Mem, Here.e))
            /\ Goes(cur + 1) /\ UNCHANGED trap
    /\ UNCHANGED <<loops, gosubs, read, text>>

Index ==
    /\ Statement("index")
    /\ mem' = Mem
    /\ IF True(Mem, Here.e) THEN basic_error(0) ELSE Goes(cur + 1) /\ UNCHANGED trap
    /\ UNCHANGED <<loops, gosubs, read, text>>

\* An identifier that no = follows: what stands after NEXT, and what LOCAL and
\* SHARED leave the cursor at.
Identifier ==
    /\ Statement("id")
    /\ mem' = Mem /\ basic_error(0)
    /\ UNCHANGED <<loops, gosubs, read, text>>

\* exec_print, of which only the variables it names matter.
Show ==
    /\ Statement("print")
    /\ mem' = Mem /\ Goes(cur + 1)
    /\ UNCHANGED <<loops, gosubs, read, text, trap>>

Const ==
    /\ Statement("const")
    /\ IF find_var(mem, Here.x) # 0
       THEN set_error /\ UNCHANGED mem
       ELSE /\ mem' = [Set(Mem, Here.x, Value(Mem, Here.e))
                         EXCEPT !.v[find_var(Mem, Here.x)].const = TRUE]
            /\ Goes(cur + 1) /\ UNCHANGED trap
    /\ UNCHANGED <<loops, gosubs, read, text>>

Input ==
    /\ Statement("input")
    /\ IF IsConst
       THEN set_error /\ mem' = Mem
       ELSE /\ \E k \in Inputs : mem' = Set(Mem, Here.x, k)
            /\ Goes(cur + 1) /\ UNCHANGED trap
    /\ UNCHANGED <<loops, gosubs, read, text>>

Read ==
    /\ Statement("read")
    /\ IF read >= Len(collect_data(tokens))
       THEN set_error /\ UNCHANGED <<mem, read>>
       ELSE /\ read' = read + 1
            /\ IF IsConst THEN set_error /\ mem' = Mem
               ELSE /\ mem' = Set(Mem, Here.x, collect_data(tokens)[read + 1])
                    /\ Goes(cur + 1) /\ UNCHANGED trap
    /\ UNCHANGED <<loops, gosubs, text>>

Restore ==
    /\ Statement("restore")
    /\ read' = 0 /\ Goes(cur + 1)
    /\ UNCHANGED <<mem, loops, gosubs, text, trap>>

\* DIM, LOCAL: the variable is named; LOCAL leaves the cursor at the name.
Declare ==
    /\ Statement("dim") \/ Statement("local")
    /\ mem' = Mem /\ Goes(cur + 1)
    /\ UNCHANGED <<loops, gosubs, read, text, trap>>

\* SHARED: the variable must be one of those the caller had.
Shared ==
    /\ Statement("shared")
    /\ LET n == IF Calls = {} THEN mem.n ELSE host[Max(Calls)].nvars
       IN  IF \E i \in 1..n : mem.v[i].name = Here.x
           THEN Goes(cur + 1) /\ UNCHANGED trap
           ELSE basic_error(cur + 1)
    /\ UNCHANGED <<data, text>>

\* DATA and REM.
Passive ==
    /\ Statement("data") \/ Statement("rem")
    /\ Goes(skip_to_newline(tokens, cur))
    /\ UNCHANGED <<data, text, trap>>

\* Words that start no statement.
Syntax ==
    /\ AtStatement
    /\ Here.op \in {"else", "elseif", "case", "case_else", "go_line", ":"}
    /\ set_error
    /\ UNCHANGED <<data, text>>

\* exec_statement at the end of a line does nothing.
Nothing ==
    /\ AtStatement /\ Here.op \in {"newline", "eof"}
    /\ Goes(cur)
    /\ UNCHANGED <<data, text, trap>>

----------------------------------------------------------------------------
(***************************************************************************)
(* Loops.  NEXT takes the frame on top whatever variable it names.         *)
(***************************************************************************)
FOR == 1
WHILE == -1
REPEAT == -2
IsKind(f, kind) == IF kind = FOR THEN f.var > 0 ELSE f.var = kind

frame(at, var, end, step) == [tok |-> at, var |-> var, end |-> end, step |-> step]

\* Mutant: no look at the number of frames.
ForAnyDepth ==
    /\ Statement("for")
    /\ mem' = Set(Mem, Here.x, Value(Mem, Here.e))
    /\ loops' = Append(loops, frame(cur + 1, find_var(Mem, Here.x), Here.to, Here.step))
    /\ Goes(cur + 1)
    /\ UNCHANGED <<gosubs, read, text, trap>>

For ==
    /\ Statement("for")
    /\ mem' = Set(Mem, Here.x, Value(Mem, Here.e))
    /\ IF Len(loops) >= MaxFrames
       THEN set_error /\ UNCHANGED loops
       ELSE /\ loops' = Append(loops, frame(cur + 1, find_var(Mem, Here.x), Here.to, Here.step))
            /\ Goes(cur + 1) /\ UNCHANGED trap
    /\ UNCHANGED <<gosubs, read, text>>

\* The variable a step further, and whether the loop goes round again.
Stepped(f)  == mem.v[f.var].val + f.step
Again(f, k) == IF f.step >= 0 THEN k <= f.end ELSE k >= f.end

Next_ ==
    /\ Statement("next")
    /\ IF loops = <<>> \/ ~IsKind(Last(loops), FOR)
       THEN set_error /\ UNCHANGED <<mem, loops>>
       ELSE LET f    == Last(loops)
                past == IF tokens[cur + 1].op = "id" THEN cur + 2 ELSE cur + 1
            IN  /\ mem' = [mem EXCEPT !.v[f.var].val = Stepped(f)]
                /\ IF Again(f, Stepped(f))
                   THEN Goes(f.tok) /\ UNCHANGED loops
                   ELSE Goes(past) /\ loops' = Front(loops)
                /\ UNCHANGED trap
    /\ UNCHANGED <<gosubs, read, text>>

While ==
    /\ Statement("while")
    /\ IF Len(loops) >= MaxFrames
       THEN set_error /\ UNCHANGED <<mem, loops>>
       ELSE /\ mem' = Mem /\ UNCHANGED trap
            /\ IF True(Mem, Here.e)
               THEN loops' = Append(loops, frame(cur, WHILE, 0, 0)) /\ Goes(cur + 1)
               ELSE /\ Goes(advance(tokens, loop_end(tokens, "while", cur + 1)))
                    /\ UNCHANGED loops
    /\ UNCHANGED <<gosubs, read, text>>

Wend ==
    /\ Statement("wend")
    /\ IF loops = <<>> \/ ~IsKind(Last(loops), WHILE)
       THEN set_error /\ UNCHANGED <<mem, loops>>
       ELSE LET w == Last(loops).tok
                m == Touch(mem, tokens[w].e.names)
            IN  /\ mem' = m /\ UNCHANGED trap
                /\ IF True(m, tokens[w].e)
                   THEN Goes(w + 1) /\ UNCHANGED loops
                   ELSE Goes(cur + 1) /\ loops' = Front(loops)
    /\ UNCHANGED <<gosubs, read, text>>

Repeat ==
    /\ Statement("repeat")
    /\ IF Len(loops) >= MaxFrames
       THEN set_error /\ UNCHANGED loops
       ELSE /\ loops' = Append(loops, frame(cur + 1, REPEAT, 0, 0))
            /\ Goes(cur + 1) /\ UNCHANGED trap
    /\ UNCHANGED <<mem, gosubs, read, text>>

Until ==
    /\ Statement("until")
    /\ IF loops = <<>> \/ ~IsKind(Last(loops), REPEAT)
       THEN set_error /\ UNCHANGED <<mem, loops>>
       ELSE /\ mem' = Mem /\ UNCHANGED trap
            /\ IF True(Mem, Here.e)
               THEN Goes(cur + 1) /\ loops' = Front(loops)
               ELSE Goes(Last(loops).tok) /\ UNCHANGED loops
    /\ UNCHANGED <<gosubs, read, text>>

\* The frame that EXIT and CONTINUE are about: the last one of the kind.
Kind(kw) == IF kw = "for" THEN FOR ELSE WHILE
FrameOf(kw) == Max({i \in DOMAIN loops : IsKind(loops[i], Kind(kw))} \union {0})

\* exec_exit_loop: the frame and all above it go, and the cursor goes past the
\* NEXT or WEND that the scan of the text stops at.  (Mutant: the frame on top.)
ExitLoopTop(op, kw) ==
    /\ Statement(op)
    /\ LET end == loop_end(tokens, kw, cur + 1)
       IN  IF FrameOf(kw) = 0
           THEN set_error /\ UNCHANGED loops
           ELSE /\ loops' = Front(loops)
                /\ IF end = Len(tokens) THEN set_error ELSE Goes(end + 1) /\ UNCHANGED trap
    /\ UNCHANGED <<mem, gosubs, read, text>>
ExitLoop(op, kw) ==
    /\ Statement(op)
    /\ LET i   == FrameOf(kw)
           end == loop_end(tokens, kw, cur + 1)
       IN  IF i = 0
           THEN set_error /\ UNCHANGED loops
           ELSE /\ loops' = SubSeq(loops, 1, i - 1)
                /\ IF end = Len(tokens) THEN set_error ELSE Goes(end + 1) /\ UNCHANGED trap
    /\ UNCHANGED <<mem, gosubs, read, text>>

\* exec_continue_loop: the frames above stay, but for those of a loop that ends.
ContinueFor ==
    /\ Statement("continue_for")
    /\ LET i == FrameOf("for")
       IN  IF i = 0
           THEN basic_error(cur + 1) /\ UNCHANGED <<mem, loops>>
           ELSE /\ mem' = [mem EXCEPT !.v[loops[i].var].val = Stepped(loops[i])]
                /\ IF Again(loops[i], Stepped(loops[i]))
                   THEN Goes(loops[i].tok) /\ UNCHANGED loops
                   ELSE Goes(cur + 1) /\ loops' = SubSeq(loops, 1, i - 1)
                /\ UNCHANGED trap
    /\ UNCHANGED <<gosubs, read, text>>

ContinueWhile ==
    /\ Statement("continue_while")
    /\ LET i == FrameOf("while")
       IN  IF i = 0
           THEN basic_error(cur + 1) /\ UNCHANGED <<mem, loops>>
           ELSE LET w == loops[i].tok
                    m == Touch(mem, tokens[w].e.names)
                IN  /\ mem' = m /\ UNCHANGED trap
                    /\ IF True(m, tokens[w].e)
                       THEN Goes(w + 1) /\ UNCHANGED loops
                       ELSE /\ Goes(advance(tokens, loop_end(tokens, "while", w + 1)))
                            /\ loops' = SubSeq(loops, 1, i - 1)
    /\ UNCHANGED <<gosubs, read, text>>

----------------------------------------------------------------------------
(***************************************************************************)
(* Jumps, subroutines and procedures.                                      *)
(***************************************************************************)
Goto ==
    /\ Statement("goto")
    /\ JumpsTo(Here.ns[1])
    /\ UNCHANGED <<data, text>>

\* GOSUB n, and the jump of ON e GOSUB.
Subroutine(n) ==
    IF find_label(labels, n) = 0 THEN set_error /\ UNCHANGED gosubs
    ELSE IF Len(gosubs) >= MaxFrames THEN set_error /\ UNCHANGED gosubs
    ELSE /\ gosubs' = Append(gosubs, cur + 1)
         /\ Goes(find_label(labels, n)) /\ UNCHANGED trap

Gosub ==
    /\ Statement("gosub")
    /\ Subroutine(Here.ns[1])
    /\ UNCHANGED <<mem, loops, read, text>>

Return ==
    /\ Statement("return")
    /\ IF gosubs = <<>>
       THEN set_error /\ UNCHANGED gosubs
       ELSE Goes(Last(gosubs)) /\ gosubs' = Front(gosubs) /\ UNCHANGED trap
    /\ UNCHANGED <<mem, loops, read, text>>

\* exec_on_computed: ON e GOTO and ON e GOSUB.
On(op) ==
    /\ Statement(op)
    /\ mem' = Mem
    /\ LET k == Value(Mem, Here.e)
       IN  IF k \notin DOMAIN Here.ns \/ find_label(labels, Here.ns[k]) = 0
           THEN basic_error(cur + 1) /\ UNCHANGED gosubs
           ELSE IF op = "on_gosub" /\ Len(gosubs) < MaxFrames
           THEN Subroutine(Here.ns[k])
           ELSE IF op = "on_gosub" THEN basic_error(cur + 1) /\ UNCHANGED gosubs
           ELSE JumpsTo(Here.ns[k]) /\ UNCHANGED gosubs
    /\ UNCHANGED <<loops, read, text>>

\* exec_call, and a FUNCTION on the right of a LET.
Call ==
    /\ Statement("call")
    /\ IF find_sub(tokens, Here.ns[1]) = 0
       THEN basic_error(cur + 1) /\ UNCHANGED mem
       ELSE call_user_function(Here.ns[1], "")
    /\ UNCHANGED <<loops, gosubs, read, text>>

LetCall ==
    /\ Statement("let_call")
    /\ IF IsConst
       THEN basic_error(0) /\ mem' = Mem
       ELSE call_user_function(Here.ns[1], Here.x)
    /\ UNCHANGED <<loops, gosubs, read, text>>

\* A heading in the way of the main program.
Heading ==
    /\ Statement("sub") \/ Statement("function")
    /\ Goes(skip_body(tokens, cur))
    /\ UNCHANGED <<data, text, trap>>

\* END, STOP, and the END of END SELECT: the tokenizer makes SELECT a keyword
\* there, and match_end_select looks for an identifier.
End ==
    /\ AtStatement
    /\ Here.op \in {"end", "stop", "end_select", "end_sub", "end_function"}
    /\ running' = FALSE /\ cur' = advance(tokens, cur) /\ host' = Done
    /\ UNCHANGED <<failed, data, text, trap>>

----------------------------------------------------------------------------
(***************************************************************************)
(* Errors.                                                                 *)
(***************************************************************************)
OnError ==
    /\ Statement("on_error")
    /\ trap' = [trap EXCEPT !.line = Here.ns[1]]
    /\ Goes(cur + 1)
    /\ UNCHANGED <<data, text>>

\* exec_resume: with a line, with NEXT (the line after RESUME's own), or alone.
Resumes(c) == cur' = c /\ failed' = FALSE /\ UNCHANGED running
Stops      == cur' = advance(tokens, cur) /\ failed' = TRUE /\ running' = FALSE
Resume ==
    /\ \/ /\ Statement("resume_line")
          /\ LET at == find_label(labels, Here.ns[1])
             IN  IF at = 0 THEN Stops ELSE Resumes(at)
       \/ /\ Statement("resume_next")
          /\ Resumes(advance(tokens, skip_to_newline(tokens, cur)))
       \/ /\ Statement("resume")
          /\ IF trap.resume = 0 THEN Stops ELSE Resumes(trap.resume)
    /\ trap' = IF failed' THEN trap ELSE [trap EXCEPT !.active = FALSE]
    /\ host' = Done
    /\ UNCHANGED <<data, text>>

----------------------------------------------------------------------------
(***************************************************************************)
(* IF: what follows THEN runs to the end of the line, whatever line the    *)
(* cursor is on by then.                                                   *)
(***************************************************************************)
\* The conditions of the line that are looked at in turn, and the first that
\* holds.
Conditions ==
    LET eol == skip_to_newline(tokens, cur)
        els == {j \in Ops(tokens, {"else"}) : cur < j /\ j < eol}
        end == IF els = {} THEN eol ELSE Min(els)
    IN  {cur} \union {j \in Ops(tokens, {"elseif"}) : cur < j /\ j < end}
Holding == {j \in Conditions : True(Mem, tokens[j].e)}

Chain(c, at) == host' = Append(Done, [c |-> c, st |-> "do"]) /\ cur' = at

If ==
    /\ Statement("if")
    /\ mem' = Mem
    /\ IF Holding # {}
       THEN LET then == Min(Holding) + 1
            IN  IF tokens[then].op = "go_line"
                THEN JumpsTo(tokens[then].ns[1])
                ELSE Chain("then", then) /\ UNCHANGED <<running, failed, trap>>
       ELSE LET j == skip_if_false_branch(tokens, Max(Conditions) + 1)
            IN  /\ IF tokens[j].op = "else" THEN Chain("else", j + 1) ELSE Goes(j)
                /\ UNCHANGED <<running, failed, trap>>
    /\ UNCHANGED <<loops, gosubs, read, text>>

\* A statement of the line has returned.
IfGoesOn ==
    /\ Under("then") \/ Under("else")
    /\ Top.st = "done"
    /\ IF Here.op = ":"
       THEN cur' = cur + 1 /\ host' = [host EXCEPT ![Len(host)].st = "do"]
       ELSE /\ cur' = IF Top.c = "then" THEN skip_to_newline(tokens, cur) ELSE cur
            /\ host' = Pop
    /\ UNCHANGED <<running, failed, data, text, trap>>

----------------------------------------------------------------------------
(***************************************************************************)
(* SELECT CASE: `part' is what exec_select_case is at: the next CASE, the  *)
(* body of one that matched, or skip_to_next_case_or_end, which runs the   *)
(* statements it skips.                                                    *)
(***************************************************************************)
skip_newlines(t, i) == Min({j \in DOMAIN t : j >= i /\ t[j].op # "newline"})

Select ==
    /\ Statement("select")
    /\ mem' = Mem
    /\ host' = Append(Done, [c |-> "select", part |-> "next", st |-> "loop",
                             sel |-> Value(Mem, Here.e), executed |-> FALSE])
    /\ cur' = skip_to_newline(tokens, cur)
    /\ UNCHANGED <<running, failed, loops, gosubs, read, text, trap>>

Selecting(part, st) == Under("select") /\ Top.part = part /\ Top.st = st
At(part, st) == [host EXCEPT ![Len(host)].part = part, ![Len(host)].st = st]

SelectNext ==
    /\ Selecting("next", "loop")
    /\ LET i == skip_newlines(tokens, cur)
           matched == IF tokens[i].op = "case_else" THEN ~Top.executed
                      ELSE Top.sel \in Range(tokens[i].ns)
           eol == skip_to_newline(tokens, i)
       IN  IF ~Running \/ Here.op = "eof"
           THEN host' = Pop /\ UNCHANGED <<cur, running, failed>>
           ELSE IF tokens[i].op \notin {"case", "case_else"}
           THEN /\ host' = Pop /\ cur' = i
                /\ failed' = TRUE /\ running' = FALSE
           ELSE /\ cur' = eol
                /\ host' = [host EXCEPT ![Len(host)].part = IF matched THEN "body" ELSE "skip",
                                        ![Len(host)].executed = Top.executed \/ matched]
                /\ UNCHANGED <<running, failed>>
    /\ UNCHANGED <<data, text, trap>>

\* The head of the loop over the statements of a body, run or skipped.  A nested
\* SELECT is skipped to the end of the program, END SELECT not being recognised.
SelectLoop ==
    /\ Selecting("body", "loop") \/ Selecting("skip", "loop")
    /\ LET i == skip_newlines(tokens, cur)
       IN  IF Here.op = "eof" \/ (Top.part = "body" /\ ~Running)
           THEN host' = At("next", "loop") /\ UNCHANGED cur
           ELSE IF tokens[i].op \in {"case", "case_else", "eof"}
           THEN host' = At("next", "loop") /\ cur' = i
           ELSE IF Top.part = "skip" /\ tokens[i].op = "select"
           THEN host' = At("next", "loop") /\ cur' = Len(tokens)
           ELSE host' = At(Top.part, "do") /\ cur' = i
    /\ UNCHANGED <<running, failed, data, text, trap>>

SelectGoesOn ==
    /\ Selecting("body", "done") \/ Selecting("skip", "done")
    /\ LET part == IF Top.part = "skip" /\ ~Running THEN "next" ELSE Top.part
       IN  IF Here.op = ":"
           THEN host' = At(Top.part, "do") /\ cur' = cur + 1
           ELSE /\ host' = At(part, "loop")
                /\ cur' = IF Here.op = "newline" THEN cur + 1 ELSE cur
    /\ UNCHANGED <<running, failed, data, text, trap>>

----------------------------------------------------------------------------
(***************************************************************************)
(* The prompt: RUN of a source tokenizes it; a compiled program has tokens *)
(* only, and runs with the table of lines that is there.                   *)
(***************************************************************************)
NoVars == [i \in 1..MaxVars |-> [name |-> "", val |-> 0, const |-> FALSE]]

Prompt(command) ==
    /\ host = <<>> /\ given < MaxCommands /\ command \in Commands
    /\ given' = given + 1

\* reset_state and run_loop.
Started ==
    /\ host' = <<[c |-> "run"]>>
    /\ cur' = 1 /\ running' = TRUE /\ failed' = FALSE
    /\ mem' = [n |-> 0, v |-> mem.v] /\ loops' = <<>> /\ gosubs' = <<>> /\ read' = 0
    /\ trap' = [line |-> 0, active |-> FALSE, resume |-> 0]

basic_run_source ==
    /\ Prompt("run")
    /\ \E p \in Programs : tokens' = p.tokens /\ labels' = p.lines
    /\ Started

basic_run_bytecode ==
    /\ Prompt("run_code")
    /\ \E p \in Programs : tokens' = p.tokens
    /\ Started /\ UNCHANGED labels

basic_compile_source ==
    /\ Prompt("compile")
    /\ \E p \in Programs : tokens' = p.tokens /\ labels' = p.lines
    /\ UNCHANGED <<control, data, trap>>

Init ==
    /\ tokens = <<Tok("eof")>> /\ labels = <<>> /\ given = 0
    /\ host = <<>> /\ cur = 1 /\ running = FALSE /\ failed = FALSE
    /\ mem = [n |-> 0, v |-> NoVars] /\ loops = <<>> /\ gosubs = <<>> /\ read = 0
    /\ trap = [line |-> 0, active |-> FALSE, resume |-> 0]

Step ==
    \/ Separator \/ ProgramEnds \/ CallReturns \/ TooManyVariables
    \/ Let \/ Index \/ Identifier \/ Show \/ Const \/ Input \/ Read \/ Restore
    \/ Declare \/ Shared \/ Passive \/ Syntax \/ Nothing
    \/ For \/ Next_ \/ While \/ Wend \/ Repeat \/ Until
    \/ ExitLoop("exit_for", "for") \/ ExitLoop("exit_while", "while")
    \/ ContinueFor \/ ContinueWhile
    \/ Goto \/ Gosub \/ Return \/ On("on_goto") \/ On("on_gosub")
    \/ Call \/ LetCall \/ Heading \/ End \/ OnError \/ Resume
    \/ If \/ IfGoesOn \/ Select \/ SelectNext \/ SelectLoop \/ SelectGoesOn

\* The user has given all commands.
Idle == host = <<>> /\ given = MaxCommands /\ UNCHANGED vars

Next == Step \/ Idle \/ basic_run_source \/ basic_run_bytecode \/ basic_compile_source

\* One processor runs the interpreter: it goes on until the program ends.
Spec == Init /\ [][Next]_vars /\ WF_vars(Step)

----------------------------------------------------------------------------
\* The arrays have room, and while a program runs the cursor and whatever a
\* statement may set it to are places in its text.
BasicTypeOK ==
    /\ mem.n \in 0..MaxVars
    /\ Len(loops) <= MaxFrames /\ Len(gosubs) <= MaxFrames
    /\ Cardinality(Calls) <= MaxFrames
    /\ trap.active \in BOOLEAN /\ running \in BOOLEAN /\ failed \in BOOLEAN
    /\ host # <<>> =>
          /\ cur \in DOMAIN tokens
          /\ \A f \in Range(loops) :
                /\ f.tok \in DOMAIN tokens
                /\ f.var \in {WHILE, REPEAT} \union 1..MaxVars
          /\ Range(gosubs) \subseteq DOMAIN tokens
          /\ \A i \in Calls : host[i].ret \in DOMAIN tokens /\ host[i].nvars \in 0..MaxVars
          /\ trap.resume \in 0..Len(tokens)

\* A text without jumps but to subroutines and without CONTINUE, in which no
\* other word FOR or WHILE is in the way of a scan for the end of a loop, and
\* whose GOSUB is not under IF.
LoopOfExit(t, i, kw) == Max({j \in Enclosing(t, i) : t[j].op = kw} \union {0})
ExitOf == [for |-> "exit_for", while |-> "exit_while"]
Tidy(t) ==
    /\ Ops(t, {"goto", "go_line", "on_goto", "on_gosub", "on_error", "select",
               "continue_for", "continue_while"}) = {}
    /\ \A kw \in {"for", "while"} : \A i \in Ops(t, {ExitOf[kw]}) :
          LET j == LoopOfExit(t, i, kw)
          IN  j # 0 /\ loop_end(t, kw, i + 1) = ClosedAt(t, j)
    /\ \A w \in Ops(t, {"while"}) : loop_end(t, "while", w + 1) = ClosedAt(t, w)
    /\ \A i \in Ops(t, {"if"}), g \in Ops(t, {"gosub"}) :
          i < g => skip_to_newline(t, i) < g

\* The frames of the loops are those of the text: as many as there are loops
\* around the cursor and around each place a GOSUB or a call returns to, and the
\* last of them those around the cursor, outermost first.  A frame too many and
\* NEXT goes round a loop that was left.
Around(i) == SetToSortSeq(Enclosing(tokens, i), <)
Depth(i)  == Cardinality(Enclosing(tokens, i))
LoopsMatchText ==
    host # <<>> /\ ~failed /\ Tidy(tokens) =>
        LET own == Around(cur)
            out == Len(loops) - Len(own)
            rets  == FoldLeft(LAMBDA s, i : s + Depth(i), 0, gosubs)
            calls == MapThenSumSet(LAMBDA i : Depth(host[i].ret), Calls)
        IN  /\ Len(loops) = Len(own) + rets + calls
            /\ \A k \in DOMAIN own :
                  loops[out + k].tok \in {own[k], own[k] + 1}

\* A program that ends well ends with the values its text says: calls give their
\* parameters back, recursive ones too, and each loop goes round as often as it
\* says.
EndsWithResult ==
    host = <<>> /\ ~failed =>
        \A p \in Programs : p.tokens = tokens =>
            \A x \in DOMAIN p.result : \A i \in 1..mem.n :
                mem.v[i].name = x => mem.v[i].val = p.result[x]

\* Every program of finite loops ends, by its end or by an error: an error within
\* the handler of errors is not handled again.
Ends == [](host # <<>> => <>(host = <<>>))
============================================================================
