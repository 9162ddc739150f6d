---------------------------- MODULE MCGridEditors ----------------------------
(***************************************************************************)
(* Files for the runs of GridEditors: one that fits both editors, one of   *)
(* as many lines as the buffer has, with one it cannot hold whole, and a   *)
(* script with lines out of order, one without a number, and an END.       *)
(***************************************************************************)
EXTENDS GridEditors

A == <<"a">>
B == <<"b">>
Num(n) == <<"num", n>>

MCNoFile == <<<<"nofile">>>>
MCTorn == <<<<"torn">>>>
MCCompiled == <<<<"bytecode">>>>

Untitled_ == "/source/untitled.grid"
Welcome_ == "/source/welcome.grid"
MCPaths == {"/source/2x", Welcome_, Untitled_, "/programs/p.bas"}
MCDir == [p \in MCPaths |-> IF p = "/programs/p.bas" THEN "/programs" ELSE "/source"]
MCDigit == [p \in MCPaths |-> IF p = "/source/2x" THEN 2 ELSE 0]
MCInodes == <<Untitled_, Welcome_, "/source/2x", "/programs/p.bas">>
MCIcons == {"/source", "/programs"}

Script == <<Num(20), B, NL, A, NL, Num(10), A, NL>>
Wide == <<A, B, A, NL, B, A, B, NL, A>>
Text == <<A, B, NL, A, B, A, B>>

MCOnDisk == [p \in MCPaths |->
    CASE p = Welcome_ -> Script
      [] p = "/programs/p.bas" -> Wide
      [] p = "/source/2x" -> MCNoFile
      [] OTHER -> Text]
MCForeign == {<<A>>}
MCChars == {A}
MCNumbers == {0, 10, 20}
MCTexts == {<<>>, <<A>>, <<Stop>>}
==============================================================================
