-------------------------- MODULE GridBasicProofs --------------------------
(***************************************************************************)
(* The interpreter's arrays and cursor, for all programs and sizes: a      *)
(* frame, a GOSUB and a call are pushed only where there is room, and      *)
(* whatever a statement, a jump, an error handler or a return sets the     *)
(* cursor to is a token of the program.                                    *)
(***************************************************************************)
EXTENDS GridBasic, FoldLemmas, FiniteSetTheorems

------------------------------------------------------------------------------
(***************************************************************************)
(* Texts                                                                   *)
(***************************************************************************)
TextOK(t) == WellFormed(t, <<>>)

LEMMA TextHas ==
    ASSUME NEW t, TextOK(t)
    PROVE  /\ Len(t) \in Nat \ {0} /\ DOMAIN t = 1 .. Len(t)
           /\ \A i \in DOMAIN t : t[i].op = "eof" <=> i = Len(t)
           /\ Len(t) > 1 => t[Len(t) - 1].op = "newline"
           /\ \A i \in DOMAIN t : t[i].e.names \in Seq(STRING) /\ t[i].x \in STRING
           /\ \A i \in Ops(t, {"let_call"}) : find_sub(t, t[i].ns[1]) # 0
  BY DEF TextOK, WellFormed

LEMMA ProgramText ==
    ASSUME NEW p \in Programs
    PROVE  TextOK(p.tokens) /\ \A n \in DOMAIN p.lines : p.lines[n] \in DOMAIN p.tokens
<1>1. WellFormed(p.tokens, p.lines)
  BY BasicAssumption
<1>2. DOMAIN <<>> = {}
  OBVIOUS
<1> QED
  BY <1>1, <1>2 DEF TextOK, WellFormed

LEMMA MinIn ==
    ASSUME NEW U \in SUBSET Nat, U # {}
    PROVE  Min(U) \in U /\ \A y \in U : Min(U) <= y
<1>1. \E x \in U : \A y \in U : x <= y
  BY SmallestOf
<1> QED
  BY <1>1 DEF Min

\* A token that is not the last has one behind it.
LEMMA Behind ==
    ASSUME NEW t, TextOK(t), NEW i \in DOMAIN t
    PROVE  /\ advance(t, i) \in DOMAIN t
           /\ t[i].op # "eof" => i + 1 \in DOMAIN t
<1>1. PICK n \in Nat \ {0} : n = Len(t) /\ DOMAIN t = 1 .. n /\ (t[i].op = "eof" <=> i = n)
  BY TextHas
<1>2. i \in 1 .. n /\ (i # n => i + 1 \in 1 .. n) /\ (i < n => i # n)
  BY <1>1
<1> QED
  BY <1>1, <1>2 DEF advance

\* A scan that stops at the end of the program finds a token.
LEMMA Scanned ==
    ASSUME NEW t, TextOK(t), NEW K, "eof" \in K, NEW i \in DOMAIN t
    PROVE  LET j == Min({k \in Ops(t, K) : k >= i})
           IN  j \in DOMAIN t /\ j >= i /\ t[j].op \in K
                 /\ \A k \in Ops(t, K) : k >= i => k >= j
<1>1. PICK n \in Nat \ {0} : n = Len(t) /\ DOMAIN t = 1 .. n /\ t[n].op = "eof"
  BY TextHas
<1> DEFINE U == {k \in Ops(t, K) : k >= i}
<1>2. U \in SUBSET Nat /\ n \in U /\ \A k \in U : k \in DOMAIN t /\ k >= i /\ t[k].op \in K
  BY <1>1 DEF Ops
<1> HIDE DEF U
<1>3. Min(U) \in U /\ \A y \in U : Min(U) <= y
  BY <1>2, MinIn
<1>4. \A k \in U : k >= Min(U)
  BY <1>2, <1>3
<1> QED
  BY <1>2, <1>3, <1>4 DEF U

LEMMA NewlineAt ==
    ASSUME NEW t, TextOK(t), NEW i \in DOMAIN t
    PROVE  LET j == skip_to_newline(t, i)
           IN  j \in DOMAIN t /\ j >= i /\ t[j].op \in {"newline", "eof"}
                 /\ \A k \in Ops(t, {"newline", "eof"}) : k >= i => k >= j
<1>1. "eof" \in {"newline", "eof"}
  OBVIOUS
<1> QED
  BY <1>1, Scanned DEF skip_to_newline

LEMMA BranchAt ==
    ASSUME NEW t, TextOK(t), NEW i \in DOMAIN t
    PROVE  skip_if_false_branch(t, i) \in DOMAIN t
<1>1. "eof" \in {"else", "elseif", "newline", "eof"}
  OBVIOUS
<1> QED
  BY <1>1, Scanned DEF skip_if_false_branch

LEMMA PastNewlines ==
    ASSUME NEW t, TextOK(t), NEW i \in DOMAIN t
    PROVE  skip_newlines(t, i) \in DOMAIN t
<1>1. PICK n \in Nat \ {0} : n = Len(t) /\ DOMAIN t = 1 .. n /\ t[n].op = "eof"
  BY TextHas
<1> DEFINE U == {j \in DOMAIN t : j >= i /\ t[j].op # "newline"}
<1>2. U \in SUBSET Nat /\ n \in U /\ U \subseteq DOMAIN t
  BY <1>1
<1> HIDE DEF U
<1>3. Min(U) \in U
  BY <1>2, MinIn
<1> QED
  BY <1>2, <1>3 DEF U, skip_newlines

LEMMA LoopEndAt ==
    ASSUME NEW t, TextOK(t), NEW kw, NEW i
    PROVE  loop_end(t, kw, i) \in DOMAIN t
<1>1. PICK n \in Nat \ {0} : n = Len(t) /\ DOMAIN t = 1 .. n
  BY TextHas
<1> DEFINE U == {j \in Ops(t, Closing[kw]) :
                    /\ j >= i
                    /\ Count(t, Closing[kw], i, j) = 1 + Count(t, HasKeyword[kw], i, j)}
                  \union {Len(t)}
<1>2. U \in SUBSET Nat /\ U # {} /\ U \subseteq DOMAIN t
  BY <1>1 DEF Ops
<1>3. loop_end(t, kw, i) = Min(U)
  BY DEF loop_end
<1> HIDE DEF U
<1> QED
  BY <1>2, <1>3, MinIn

\* The line of a heading ends before the program.
LEMMA BodyAt ==
    ASSUME NEW t, TextOK(t), NEW h \in DOMAIN t, t[h].op \in Headings
    PROVE  body_start(t, h) \in DOMAIN t /\ skip_body(t, h) \in DOMAIN t
<1>1. PICK n \in Nat \ {0} :
        /\ n = Len(t) /\ DOMAIN t = 1 .. n
        /\ \A i \in DOMAIN t : t[i].op = "eof" <=> i = n
        /\ n > 1 => t[n - 1].op = "newline"
  BY TextHas
<1>2. t[h].op # "eof" /\ t[h].op # "newline"
  BY DEF Headings
<1>3. h \in 1 .. n /\ h # n
  BY <1>1, <1>2
<1>4. n > 1 /\ n - 1 \in DOMAIN t /\ n - 1 >= h
  BY <1>1, <1>3
<1>5. PICK j \in DOMAIN t :
        /\ j = skip_to_newline(t, h) /\ j >= h
        /\ \A k \in Ops(t, {"newline", "eof"}) : k >= h => k >= j
  BY NewlineAt
<1>6. n - 1 >= j
  BY <1>1, <1>4, <1>5 DEF Ops
<1>7. j + 1 \in DOMAIN t
  BY <1>1, <1>5, <1>6
<1> DEFINE U == {k \in Ops(t, Ends_) : k > h /\ Count(t, Ends_, h, k) = Count(t, Headings, h, k)}
<1>8. U \in SUBSET Nat /\ \A k \in U : k \in DOMAIN t /\ t[k].op # "eof"
  BY <1>1 DEF Ops, Ends_
<1>9. skip_body(t, h) = IF U = {} THEN Len(t) ELSE Min(U) + 1
  BY DEF skip_body
<1> HIDE DEF U
<1>10. U # {} => Min(U) + 1 \in DOMAIN t
  BY <1>8, MinIn, Behind
<1>11. Len(t) \in DOMAIN t
  BY <1>1
<1> QED
  BY <1>5, <1>7, <1>9, <1>10, <1>11 DEF body_start

LEMMA SubAt ==
    ASSUME NEW t, TextOK(t), NEW f, find_sub(t, f) # 0
    PROVE  find_sub(t, f) \in DOMAIN t /\ t[find_sub(t, f)].op \in Headings
<1> DEFINE U == {h \in Ops(t, Headings) : t[h].x = f}
<1>1. U \in SUBSET Nat /\ \A h \in U : h \in DOMAIN t /\ t[h].op \in Headings
  BY TextHas DEF Ops
<1>2. find_sub(t, f) = IF U = {} THEN 0 ELSE Min(U)
  BY DEF find_sub
<1> HIDE DEF U
<1> QED
  BY <1>1, <1>2, MinIn

------------------------------------------------------------------------------
(***************************************************************************)
(* Variables                                                               *)
(***************************************************************************)
Mems(X)   == [n : 0 .. MaxVars, v : [1 .. MaxVars -> X]]
MemOK(m)  == \E X : m \in Mems(X)
NewVars   == {[name |-> x, val |-> 0, const |-> FALSE] : x \in STRING}

\* There is room for those of the names K that are no variables yet.
Missing(m, K) == {x \in K : find_var(m, x) = 0}
RoomFor(m, K) == Cardinality(Missing(m, K)) <= MaxVars - m.n

LEMMA VarSizes == MaxVars \in Nat /\ MaxFrames \in Nat /\ MaxCommands \in Nat
  BY BasicAssumption

LEMMA NotZero ==
    ASSUME NEW n \in Nat, NEW i \in 0 .. n, i # 0
    PROVE  i \in 1 .. n
  OBVIOUS

LEMMA Found ==
    ASSUME NEW X, NEW m \in Mems(X), NEW x
    PROVE  /\ find_var(m, x) \in 0 .. MaxVars
           /\ find_var(m, x) = 0 <=> Named(m, x) = {}
<1>1. PICK k \in Nat : k = m.n /\ k <= MaxVars
  BY VarSizes DEF Mems
<1>2. Named(m, x) \in SUBSET (1 .. k)
  BY <1>1 DEF Named
<1>3. Named(m, x) # {} => Min(Named(m, x)) \in Named(m, x)
  BY <1>2, MinIn
<1> QED
  BY <1>1, <1>2, <1>3, VarSizes DEF find_var

LEMMA VarKept ==
    ASSUME NEW X, NewVars \subseteq X, NEW m \in Mems(X), NEW x \in STRING
    PROVE  get_var(m, x) \in Mems(X)
<1>1. CASE find_var(m, x) # 0 \/ m.n = MaxVars
  BY <1>1 DEF get_var
<1>2. CASE ~ (find_var(m, x) # 0 \/ m.n = MaxVars)
  <2>1. m.n + 1 \in 0 .. MaxVars
    BY <1>2, VarSizes DEF Mems
  <2>2. [name |-> x, val |-> 0, const |-> FALSE] \in X
    BY DEF NewVars
  <2>3. PICK new \in X : new = [name |-> x, val |-> 0, const |-> FALSE]
    BY <2>2
  <2>4. [m.v EXCEPT ![m.n + 1] = new] \in [1 .. MaxVars -> X]
    BY DEF Mems
  <2>5. get_var(m, x) = [n |-> m.n + 1, v |-> [m.v EXCEPT ![m.n + 1] = new]]
    BY <1>2, <2>3 DEF get_var
  <2> QED
    BY <2>1, <2>4, <2>5 DEF Mems
<1> QED
  BY <1>1, <1>2

\* A name that there is room for becomes a variable, and takes the room of itself.
LEMMA VarHasRoom ==
    ASSUME NEW X, NewVars \subseteq X, NEW m \in Mems(X),
           NEW K, IsFiniteSet(K), NEW x \in K, x \in STRING, RoomFor(m, K)
    PROVE  RoomFor(get_var(m, x), K) /\ find_var(get_var(m, x), x) \in 1 .. MaxVars
<1>1. CASE find_var(m, x) # 0
  <2>1. get_var(m, x) = m
    BY <1>1 DEF get_var
  <2>2. find_var(m, x) \in 1 .. MaxVars
    <3>1. find_var(m, x) \in 0 .. MaxVars
      BY Found
    <3> QED
      BY <1>1, <3>1, VarSizes, NotZero
  <2> QED
    BY <2>1, <2>2
<1>2. CASE find_var(m, x) = 0
  <2>1. x \in Missing(m, K)
    BY <1>2 DEF Missing
  <2>2. IsFiniteSet(Missing(m, K))
    BY FS_Subset DEF Missing
  <2>3. /\ Cardinality(Missing(m, K)) \in Nat /\ Cardinality(Missing(m, K)) # 0
        /\ Cardinality(Missing(m, K) \ {x}) = Cardinality(Missing(m, K)) - 1
        /\ IsFiniteSet(Missing(m, K) \ {x})
    BY <2>1, <2>2, FS_CardinalityType, FS_EmptySet, FS_RemoveElement
  <2>4. PICK k \in Nat : k = m.n /\ k <= MaxVars
    BY VarSizes DEF Mems
  <2>5. k < MaxVars /\ m.n # MaxVars
    BY <2>3, <2>4, VarSizes DEF RoomFor
  <2>6. PICK g \in Mems(X) : g = get_var(m, x)
    BY VarKept
  <2>7. PICK w : w = [m.v EXCEPT ![k + 1] = [name |-> x, val |-> 0, const |-> FALSE]]
    OBVIOUS
  <2>8. g = [n |-> k + 1, v |-> w]
    BY <1>2, <2>4, <2>5, <2>6, <2>7 DEF get_var
  <2>9. k + 1 \in 1 .. MaxVars /\ DOMAIN m.v = 1 .. MaxVars
    BY <2>5, VarSizes DEF Mems
  <2>10. /\ w[k + 1] = [name |-> x, val |-> 0, const |-> FALSE]
         /\ \A i \in 1 .. k : w[i] = m.v[i]
    <3>1. k + 1 \in DOMAIN m.v /\ \A i \in 1 .. k : i \in DOMAIN m.v /\ i # k + 1
      BY <2>5, <2>9, VarSizes
    <3> QED
      BY <2>7, <3>1
  <2>11. g.n = k + 1 /\ g.v = w
    BY <2>8
  <2>12. k + 1 \in Named(g, x)
    BY <2>9, <2>10, <2>11 DEF Named
  <2>13. ASSUME NEW y PROVE Named(m, y) \subseteq Named(g, y)
    BY <2>4, <2>10, <2>11 DEF Named
  <2>14. find_var(g, x) \in 1 .. MaxVars
    <3>1. find_var(g, x) \in 0 .. MaxVars /\ find_var(g, x) # 0
      BY <2>12, Found
    <3> QED
      BY <3>1, VarSizes, NotZero
  <2>15. Missing(g, K) \subseteq Missing(m, K) \ {x}
    <3>1. ASSUME NEW y \in Missing(g, K) PROVE y \in Missing(m, K) \ {x}
      <4>1. y \in K /\ find_var(g, y) = 0
        BY <3>1 DEF Missing
      <4>2. Named(g, y) = {}
        BY <4>1, Found
      <4>3. Named(m, y) = {} /\ y # x
        BY <2>12, <2>13, <4>2
      <4> QED
        BY <4>1, <4>3, Found DEF Missing
    <3> QED
      BY <3>1
  <2>16. /\ Cardinality(Missing(g, K)) <= Cardinality(Missing(m, K)) - 1
         /\ Cardinality(Missing(g, K)) \in Nat
    <3>1. IsFiniteSet(Missing(g, K))
      BY <2>3, <2>15, FS_Subset
    <3>2. /\ Cardinality(Missing(g, K)) \in Nat
          /\ Cardinality(Missing(g, K)) <= Cardinality(Missing(m, K) \ {x})
      BY <2>3, <2>15, <3>1, FS_Subset, FS_CardinalityType
    <3> QED
      BY <2>3, <3>2
  <2>17. Cardinality(Missing(g, K)) <= MaxVars - (k + 1)
    BY <2>3, <2>4, <2>16, VarSizes DEF RoomFor
  <2> QED
    BY <2>6, <2>11, <2>14, <2>17 DEF RoomFor
<1> QED
  BY <1>1, <1>2

\* Reading the variables of an expression, one after another.
LEMMA TouchSteps ==
    ASSUME NEW names \in Seq(STRING), NEW M, NEW m \in M,
           \A a \in M : \A i \in 1 .. Len(names) : get_var(a, names[i]) \in M
    PROVE  \E f : /\ f[0] = m
                  /\ \A i \in 1 .. Len(names) : f[i] = get_var(f[i - 1], names[i])
                  /\ \A i \in 0 .. Len(names) : f[i] \in M
                  /\ Touch(m, names) = f[Len(names)]
<1>1. PICK N \in Nat : N = Len(names) /\ DOMAIN names = 1 .. N
  OBVIOUS
<1>2. PICK A : A = M
  OBVIOUS
<1>3. m \in A /\ \A i \in 1 .. N : \A a \in A : get_var(a, names[i]) \in A
  BY <1>1, <1>2
<1>4. PICK step : step = [i \in 1 .. N |-> [a \in A |-> get_var(a, names[i])]]
  OBVIOUS
<1>5. step \in [1 .. N -> [A -> A]]
  BY <1>3, <1>4
<1>6. PICK g : FoldOf(g, N, A, m, step)
  BY <1>3, <1>5, FoldSteps
<1> DEFINE body(h) == [J \in SUBSET DOMAIN names |->
                         IF J = {} THEN m ELSE get_var(h[J \ {Max(J)}], names[Max(J)])]
           iter == CHOOSE h : h = body(h)
           f == [i \in 0 .. N |-> iter[1 .. i]]
<1>7. g = body(g)
  <2>1. \A J \in SUBSET (1 .. N) : J # {} => g[J] = get_var(g[J \ {Max(J)}], names[Max(J)])
    <3> TAKE J \in SUBSET (1 .. N)
    <3> HAVE J # {}
    <3>1. Max(J) \in 1 .. N /\ J \ {Max(J)} \in SUBSET (1 .. N)
      BY LargestOf
    <3>2. g[J] = step[Max(J)][g[J \ {Max(J)}]] /\ g[J \ {Max(J)}] \in A
      BY <1>6, <3>1 DEF FoldOf
    <3> QED
      BY <1>4, <3>1, <3>2
  <2> QED
    BY <1>1, <1>6, <2>1 DEF FoldOf
<1>8. iter = body(iter)
  <2> HIDE DEF body
  <2> QED
    BY <1>7, Zenon
<1>9. Touch(m, names) = f[N]
  <2>1. Touch(m, names) = iter[DOMAIN names]
    BY DEF Touch, FoldLeft, MapThenFoldSet
  <2> HIDE DEF iter
  <2> QED
    BY <1>1, <2>1
<1> HIDE DEF iter
<1>10. f[0] = m
  BY <1>1, <1>8
<1>11. ASSUME NEW i \in 1 .. N PROVE f[i] = get_var(f[i - 1], names[i])
  <2>1. Max(1 .. i) = i /\ (1 .. i) \ {i} = 1 .. (i - 1)
    BY LargestUpTo
  <2>2. 1 .. i \in SUBSET DOMAIN names /\ 1 .. i # {}
    <3>1. DOMAIN names = 1 .. N
      BY <1>1
    <3>2. 1 .. i \in SUBSET (1 .. N) /\ 1 .. i # {}
      BY FirstNumbers
    <3> QED
      BY <3>1, <3>2
  <2>3. iter[1 .. i] = get_var(iter[(1 .. i) \ {Max(1 .. i)}], names[Max(1 .. i)])
    BY <1>8, <2>2
  <2>4. f[i] = iter[1 .. i] /\ f[i - 1] = iter[1 .. (i - 1)]
    BY <1>1
  <2> HIDE DEF f, body
  <2> QED
    BY <2>1, <2>3, <2>4
<1> HIDE DEF f
<1> DEFINE T == {i \in 0 .. N : f[i] \in A}
<1>12. \A i \in 0 .. N : i \in T
  <2>1. 0 \in T
    BY <1>3, <1>10
  <2>2. ASSUME NEW i \in 0 .. (N - 1), i \in T PROVE i + 1 \in T
    <3>1. i + 1 \in 1 .. N /\ (i + 1) - 1 = i
      OBVIOUS
    <3>2. f[i + 1] = get_var(f[i], names[i + 1])
      BY <1>11, <3>1
    <3>3. get_var(f[i], names[i + 1]) \in A
      BY <1>3, <2>2, <3>1
    <3> QED
      BY <3>1, <3>2, <3>3
  <2> HIDE DEF T
  <2> QED
    BY <2>1, <2>2, UpToInduction
<1> QED
  BY <1>1, <1>2, <1>9, <1>10, <1>11, <1>12


LEMMA TouchKeeps ==
    ASSUME NEW m, MemOK(m), NEW names \in Seq(STRING)
    PROVE  MemOK(Touch(m, names))
<1>1. PICK X : m \in Mems(X)
  BY DEF MemOK
<1>2. PICK Y : Y = X \cup NewVars
  OBVIOUS
<1>3. m \in Mems(Y) /\ NewVars \subseteq Y
  BY <1>1, <1>2 DEF Mems
<1>4. \A a \in Mems(Y) : \A i \in 1 .. Len(names) : get_var(a, names[i]) \in Mems(Y)
  <2>1. \A i \in 1 .. Len(names) : names[i] \in STRING
    OBVIOUS
  <2> QED
    BY <1>3, <2>1, VarKept
<1>5. PICK M : M = Mems(Y)
  OBVIOUS
<1>6. \E f : (\A i \in 0 .. Len(names) : f[i] \in M) /\ Touch(m, names) = f[Len(names)]
  BY <1>3, <1>4, <1>5, TouchSteps
<1>7. Len(names) \in 0 .. Len(names)
  OBVIOUS
<1> QED
  BY <1>5, <1>6, <1>7 DEF MemOK

LEMMA VarIn ==
    ASSUME NEW m, MemOK(m), NEW x \in STRING
    PROVE  MemOK(get_var(m, x))
<1>1. PICK X : m \in Mems(X)
  BY DEF MemOK
<1>2. PICK Y : Y = X \cup NewVars
  OBVIOUS
<1>3. m \in Mems(Y) /\ NewVars \subseteq Y
  BY <1>1, <1>2 DEF Mems
<1> QED
  BY <1>3, VarKept DEF MemOK

LEMMA EntryKept ==
    ASSUME NEW m, MemOK(m), NEW i, NEW z, NEW c, c = [m EXCEPT !.v[i] = z]
    PROVE  MemOK(c)
<1>1. PICK X : m \in Mems(X)
  BY DEF MemOK
<1>2. PICK Y : Y = X \cup {z}
  OBVIOUS
<1>3. c \in Mems(Y)
  BY <1>1, <1>2 DEF Mems
<1> QED
  BY <1>3 DEF MemOK

LEMMA SetKeeps ==
    ASSUME NEW m, MemOK(m), NEW x, NEW k
    PROVE  MemOK(Set(m, x, k))
<1>1. PICK i : i = find_var(m, x)
  OBVIOUS
<1>2. PICK z : z = [m.v[i] EXCEPT !.val = k]
  OBVIOUS
<1>3. PICK c : c = [m EXCEPT !.v[i] = z]
  OBVIOUS
<1>4. MemOK(c)
  BY <1>3, EntryKept
<1>5. Set(m, x, k) = c
  BY <1>1, <1>2, <1>3 DEF Set
<1> QED
  BY <1>4, <1>5

LEMMA CutKeeps ==
    ASSUME NEW m, MemOK(m), NEW k \in 0 .. MaxVars, NEW c, c = [m EXCEPT !.n = k]
    PROVE  MemOK(c)
<1>1. PICK X : m \in Mems(X)
  BY DEF MemOK
<1>2. c \in Mems(X)
  BY <1>1 DEF Mems
<1> QED
  BY <1>2 DEF MemOK

------------------------------------------------------------------------------
(***************************************************************************)
(* The C functions under way                                               *)
(***************************************************************************)
FrameOK(t, f) ==
    /\ "c" \in DOMAIN f
    /\ f.c = "call" => f.ret \in DOMAIN t /\ f.nvars \in 0 .. MaxVars

StackOK(t, h) ==
    /\ \E S : h \in Seq(S)
    /\ \A i \in DOMAIN h : FrameOK(t, h[i])
    /\ Cardinality(CallsIn(h)) <= MaxFrames

LEMMA StackHas ==
    ASSUME NEW S, NEW h \in Seq(S)
    PROVE  /\ Len(h) \in Nat /\ DOMAIN h = 1 .. Len(h)
           /\ h # <<>> => Len(h) \in DOMAIN h
           /\ IsFiniteSet(CallsIn(h)) /\ Cardinality(CallsIn(h)) \in Nat
<1>1. PICK n \in Nat : n = Len(h) /\ DOMAIN h = 1 .. n
  OBVIOUS
<1>2. h # <<>> => n \in DOMAIN h
  BY <1>1
<1>3. IsFiniteSet(1 .. n)
  BY FS_Interval
<1>4. IsFiniteSet(CallsIn(h))
  BY <1>1, <1>3, FS_Subset DEF CallsIn
<1> QED
  BY <1>1, <1>2, <1>4, FS_CardinalityType

LEMMA TopSet ==
    ASSUME NEW t, NEW h, StackOK(t, h), h # <<>>, h[Len(h)].c # "call",
           NEW g, "c" \in DOMAIN g, g.c # "call",
           NEW r, r = [h EXCEPT ![Len(h)] = g]
    PROVE  /\ StackOK(t, r) /\ r # <<>> /\ CallsIn(r) = CallsIn(h)
           /\ Len(r) = Len(h) /\ \A i \in DOMAIN h : i # Len(h) => r[i] = h[i]
<1>1. PICK S : h \in Seq(S)
  BY DEF StackOK
<1>2. PICK n \in Nat : n = Len(h) /\ DOMAIN h = 1 .. n /\ n \in 1 .. n
  BY <1>1, StackHas
<1>3. PICK Q : Q = S \cup {g}
  OBVIOUS
<1>4. \A i \in 1 .. n : h[i] \in Q
  BY <1>1, <1>2, <1>3
<1>5. r \in Seq(Q) /\ Len(r) = n
  BY <1>1, <1>2, <1>3
<1>6. DOMAIN r = 1 .. n /\ r[n] = g /\ \A i \in 1 .. n : i # n => r[i] = h[i]
  BY <1>2
<1>7. CallsIn(r) = CallsIn(h)
  BY <1>2, <1>6 DEF CallsIn
<1>8. \A i \in DOMAIN r : FrameOK(t, r[i])
  BY <1>2, <1>6 DEF StackOK, FrameOK
<1>9. r # <<>>
  BY <1>2, <1>5
<1> QED
  BY <1>2, <1>5, <1>6, <1>7, <1>8, <1>9 DEF StackOK

LEMMA Pushed ==
    ASSUME NEW t, NEW h, StackOK(t, h), NEW g, FrameOK(t, g),
           g.c = "call" => Cardinality(CallsIn(h)) < MaxFrames
    PROVE  StackOK(t, Append(h, g)) /\ Append(h, g) # <<>>
<1>1. PICK S : h \in Seq(S)
  BY DEF StackOK
<1>2. PICK n \in Nat : n = Len(h) /\ DOMAIN h = 1 .. n
  BY <1>1, StackHas
<1>3. PICK Q : Q = S \cup {g}
  OBVIOUS
<1>4. h \in Seq(Q) /\ g \in Q
  BY <1>1, <1>3
<1>5. PICK r : r = Append(h, g)
  OBVIOUS
<1>6. r \in Seq(Q) /\ Len(r) = n + 1 /\ r[n + 1] = g /\ \A i \in 1 .. n : r[i] = h[i]
  BY <1>2, <1>4, <1>5
<1>7. DOMAIN r = 1 .. (n + 1)
  BY <1>6
<1>8. \A i \in DOMAIN r : FrameOK(t, r[i])
  <2>1. \A i \in 1 .. (n + 1) : i = n + 1 \/ i \in 1 .. n
    OBVIOUS
  <2> QED
    BY <1>2, <1>6, <1>7, <2>1 DEF StackOK
<1>9. Cardinality(CallsIn(r)) <= MaxFrames
  <2>1. /\ IsFiniteSet(CallsIn(h)) /\ Cardinality(CallsIn(h)) \in Nat
        /\ Cardinality(CallsIn(h)) <= MaxFrames
    BY <1>1, StackHas DEF StackOK
  <2>2. CASE g.c = "call"
    <3>1. CallsIn(r) = CallsIn(h) \cup {n + 1}
      BY <1>2, <1>6, <1>7, <2>2 DEF CallsIn
    <3>2. n + 1 \notin CallsIn(h)
      BY <1>2 DEF CallsIn
    <3>3. Cardinality(CallsIn(r)) = Cardinality(CallsIn(h)) + 1
      BY <2>1, <3>1, <3>2, FS_AddElement
    <3> QED
      BY <2>1, <2>2, <3>3, VarSizes
  <2>3. CASE g.c # "call"
    <3>1. CallsIn(r) = CallsIn(h)
      BY <1>2, <1>6, <1>7, <2>3 DEF CallsIn
    <3> QED
      BY <2>1, <3>1
  <2> QED
    BY <2>2, <2>3
<1>10. r # <<>>
  BY <1>6
<1> QED
  BY <1>5, <1>6, <1>8, <1>9, <1>10 DEF StackOK

LEMMA Popped ==
    ASSUME NEW t, NEW h, StackOK(t, h), h # <<>>
    PROVE  StackOK(t, Front(h))
<1>1. PICK S : h \in Seq(S)
  BY DEF StackOK
<1>2. PICK n \in Nat : n = Len(h) /\ DOMAIN h = 1 .. n /\ n \in 1 .. n
  BY <1>1, StackHas
<1>3. PICK r : r = Front(h)
  OBVIOUS
<1>4. r \in Seq(S) /\ Len(r) = n - 1 /\ \A i \in 1 .. (n - 1) : r[i] = h[i]
  BY <1>1, <1>2, <1>3 DEF Front
<1>5. DOMAIN r = 1 .. (n - 1) /\ \A i \in 1 .. (n - 1) : i \in 1 .. n
  BY <1>2, <1>4
<1>6. \A i \in DOMAIN r : FrameOK(t, r[i])
  BY <1>2, <1>4, <1>5 DEF StackOK
<1>7. CallsIn(r) \subseteq CallsIn(h)
  BY <1>2, <1>4, <1>5 DEF CallsIn
<1>8. Cardinality(CallsIn(r)) <= MaxFrames
  <2>1. /\ IsFiniteSet(CallsIn(h)) /\ Cardinality(CallsIn(h)) \in Nat
        /\ Cardinality(CallsIn(h)) <= MaxFrames
    BY <1>1, StackHas DEF StackOK
  <2>2. /\ Cardinality(CallsIn(r)) \in Nat
        /\ Cardinality(CallsIn(r)) <= Cardinality(CallsIn(h))
    BY <1>4, <1>7, <2>1, StackHas, FS_Subset
  <2> QED
    BY <2>1, <2>2, VarSizes
<1> QED
  BY <1>3, <1>4, <1>6, <1>8 DEF StackOK

\* The function on top at another of its own places.
LEMMA TopMoved ==
    ASSUME NEW t, NEW h, StackOK(t, h), h # <<>>, h[Len(h)].c # "call", NEW a, NEW v, a # "c"
    PROVE  LET r == [h EXCEPT ![Len(h)][a] = v]
           IN  StackOK(t, r) /\ r # <<>> /\ CallsIn(r) = CallsIn(h)
<1>1. PICK f : f = h[Len(h)]
  OBVIOUS
<1>2. PICK g : g = [f EXCEPT ![a] = v]
  OBVIOUS
<1>3. "c" \in DOMAIN f
  <2>1. PICK S : h \in Seq(S)
    BY DEF StackOK
  <2>2. Len(h) \in DOMAIN h
    BY <2>1, StackHas
  <2> QED
    BY <1>1, <2>2 DEF StackOK, FrameOK
<1>4. "c" \in DOMAIN g /\ g.c = f.c
  BY <1>2, <1>3
<1>5. PICK r : r = [h EXCEPT ![Len(h)] = g]
  OBVIOUS
<1>6. StackOK(t, r) /\ r # <<>> /\ CallsIn(r) = CallsIn(h)
  <2>1. "c" \in DOMAIN g /\ g.c # "call"
    BY <1>1, <1>4
  <2> QED
    BY <1>5, <2>1, TopSet, ZenonT(60)
<1>7. [h EXCEPT ![Len(h)][a] = v] = r
  BY <1>1, <1>2, <1>5
<1> QED
  BY <1>6, <1>7

LEMMA DoneOK ==
    ASSUME StackOK(tokens, host), host # <<>>
    PROVE  StackOK(tokens, Done) /\ Done # <<>> /\ CallsIn(Done) = Calls
<1>1. CASE Top.c \in Chained
  <2>1. host[Len(host)].c # "call"
    BY <1>1 DEF Top, Chained
  <2>2. Done = [host EXCEPT ![Len(host)].st = "done"]
    BY <1>1 DEF Done
  <2> QED
    BY <2>1, <2>2, TopMoved DEF Calls
<1>2. CASE Top.c \notin Chained
  BY <1>2 DEF Done, Calls
<1> QED
  BY <1>1, <1>2

------------------------------------------------------------------------------
(***************************************************************************)
(* What a program has while it runs, and the ways a statement ends         *)
(***************************************************************************)
IsFrame(t, f) ==
    /\ f.tok \in DOMAIN t /\ f.var \in {WHILE, REPEAT} \cup (1 .. MaxVars)
    /\ f.var = WHILE => f.tok + 1 \in DOMAIN t

FramesOK(t, l) ==
    /\ \E S : l \in Seq(S)
    /\ Len(l) <= MaxFrames
    /\ \A i \in DOMAIN l : IsFrame(t, l[i])

PlacesOK(t, g) == g \in Seq(DOMAIN t) /\ Len(g) <= MaxFrames

TrapOK(t, r) == \E X : r \in [line : X, active : BOOLEAN, resume : 0 .. Len(t)]

LabelsOK(t, ls) == \A n \in DOMAIN ls : ls[n] \in DOMAIN t

Placed ==
    /\ TextOK(tokens) /\ LabelsOK(tokens, labels)
    /\ cur \in DOMAIN tokens /\ StackOK(tokens, host)
    /\ running \in BOOLEAN /\ failed \in BOOLEAN
    /\ MemOK(mem)
    /\ FramesOK(tokens, loops) /\ PlacesOK(tokens, gosubs) /\ TrapOK(tokens, trap)

\* The cursor and the functions under way after a step.
Moved ==
    /\ cur' \in DOMAIN tokens /\ StackOK(tokens, host')
    /\ running' \in BOOLEAN /\ failed' \in BOOLEAN

LEMMA PlacedNext ==
    ASSUME Placed, Moved, tokens' = tokens, labels' = labels, MemOK(mem'),
           FramesOK(tokens, loops'), PlacesOK(tokens, gosubs'), TrapOK(tokens, trap')
    PROVE  Placed'
  BY DEF Placed, Moved

LEMMA FramePushed ==
    ASSUME NEW t, NEW l, FramesOK(t, l), Len(l) < MaxFrames, NEW f, IsFrame(t, f)
    PROVE  FramesOK(t, Append(l, f))
<1>1. PICK S : l \in Seq(S)
  BY DEF FramesOK
<1>2. PICK n \in Nat : n = Len(l) /\ DOMAIN l = 1 .. n
  BY <1>1
<1>3. PICK Q : Q = S \cup {f}
  OBVIOUS
<1>4. l \in Seq(Q) /\ f \in Q
  BY <1>1, <1>3
<1>5. PICK r : r = Append(l, f)
  OBVIOUS
<1>6. r \in Seq(Q) /\ Len(r) = n + 1 /\ r[n + 1] = f /\ \A i \in 1 .. n : r[i] = l[i]
  BY <1>2, <1>4, <1>5
<1>7. DOMAIN r = 1 .. (n + 1) /\ \A i \in 1 .. (n + 1) : i = n + 1 \/ i \in 1 .. n
  BY <1>6
<1>8. \A i \in DOMAIN r : IsFrame(t, r[i])
  BY <1>2, <1>6, <1>7 DEF FramesOK
<1>9. Len(r) <= MaxFrames
  BY <1>2, <1>6, VarSizes
<1> QED
  BY <1>5, <1>6, <1>8, <1>9 DEF FramesOK

LEMMA FramesCut ==
    ASSUME NEW t, NEW l, FramesOK(t, l), NEW i \in DOMAIN l
    PROVE  FramesOK(t, SubSeq(l, 1, i - 1))
<1>1. PICK S : l \in Seq(S)
  BY DEF FramesOK
<1>2. PICK n \in Nat : n = Len(l) /\ DOMAIN l = 1 .. n /\ i \in 1 .. n
  BY <1>1
<1>3. PICK r : r = SubSeq(l, 1, i - 1)
  OBVIOUS
<1>4. r \in Seq(S) /\ Len(r) = i - 1 /\ \A k \in 1 .. (i - 1) : r[k] = l[k]
  BY <1>1, <1>2, <1>3
<1>5. DOMAIN r = 1 .. (i - 1) /\ \A k \in 1 .. (i - 1) : k \in 1 .. n
  BY <1>2, <1>4
<1>6. \A k \in DOMAIN r : IsFrame(t, r[k])
  BY <1>2, <1>4, <1>5 DEF FramesOK
<1>7. Len(r) <= MaxFrames
  <2>1. n <= MaxFrames
    BY <1>2 DEF FramesOK
  <2> QED
    BY <1>2, <1>4, <2>1, VarSizes
<1> QED
  BY <1>3, <1>4, <1>6, <1>7 DEF FramesOK

LEMMA LastFrame ==
    ASSUME NEW t, NEW l, FramesOK(t, l), l # <<>>
    PROVE  IsFrame(t, Last(l)) /\ FramesOK(t, Front(l))
<1>1. PICK S : l \in Seq(S)
  BY DEF FramesOK
<1>2. PICK n \in Nat : n = Len(l) /\ DOMAIN l = 1 .. n /\ n \in 1 .. n
  BY <1>1
<1>3. Last(l) = l[n] /\ Front(l) = SubSeq(l, 1, n - 1)
  BY <1>2 DEF Last, Front
<1>4. n \in DOMAIN l
  BY <1>2
<1> QED
  BY <1>3, <1>4, FramesCut DEF FramesOK

LEMMA MaxIn ==
    ASSUME NEW n \in Nat, NEW U \in SUBSET (0 .. n), U # {}
    PROVE  Max(U) \in U
<1>1. PICK s : s = U \ {0}
  OBVIOUS
<1>2. s \in SUBSET (1 .. n)
  BY <1>1
<1>3. \E x \in U : \A y \in U : x >= y
  <2>1. CASE s = {}
    <3>1. 0 \in U /\ \A y \in U : y = 0
      BY <1>1, <2>1
    <3> QED
      BY <3>1
  <2>2. CASE s # {}
    <3>1. PICK x \in 1 .. n : x \in s /\ \A y \in s : x >= y
      BY <1>2, <2>2, LargestOf
    <3>2. x \in U /\ \A y \in U : x >= y
      BY <1>1, <1>2, <3>1
    <3> QED
      BY <3>2
  <2> QED
    BY <2>1, <2>2
<1> QED
  BY <1>3 DEF Max

LEMMA KindAt ==
    ASSUME NEW S, loops \in Seq(S), NEW kw, FrameOf(kw) # 0
    PROVE  FrameOf(kw) \in DOMAIN loops /\ IsKind(loops[FrameOf(kw)], Kind(kw))
<1>1. PICK n \in Nat : n = Len(loops) /\ DOMAIN loops = 1 .. n
  OBVIOUS
<1> DEFINE U == {i \in DOMAIN loops : IsKind(loops[i], Kind(kw))} \union {0}
<1>2. U \in SUBSET (0 .. n) /\ U # {}
  BY <1>1
<1>3. FrameOf(kw) = Max(U)
  BY DEF FrameOf
<1>4. Max(U) \in U
  <2> HIDE DEF U
  <2> QED
    BY <1>2, MaxIn
<1> QED
  BY <1>3, <1>4

LEMMA HereIs ==
    ASSUME Placed
    PROVE  /\ TextOK(tokens) /\ cur \in DOMAIN tokens
           /\ Here.e.names \in Seq(STRING) /\ Here.x \in STRING
           /\ Here.op # "eof" => cur + 1 \in DOMAIN tokens /\ cur + 1 \in 0 .. Len(tokens)
           /\ 0 \in 0 .. Len(tokens) /\ advance(tokens, cur) \in DOMAIN tokens
<1>1. TextOK(tokens) /\ cur \in DOMAIN tokens
  BY DEF Placed
<1>2. PICK n \in Nat : n = Len(tokens) /\ DOMAIN tokens = 1 .. n
  BY <1>1, TextHas
<1>3. tokens[cur].op # "eof" => cur + 1 \in DOMAIN tokens
  BY <1>1, Behind
<1>4. \A i \in 1 .. n : i \in 0 .. n
  OBVIOUS
<1>5. 0 \in 0 .. n
  OBVIOUS
<1> QED
  BY <1>1, <1>2, <1>3, <1>4, <1>5, TextHas, Behind DEF Here

LEMMA MemKept ==
    ASSUME Placed
    PROVE  MemOK(Mem)
<1>1. MemOK(mem) /\ Here.e.names \in Seq(STRING) /\ Here.x \in STRING
  BY HereIs DEF Placed
<1>2. PICK m : m = Touch(mem, Here.e.names)
  OBVIOUS
<1>3. MemOK(m)
  BY <1>1, <1>2, TouchKeeps
<1>4. MemOK(get_var(m, Here.x))
  BY <1>1, <1>3, VarIn
<1> QED
  BY <1>2, <1>3, <1>4 DEF Mem

LEMMA GoesOK ==
    ASSUME Placed, host # <<>>, NEW c \in DOMAIN tokens, Goes(c)
    PROVE  Moved
<1>1. StackOK(tokens, Done)
  BY DoneOK DEF Placed
<1> QED
  BY <1>1 DEF Goes, Moved, Placed

LEMMA SetErrorOK ==
    ASSUME Placed, host # <<>>, set_error
    PROVE  Moved /\ trap' = trap /\ TrapOK(tokens, trap')
<1>1. StackOK(tokens, Done)
  BY DoneOK DEF Placed
<1> QED
  BY <1>1, HereIs DEF set_error, Moved, Placed

LEMMA LabelAt ==
    ASSUME Placed, NEW n, find_label(labels, n) # 0
    PROVE  find_label(labels, n) \in DOMAIN tokens
  BY DEF find_label, Placed, LabelsOK

LEMMA BasicErrorOK ==
    ASSUME Placed, host # <<>>, NEW at \in 0 .. Len(tokens), basic_error(at)
    PROVE  Moved /\ TrapOK(tokens, trap')
<1>1. PICK handler : handler = IF trap.line > 0 THEN find_label(labels, trap.line) ELSE 0
  OBVIOUS
<1>2. CASE handler # 0 /\ ~ trap.active
  <2>1. handler \in DOMAIN tokens
    BY <1>1, <1>2, LabelAt
  <2>2. /\ trap' = [trap EXCEPT !.active = TRUE, !.resume = at]
        /\ cur' = handler /\ failed' = FALSE /\ running' = TRUE /\ host' = Done
    BY <1>1, <1>2 DEF basic_error
  <2>3. TrapOK(tokens, trap')
    <3>1. PICK X : trap \in [line : X, active : BOOLEAN, resume : 0 .. Len(tokens)]
      BY DEF Placed, TrapOK
    <3>2. trap' \in [line : X, active : BOOLEAN, resume : 0 .. Len(tokens)]
      BY <2>2, <3>1
    <3> QED
      BY <3>2 DEF TrapOK
  <2>4. StackOK(tokens, Done)
    BY DoneOK DEF Placed
  <2> QED
    BY <2>1, <2>2, <2>3, <2>4 DEF Moved
<1>3. CASE ~ (handler # 0 /\ ~ trap.active)
  <2>1. set_error
    BY <1>1, <1>3 DEF basic_error
  <2> QED
    BY <2>1, SetErrorOK
<1> QED
  BY <1>2, <1>3

LEMMA JumpsOK ==
    ASSUME Placed, host # <<>>, NEW n, JumpsTo(n)
    PROVE  Moved /\ TrapOK(tokens, trap')
<1>1. CASE find_label(labels, n) = 0
  BY <1>1, SetErrorOK DEF JumpsTo
<1>2. CASE find_label(labels, n) # 0
  <2>1. Goes(find_label(labels, n)) /\ trap' = trap
    BY <1>2 DEF JumpsTo
  <2> QED
    BY <1>2, <2>1, LabelAt, GoesOK DEF Placed
<1> QED
  BY <1>1, <1>2

------------------------------------------------------------------------------
(***************************************************************************)
(* Statements on values                                                    *)
(***************************************************************************)
\* A step that leaves the frames alone.
LEMMA Unframed ==
    ASSUME Placed, Moved, MemOK(mem'), TrapOK(tokens, trap'),
           loops' = loops, gosubs' = gosubs, UNCHANGED text
    PROVE  Placed'
  BY PlacedNext DEF Placed, text

\* A statement that changes variables only and goes on behind itself, or fails.
LEMMA Valued ==
    ASSUME Placed, AtStatement, Here.op # "eof",
           \/ Goes(cur + 1) /\ trap' = trap
           \/ set_error
           \/ basic_error(0)
           \/ basic_error(cur + 1),
           MemOK(mem'), loops' = loops, gosubs' = gosubs, UNCHANGED text
    PROVE  Placed'
<1>1. host # <<>> /\ cur + 1 \in DOMAIN tokens /\ TrapOK(tokens, trap)
  BY HereIs DEF AtStatement, Placed
<1>2. Moved /\ TrapOK(tokens, trap')
  <2>1. CASE Goes(cur + 1) /\ trap' = trap
    BY <1>1, <2>1, GoesOK
  <2>2. CASE set_error
    BY <1>1, <2>2, SetErrorOK
  <2>3. CASE basic_error(0)
    BY <1>1, <2>3, HereIs, BasicErrorOK
  <2>4. CASE basic_error(cur + 1)
    <3>1. cur + 1 \in 0 .. Len(tokens)
      BY HereIs
    <3> QED
      BY <1>1, <2>4, <3>1, BasicErrorOK
  <2> QED
    BY <2>1, <2>2, <2>3, <2>4
<1> QED
  BY <1>2, Unframed

LEMMA LetStep == ASSUME Placed, Let PROVE Placed'
<1>1. /\ AtStatement /\ Here.op # "eof" /\ loops' = loops /\ gosubs' = gosubs /\ UNCHANGED text
      /\ \/ mem' = Mem /\ basic_error(0)
         \/ mem' = Set(Mem, Here.x, Value(Mem, Here.e)) /\ Goes(cur + 1) /\ trap' = trap
  BY DEF Let, Statement
<1>2. MemOK(mem')
  BY <1>1, MemKept, SetKeeps
<1> QED
  BY <1>1, <1>2, Valued

LEMMA IndexStep == ASSUME Placed, Index PROVE Placed'
<1>1. /\ AtStatement /\ Here.op # "eof" /\ loops' = loops /\ gosubs' = gosubs /\ UNCHANGED text
      /\ mem' = Mem /\ (basic_error(0) \/ (Goes(cur + 1) /\ trap' = trap))
  BY DEF Index, Statement
<1> QED
  BY <1>1, MemKept, Valued

LEMMA IdentifierStep == ASSUME Placed, Identifier PROVE Placed'
<1>1. /\ AtStatement /\ Here.op # "eof" /\ loops' = loops /\ gosubs' = gosubs /\ UNCHANGED text
      /\ mem' = Mem /\ basic_error(0)
  BY DEF Identifier, Statement
<1> QED
  BY <1>1, MemKept, Valued

LEMMA ShowStep == ASSUME Placed, Show PROVE Placed'
<1>1. /\ AtStatement /\ Here.op # "eof" /\ loops' = loops /\ gosubs' = gosubs /\ UNCHANGED text
      /\ mem' = Mem /\ Goes(cur + 1) /\ trap' = trap
  BY DEF Show, Statement
<1> QED
  BY <1>1, MemKept, Valued

LEMMA ConstStep == ASSUME Placed, Const PROVE Placed'
<1>1. /\ AtStatement /\ Here.op # "eof" /\ loops' = loops /\ gosubs' = gosubs /\ UNCHANGED text
      /\ \/ mem' = mem /\ set_error
         \/ /\ mem' = [Set(Mem, Here.x, Value(Mem, Here.e))
                         EXCEPT !.v[find_var(Mem, Here.x)].const = TRUE]
            /\ Goes(cur + 1) /\ trap' = trap
  BY DEF Const, Statement
<1>2. MemOK(mem')
  <2>1. CASE mem' = mem
    BY <2>1 DEF Placed
  <2>2. CASE mem' = [Set(Mem, Here.x, Value(Mem, Here.e))
                       EXCEPT !.v[find_var(Mem, Here.x)].const = TRUE]
    <3>1. PICK m : m = Set(Mem, Here.x, Value(Mem, Here.e))
      OBVIOUS
    <3>2. MemOK(m)
      BY <3>1, MemKept, SetKeeps
    <3>3. PICK i : i = find_var(Mem, Here.x)
      OBVIOUS
    <3>4. PICK z : z = [m.v[i] EXCEPT !.const = TRUE]
      OBVIOUS
    <3>5. mem' = [m EXCEPT !.v[i] = z]
      BY <2>2, <3>1, <3>3, <3>4
    <3> QED
      BY <3>2, <3>5, EntryKept
  <2> QED
    BY <1>1, <2>1, <2>2
<1> QED
  BY <1>1, <1>2, Valued

LEMMA InputStep == ASSUME Placed, Input PROVE Placed'
<1>1. /\ AtStatement /\ Here.op # "eof" /\ loops' = loops /\ gosubs' = gosubs /\ UNCHANGED text
      /\ \/ mem' = Mem /\ set_error
         \/ (\E k \in Inputs : mem' = Set(Mem, Here.x, k)) /\ Goes(cur + 1) /\ trap' = trap
  BY DEF Input, Statement
<1>2. MemOK(mem')
  BY <1>1, MemKept, SetKeeps
<1> QED
  BY <1>1, <1>2, Valued

LEMMA ReadStep == ASSUME Placed, Read PROVE Placed'
<1>1. /\ AtStatement /\ Here.op # "eof" /\ loops' = loops /\ gosubs' = gosubs /\ UNCHANGED text
      /\ \/ mem' = mem /\ set_error
         \/ mem' = Mem /\ set_error
         \/ /\ mem' = Set(Mem, Here.x, collect_data(tokens)[read + 1])
            /\ Goes(cur + 1) /\ trap' = trap
  BY DEF Read, Statement
<1>2. MemOK(mem')
  BY <1>1, MemKept, SetKeeps DEF Placed
<1> QED
  BY <1>1, <1>2, Valued

LEMMA RestoreStep == ASSUME Placed, Restore PROVE Placed'
<1>1. /\ AtStatement /\ Here.op # "eof" /\ loops' = loops /\ gosubs' = gosubs /\ UNCHANGED text
      /\ mem' = mem /\ Goes(cur + 1) /\ trap' = trap
  BY DEF Restore, Statement
<1> QED
  BY <1>1, Valued DEF Placed

LEMMA DeclareStep == ASSUME Placed, Declare PROVE Placed'
<1>1. /\ AtStatement /\ Here.op # "eof" /\ loops' = loops /\ gosubs' = gosubs /\ UNCHANGED text
      /\ mem' = Mem /\ Goes(cur + 1) /\ trap' = trap
  BY DEF Declare, Statement
<1> QED
  BY <1>1, MemKept, Valued

LEMMA SharedStep == ASSUME Placed, Shared PROVE Placed'
<1>1. /\ AtStatement /\ Here.op # "eof" /\ loops' = loops /\ gosubs' = gosubs /\ UNCHANGED text
      /\ mem' = mem /\ (basic_error(cur + 1) \/ (Goes(cur + 1) /\ trap' = trap))
  BY DEF Shared, Statement, data
<1> QED
  BY <1>1, Valued DEF Placed

LEMMA TooManyVariablesStep == ASSUME Placed, TooManyVariables PROVE Placed'
<1>1. /\ host # <<>> /\ loops' = loops /\ gosubs' = gosubs /\ UNCHANGED text
      /\ mem' = mem /\ set_error
  BY DEF TooManyVariables, AtStatement, data
<1> QED
  BY <1>1, SetErrorOK, Unframed DEF Placed

LEMMA SyntaxStep == ASSUME Placed, Syntax PROVE Placed'
<1>1. /\ host # <<>> /\ loops' = loops /\ gosubs' = gosubs /\ UNCHANGED text
      /\ mem' = mem /\ set_error
  BY DEF Syntax, AtStatement, data
<1> QED
  BY <1>1, SetErrorOK, Unframed DEF Placed

\* A statement that goes to some token.
LEMMA Gone ==
    ASSUME Placed, host # <<>>, NEW c \in DOMAIN tokens, Goes(c), trap' = trap,
           MemOK(mem'), loops' = loops, gosubs' = gosubs, UNCHANGED text
    PROVE  Placed'
  BY GoesOK, Unframed DEF Placed

LEMMA PassiveStep == ASSUME Placed, Passive PROVE Placed'
<1>1. /\ host # <<>> /\ loops' = loops /\ gosubs' = gosubs /\ UNCHANGED text
      /\ mem' = mem /\ trap' = trap /\ Goes(skip_to_newline(tokens, cur))
  BY DEF Passive, Statement, AtStatement, data
<1>2. skip_to_newline(tokens, cur) \in DOMAIN tokens
  BY HereIs, NewlineAt
<1> QED
  BY <1>1, <1>2, Gone DEF Placed

LEMMA NothingStep == ASSUME Placed, Nothing PROVE Placed'
<1>1. /\ host # <<>> /\ loops' = loops /\ gosubs' = gosubs /\ UNCHANGED text
      /\ mem' = mem /\ trap' = trap /\ Goes(cur)
  BY DEF Nothing, AtStatement, data
<1> QED
  BY <1>1, Gone DEF Placed

LEMMA HeadingStep == ASSUME Placed, Heading PROVE Placed'
<1>1. /\ host # <<>> /\ loops' = loops /\ gosubs' = gosubs /\ UNCHANGED text
      /\ mem' = mem /\ trap' = trap /\ Goes(skip_body(tokens, cur))
      /\ Here.op \in Headings
  BY DEF Heading, Statement, AtStatement, data, Headings
<1>2. skip_body(tokens, cur) \in DOMAIN tokens
  BY <1>1, HereIs, BodyAt DEF Here
<1> QED
  BY <1>1, <1>2, Gone DEF Placed

LEMMA EndStep == ASSUME Placed, End PROVE Placed'
<1>1. /\ host # <<>> /\ loops' = loops /\ gosubs' = gosubs /\ UNCHANGED text
      /\ mem' = mem /\ trap' = trap /\ failed' = failed
      /\ running' = FALSE /\ cur' = advance(tokens, cur) /\ host' = Done
  BY DEF End, AtStatement, data
<1>2. StackOK(tokens, Done)
  BY <1>1, DoneOK DEF Placed
<1>3. Moved
  BY <1>1, <1>2, HereIs DEF Moved, Placed
<1> QED
  BY <1>1, <1>3, Unframed DEF Placed

LEMMA OnErrorStep == ASSUME Placed, OnError PROVE Placed'
<1>1. /\ AtStatement /\ host # <<>> /\ Here.op # "eof"
      /\ loops' = loops /\ gosubs' = gosubs /\ UNCHANGED text
      /\ mem' = mem /\ Goes(cur + 1) /\ trap' = [trap EXCEPT !.line = Here.ns[1]]
  BY DEF OnError, Statement, AtStatement, data
<1>2. Moved
  BY <1>1, HereIs, GoesOK
<1>3. TrapOK(tokens, trap')
  <2>1. PICK X : trap \in [line : X, active : BOOLEAN, resume : 0 .. Len(tokens)]
    BY DEF Placed, TrapOK
  <2>2. PICK k : k = Here.ns[1]
    OBVIOUS
  <2>3. PICK Y : Y = X \cup {k}
    OBVIOUS
  <2>4. trap' \in [line : Y, active : BOOLEAN, resume : 0 .. Len(tokens)]
    BY <1>1, <2>1, <2>2, <2>3
  <2> QED
    BY <2>4 DEF TrapOK
<1> QED
  BY <1>1, <1>2, <1>3, Unframed DEF Placed

LEMMA ResumeStep == ASSUME Placed, Resume PROVE Placed'
<1>1. /\ host # <<>> /\ loops' = loops /\ gosubs' = gosubs /\ UNCHANGED text /\ mem' = mem
      /\ host' = Done
      /\ trap' = IF failed' THEN trap ELSE [trap EXCEPT !.active = FALSE]
  BY DEF Resume, Statement, AtStatement, data
<1>2. StackOK(tokens, Done)
  BY <1>1, DoneOK DEF Placed
<1>3. PICK X : trap \in [line : X, active : BOOLEAN, resume : 0 .. Len(tokens)]
  BY DEF Placed, TrapOK
<1>4. TrapOK(tokens, trap')
  <2>1. trap' \in [line : X, active : BOOLEAN, resume : 0 .. Len(tokens)]
    BY <1>1, <1>3
  <2> QED
    BY <2>1 DEF TrapOK
<1>5. Stops \/ \E c \in DOMAIN tokens : Resumes(c)
  <2>1. CASE Statement("resume_line")
    <3>1. PICK at : at = find_label(labels, Here.ns[1])
      OBVIOUS
    <3>2. IF at = 0 THEN Stops ELSE Resumes(at)
      BY <2>1, <3>1 DEF Resume, Statement
    <3> QED
      BY <3>1, <3>2, LabelAt
  <2>2. CASE Statement("resume_next")
    <3>1. Resumes(advance(tokens, skip_to_newline(tokens, cur)))
      BY <2>2 DEF Resume, Statement
    <3> QED
      BY <3>1, HereIs, NewlineAt, Behind
  <2>3. CASE Statement("resume")
    <3>1. IF trap.resume = 0 THEN Stops ELSE Resumes(trap.resume)
      BY <2>3 DEF Resume, Statement
    <3>2. trap.resume # 0 => trap.resume \in DOMAIN tokens
      <4>1. Len(tokens) \in Nat /\ DOMAIN tokens = 1 .. Len(tokens)
        BY HereIs, TextHas
      <4>2. trap.resume \in 0 .. Len(tokens)
        BY <1>3
      <4> QED
        BY <4>1, <4>2, NotZero
    <3> QED
      BY <3>1, <3>2
  <2> QED
    BY <2>1, <2>2, <2>3 DEF Resume
<1>6. Moved
  BY <1>1, <1>2, <1>5, HereIs DEF Stops, Resumes, Moved, Placed
<1> QED
  BY <1>1, <1>4, <1>6, Unframed DEF Placed

------------------------------------------------------------------------------
(***************************************************************************)
(* Loops                                                                   *)
(***************************************************************************)
\* A step that leaves the places GOSUB returns to alone.
LEMMA Looped ==
    ASSUME Placed, Moved, MemOK(mem'), TrapOK(tokens, trap'),
           FramesOK(tokens, loops'), gosubs' = gosubs, UNCHANGED text
    PROVE  Placed'
  BY PlacedNext DEF Placed, text

LEMMA LoopGone ==
    ASSUME Placed, host # <<>>, NEW c \in DOMAIN tokens, Goes(c), trap' = trap,
           MemOK(mem'), FramesOK(tokens, loops'), gosubs' = gosubs, UNCHANGED text
    PROVE  Placed'
  BY GoesOK, Looped DEF Placed

LEMMA LoopFails ==
    ASSUME Placed, host # <<>>, set_error,
           MemOK(mem'), FramesOK(tokens, loops'), gosubs' = gosubs, UNCHANGED text
    PROVE  Placed'
  BY SetErrorOK, Looped DEF Placed

LEMMA NeedsFinite ==
    ASSUME NEW t, t.e.names \in Seq(STRING)
    PROVE  IsFiniteSet(Needs(t)) /\ \A i \in DOMAIN t.e.names : t.e.names[i] \in Needs(t)
<1>1. PICK s \in Seq(STRING) : s = t.e.names
  OBVIOUS
<1>2. PICK n \in Nat : n = Len(s) /\ DOMAIN s = 1 .. n
  OBVIOUS
<1>3. s \in Surjection(1 .. n, Range(s))
  BY <1>2 DEF Surjection, Range
<1>4. IsFiniteSet(Range(s))
  BY <1>3, FS_Interval, FS_Surjection
<1>5. \A i \in DOMAIN s : s[i] \in Range(s)
  BY DEF Range
<1>6. IsFiniteSet(Range(s) \cup {t.x})
  BY <1>4, FS_AddElement
<1>7. Needs(t) \subseteq Range(s) \cup {t.x} /\ Range(s) \subseteq Needs(t)
  BY <1>1 DEF Needs
<1> QED
  BY <1>1, <1>5, <1>6, <1>7, FS_Subset

\* The variable of a FOR that there is room for is in the table.
LEMMA ForVariable ==
    ASSUME Placed, Statement("for")
    PROVE  find_var(Mem, Here.x) \in 1 .. MaxVars
<1>1. Here.e.names \in Seq(STRING) /\ Here.x \in STRING /\ Room /\ Here.op = "for"
  BY HereIs DEF Statement
<1>2. PICK K : K = Needs(Here)
  OBVIOUS
<1>3. /\ IsFiniteSet(K) /\ Here.x \in K
      /\ \A i \in DOMAIN Here.e.names : Here.e.names[i] \in K
  <2>1. Here.x \in Needs(Here)
    BY <1>1 DEF Needs, Declaring
  <2> QED
    BY <1>1, <1>2, <2>1, NeedsFinite
<1>4. PICK X : mem \in Mems(X)
  BY DEF Placed, MemOK
<1>5. PICK Y : Y = X \cup NewVars
  OBVIOUS
<1>6. mem \in Mems(Y) /\ NewVars \subseteq Y
  BY <1>4, <1>5 DEF Mems
<1>7. RoomFor(mem, K)
  BY <1>1, <1>2 DEF Room, RoomFor, Missing
<1>8. PICK M : M = {m \in Mems(Y) : RoomFor(m, K)}
  OBVIOUS
<1>9. PICK s \in Seq(STRING) : s = Here.e.names
  BY <1>1
<1>10. \A a \in M : \A i \in 1 .. Len(s) : get_var(a, s[i]) \in M
  <2>1. ASSUME NEW a \in M, NEW i \in 1 .. Len(s) PROVE get_var(a, s[i]) \in M
    <3>1. s[i] \in STRING /\ s[i] \in K
      BY <1>3, <1>9
    <3>2. a \in Mems(Y) /\ RoomFor(a, K)
      BY <1>8
    <3>3. get_var(a, s[i]) \in Mems(Y) /\ RoomFor(get_var(a, s[i]), K)
      BY <1>3, <1>6, <3>1, <3>2, VarKept, VarHasRoom
    <3> QED
      BY <1>8, <3>3
  <2> QED
    BY <2>1
<1>11. mem \in M
  BY <1>6, <1>7, <1>8
<1>12. \E f : (\A i \in 0 .. Len(s) : f[i] \in M) /\ Touch(mem, s) = f[Len(s)]
  BY <1>10, <1>11, TouchSteps
<1>13. Len(s) \in 0 .. Len(s)
  OBVIOUS
<1>14. Touch(mem, s) \in M
  BY <1>12, <1>13
<1>15. PICK m \in Mems(Y) : m = Touch(mem, s) /\ RoomFor(m, K)
  BY <1>8, <1>14
<1>16. find_var(get_var(m, Here.x), Here.x) \in 1 .. MaxVars
  BY <1>1, <1>3, <1>6, <1>15, VarHasRoom
<1>17. Mem = get_var(m, Here.x)
  BY <1>1, <1>9, <1>15 DEF Mem, Declaring
<1> QED
  BY <1>16, <1>17

LEMMA ForStep == ASSUME Placed, For PROVE Placed'
<1>1. /\ host # <<>> /\ gosubs' = gosubs /\ UNCHANGED text /\ Here.op # "eof"
      /\ mem' = Set(Mem, Here.x, Value(Mem, Here.e))
      /\ Statement("for")
  BY DEF For, Statement, AtStatement
<1>2. MemOK(mem')
  BY <1>1, MemKept, SetKeeps
<1>3. CASE Len(loops) >= MaxFrames
  <2>1. set_error /\ loops' = loops
    BY <1>3 DEF For
  <2> QED
    BY <1>1, <1>2, <2>1, LoopFails DEF Placed
<1>4. CASE ~ (Len(loops) >= MaxFrames)
  <2>1. PICK f : f = frame(cur + 1, find_var(Mem, Here.x), Here.to, Here.step)
    OBVIOUS
  <2>2. loops' = Append(loops, f) /\ Goes(cur + 1) /\ trap' = trap
    BY <1>4, <2>1 DEF For
  <2>3. cur + 1 \in DOMAIN tokens
    BY <1>1, HereIs
  <2>4. IsFrame(tokens, f)
    <3>1. f.tok = cur + 1 /\ f.var \in 1 .. MaxVars
      BY <1>1, <2>1, ForVariable DEF frame
    <3>2. f.var # WHILE
      BY <3>1, VarSizes DEF WHILE
    <3> QED
      BY <2>3, <3>1, <3>2 DEF IsFrame
  <2>5. Len(loops) < MaxFrames
    <3>1. PICK S : loops \in Seq(S)
      BY DEF Placed, FramesOK
    <3>2. Len(loops) \in Nat
      BY <3>1
    <3> QED
      BY <1>4, <3>2, VarSizes
  <2>6. FramesOK(tokens, loops')
    BY <2>2, <2>4, <2>5, FramePushed DEF Placed
  <2> QED
    BY <1>1, <1>2, <2>2, <2>3, <2>6, LoopGone
<1> QED
  BY <1>3, <1>4

LEMMA SteppedKeeps ==
    ASSUME Placed, NEW i, NEW k, mem' = [mem EXCEPT !.v[i].val = k]
    PROVE  MemOK(mem')
<1>1. PICK z : z = [mem.v[i] EXCEPT !.val = k]
  OBVIOUS
<1>2. mem' = [mem EXCEPT !.v[i] = z]
  BY <1>1
<1> QED
  BY <1>2, EntryKept DEF Placed

LEMMA NextStep == ASSUME Placed, Next_ PROVE Placed'
<1>1. /\ host # <<>> /\ gosubs' = gosubs /\ UNCHANGED text /\ Here.op # "eof"
  BY DEF Next_, Statement, AtStatement
<1>2. FramesOK(tokens, loops)
  BY DEF Placed
<1>3. CASE loops = <<>> \/ ~IsKind(Last(loops), FOR)
  <2>1. set_error /\ loops' = loops /\ mem' = mem
    BY <1>3 DEF Next_
  <2> QED
    BY <1>1, <1>2, <2>1, LoopFails DEF Placed
<1>4. CASE ~ (loops = <<>> \/ ~IsKind(Last(loops), FOR))
  <2>1. PICK f : f = Last(loops)
    OBVIOUS
  <2>2. IsFrame(tokens, f) /\ FramesOK(tokens, Front(loops))
    BY <1>2, <1>4, <2>1, LastFrame
  <2>3. PICK past : past = IF tokens[cur + 1].op = "id" THEN cur + 2 ELSE cur + 1
    OBVIOUS
  <2>4. /\ mem' = [mem EXCEPT !.v[f.var].val = Stepped(f)] /\ trap' = trap
        /\ \/ Goes(f.tok) /\ loops' = loops
           \/ Goes(past) /\ loops' = Front(loops)
    BY <1>4, <2>1, <2>3 DEF Next_
  <2>5. MemOK(mem')
    BY <2>4, SteppedKeeps
  <2>6. past \in DOMAIN tokens
    <3>1. TextOK(tokens) /\ cur + 1 \in DOMAIN tokens /\ cur \in DOMAIN tokens
      BY <1>1, HereIs
    <3>2. tokens[cur + 1].op = "id" => (cur + 1) + 1 \in DOMAIN tokens
      BY <3>1, Behind
    <3>3. (cur + 1) + 1 = cur + 2
      <4>1. DOMAIN tokens = 1 .. Len(tokens) /\ Len(tokens) \in Nat
        BY <3>1, TextHas
      <4> QED
        BY <3>1, <4>1
    <3> QED
      BY <2>3, <3>1, <3>2, <3>3
  <2>7. f.tok \in DOMAIN tokens
    BY <2>2 DEF IsFrame
  <2> QED
    BY <1>1, <1>2, <2>2, <2>4, <2>5, <2>6, <2>7, LoopGone
<1> QED
  BY <1>3, <1>4

LEMMA WhileStep == ASSUME Placed, While PROVE Placed'
<1>1. /\ host # <<>> /\ gosubs' = gosubs /\ UNCHANGED text /\ Here.op # "eof"
  BY DEF While, Statement, AtStatement
<1>2. FramesOK(tokens, loops) /\ cur \in DOMAIN tokens /\ cur + 1 \in DOMAIN tokens
  BY <1>1, HereIs DEF Placed
<1>3. CASE Len(loops) >= MaxFrames
  <2>1. set_error /\ loops' = loops /\ mem' = mem
    BY <1>3 DEF While
  <2> QED
    BY <1>1, <1>2, <2>1, LoopFails DEF Placed
<1>4. CASE ~ (Len(loops) >= MaxFrames)
  <2>1. PICK f : f = frame(cur, WHILE, 0, 0)
    OBVIOUS
  <2>2. PICK c : c = advance(tokens, loop_end(tokens, "while", cur + 1))
    OBVIOUS
  <2>3. /\ mem' = Mem /\ trap' = trap
        /\ \/ loops' = Append(loops, f) /\ Goes(cur + 1)
           \/ loops' = loops /\ Goes(c)
    BY <1>4, <2>1, <2>2 DEF While
  <2>4. c \in DOMAIN tokens
    BY <2>2, HereIs, LoopEndAt, Behind
  <2>5. IsFrame(tokens, f)
    BY <1>2, <2>1 DEF IsFrame, frame
  <2>6. Len(loops) < MaxFrames
    <3>1. PICK S : loops \in Seq(S)
      BY DEF Placed, FramesOK
    <3>2. Len(loops) \in Nat
      BY <3>1
    <3> QED
      BY <1>4, <3>2, VarSizes
  <2>7. FramesOK(tokens, Append(loops, f))
    BY <1>2, <2>5, <2>6, FramePushed
  <2> QED
    BY <1>1, <1>2, <2>3, <2>4, <2>7, MemKept, LoopGone
<1> QED
  BY <1>3, <1>4

\* The expression of a WHILE is looked at again from its WEND.
LEMMA TouchAgain ==
    ASSUME Placed, NEW w \in DOMAIN tokens
    PROVE  MemOK(Touch(mem, tokens[w].e.names))
<1>1. tokens[w].e.names \in Seq(STRING)
  BY HereIs, TextHas
<1> QED
  BY <1>1, TouchKeeps DEF Placed

LEMMA WendStep == ASSUME Placed, Wend PROVE Placed'
<1>1. /\ host # <<>> /\ gosubs' = gosubs /\ UNCHANGED text /\ Here.op # "eof"
  BY DEF Wend, Statement, AtStatement
<1>2. FramesOK(tokens, loops) /\ cur + 1 \in DOMAIN tokens
  BY <1>1, HereIs DEF Placed
<1>3. CASE loops = <<>> \/ ~IsKind(Last(loops), WHILE)
  <2>1. set_error /\ loops' = loops /\ mem' = mem
    BY <1>3 DEF Wend
  <2> QED
    BY <1>1, <1>2, <2>1, LoopFails DEF Placed
<1>4. CASE ~ (loops = <<>> \/ ~IsKind(Last(loops), WHILE))
  <2>1. PICK f : f = Last(loops)
    OBVIOUS
  <2>2. IsFrame(tokens, f) /\ FramesOK(tokens, Front(loops))
    BY <1>2, <1>4, <2>1, LastFrame
  <2>3. f.var = WHILE
    BY <1>4, <2>1 DEF IsKind, WHILE, FOR
  <2>4. f.tok \in DOMAIN tokens /\ f.tok + 1 \in DOMAIN tokens
    BY <2>2, <2>3 DEF IsFrame
  <2>5. /\ mem' = Touch(mem, tokens[f.tok].e.names) /\ trap' = trap
        /\ \/ Goes(f.tok + 1) /\ loops' = loops
           \/ Goes(cur + 1) /\ loops' = Front(loops)
    BY <1>4, <2>1 DEF Wend
  <2>6. MemOK(mem')
    BY <2>4, <2>5, TouchAgain
  <2> QED
    BY <1>1, <1>2, <2>2, <2>4, <2>5, <2>6, LoopGone
<1> QED
  BY <1>3, <1>4

LEMMA RepeatStep == ASSUME Placed, Repeat PROVE Placed'
<1>1. /\ host # <<>> /\ gosubs' = gosubs /\ UNCHANGED text /\ Here.op # "eof" /\ mem' = mem
  BY DEF Repeat, Statement, AtStatement
<1>2. FramesOK(tokens, loops) /\ cur + 1 \in DOMAIN tokens /\ MemOK(mem')
  BY <1>1, HereIs DEF Placed
<1>3. CASE Len(loops) >= MaxFrames
  <2>1. set_error /\ loops' = loops
    BY <1>3 DEF Repeat
  <2> QED
    BY <1>1, <1>2, <2>1, LoopFails
<1>4. CASE ~ (Len(loops) >= MaxFrames)
  <2>1. PICK f : f = frame(cur + 1, REPEAT, 0, 0)
    OBVIOUS
  <2>2. loops' = Append(loops, f) /\ Goes(cur + 1) /\ trap' = trap
    BY <1>4, <2>1 DEF Repeat
  <2>3. IsFrame(tokens, f)
    BY <1>2, <2>1 DEF IsFrame, frame, REPEAT, WHILE
  <2>4. Len(loops) < MaxFrames
    <3>1. PICK S : loops \in Seq(S)
      BY DEF Placed, FramesOK
    <3>2. Len(loops) \in Nat
      BY <3>1
    <3> QED
      BY <1>4, <3>2, VarSizes
  <2>5. FramesOK(tokens, Append(loops, f))
    BY <1>2, <2>3, <2>4, FramePushed
  <2> QED
    BY <1>1, <1>2, <2>2, <2>5, LoopGone
<1> QED
  BY <1>3, <1>4

LEMMA UntilStep == ASSUME Placed, Until PROVE Placed'
<1>1. /\ host # <<>> /\ gosubs' = gosubs /\ UNCHANGED text /\ Here.op # "eof"
  BY DEF Until, Statement, AtStatement
<1>2. FramesOK(tokens, loops) /\ cur + 1 \in DOMAIN tokens
  BY <1>1, HereIs DEF Placed
<1>3. CASE loops = <<>> \/ ~IsKind(Last(loops), REPEAT)
  <2>1. set_error /\ loops' = loops /\ mem' = mem
    BY <1>3 DEF Until
  <2> QED
    BY <1>1, <1>2, <2>1, LoopFails DEF Placed
<1>4. CASE ~ (loops = <<>> \/ ~IsKind(Last(loops), REPEAT))
  <2>1. PICK f : f = Last(loops)
    OBVIOUS
  <2>2. f.tok \in DOMAIN tokens /\ FramesOK(tokens, Front(loops))
    BY <1>2, <1>4, <2>1, LastFrame DEF IsFrame
  <2>3. /\ mem' = Mem /\ trap' = trap
        /\ \/ Goes(f.tok) /\ loops' = loops
           \/ Goes(cur + 1) /\ loops' = Front(loops)
    BY <1>4, <2>1 DEF Until
  <2> QED
    BY <1>1, <1>2, <2>2, <2>3, MemKept, LoopGone
<1> QED
  BY <1>3, <1>4

\* The frame of the kind a statement is about, and what is below it.
LEMMA FrameCut ==
    ASSUME Placed, NEW kw, FrameOf(kw) # 0
    PROVE  /\ FrameOf(kw) \in DOMAIN loops
           /\ IsFrame(tokens, loops[FrameOf(kw)])
           /\ FramesOK(tokens, SubSeq(loops, 1, FrameOf(kw) - 1))
           /\ kw # "for" => loops[FrameOf(kw)].var = WHILE
<1>1. FramesOK(tokens, loops)
  BY DEF Placed
<1>2. PICK S : loops \in Seq(S)
  BY <1>1 DEF FramesOK
<1>3. FrameOf(kw) \in DOMAIN loops /\ IsKind(loops[FrameOf(kw)], Kind(kw))
  BY <1>2, KindAt
<1>4. kw # "for" => loops[FrameOf(kw)].var = WHILE
  BY <1>3 DEF IsKind, Kind, WHILE, FOR
<1> QED
  BY <1>1, <1>3, <1>4, FramesCut DEF FramesOK

LEMMA ExitLoopStep ==
    ASSUME Placed, NEW op, op # "eof", NEW kw, ExitLoop(op, kw)
    PROVE  Placed'
<1>1. /\ host # <<>> /\ gosubs' = gosubs /\ UNCHANGED text /\ mem' = mem
  BY DEF ExitLoop, Statement, AtStatement
<1>2. FramesOK(tokens, loops) /\ MemOK(mem')
  BY <1>1 DEF Placed
<1>3. CASE FrameOf(kw) = 0
  <2>1. set_error /\ loops' = loops
    BY <1>3 DEF ExitLoop
  <2> QED
    BY <1>1, <1>2, <2>1, LoopFails
<1>4. CASE FrameOf(kw) # 0
  <2>1. PICK end : end = loop_end(tokens, kw, cur + 1)
    OBVIOUS
  <2>2. PICK i : i = FrameOf(kw)
    OBVIOUS
  <2>3. /\ loops' = SubSeq(loops, 1, i - 1)
        /\ IF end = Len(tokens) THEN set_error ELSE Goes(end + 1) /\ trap' = trap
    BY <1>4, <2>1, <2>2 DEF ExitLoop
  <2>4. FramesOK(tokens, loops')
    BY <1>4, <2>2, <2>3, FrameCut
  <2>5. end # Len(tokens) => end + 1 \in DOMAIN tokens
    BY <2>1, HereIs, LoopEndAt, TextHas, Behind
  <2> QED
    BY <1>1, <1>2, <2>3, <2>4, <2>5, LoopFails, LoopGone
<1> QED
  BY <1>3, <1>4

LEMMA ContinueForStep == ASSUME Placed, ContinueFor PROVE Placed'
<1>1. /\ host # <<>> /\ gosubs' = gosubs /\ UNCHANGED text /\ Here.op # "eof"
      /\ AtStatement
  BY DEF ContinueFor, Statement, AtStatement
<1>2. FramesOK(tokens, loops) /\ cur + 1 \in DOMAIN tokens
  BY <1>1, HereIs DEF Placed
<1>3. CASE FrameOf("for") = 0
  <2>1. basic_error(cur + 1) /\ loops' = loops /\ mem' = mem
    BY <1>3 DEF ContinueFor
  <2> QED
    BY <1>1, <2>1, Valued DEF Placed
<1>4. CASE FrameOf("for") # 0
  <2>1. PICK i : i = FrameOf("for")
    OBVIOUS
  <2>2. /\ mem' = [mem EXCEPT !.v[loops[i].var].val = Stepped(loops[i])] /\ trap' = trap
        /\ \/ Goes(loops[i].tok) /\ loops' = loops
           \/ Goes(cur + 1) /\ loops' = SubSeq(loops, 1, i - 1)
    BY <1>4, <2>1 DEF ContinueFor
  <2>3. MemOK(mem')
    BY <2>2, SteppedKeeps
  <2>4. loops[i].tok \in DOMAIN tokens /\ FramesOK(tokens, SubSeq(loops, 1, i - 1))
    BY <1>4, <2>1, FrameCut DEF IsFrame
  <2> QED
    BY <1>1, <1>2, <2>2, <2>3, <2>4, LoopGone
<1> QED
  BY <1>3, <1>4

LEMMA ContinueWhileStep == ASSUME Placed, ContinueWhile PROVE Placed'
<1>1. /\ host # <<>> /\ gosubs' = gosubs /\ UNCHANGED text /\ Here.op # "eof"
      /\ AtStatement
  BY DEF ContinueWhile, Statement, AtStatement
<1>2. FramesOK(tokens, loops) /\ cur + 1 \in DOMAIN tokens
  BY <1>1, HereIs DEF Placed
<1>3. CASE FrameOf("while") = 0
  <2>1. basic_error(cur + 1) /\ loops' = loops /\ mem' = mem
    BY <1>3 DEF ContinueWhile
  <2> QED
    BY <1>1, <2>1, Valued DEF Placed
<1>4. CASE FrameOf("while") # 0
  <2>1. PICK i : i = FrameOf("while")
    OBVIOUS
  <2>2. PICK w : w = loops[i].tok
    OBVIOUS
  <2>3. PICK c : c = advance(tokens, loop_end(tokens, "while", w + 1))
    OBVIOUS
  <2>4. /\ mem' = Touch(mem, tokens[w].e.names) /\ trap' = trap
        /\ \/ Goes(w + 1) /\ loops' = loops
           \/ Goes(c) /\ loops' = SubSeq(loops, 1, i - 1)
    BY <1>4, <2>1, <2>2, <2>3 DEF ContinueWhile
  <2>5. /\ w \in DOMAIN tokens /\ w + 1 \in DOMAIN tokens
        /\ FramesOK(tokens, SubSeq(loops, 1, i - 1))
    BY <1>4, <2>1, <2>2, FrameCut DEF IsFrame
  <2>6. c \in DOMAIN tokens
    BY <2>3, HereIs, LoopEndAt, Behind
  <2>7. MemOK(mem')
    BY <2>4, <2>5, TouchAgain
  <2> QED
    BY <1>1, <1>2, <2>4, <2>5, <2>6, <2>7, LoopGone
<1> QED
  BY <1>3, <1>4

------------------------------------------------------------------------------
(***************************************************************************)
(* Jumps and calls                                                         *)
(***************************************************************************)
LEMMA GotoStep == ASSUME Placed, Goto PROVE Placed'
<1>1. /\ host # <<>> /\ JumpsTo(Here.ns[1]) /\ mem' = mem /\ loops' = loops
      /\ gosubs' = gosubs /\ UNCHANGED text
  BY DEF Goto, Statement, AtStatement, data
<1> QED
  BY <1>1, JumpsOK, Unframed DEF Placed

LEMMA SubroutineOK ==
    ASSUME Placed, host # <<>>, Here.op # "eof", NEW n, Subroutine(n)
    PROVE  Moved /\ TrapOK(tokens, trap') /\ PlacesOK(tokens, gosubs')
<1>1. PlacesOK(tokens, gosubs) /\ TrapOK(tokens, trap)
  BY DEF Placed
<1>2. CASE set_error /\ gosubs' = gosubs
  BY <1>1, <1>2, SetErrorOK
<1>3. CASE /\ find_label(labels, n) # 0 /\ ~ (Len(gosubs) >= MaxFrames)
           /\ gosubs' = Append(gosubs, cur + 1)
           /\ Goes(find_label(labels, n)) /\ trap' = trap
  <2>1. Moved
    BY <1>3, LabelAt, GoesOK
  <2>2. PICK k \in Nat : k = Len(gosubs)
    BY <1>1 DEF PlacesOK
  <2>3. cur + 1 \in DOMAIN tokens
    BY HereIs
  <2>4. gosubs' \in Seq(DOMAIN tokens) /\ Len(gosubs') = k + 1
    BY <1>1, <1>3, <2>2, <2>3 DEF PlacesOK
  <2>5. k + 1 <= MaxFrames
    BY <1>3, <2>2, VarSizes
  <2> QED
    BY <1>1, <1>3, <2>1, <2>4, <2>5 DEF PlacesOK
<1> QED
  BY <1>2, <1>3 DEF Subroutine

\* A step that leaves the frames of loops alone.
LEMMA Returning ==
    ASSUME Placed, Moved, MemOK(mem'), TrapOK(tokens, trap'),
           loops' = loops, PlacesOK(tokens, gosubs'), UNCHANGED text
    PROVE  Placed'
  BY PlacedNext DEF Placed, text

LEMMA GosubStep == ASSUME Placed, Gosub PROVE Placed'
<1>1. /\ host # <<>> /\ Here.op # "eof" /\ Subroutine(Here.ns[1])
      /\ mem' = mem /\ loops' = loops /\ UNCHANGED text
  BY DEF Gosub, Statement, AtStatement
<1> QED
  BY <1>1, SubroutineOK, Returning DEF Placed

LEMMA ReturnStep == ASSUME Placed, Return PROVE Placed'
<1>1. /\ host # <<>> /\ mem' = mem /\ loops' = loops /\ UNCHANGED text
  BY DEF Return, Statement, AtStatement
<1>2. PlacesOK(tokens, gosubs)
  BY DEF Placed
<1>3. CASE gosubs = <<>>
  <2>1. set_error /\ gosubs' = gosubs
    BY <1>3 DEF Return
  <2> QED
    BY <1>1, <1>2, <2>1, SetErrorOK, Returning DEF Placed
<1>4. CASE gosubs # <<>>
  <2>1. PICK k \in Nat : k = Len(gosubs) /\ DOMAIN gosubs = 1 .. k /\ k \in 1 .. k
    BY <1>2, <1>4 DEF PlacesOK
  <2>2. Last(gosubs) \in DOMAIN tokens
    BY <1>2, <2>1 DEF Last, PlacesOK
  <2>3. Goes(Last(gosubs)) /\ gosubs' = Front(gosubs) /\ trap' = trap
    BY <1>4 DEF Return
  <2>4. gosubs' \in Seq(DOMAIN tokens) /\ Len(gosubs') = k - 1
    BY <1>2, <2>1, <2>3 DEF Front, PlacesOK
  <2>5. k - 1 <= MaxFrames
    BY <1>2, <2>1, VarSizes DEF PlacesOK
  <2>6. PlacesOK(tokens, gosubs')
    BY <2>4, <2>5 DEF PlacesOK
  <2> QED
    BY <1>1, <2>2, <2>3, <2>6, GoesOK, Returning DEF Placed
<1> QED
  BY <1>3, <1>4

LEMMA OnStep ==
    ASSUME Placed, NEW op, op # "eof", On(op)
    PROVE  Placed'
<1>1. /\ host # <<>> /\ Here.op # "eof" /\ mem' = Mem /\ loops' = loops /\ UNCHANGED text
  BY DEF On, Statement, AtStatement
<1>2. \/ basic_error(cur + 1) /\ gosubs' = gosubs
      \/ \E n : Subroutine(n)
      \/ \E n : JumpsTo(n) /\ gosubs' = gosubs
  BY DEF On
<1>3. Moved /\ TrapOK(tokens, trap') /\ PlacesOK(tokens, gosubs')
  <2>1. CASE basic_error(cur + 1) /\ gosubs' = gosubs
    <3>1. cur + 1 \in 0 .. Len(tokens)
      BY <1>1, HereIs
    <3> QED
      BY <1>1, <2>1, <3>1, BasicErrorOK DEF Placed
  <2>2. CASE \E n : Subroutine(n)
    BY <1>1, <2>2, SubroutineOK
  <2>3. CASE \E n : JumpsTo(n) /\ gosubs' = gosubs
    BY <1>1, <2>3, JumpsOK DEF Placed
  <2> QED
    BY <1>2, <2>1, <2>2, <2>3
<1> QED
  BY <1>1, <1>3, MemKept, Returning

LEMMA CallOK ==
    ASSUME Placed, host # <<>>, Here.op # "eof", NEW f, find_sub(tokens, f) # 0,
           NEW x, call_user_function(f, x)
    PROVE  Moved /\ TrapOK(tokens, trap') /\ MemOK(mem')
<1>1. CASE basic_error(0) /\ mem' = Mem
  BY <1>1, HereIs, BasicErrorOK, MemKept
<1>2. CASE set_error /\ mem' = Mem
  BY <1>2, SetErrorOK, MemKept
<1>3. CASE ~ (Cardinality(Calls) >= MaxFrames) /\ Called(f, x)
  <2>1. PICK h : h = find_sub(tokens, f)
    OBVIOUS
  <2>2. TextOK(tokens) /\ h \in DOMAIN tokens /\ body_start(tokens, h) \in DOMAIN tokens
    BY <2>1, HereIs, SubAt, BodyAt
  <2>3. PICK ps \in Seq(STRING) : ps = tokens[h].e.names
    BY <2>2, TextHas
  <2>4. PICK m : m = Touch(Mem, ps) /\ MemOK(m)
    BY MemKept, TouchKeeps
  <2>5. m.n \in 0 .. MaxVars
    BY <2>4 DEF MemOK, Mems
  <2>6. PICK g :
          g = [c |-> "call", start |-> body_start(tokens, h),
               end |-> body_end(tokens, h), ret |-> cur + 1, nvars |-> m.n,
               fn |-> IF tokens[h].op = "function" THEN f ELSE "",
               param |-> IF ps = <<>> THEN 0 ELSE find_var(m, ps[1]),
               saved |-> IF ps = <<>> THEN 0 ELSE ValueOf(m, ps[1]),
               into |-> IF x = "" THEN 0 ELSE find_var(m, x)]
    OBVIOUS
  <2>7. /\ mem' = IF ps = <<>> THEN m ELSE Set(m, ps[1], Value(Mem, Here.e))
        /\ host' = Append(Done, g)
        /\ cur' = body_start(tokens, h)
        /\ running' = running /\ failed' = failed /\ trap' = trap
    BY <1>3, <2>1, <2>3, <2>4, <2>6 DEF Called
  <2>8. MemOK(mem')
    BY <2>4, <2>7, SetKeeps
  <2>9. StackOK(tokens, Done) /\ CallsIn(Done) = Calls
    BY DoneOK DEF Placed
  <2>10. Cardinality(CallsIn(Done)) < MaxFrames
    <3>1. PICK S : host \in Seq(S)
      BY DEF Placed, StackOK
    <3>2. Cardinality(Calls) \in Nat
      BY <3>1, StackHas DEF Calls
    <3> QED
      BY <1>3, <2>9, <3>2, VarSizes
  <2>11. FrameOK(tokens, g)
    <3>1. cur + 1 \in DOMAIN tokens
      BY HereIs
    <3>2. "c" \in DOMAIN g /\ g.ret = cur + 1 /\ g.nvars = m.n
      BY <2>6
    <3> QED
      BY <2>5, <3>1, <3>2 DEF FrameOK
  <2>12. StackOK(tokens, host')
    BY <2>7, <2>9, <2>10, <2>11, Pushed
  <2> QED
    BY <2>2, <2>7, <2>8, <2>12 DEF Moved, Placed
<1> QED
  BY <1>1, <1>2, <1>3 DEF call_user_function

LEMMA CallStep == ASSUME Placed, Call PROVE Placed'
<1>1. /\ AtStatement /\ host # <<>> /\ Here.op # "eof" /\ loops' = loops /\ gosubs' = gosubs
      /\ UNCHANGED text
  BY DEF Call, Statement, AtStatement
<1>2. CASE find_sub(tokens, Here.ns[1]) = 0
  <2>1. basic_error(cur + 1) /\ mem' = mem
    BY <1>2 DEF Call
  <2> QED
    BY <1>1, <2>1, Valued DEF Placed
<1>3. CASE find_sub(tokens, Here.ns[1]) # 0
  <2>1. call_user_function(Here.ns[1], "")
    BY <1>3 DEF Call
  <2> QED
    BY <1>1, <1>3, <2>1, CallOK, Unframed
<1> QED
  BY <1>2, <1>3

LEMMA LetCallStep == ASSUME Placed, LetCall PROVE Placed'
<1>1. /\ AtStatement /\ host # <<>> /\ Here.op # "eof" /\ loops' = loops /\ gosubs' = gosubs
      /\ UNCHANGED text
  BY DEF LetCall, Statement, AtStatement
<1>2. CASE basic_error(0) /\ mem' = Mem
  BY <1>1, <1>2, MemKept, Valued
<1>3. CASE call_user_function(Here.ns[1], Here.x)
  <2>1. cur \in Ops(tokens, {"let_call"})
    BY HereIs DEF LetCall, Statement, Ops, Here
  <2>2. find_sub(tokens, Here.ns[1]) # 0
    BY <2>1, HereIs, TextHas DEF Here
  <2> QED
    BY <1>1, <1>3, <2>2, CallOK, Unframed
<1> QED
  BY <1>2, <1>3 DEF LetCall

------------------------------------------------------------------------------
(***************************************************************************)
(* The loop over statements, IF and SELECT CASE                            *)
(***************************************************************************)
\* A step of the function on top.
LEMMA Stayed ==
    ASSUME Placed, cur' \in DOMAIN tokens, StackOK(tokens, host'),
           running' \in BOOLEAN, failed' \in BOOLEAN, UNCHANGED <<data, text, trap>>
    PROVE  Placed'
  BY PlacedNext DEF Placed, Moved, data, text

LEMMA HostPopped ==
    ASSUME Placed, host # <<>>
    PROVE  StackOK(tokens, Pop)
  BY Popped DEF Placed, Pop

LEMMA SeparatorStep == ASSUME Placed, Separator PROVE Placed'
<1>1. /\ cur' = cur + 1 /\ Here.op # "eof" /\ running' = running /\ failed' = failed
      /\ host' = host /\ UNCHANGED <<data, text, trap>>
  BY DEF Separator
<1> QED
  BY <1>1, HereIs, Stayed DEF Placed

LEMMA ProgramEndsStep == ASSUME Placed, ProgramEnds PROVE Placed'
<1>1. /\ cur' = cur /\ running' = running /\ failed' = failed
      /\ host' = <<>> /\ UNCHANGED <<data, text, trap>>
  BY DEF ProgramEnds
<1>2. StackOK(tokens, <<>>)
  <2>1. <<>> \in Seq({}) /\ DOMAIN <<>> = {}
    OBVIOUS
  <2>2. CallsIn(<<>>) = {}
    BY <2>1 DEF CallsIn
  <2> QED
    BY <2>1, <2>2, FS_EmptySet, VarSizes DEF StackOK
<1> QED
  BY <1>1, <1>2, Stayed DEF Placed

LEMMA RestoredOK ==
    ASSUME NEW m, MemOK(m), NEW c, c.nvars \in 0 .. MaxVars
    PROVE  MemOK(Restored(c, m))
<1>1. CASE c.param = 0
  <2>1. Restored(c, m) = [m EXCEPT !.n = c.nvars]
    BY <1>1 DEF Restored, Dropped
  <2> QED
    BY <2>1, CutKeeps
<1>2. CASE c.param # 0
  <2>1. PICK X : m \in Mems(X)
    BY DEF MemOK
  <2>2. PICK z : z = [m.v[c.param] EXCEPT !.val = c.saved]
    OBVIOUS
  <2>3. PICK Y : Y = X \cup {z}
    OBVIOUS
  <2>4. Restored(c, m) = [m EXCEPT !.n = c.nvars, !.v[c.param] = z]
    BY <1>2, <2>1, <2>2 DEF Restored, Mems
  <2>5. Restored(c, m) \in Mems(Y)
    BY <2>1, <2>3, <2>4 DEF Mems
  <2> QED
    BY <2>5 DEF MemOK
<1> QED
  BY <1>1, <1>2

LEMMA CallReturnsStep == ASSUME Placed, CallReturns PROVE Placed'
<1>1. host # <<>> /\ Top.c = "call"
  BY DEF CallReturns, Under
<1>2. PICK S : host \in Seq(S)
  BY DEF Placed, StackOK
<1>3. FrameOK(tokens, Top)
  <2>1. Len(host) \in DOMAIN host
    BY <1>1, <1>2, StackHas
  <2> QED
    BY <2>1 DEF Top, Placed, StackOK
<1>4. Top.ret \in DOMAIN tokens /\ Top.nvars \in 0 .. MaxVars
  BY <1>1, <1>3 DEF FrameOK
<1>5. PICK back : back = Restored(Top, mem) /\ MemOK(back)
  BY <1>4, RestoredOK DEF Placed
<1>6. PICK val : val = IF Top.fn = "" THEN 0 ELSE ValueOf(mem, Top.fn)
  OBVIOUS
<1>7. /\ mem' = IF Top.into = 0 \/ failed THEN back ELSE [back EXCEPT !.v[Top.into].val = val]
      /\ cur' = Top.ret /\ host' = Pop /\ running' = running /\ failed' = failed
      /\ loops' = loops /\ gosubs' = gosubs /\ UNCHANGED text /\ trap' = trap
  BY <1>5, <1>6 DEF CallReturns
<1>8. MemOK(mem')
  <2>1. PICK i : i = Top.into
    OBVIOUS
  <2>2. PICK z : z = [back.v[i] EXCEPT !.val = val]
    OBVIOUS
  <2>3. MemOK([back EXCEPT !.v[i] = z])
    BY <1>5, EntryKept
  <2> QED
    BY <1>5, <1>7, <2>1, <2>2, <2>3
<1>9. Moved
  BY <1>1, <1>4, <1>7, HostPopped DEF Moved, Placed
<1> QED
  BY <1>7, <1>8, <1>9, Unframed DEF Placed

LEMMA ChainOK ==
    ASSUME Placed, host # <<>>, NEW c, c # "call", NEW at \in DOMAIN tokens, Chain(c, at),
           running' = running, failed' = failed
    PROVE  Moved
<1>1. PICK g : g = [c |-> c, st |-> "do"]
  OBVIOUS
<1>2. FrameOK(tokens, g) /\ g.c # "call"
  BY <1>1 DEF FrameOK
<1>3. StackOK(tokens, Done)
  BY DoneOK DEF Placed
<1>4. StackOK(tokens, Append(Done, g))
  BY <1>2, <1>3, Pushed
<1> QED
  BY <1>1, <1>4 DEF Chain, Moved, Placed

LEMMA ConditionsAt ==
    ASSUME Placed, Here.op = "if"
    PROVE  /\ Conditions \in SUBSET (1 .. Len(tokens)) /\ Conditions # {}
           /\ \A j \in Conditions : j + 1 \in DOMAIN tokens
<1>1. TextOK(tokens) /\ cur \in DOMAIN tokens /\ DOMAIN tokens = 1 .. Len(tokens)
  BY HereIs, TextHas
<1>2. \A j \in Conditions : j = cur \/ j \in Ops(tokens, {"elseif"})
  BY DEF Conditions
<1>3. \A j \in Conditions : j \in DOMAIN tokens /\ tokens[j].op # "eof"
  BY <1>1, <1>2 DEF Ops, Here
<1>4. cur \in Conditions
  BY DEF Conditions
<1> QED
  BY <1>1, <1>3, <1>4, Behind

LEMMA IfStep == ASSUME Placed, If PROVE Placed'
<1>1. /\ host # <<>> /\ Here.op = "if" /\ mem' = Mem /\ loops' = loops /\ gosubs' = gosubs
      /\ UNCHANGED text
  BY DEF If, Statement, AtStatement
<1>2. Moved /\ TrapOK(tokens, trap')
  <2>1. CASE Holding # {}
    <3>1. Holding \in SUBSET Nat /\ Holding \subseteq Conditions
      BY <1>1, ConditionsAt DEF Holding
    <3>2. PICK i : i = Min(Holding) /\ i \in Conditions
      BY <2>1, <3>1, MinIn
    <3>3. i + 1 \in DOMAIN tokens
      BY <1>1, <3>2, ConditionsAt
    <3>4. \/ \E n : JumpsTo(n)
          \/ Chain("then", i + 1) /\ running' = running /\ failed' = failed /\ trap' = trap
      BY <2>1, <3>2 DEF If
    <3> QED
      BY <1>1, <3>3, <3>4, JumpsOK, ChainOK DEF Placed
  <2>2. CASE Holding = {}
    <3>1. PICK i : i = Max(Conditions)
      OBVIOUS
    <3>2. i + 1 \in DOMAIN tokens
      <4>1. Len(tokens) \in Nat
        BY HereIs, TextHas
      <4>2. i \in Conditions
        BY <1>1, <3>1, <4>1, ConditionsAt, LargestOf
      <4> QED
        BY <1>1, <4>2, ConditionsAt
    <3>3. PICK j : j = skip_if_false_branch(tokens, i + 1)
      OBVIOUS
    <3>4. j \in DOMAIN tokens /\ (tokens[j].op = "else" => j + 1 \in DOMAIN tokens)
      BY <3>2, <3>3, HereIs, BranchAt, Behind
    <3>5. /\ \/ tokens[j].op = "else" /\ Chain("else", j + 1)
             \/ Goes(j)
          /\ running' = running /\ failed' = failed /\ trap' = trap
      BY <2>2, <3>1, <3>3 DEF If
    <3> QED
      BY <1>1, <3>4, <3>5, GoesOK, ChainOK DEF Placed
  <2> QED
    BY <2>1, <2>2
<1> QED
  BY <1>1, <1>2, MemKept, Unframed

LEMMA IfGoesOnStep == ASSUME Placed, IfGoesOn PROVE Placed'
<1>1. /\ host # <<>> /\ Top.c # "call" /\ running' = running /\ failed' = failed
      /\ UNCHANGED <<data, text, trap>>
  BY DEF IfGoesOn, Under
<1>2. CASE Here.op = ":"
  <2>1. cur' = cur + 1 /\ host' = [host EXCEPT ![Len(host)].st = "do"]
    BY <1>2 DEF IfGoesOn
  <2>2. StackOK(tokens, host')
    BY <1>1, <2>1, TopMoved DEF Placed, Top
  <2> QED
    BY <1>1, <1>2, <2>1, <2>2, HereIs, Stayed DEF Placed
<1>3. CASE Here.op # ":"
  <2>1. (cur' = skip_to_newline(tokens, cur) \/ cur' = cur) /\ host' = Pop
    BY <1>3 DEF IfGoesOn
  <2>2. cur' \in DOMAIN tokens
    BY <2>1, HereIs, NewlineAt
  <2> QED
    BY <1>1, <2>1, <2>2, HostPopped, Stayed DEF Placed
<1> QED
  BY <1>2, <1>3

LEMMA SelectStep == ASSUME Placed, Select PROVE Placed'
<1>1. /\ host # <<>> /\ mem' = Mem /\ loops' = loops /\ gosubs' = gosubs /\ UNCHANGED text
      /\ running' = running /\ failed' = failed /\ trap' = trap
      /\ cur' = skip_to_newline(tokens, cur)
  BY DEF Select, Statement, AtStatement
<1>2. PICK g : g = [c |-> "select", part |-> "next", st |-> "loop",
                    sel |-> Value(Mem, Here.e), executed |-> FALSE]
  OBVIOUS
<1>3. host' = Append(Done, g)
  BY <1>2 DEF Select
<1>4. FrameOK(tokens, g) /\ g.c # "call"
  BY <1>2 DEF FrameOK
<1>5. StackOK(tokens, Done)
  BY <1>1, DoneOK DEF Placed
<1>6. StackOK(tokens, host')
  BY <1>3, <1>4, <1>5, Pushed
<1>7. Moved
  BY <1>1, <1>6, HereIs, NewlineAt DEF Moved, Placed
<1> QED
  BY <1>1, <1>7, MemKept, Unframed DEF Placed

LEMMA SetTwice ==
    ASSUME NEW D, NEW S, NEW h \in [D -> S], NEW n, NEW x, NEW y, NEW g, g = [h EXCEPT ![n] = x]
    PROVE  [g EXCEPT ![n] = y] = [h EXCEPT ![n] = y]
<1>1. PICK a : a = [g EXCEPT ![n] = y]
  OBVIOUS
<1>2. PICK b : b = [h EXCEPT ![n] = y]
  OBVIOUS
<1>3. g \in [D -> S \cup {x}]
  OBVIOUS
<1>4. a \in [D -> S \cup {x, y}] /\ b \in [D -> S \cup {x, y}]
  BY <1>1, <1>2, <1>3
<1>5. ASSUME NEW i \in D PROVE a[i] = b[i]
  BY <1>1, <1>2, <1>3
<1>6. a = b
  <2>1. PICK R : R = S \cup {x, y}
    OBVIOUS
  <2>2. a \in [D -> R] /\ b \in [D -> R]
    BY <1>4, <2>1
  <2>3. a = [i \in D |-> a[i]] /\ b = [i \in D |-> b[i]]
    BY <2>2
  <2> QED
    BY <1>5, <2>3, Zenon
<1> QED
  BY <1>1, <1>2, <1>6

\* SELECT at another of its places: two fields of its record are set.
LEMMA TopReplaced ==
    ASSUME Placed, host # <<>>, Top.c = "select", NEW p, p # "c", NEW q, q # "c", NEW a, NEW b,
           NEW r, r = [host EXCEPT ![Len(host)][p] = a, ![Len(host)][q] = b]
    PROVE  StackOK(tokens, r)
<1>1. PICK f : f = host[Len(host)]
  OBVIOUS
<1>2. PICK S : host \in Seq(S)
  BY DEF Placed, StackOK
<1>3. Len(host) \in DOMAIN host
  BY <1>2, StackHas
<1>4. "c" \in DOMAIN f /\ f.c = "select"
  BY <1>1, <1>3 DEF Placed, StackOK, FrameOK, Top
<1>5. PICK f1 : f1 = [f EXCEPT ![p] = a]
  OBVIOUS
<1>6. PICK g : g = [f1 EXCEPT ![q] = b]
  OBVIOUS
<1>7. "c" \in DOMAIN g /\ g.c # "call"
  BY <1>4, <1>5, <1>6
<1>8. r = [host EXCEPT ![Len(host)] = g]
  <2>1. PICK r1 : r1 = [host EXCEPT ![Len(host)] = f1]
    OBVIOUS
  <2>2. r1 = [host EXCEPT ![Len(host)][p] = a]
    BY <1>1, <1>5, <2>1
  <2>3. PICK n : n = Len(host)
    OBVIOUS
  <2>4. r1[n] = f1
    BY <1>3, <2>1, <2>3
  <2>5. r = [r1 EXCEPT ![n][q] = b]
    BY <2>2, <2>3
  <2>6. r = [r1 EXCEPT ![n] = [f1 EXCEPT ![q] = b]]
    BY <2>4, <2>5
  <2>7. r = [r1 EXCEPT ![Len(host)] = g]
    BY <1>6, <2>3, <2>6
  <2>8. host \in [1 .. Len(host) -> S]
    BY <1>2
  <2>9. [r1 EXCEPT ![Len(host)] = g] = [host EXCEPT ![Len(host)] = g]
    BY <2>1, <2>8, SetTwice
  <2> QED
    BY <2>7, <2>9
<1>9. host[Len(host)].c # "call"
  BY <1>1, <1>4
<1>10. StackOK(tokens, host)
  BY DEF Placed
<1> QED
  BY <1>7, <1>8, <1>9, <1>10, TopSet, ZenonT(60)

LEMMA AtOK ==
    ASSUME Placed, host # <<>>, Top.c = "select", NEW a, NEW b
    PROVE  StackOK(tokens, At(a, b))
<1>1. PICK r : r = At(a, b)
  OBVIOUS
<1>2. PICK p, q : p = "part" /\ q = "st" /\ p # "c" /\ q # "c"
  OBVIOUS
<1>3. r = [host EXCEPT ![Len(host)][p] = a, ![Len(host)][q] = b]
  BY <1>1, <1>2 DEF At
<1>4. StackOK(tokens, r)
  BY <1>2, <1>3, TopReplaced
<1> QED
  BY <1>1, <1>4

LEMMA SelectNextStep == ASSUME Placed, SelectNext PROVE Placed'
<1>1. host # <<>> /\ Top.c = "select" /\ UNCHANGED <<data, text, trap>>
  BY DEF SelectNext, Selecting, Under
<1>2. PICK i : i = skip_newlines(tokens, cur) /\ i \in DOMAIN tokens
  BY HereIs, PastNewlines
<1>3. PICK eol : eol = skip_to_newline(tokens, i) /\ eol \in DOMAIN tokens
  BY <1>2, HereIs, NewlineAt
<1>4. PICK matched : matched = IF tokens[i].op = "case_else" THEN ~Top.executed
                               ELSE Top.sel \in Range(tokens[i].ns)
  OBVIOUS
<1>5. \/ host' = Pop /\ cur' = cur /\ running' = running /\ failed' = failed
      \/ host' = Pop /\ cur' = i /\ failed' = TRUE /\ running' = FALSE
      \/ /\ cur' = eol /\ running' = running /\ failed' = failed
         /\ \E a, b : host' = [host EXCEPT ![Len(host)]["part"] = a, ![Len(host)]["executed"] = b]
  BY <1>2, <1>3, <1>4 DEF SelectNext
<1>6. StackOK(tokens, host')
  <2>1. CASE host' = Pop
    BY <1>1, <2>1, HostPopped
  <2>2. ASSUME NEW a, NEW b,
               host' = [host EXCEPT ![Len(host)]["part"] = a, ![Len(host)]["executed"] = b]
        PROVE  StackOK(tokens, host')
    <3>1. PICK r : r = host'
      OBVIOUS
    <3>2. PICK p, q : p = "part" /\ q = "executed" /\ p # "c" /\ q # "c"
      OBVIOUS
    <3>3. r = [host EXCEPT ![Len(host)][p] = a, ![Len(host)][q] = b]
      BY <2>2, <3>1, <3>2
    <3>4. StackOK(tokens, r)
      BY <1>1, <3>2, <3>3, TopReplaced
    <3> QED
      BY <3>1, <3>4
  <2> QED
    BY <1>5, <2>1, <2>2
<1> QED
  BY <1>1, <1>2, <1>3, <1>5, <1>6, Stayed DEF Placed

LEMMA SelectLoopStep == ASSUME Placed, SelectLoop PROVE Placed'
<1>1. /\ host # <<>> /\ Top.c = "select" /\ UNCHANGED <<data, text, trap>>
      /\ running' = running /\ failed' = failed
  BY DEF SelectLoop, Selecting, Under
<1>2. PICK i : i = skip_newlines(tokens, cur) /\ i \in DOMAIN tokens
  BY HereIs, PastNewlines
<1>3. /\ cur' = cur \/ cur' = i \/ cur' = Len(tokens)
      /\ \E a, b : host' = At(a, b)
  BY <1>2 DEF SelectLoop
<1>4. Len(tokens) \in DOMAIN tokens
  BY HereIs, TextHas
<1>5. StackOK(tokens, host')
  BY <1>1, <1>3, AtOK
<1> QED
  BY <1>1, <1>2, <1>3, <1>4, <1>5, Stayed DEF Placed

LEMMA SelectGoesOnStep == ASSUME Placed, SelectGoesOn PROVE Placed'
<1>1. /\ host # <<>> /\ Top.c = "select" /\ UNCHANGED <<data, text, trap>>
      /\ running' = running /\ failed' = failed
  BY DEF SelectGoesOn, Selecting, Under
<1>2. /\ cur' = cur \/ (cur' = cur + 1 /\ Here.op # "eof")
      /\ \E a, b : host' = At(a, b)
  BY DEF SelectGoesOn
<1>3. StackOK(tokens, host')
  BY <1>1, <1>2, AtOK
<1> QED
  BY <1>1, <1>2, <1>3, HereIs, Stayed DEF Placed

------------------------------------------------------------------------------
(***************************************************************************)
(* Every step                                                              *)
(***************************************************************************)
LEMMA StepKeeps == ASSUME Placed, Step PROVE Placed'
<1>1. CASE Separator
  BY <1>1, SeparatorStep
<1>2. CASE ProgramEnds
  BY <1>2, ProgramEndsStep
<1>3. CASE CallReturns
  BY <1>3, CallReturnsStep
<1>4. CASE TooManyVariables
  BY <1>4, TooManyVariablesStep
<1>5. CASE Let
  BY <1>5, LetStep
<1>6. CASE Index
  BY <1>6, IndexStep
<1>7. CASE Identifier
  BY <1>7, IdentifierStep
<1>8. CASE Show
  BY <1>8, ShowStep
<1>9. CASE Const
  BY <1>9, ConstStep
<1>10. CASE Input
  BY <1>10, InputStep
<1>11. CASE Read
  BY <1>11, ReadStep
<1>12. CASE Restore
  BY <1>12, RestoreStep
<1>13. CASE Declare
  BY <1>13, DeclareStep
<1>14. CASE Shared
  BY <1>14, SharedStep
<1>15. CASE Passive
  BY <1>15, PassiveStep
<1>16. CASE Syntax
  BY <1>16, SyntaxStep
<1>17. CASE Nothing
  BY <1>17, NothingStep
<1>18. CASE For
  BY <1>18, ForStep
<1>19. CASE Next_
  BY <1>19, NextStep
<1>20. CASE While
  BY <1>20, WhileStep
<1>21. CASE Wend
  BY <1>21, WendStep
<1>22. CASE Repeat
  BY <1>22, RepeatStep
<1>23. CASE Until
  BY <1>23, UntilStep
<1>24. CASE ContinueFor
  BY <1>24, ContinueForStep
<1>25. CASE ContinueWhile
  BY <1>25, ContinueWhileStep
<1>26. CASE Goto
  BY <1>26, GotoStep
<1>27. CASE Gosub
  BY <1>27, GosubStep
<1>28. CASE Return
  BY <1>28, ReturnStep
<1>29. CASE Call
  BY <1>29, CallStep
<1>30. CASE LetCall
  BY <1>30, LetCallStep
<1>31. CASE Heading
  BY <1>31, HeadingStep
<1>32. CASE End
  BY <1>32, EndStep
<1>33. CASE OnError
  BY <1>33, OnErrorStep
<1>34. CASE Resume
  BY <1>34, ResumeStep
<1>35. CASE If
  BY <1>35, IfStep
<1>36. CASE IfGoesOn
  BY <1>36, IfGoesOnStep
<1>37. CASE Select
  BY <1>37, SelectStep
<1>38. CASE SelectNext
  BY <1>38, SelectNextStep
<1>39. CASE SelectLoop
  BY <1>39, SelectLoopStep
<1>40. CASE SelectGoesOn
  BY <1>40, SelectGoesOnStep
<1>41. CASE ExitLoop("exit_for", "for")
  BY <1>41, ExitLoopStep
<1>42. CASE ExitLoop("exit_while", "while")
  BY <1>42, ExitLoopStep
<1>43. CASE On("on_goto")
  BY <1>43, OnStep
<1>44. CASE On("on_gosub")
  BY <1>44, OnStep
<1> QED
  BY <1>1, <1>2, <1>3, <1>4, <1>5, <1>6, <1>7, <1>8, <1>9, <1>10, <1>11, <1>12,
     <1>13, <1>14, <1>15, <1>16, <1>17, <1>18, <1>19, <1>20, <1>21, <1>22,
     <1>23, <1>24, <1>25, <1>26, <1>27, <1>28, <1>29, <1>30, <1>31, <1>32,
     <1>33, <1>34, <1>35, <1>36, <1>37, <1>38, <1>39, <1>40, <1>41, <1>42,
     <1>43, <1>44
     DEF Step

\* A step is of a program that runs, and leaves the text alone.
LEMMA StepRuns == ASSUME Step PROVE host # <<>> /\ UNCHANGED text
<1>1. CASE Separator
  BY <1>1 DEF Separator, Under
<1>2. CASE ProgramEnds
  BY <1>2 DEF ProgramEnds, Under
<1>3. CASE CallReturns
  BY <1>3 DEF CallReturns, Under
<1>4. CASE TooManyVariables
  BY <1>4 DEF TooManyVariables, AtStatement
<1>5. CASE Let
  BY <1>5 DEF Let, Statement, AtStatement
<1>6. CASE Index
  BY <1>6 DEF Index, Statement, AtStatement
<1>7. CASE Identifier
  BY <1>7 DEF Identifier, Statement, AtStatement
<1>8. CASE Show
  BY <1>8 DEF Show, Statement, AtStatement
<1>9. CASE Const
  BY <1>9 DEF Const, Statement, AtStatement
<1>10. CASE Input
  BY <1>10 DEF Input, Statement, AtStatement
<1>11. CASE Read
  BY <1>11 DEF Read, Statement, AtStatement
<1>12. CASE Restore
  BY <1>12 DEF Restore, Statement, AtStatement
<1>13. CASE Declare
  BY <1>13 DEF Declare, Statement, AtStatement
<1>14. CASE Shared
  BY <1>14 DEF Shared, Statement, AtStatement
<1>15. CASE Passive
  BY <1>15 DEF Passive, Statement, AtStatement
<1>16. CASE Syntax
  BY <1>16 DEF Syntax, AtStatement
<1>17. CASE Nothing
  BY <1>17 DEF Nothing, AtStatement
<1>18. CASE For
  BY <1>18 DEF For, Statement, AtStatement
<1>19. CASE Next_
  BY <1>19 DEF Next_, Statement, AtStatement
<1>20. CASE While
  BY <1>20 DEF While, Statement, AtStatement
<1>21. CASE Wend
  BY <1>21 DEF Wend, Statement, AtStatement
<1>22. CASE Repeat
  BY <1>22 DEF Repeat, Statement, AtStatement
<1>23. CASE Until
  BY <1>23 DEF Until, Statement, AtStatement
<1>24. CASE ContinueFor
  BY <1>24 DEF ContinueFor, Statement, AtStatement
<1>25. CASE ContinueWhile
  BY <1>25 DEF ContinueWhile, Statement, AtStatement
<1>26. CASE Goto
  BY <1>26 DEF Goto, Statement, AtStatement
<1>27. CASE Gosub
  BY <1>27 DEF Gosub, Statement, AtStatement
<1>28. CASE Return
  BY <1>28 DEF Return, Statement, AtStatement
<1>29. CASE Call
  BY <1>29 DEF Call, Statement, AtStatement
<1>30. CASE LetCall
  BY <1>30 DEF LetCall, Statement, AtStatement
<1>31. CASE Heading
  BY <1>31 DEF Heading, Statement, AtStatement
<1>32. CASE End
  BY <1>32 DEF End, AtStatement
<1>33. CASE OnError
  BY <1>33 DEF OnError, Statement, AtStatement
<1>34. CASE Resume
  BY <1>34 DEF Resume, Statement, AtStatement
<1>35. CASE If
  BY <1>35 DEF If, Statement, AtStatement
<1>36. CASE IfGoesOn
  BY <1>36 DEF IfGoesOn, Under
<1>37. CASE Select
  BY <1>37 DEF Select, Statement, AtStatement
<1>38. CASE SelectNext
  BY <1>38 DEF SelectNext, Selecting, Under
<1>39. CASE SelectLoop
  BY <1>39 DEF SelectLoop, Selecting, Under
<1>40. CASE SelectGoesOn
  BY <1>40 DEF SelectGoesOn, Selecting, Under
<1>41. CASE ExitLoop("exit_for", "for")
  BY <1>41 DEF ExitLoop, Statement, AtStatement
<1>42. CASE ExitLoop("exit_while", "while")
  BY <1>42 DEF ExitLoop, Statement, AtStatement
<1>43. CASE On("on_goto")
  BY <1>43 DEF On, Statement, AtStatement
<1>44. CASE On("on_gosub")
  BY <1>44 DEF On, Statement, AtStatement
<1> QED
  BY <1>1, <1>2, <1>3, <1>4, <1>5, <1>6, <1>7, <1>8, <1>9, <1>10, <1>11, <1>12,
     <1>13, <1>14, <1>15, <1>16, <1>17, <1>18, <1>19, <1>20, <1>21, <1>22,
     <1>23, <1>24, <1>25, <1>26, <1>27, <1>28, <1>29, <1>30, <1>31, <1>32,
     <1>33, <1>34, <1>35, <1>36, <1>37, <1>38, <1>39, <1>40, <1>41, <1>42,
     <1>43, <1>44
     DEF Step

------------------------------------------------------------------------------
(***************************************************************************)
(* The prompt, and the theorem                                             *)
(***************************************************************************)
\* RUN of a compiled program leaves the table of lines as the last text left it:
\* where that is possible, a line of one program is within the text of another.
StaleLabelsFit ==
    "run_code" \in Commands /\ MaxCommands > 1 =>
        \A p, q \in Programs : \A n \in DOMAIN p.lines : p.lines[n] \in DOMAIN q.tokens

\* The table of lines is that of a program, and empty before the first command.
LabelsInv ==
    /\ given \in Nat /\ (given = 0 => labels = <<>>)
    /\ labels = <<>> \/ \E p \in Programs : labels = p.lines

\* What is left of the last program when it has ended.
LeftOK(t) == FramesOK(t, loops) /\ PlacesOK(t, gosubs) /\ TrapOK(t, trap)

BasicInv ==
    /\ LabelsInv
    /\ MemOK(mem) /\ running \in BOOLEAN /\ failed \in BOOLEAN
    /\ \E t : LeftOK(t)
    /\ host # <<>> => Placed

LEMMA NoFrames ==
    ASSUME NEW t, Len(t) \in Nat
    PROVE  /\ FramesOK(t, <<>>) /\ PlacesOK(t, <<>>)
           /\ TrapOK(t, [line |-> 0, active |-> FALSE, resume |-> 0])
<1>1. <<>> \in Seq({}) /\ Len(<<>>) = 0 /\ DOMAIN <<>> = {}
  OBVIOUS
<1>2. FramesOK(t, <<>>)
  BY <1>1, VarSizes DEF FramesOK
<1>3. PlacesOK(t, <<>>)
  <2>1. <<>> \in Seq(DOMAIN t)
    OBVIOUS
  <2> QED
    BY <1>1, <2>1, VarSizes DEF PlacesOK
<1>4. [line |-> 0, active |-> FALSE, resume |-> 0]
        \in [line : {0}, active : BOOLEAN, resume : 0 .. Len(t)]
  OBVIOUS
<1> QED
  BY <1>2, <1>3, <1>4 DEF TrapOK

LEMMA InitHolds == Init => BasicInv
<1> SUFFICES ASSUME Init PROVE BasicInv
  OBVIOUS
<1>1. PICK t : t = <<>> /\ Len(t) \in Nat
  OBVIOUS
<1>2. LeftOK(t)
  BY <1>1, NoFrames DEF Init, LeftOK
<1>3. MemOK(mem)
  <2>1. PICK z : z = [name |-> "", val |-> 0, const |-> FALSE]
    OBVIOUS
  <2>2. NoVars \in [1 .. MaxVars -> {z}]
    BY <2>1 DEF NoVars
  <2>3. mem \in Mems({z})
    BY <2>2, VarSizes DEF Init, Mems
  <2> QED
    BY <2>3 DEF MemOK
<1>4. LabelsInv
  BY DEF Init, LabelsInv
<1> QED
  BY <1>2, <1>3, <1>4 DEF Init, BasicInv

\* reset_state makes everything ready for a text its lines are in.
LEMMA StartedOK ==
    ASSUME BasicInv, Started, TextOK(tokens'), LabelsOK(tokens', labels'), LabelsInv'
    PROVE  BasicInv'
<1>1. PICK t : t = tokens' /\ TextOK(t)
  OBVIOUS
<1>2. 1 \in DOMAIN t /\ Len(t) \in Nat
  BY <1>1, TextHas
<1>3. MemOK(mem')
  <2>1. PICK X : mem \in Mems(X)
    BY DEF BasicInv, MemOK
  <2>2. mem' \in Mems(X)
    BY <2>1, VarSizes DEF Started, Mems
  <2> QED
    BY <2>2 DEF MemOK
<1>4. FramesOK(t, loops') /\ PlacesOK(t, gosubs') /\ TrapOK(t, trap')
  BY <1>2, NoFrames DEF Started
<1>5. StackOK(t, host')
  <2>1. PICK g : g = [c |-> "run"]
    OBVIOUS
  <2>2. FrameOK(t, g) /\ g.c # "call"
    BY <2>1 DEF FrameOK
  <2>3. host' = <<g>> /\ <<g>> \in Seq({g}) /\ DOMAIN <<g>> = 1 .. 1 /\ <<g>>[1] = g
    BY <2>1 DEF Started
  <2>4. \A i \in DOMAIN <<g>> : <<g>>[i] = g
    BY <2>3
  <2>5. CallsIn(<<g>>) = {}
    BY <2>2, <2>4 DEF CallsIn
  <2>6. Cardinality(CallsIn(<<g>>)) <= MaxFrames
    BY <2>5, FS_EmptySet, VarSizes
  <2>7. StackOK(t, <<g>>)
    BY <2>2, <2>3, <2>4, <2>6 DEF StackOK
  <2> QED
    BY <2>3, <2>7
<1>6. cur' = 1 /\ running' = TRUE /\ failed' = FALSE
  BY DEF Started
<1>7. Placed'
  BY <1>1, <1>2, <1>3, <1>4, <1>5, <1>6 DEF Placed
<1> QED
  BY <1>3, <1>4, <1>6, <1>7 DEF BasicInv, LeftOK

LEMMA NextKeeps == ASSUME StaleLabelsFit, BasicInv, [Next]_vars PROVE BasicInv'
<1>1. CASE Step
  <2>1. host # <<>> /\ tokens' = tokens /\ labels' = labels /\ given' = given
    BY <1>1, StepRuns DEF text
  <2>2. Placed'
    BY <1>1, <2>1, StepKeeps DEF BasicInv
  <2>3. LabelsInv'
    BY <2>1 DEF BasicInv, LabelsInv
  <2>4. PICK t : t = tokens' /\ FramesOK(t, loops') /\ PlacesOK(t, gosubs') /\ TrapOK(t, trap')
    BY <2>2 DEF Placed
  <2> QED
    BY <2>2, <2>3, <2>4 DEF BasicInv, LeftOK, Placed
<1>2. CASE UNCHANGED vars
  BY <1>2 DEF vars, control, data, text, BasicInv, LabelsInv, LeftOK, Placed
<1>3. CASE basic_run_source
  <2>1. PICK p \in Programs : tokens' = p.tokens /\ labels' = p.lines
    BY <1>3 DEF basic_run_source
  <2>2. Started /\ given' = given + 1
    BY <1>3 DEF basic_run_source, Prompt
  <2>3. TextOK(tokens') /\ LabelsOK(tokens', labels')
    BY <2>1, ProgramText DEF LabelsOK
  <2>4. LabelsInv'
    BY <2>1, <2>2 DEF BasicInv, LabelsInv
  <2> QED
    BY <2>2, <2>3, <2>4, StartedOK
<1>4. CASE basic_run_bytecode
  <2>1. PICK p \in Programs : tokens' = p.tokens
    BY <1>4 DEF basic_run_bytecode
  <2>2. /\ Started /\ given' = given + 1 /\ labels' = labels
        /\ given < MaxCommands /\ "run_code" \in Commands
    BY <1>4 DEF basic_run_bytecode, Prompt
  <2>3. TextOK(tokens')
    BY <2>1, ProgramText
  <2>4. LabelsInv'
    BY <2>2 DEF BasicInv, LabelsInv
  <2>5. LabelsOK(tokens', labels')
    <3>1. CASE labels = <<>>
      <4>1. DOMAIN <<>> = {}
        OBVIOUS
      <4> QED
        BY <2>2, <3>1, <4>1 DEF LabelsOK
    <3>2. CASE labels # <<>>
      <4>1. given \in Nat /\ given # 0
        BY <3>2 DEF BasicInv, LabelsInv
      <4>2. MaxCommands > 1
        BY <2>2, <4>1, VarSizes
      <4>3. PICK q \in Programs : labels = q.lines
        BY <3>2 DEF BasicInv, LabelsInv
      <4> QED
        BY <2>1, <2>2, <4>2, <4>3 DEF StaleLabelsFit, LabelsOK
    <3> QED
      BY <3>1, <3>2
  <2> QED
    BY <2>2, <2>3, <2>4, <2>5, StartedOK
<1>5. CASE basic_compile_source
  <2>1. PICK p \in Programs : tokens' = p.tokens /\ labels' = p.lines
    BY <1>5 DEF basic_compile_source
  <2>2. given' = given + 1 /\ host = <<>>
    BY <1>5 DEF basic_compile_source, Prompt
  <2>3. /\ host' = host /\ running' = running /\ failed' = failed /\ mem' = mem
        /\ loops' = loops /\ gosubs' = gosubs /\ trap' = trap
    BY <1>5 DEF basic_compile_source, control, data
  <2>4. LabelsInv'
    BY <2>1, <2>2 DEF BasicInv, LabelsInv
  <2> QED
    BY <2>2, <2>3, <2>4 DEF BasicInv, LeftOK
<1> QED
  BY <1>1, <1>2, <1>3, <1>4, <1>5 DEF Next, Idle

LEMMA TypeOf == ASSUME BasicInv PROVE BasicTypeOK
<1>1. mem.n \in 0 .. MaxVars /\ running \in BOOLEAN /\ failed \in BOOLEAN
  BY DEF BasicInv, MemOK, Mems
<1>2. Len(loops) <= MaxFrames /\ Len(gosubs) <= MaxFrames /\ trap.active \in BOOLEAN
  BY DEF BasicInv, LeftOK, FramesOK, PlacesOK, TrapOK
<1>3. CASE host = <<>>
  <2>1. DOMAIN <<>> = {}
    OBVIOUS
  <2>2. Calls = {}
    BY <1>3, <2>1 DEF Calls, CallsIn
  <2>3. Cardinality(Calls) <= MaxFrames
    BY <2>2, FS_EmptySet, VarSizes
  <2> QED
    BY <1>1, <1>2, <1>3, <2>3 DEF BasicTypeOK
<1>4. CASE host # <<>>
  <2>1. Placed
    BY <1>4 DEF BasicInv
  <2>2. Cardinality(Calls) <= MaxFrames
    BY <2>1 DEF Placed, StackOK, Calls
  <2>3. \A f \in Range(loops) :
          f.tok \in DOMAIN tokens /\ f.var \in {WHILE, REPEAT} \cup (1 .. MaxVars)
    BY <2>1 DEF Placed, FramesOK, IsFrame, Range
  <2>4. Range(gosubs) \subseteq DOMAIN tokens
    BY <2>1 DEF Placed, PlacesOK, Range
  <2>5. \A i \in Calls : host[i].ret \in DOMAIN tokens /\ host[i].nvars \in 0 .. MaxVars
    BY <2>1 DEF Placed, StackOK, FrameOK, Calls, CallsIn
  <2>6. trap.resume \in 0 .. Len(tokens) /\ cur \in DOMAIN tokens
    BY <2>1 DEF Placed, TrapOK
  <2> QED
    BY <1>1, <1>2, <2>2, <2>3, <2>4, <2>5, <2>6 DEF BasicTypeOK
<1> QED
  BY <1>3, <1>4

\* Whatever a program does, its loops, subroutines, calls and variables stay within
\* MAX_FRAMES and MAX_VARS, and the cursor, the places that NEXT, RETURN, RESUME and
\* the end of a call go to are tokens of the program.
THEOREM BasicTypeHolds == ASSUME StaleLabelsFit PROVE Spec => []BasicTypeOK
<1>1. BasicInv /\ [Next]_vars => BasicInv'
  BY NextKeeps
<1>2. BasicInv => BasicTypeOK
  BY TypeOf
<1> QED
  BY InitHolds, <1>1, <1>2, PTL DEF Spec
==============================================================================
