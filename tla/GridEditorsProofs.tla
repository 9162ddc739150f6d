--------------------------- MODULE GridEditorsProofs ---------------------------
(***************************************************************************)
(* The two editors, for all files, lines, keys and sizes of the arrays:    *)
(* texts stay in their arrays and the cursor in the text, a clean buffer   *)
(* is its file, RUN takes the lines of a script in order, each once, a     *)
(* line typed into a script leaves the others as they are, and the keys do *)
(* to the buffer what a text with a cursor in it promises.                 *)
(***************************************************************************)
EXTENDS GridEditors, FoldLemmas, FiniteSetTheorems, SequenceTheorems

------------------------------------------------------------------------------
(***************************************************************************)
(* Texts and rows                                                          *)
(***************************************************************************)
RowStep(rows, c) ==
    IF c = NL THEN Append(rows, <<>>)
    ELSE [rows EXCEPT ![Len(rows)] = Append(@, c)]

RowsOf(S) == Seq(Seq(S)) \ {<<>>}

LEMMA RowStepIn ==
    ASSUME NEW S, NEW rows \in RowsOf(S), NEW c \in S
    PROVE  RowStep(rows, c) \in RowsOf(S)
<1>1. rows \in Seq(Seq(S)) /\ Len(rows) \in Nat /\ Len(rows) > 0
  BY DEF RowsOf
<1>2. CASE c = NL
  <2>1. RowStep(rows, c) = Append(rows, <<>>) /\ <<>> \in Seq(S)
    BY <1>2 DEF RowStep
  <2>2. Append(rows, <<>>) \in Seq(Seq(S)) /\ Append(rows, <<>>) # <<>>
    BY <1>1, <2>1
  <2> QED
    BY <2>1, <2>2 DEF RowsOf
<1>3. CASE c # NL
  <2>1. RowStep(rows, c) = [rows EXCEPT ![Len(rows)] = Append(rows[Len(rows)], c)]
    BY <1>3 DEF RowStep
  <2>2. Append(rows[Len(rows)], c) \in Seq(S)
    BY <1>1
  <2>3. RowStep(rows, c) \in Seq(Seq(S)) /\ Len(RowStep(rows, c)) = Len(rows)
    BY <1>1, <2>1, <2>2
  <2> QED
    BY <1>1, <2>3 DEF RowsOf
<1> QED
  BY <1>2, <1>3

\* A text is taken apart symbol by symbol.
LEMMA RowsSteps ==
    ASSUME NEW S, NEW s \in Seq(S)
    PROVE  \E f : /\ f[0] = <<<<>>>>
                  /\ \A i \in 1 .. Len(s) : f[i] = RowStep(f[i - 1], s[i])
                  /\ \A i \in 0 .. Len(s) : f[i] \in RowsOf(S)
                  /\ Rows(s) = f[Len(s)]
<1>1. PICK N \in Nat : N = Len(s) /\ DOMAIN s = 1 .. N /\ \A i \in 1 .. N : s[i] \in S
  OBVIOUS
<1>2. PICK A : A = RowsOf(S)
  OBVIOUS
<1>3. <<<<>>>> \in A /\ \A i \in 1 .. N : \A a \in A : RowStep(a, s[i]) \in A
  <2>1. <<<<>>>> \in RowsOf(S)
    BY DEF RowsOf
  <2> QED
    BY <1>1, <1>2, <2>1, RowStepIn
<1>4. PICK step : step = [i \in 1 .. N |-> [a \in A |-> RowStep(a, s[i])]]
  OBVIOUS
<1>5. step \in [1 .. N -> [A -> A]]
  BY <1>3, <1>4
<1>6. PICK g : FoldOf(g, N, A, <<<<>>>>, step)
  BY <1>3, <1>5, FoldSteps
<1> DEFINE body(h) == [J \in SUBSET DOMAIN s |->
                         IF J = {} THEN <<<<>>>> ELSE RowStep(h[J \ {Max(J)}], s[Max(J)])]
           iter == CHOOSE h : h = body(h)
           f == [i \in 0 .. N |-> iter[1 .. i]]
<1>7. g = body(g)
  <2>1. \A J \in SUBSET (1 .. N) : J # {} => g[J] = RowStep(g[J \ {Max(J)}], s[Max(J)])
    <3> TAKE J \in SUBSET (1 .. N)
    <3> HAVE J # {}
    <3>1. Max(J) \in 1 .. N /\ J \ {Max(J)} \in SUBSET (1 .. N)
      BY LargestOf
    <3>2. g[J] = step[Max(J)][g[J \ {Max(J)}]] /\ g[J \ {Max(J)}] \in A
      BY <1>6, <3>1 DEF FoldOf
    <3> QED
      BY <1>4, <3>1, <3>2
  <2> QED
    BY <1>1, <1>6, <2>1 DEF FoldOf
<1>8. iter = body(iter)
  <2> HIDE DEF body
  <2> QED
    BY <1>7, Zenon
<1>9. Rows(s) = f[N]
  <2>1. Rows(s) = iter[DOMAIN s]
    BY DEF Rows, RowStep, FoldLeft, MapThenFoldSet
  <2> HIDE DEF iter
  <2> QED
    BY <1>1, <2>1
<1> HIDE DEF iter
<1>10. f[0] = <<<<>>>>
  BY <1>1, <1>8
<1>11. ASSUME NEW i \in 1 .. N PROVE f[i] = RowStep(f[i - 1], s[i])
  <2>1. Max(1 .. i) = i /\ (1 .. i) \ {i} = 1 .. (i - 1)
    BY LargestUpTo
  <2>2. 1 .. i \in SUBSET DOMAIN s /\ 1 .. i # {}
    <3>1. DOMAIN s = 1 .. N
      BY <1>1
    <3>2. 1 .. i \in SUBSET (1 .. N) /\ 1 .. i # {}
      BY FirstNumbers
    <3> QED
      BY <3>1, <3>2
  <2>3. iter[1 .. i] = RowStep(iter[(1 .. i) \ {Max(1 .. i)}], s[Max(1 .. i)])
    BY <1>8, <2>2
  <2>4. f[i] = iter[1 .. i] /\ f[i - 1] = iter[1 .. (i - 1)]
    BY <1>1
  <2> HIDE DEF f, body
  <2> QED
    BY <2>1, <2>3, <2>4
<1> HIDE DEF f
<1> DEFINE T == {i \in 0 .. N : f[i] \in A}
<1>12. \A i \in 0 .. N : i \in T
  <2>1. 0 \in T
    BY <1>3, <1>10
  <2>2. ASSUME NEW i \in 0 .. (N - 1), i \in T PROVE i + 1 \in T
    <3>1. i + 1 \in 1 .. N /\ (i + 1) - 1 = i
      OBVIOUS
    <3>2. f[i + 1] = RowStep(f[i], s[i + 1])
      BY <1>11, <3>1
    <3>3. RowStep(f[i], s[i + 1]) \in A
      BY <1>3, <2>2, <3>1
    <3> QED
      BY <3>1, <3>2, <3>3
  <2> HIDE DEF T
  <2> QED
    BY <2>1, <2>2, UpToInduction
<1> QED
  BY <1>1, <1>2, <1>9, <1>10, <1>11, <1>12

LineStep(s, row) == s \o row \o <<NL>>

\* Rows are written one after the other.
LEMMA LinesSteps ==
    ASSUME NEW S, NL \in S, NEW Q \in SUBSET Seq(S), NEW rows \in Seq(Q)
    PROVE  \E f : /\ f[0] = <<>>
                  /\ \A i \in 1 .. Len(rows) : f[i] = LineStep(f[i - 1], rows[i])
                  /\ \A i \in 0 .. Len(rows) : f[i] \in Seq(S)
                  /\ Lines(rows) = f[Len(rows)]
<1>1. PICK N \in Nat : N = Len(rows) /\ DOMAIN rows = 1 .. N /\ \A i \in 1 .. N : rows[i] \in Q
  OBVIOUS
<1>2. PICK A : A = Seq(S)
  OBVIOUS
<1>3. <<>> \in A /\ \A i \in 1 .. N : \A a \in A : LineStep(a, rows[i]) \in A
  <2>1. ASSUME NEW a \in Seq(S), NEW row \in Seq(S) PROVE LineStep(a, row) \in Seq(S)
    BY DEF LineStep
  <2> QED
    BY <1>1, <1>2, <2>1
<1>4. PICK step : step = [i \in 1 .. N |-> [a \in A |-> LineStep(a, rows[i])]]
  OBVIOUS
<1>5. step \in [1 .. N -> [A -> A]]
  BY <1>3, <1>4
<1>6. PICK g : FoldOf(g, N, A, <<>>, step)
  BY <1>3, <1>5, FoldSteps
<1> DEFINE body(h) == [J \in SUBSET DOMAIN rows |->
                         IF J = {} THEN <<>> ELSE LineStep(h[J \ {Max(J)}], rows[Max(J)])]
           iter == CHOOSE h : h = body(h)
           f == [i \in 0 .. N |-> iter[1 .. i]]
<1>7. g = body(g)
  <2>1. \A J \in SUBSET (1 .. N) : J # {} => g[J] = LineStep(g[J \ {Max(J)}], rows[Max(J)])
    <3> TAKE J \in SUBSET (1 .. N)
    <3> HAVE J # {}
    <3>1. Max(J) \in 1 .. N /\ J \ {Max(J)} \in SUBSET (1 .. N)
      BY LargestOf
    <3>2. g[J] = step[Max(J)][g[J \ {Max(J)}]] /\ g[J \ {Max(J)}] \in A
      BY <1>6, <3>1 DEF FoldOf
    <3> QED
      BY <1>4, <3>1, <3>2
  <2> QED
    BY <1>1, <1>6, <2>1 DEF FoldOf
<1>8. iter = body(iter)
  <2> HIDE DEF body
  <2> QED
    BY <1>7, Zenon
<1>9. Lines(rows) = f[N]
  <2>1. Lines(rows) = iter[DOMAIN rows]
    BY DEF Lines, LineStep, FoldLeft, MapThenFoldSet
  <2> HIDE DEF iter
  <2> QED
    BY <1>1, <2>1
<1> HIDE DEF iter
<1>10. f[0] = <<>>
  BY <1>1, <1>8
<1>11. ASSUME NEW i \in 1 .. N PROVE f[i] = LineStep(f[i - 1], rows[i])
  <2>1. Max(1 .. i) = i /\ (1 .. i) \ {i} = 1 .. (i - 1)
    BY LargestUpTo
  <2>2. 1 .. i \in SUBSET DOMAIN rows /\ 1 .. i # {}
    <3>1. DOMAIN rows = 1 .. N
      BY <1>1
    <3>2. 1 .. i \in SUBSET (1 .. N) /\ 1 .. i # {}
      BY FirstNumbers
    <3> QED
      BY <3>1, <3>2
  <2>3. iter[1 .. i] = LineStep(iter[(1 .. i) \ {Max(1 .. i)}], rows[Max(1 .. i)])
    BY <1>8, <2>2
  <2>4. f[i] = iter[1 .. i] /\ f[i - 1] = iter[1 .. (i - 1)]
    BY <1>1
  <2> HIDE DEF f, body
  <2> QED
    BY <2>1, <2>3, <2>4
<1> HIDE DEF f
<1> DEFINE T == {i \in 0 .. N : f[i] \in A}
<1>12. \A i \in 0 .. N : i \in T
  <2>1. 0 \in T
    BY <1>3, <1>10
  <2>2. ASSUME NEW i \in 0 .. (N - 1), i \in T PROVE i + 1 \in T
    <3>1. i + 1 \in 1 .. N /\ (i + 1) - 1 = i
      OBVIOUS
    <3>2. f[i + 1] = LineStep(f[i], rows[i + 1])
      BY <1>11, <3>1
    <3>3. LineStep(f[i], rows[i + 1]) \in A
      BY <1>3, <2>2, <3>1
    <3> QED
      BY <3>1, <3>2, <3>3
  <2> HIDE DEF T
  <2> QED
    BY <2>1, <2>2, UpToInduction
<1> QED
  BY <1>1, <1>2, <1>9, <1>10, <1>11, <1>12

PickStep(kept, x, P) == IF x \in P THEN Append(kept, x) ELSE kept

\* What is left out is left out one by one.
LEMMA OnlySteps ==
    ASSUME NEW S, NEW s \in Seq(S), NEW P
    PROVE  \E f : /\ f[0] = <<>>
                  /\ \A i \in 1 .. Len(s) : f[i] = PickStep(f[i - 1], s[i], P)
                  /\ \A i \in 0 .. Len(s) : f[i] \in Seq(S)
                  /\ Only(s, P) = f[Len(s)]
<1>1. PICK N \in Nat : N = Len(s) /\ DOMAIN s = 1 .. N /\ \A i \in 1 .. N : s[i] \in S
  OBVIOUS
<1>2. PICK A : A = Seq(S)
  OBVIOUS
<1>3. <<>> \in A /\ \A i \in 1 .. N : \A a \in A : PickStep(a, s[i], P) \in A
  <2>1. ASSUME NEW a \in Seq(S), NEW x \in S PROVE PickStep(a, x, P) \in Seq(S)
    BY DEF PickStep
  <2> QED
    BY <1>1, <1>2, <2>1
<1>4. PICK step : step = [i \in 1 .. N |-> [a \in A |-> PickStep(a, s[i], P)]]
  OBVIOUS
<1>5. step \in [1 .. N -> [A -> A]]
  BY <1>3, <1>4
<1>6. PICK g : FoldOf(g, N, A, <<>>, step)
  BY <1>3, <1>5, FoldSteps
<1> DEFINE body(h) == [J \in SUBSET DOMAIN s |->
                         IF J = {} THEN <<>> ELSE PickStep(h[J \ {Max(J)}], s[Max(J)], P)]
           iter == CHOOSE h : h = body(h)
           f == [i \in 0 .. N |-> iter[1 .. i]]
<1>7. g = body(g)
  <2>1. \A J \in SUBSET (1 .. N) : J # {} => g[J] = PickStep(g[J \ {Max(J)}], s[Max(J)], P)
    <3> TAKE J \in SUBSET (1 .. N)
    <3> HAVE J # {}
    <3>1. Max(J) \in 1 .. N /\ J \ {Max(J)} \in SUBSET (1 .. N)
      BY LargestOf
    <3>2. g[J] = step[Max(J)][g[J \ {Max(J)}]] /\ g[J \ {Max(J)}] \in A
      BY <1>6, <3>1 DEF FoldOf
    <3> QED
      BY <1>4, <3>1, <3>2
  <2> QED
    BY <1>1, <1>6, <2>1 DEF FoldOf
<1>8. iter = body(iter)
  <2> HIDE DEF body
  <2> QED
    BY <1>7, Zenon
<1>9. Only(s, P) = f[N]
  <2>1. Only(s, P) = iter[DOMAIN s]
    BY DEF Only, PickStep, FoldLeft, MapThenFoldSet
  <2> HIDE DEF iter
  <2> QED
    BY <1>1, <2>1
<1> HIDE DEF iter
<1>10. f[0] = <<>>
  BY <1>1, <1>8
<1>11. ASSUME NEW i \in 1 .. N PROVE f[i] = PickStep(f[i - 1], s[i], P)
  <2>1. Max(1 .. i) = i /\ (1 .. i) \ {i} = 1 .. (i - 1)
    BY LargestUpTo
  <2>2. 1 .. i \in SUBSET DOMAIN s /\ 1 .. i # {}
    <3>1. DOMAIN s = 1 .. N
      BY <1>1
    <3>2. 1 .. i \in SUBSET (1 .. N) /\ 1 .. i # {}
      BY FirstNumbers
    <3> QED
      BY <3>1, <3>2
  <2>3. iter[1 .. i] = PickStep(iter[(1 .. i) \ {Max(1 .. i)}], s[Max(1 .. i)], P)
    BY <1>8, <2>2
  <2>4. f[i] = iter[1 .. i] /\ f[i - 1] = iter[1 .. (i - 1)]
    BY <1>1
  <2> HIDE DEF f, body
  <2> QED
    BY <2>1, <2>3, <2>4
<1> HIDE DEF f
<1> DEFINE T == {i \in 0 .. N : f[i] \in A}
<1>12. \A i \in 0 .. N : i \in T
  <2>1. 0 \in T
    BY <1>3, <1>10
  <2>2. ASSUME NEW i \in 0 .. (N - 1), i \in T PROVE i + 1 \in T
    <3>1. i + 1 \in 1 .. N /\ (i + 1) - 1 = i
      OBVIOUS
    <3>2. f[i + 1] = PickStep(f[i], s[i + 1], P)
      BY <1>11, <3>1
    <3>3. PickStep(f[i], s[i + 1], P) \in A
      BY <1>3, <2>2, <3>1
    <3> QED
      BY <3>1, <3>2, <3>3
  <2> HIDE DEF T
  <2> QED
    BY <2>1, <2>2, UpToInduction
<1> QED
  BY <1>1, <1>2, <1>9, <1>10, <1>11, <1>12

\* Sequences.
LEMMA Part ==
    ASSUME NEW S, NEW s \in Seq(S), NEW m \in 1 .. (Len(s) + 1), NEW n \in (m - 1) .. Len(s)
    PROVE  /\ SubSeq(s, m, n) \in Seq(S) /\ Len(SubSeq(s, m, n)) = n - m + 1
           /\ \A i \in 1 .. (n - m + 1) : SubSeq(s, m, n)[i] = s[m + i - 1]
<1>1. Len(s) \in Nat /\ m \in Int /\ n \in Int
  OBVIOUS
<1>2. \A i \in m .. n : s[i] \in S
  <2> TAKE i \in m .. n
  <2>1. i \in 1 .. Len(s)
    BY <1>1
  <2> QED
    BY <2>1
<1>3. n - m + 1 = IF m <= n THEN n - m + 1 ELSE 0
  BY <1>1
<1> QED
  BY <1>1, <1>2, <1>3, SubSeqProperties

LEMMA AtMost ==
    ASSUME NEW S, NEW s \in Seq(S), NEW n \in Nat
    PROVE  /\ Upto(s, n) \in Seq(S)
           /\ Len(Upto(s, n)) = IF n < Len(s) THEN n ELSE Len(s)
           /\ \A i \in 1 .. Len(Upto(s, n)) : Upto(s, n)[i] = s[i]
           /\ Len(s) <= n => Upto(s, n) = s
  BY DEF Upto

LEMMA Inserted ==
    ASSUME NEW S, NEW s \in Seq(S), NEW e \in S, NEW i \in 1 .. (Len(s) + 1)
    PROVE  InsertAt(s, i, e) \in Seq(S) /\ Len(InsertAt(s, i, e)) = Len(s) + 1
<1>1. Len(s) \in Nat /\ 1 \in 1 .. (Len(s) + 1) /\ i - 1 \in (1 - 1) .. Len(s)
      /\ Len(s) \in (i - 1) .. Len(s)
  OBVIOUS
<1>2. SubSeq(s, 1, i - 1) \in Seq(S) /\ Len(SubSeq(s, 1, i - 1)) = i - 1
  <2>1. (i - 1) - 1 + 1 = i - 1
    OBVIOUS
  <2> QED
    BY <1>1, <2>1, Part
<1>3. SubSeq(s, i, Len(s)) \in Seq(S) /\ Len(SubSeq(s, i, Len(s))) = Len(s) - i + 1
  BY <1>1, Part
<1>4. PICK a \in Seq(S), b \in Seq(S) : /\ a = SubSeq(s, 1, i - 1) /\ b = SubSeq(s, i, Len(s))
                                        /\ Len(a) = i - 1 /\ Len(b) = Len(s) - i + 1
  BY <1>2, <1>3
<1>5. (a \o <<e>> \o b) \in Seq(S) /\ Len(a \o <<e>> \o b) = Len(a) + 1 + Len(b)
  OBVIOUS
<1>6. Len(a) + 1 + Len(b) = Len(s) + 1
  BY <1>1, <1>4
<1> QED
  BY <1>4, <1>5, <1>6 DEF InsertAt

LEMMA Removed ==
    ASSUME NEW S, NEW s \in Seq(S), NEW i \in 1 .. Len(s)
    PROVE  RemoveAt(s, i) \in Seq(S) /\ Len(RemoveAt(s, i)) = Len(s) - 1
<1>1. Len(s) \in Nat /\ 1 \in 1 .. (Len(s) + 1) /\ i - 1 \in (1 - 1) .. Len(s)
      /\ i + 1 \in 1 .. (Len(s) + 1) /\ Len(s) \in ((i + 1) - 1) .. Len(s)
  OBVIOUS
<1>2. SubSeq(s, 1, i - 1) \in Seq(S) /\ Len(SubSeq(s, 1, i - 1)) = i - 1
  <2>1. (i - 1) - 1 + 1 = i - 1
    OBVIOUS
  <2> QED
    BY <1>1, <2>1, Part
<1>3. SubSeq(s, i + 1, Len(s)) \in Seq(S) /\ Len(SubSeq(s, i + 1, Len(s))) = Len(s) - i
  <2>1. Len(s) - (i + 1) + 1 = Len(s) - i
    BY <1>1
  <2> QED
    BY <1>1, <2>1, Part
<1>4. PICK a \in Seq(S), b \in Seq(S) : /\ a = SubSeq(s, 1, i - 1) /\ b = SubSeq(s, i + 1, Len(s))
                                        /\ Len(a) = i - 1 /\ Len(b) = Len(s) - i
  BY <1>2, <1>3
<1>5. (a \o b) \in Seq(S) /\ Len(a \o b) = Len(a) + Len(b)
  OBVIOUS
<1>6. Len(a) + Len(b) = Len(s) - 1
  <2>1. Len(s) \in Nat /\ i \in Nat /\ Len(a) = i - 1 /\ Len(b) = Len(s) - i
    BY <1>4
  <2> QED
    BY <2>1
<1> QED
  BY <1>4, <1>5, <1>6 DEF RemoveAt

LEMMA FrontAndLast ==
    ASSUME NEW S, NEW s \in Seq(S), s # <<>>
    PROVE  Front(s) \in Seq(S) /\ Last(s) \in S /\ s = Append(Front(s), Last(s))
           /\ Len(Front(s)) = Len(s) - 1
<1>1. Len(s) \in Nat \ {0}
  OBVIOUS
<1>2. PICK a \in Seq(S) : /\ a = SubSeq(s, 1, Len(s) - 1) /\ Len(a) = Len(s) - 1
                         /\ \A i \in 1 .. (Len(s) - 1) : a[i] = s[i]
  <2>1. PICK n \in Nat : n = Len(s) - 1 /\ n - 1 + 1 = n /\ \A i \in 1 .. n : 1 + i - 1 = i
    BY <1>1
  <2>2. 1 \in 1 .. (Len(s) + 1) /\ n \in (1 - 1) .. Len(s)
    BY <1>1, <2>1
  <2>3. /\ SubSeq(s, 1, n) \in Seq(S) /\ Len(SubSeq(s, 1, n)) = n
        /\ \A i \in 1 .. n : SubSeq(s, 1, n)[i] = s[i]
    BY <2>1, <2>2, Part
  <2> QED
    BY <2>1, <2>3
<1>3. PICK e \in S : e = s[Len(s)]
  BY <1>1
<1>4. s = Append(a, e)
  BY <1>1, <1>2, <1>3
<1> QED
  BY <1>2, <1>3, <1>4 DEF Front, Last

LEMMA FrontOfAppend ==
    ASSUME NEW S, NEW s \in Seq(S), NEW e \in S
    PROVE  Front(Append(s, e)) = s /\ Last(Append(s, e)) = e
  BY DEF Front, Last

\* One row more.
LEMMA LinesAppend ==
    ASSUME NEW S, NL \in S, NEW rows \in Seq(Seq(S)), NEW row \in Seq(S)
    PROVE  Lines(rows) \in Seq(S) /\ Lines(Append(rows, row)) = Lines(rows) \o row \o <<NL>>
<1>1. PICK Q : Q = Seq(S)
  OBVIOUS
<1> DEFINE more == Append(rows, row)
<1>2. /\ rows \in Seq(Q) /\ more \in Seq(Q) /\ Len(more) = Len(rows) + 1 /\ Len(rows) \in Nat
      /\ \A i \in 1 .. Len(rows) : more[i] = rows[i]
      /\ more[Len(rows) + 1] = row
  BY <1>1
<1> HIDE DEF more
<1>3. PICK f : /\ f[0] = <<>>
               /\ \A i \in 1 .. Len(rows) : f[i] = LineStep(f[i - 1], rows[i])
               /\ \A i \in 0 .. Len(rows) : f[i] \in Seq(S)
               /\ Lines(rows) = f[Len(rows)]
  BY <1>1, <1>2, LinesSteps
<1>4. PICK g : /\ g[0] = <<>>
               /\ \A i \in 1 .. Len(more) : g[i] = LineStep(g[i - 1], more[i])
               /\ \A i \in 0 .. Len(more) : g[i] \in Seq(S)
               /\ Lines(more) = g[Len(more)]
  BY <1>1, <1>2, LinesSteps
<1> DEFINE T == {i \in 0 .. Len(rows) : f[i] = g[i]}
<1>5. \A i \in 0 .. Len(rows) : i \in T
  <2>1. 0 \in T
    BY <1>2, <1>3, <1>4
  <2>2. ASSUME NEW i \in 0 .. (Len(rows) - 1), i \in T PROVE i + 1 \in T
    <3>1. i + 1 \in 1 .. Len(rows) /\ i + 1 \in 1 .. Len(more) /\ (i + 1) - 1 = i
      BY <1>2
    <3>2. f[i + 1] = LineStep(f[i], rows[i + 1]) /\ g[i + 1] = LineStep(g[i], more[i + 1])
      BY <1>3, <1>4, <3>1
    <3> QED
      BY <1>2, <2>2, <3>1, <3>2
  <2> HIDE DEF T
  <2> QED
    BY <1>2, <2>1, <2>2, UpToInduction
<1>6. Lines(more) = LineStep(g[Len(rows)], row)
  <2>1. Len(more) \in 1 .. Len(more) /\ Len(more) - 1 = Len(rows)
    BY <1>2
  <2> QED
    BY <1>2, <1>4, <2>1
<1>7. g[Len(rows)] = Lines(rows)
  BY <1>2, <1>3, <1>5
<1> QED
  BY <1>2, <1>3, <1>6, <1>7 DEF LineStep, more

\* A text is what its rows are written to, but for the last end of line.
LEMMA RowsBack ==
    ASSUME NEW S, NL \in S, NEW s \in Seq(S)
    PROVE  /\ Rows(s) \in Seq(Seq(S)) /\ Rows(s) # <<>>
           /\ Lines(Rows(s)) = s \o <<NL>>
           /\ Last(Rows(s)) = <<>> => Lines(Front(Rows(s))) = s
<1>1. PICK f : /\ f[0] = <<<<>>>>
               /\ \A i \in 1 .. Len(s) : f[i] = RowStep(f[i - 1], s[i])
               /\ \A i \in 0 .. Len(s) : f[i] \in RowsOf(S)
               /\ Rows(s) = f[Len(s)]
  BY RowsSteps
<1>2. Len(s) \in Nat
  OBVIOUS
<1>3. \A i \in 0 .. Len(s) : f[i] \in Seq(Seq(S)) /\ f[i] # <<>>
  BY <1>1 DEF RowsOf
<1> DEFINE J(rows) == Lines(Front(rows)) \o Last(rows)
           T == {i \in 0 .. Len(s) : J(f[i]) = SubSeq(s, 1, i)}
<1>4. \A rows \in Seq(Seq(S)) : Lines(rows) \in Seq(S)
  BY LinesAppend
<1>5. 0 \in T
  <2>1. f[0] = Append(<<>>, <<>>) /\ <<>> \in Seq(S) /\ <<>> \in Seq(Seq(S))
    BY <1>1
  <2>2. Front(f[0]) = <<>> /\ Last(f[0]) = <<>>
    BY <2>1, FrontOfAppend
  <2>3. PICK Q : Q = Seq(S)
    OBVIOUS
  <2>4. PICK g : g[0] = <<>> /\ Lines(<<>>) = g[0]
    <3>1. <<>> \in Seq(Q) /\ Len(<<>>) = 0
      OBVIOUS
    <3> QED
      BY <2>3, <3>1, LinesSteps, ZenonT(60)
  <2>5. J(f[0]) = <<>>
    BY <2>2, <2>4
  <2>6. SubSeq(s, 1, 0) = <<>>
    OBVIOUS
  <2>7. J(f[0]) = SubSeq(s, 1, 0) /\ 0 \in 0 .. Len(s)
    BY <1>2, <2>5, <2>6
  <2> HIDE DEF J
  <2> QED
    BY <2>7
<1>6. ASSUME NEW i \in 0 .. (Len(s) - 1), i \in T PROVE i + 1 \in T
  <2>1. i \in Nat /\ i + 1 \in 1 .. Len(s) /\ i + 1 \in 0 .. Len(s) /\ i \in 0 .. Len(s) /\ (i + 1) - 1 = i
    BY <1>2
  <2>2. PICK rows \in Seq(Seq(S)) : rows = f[i] /\ rows # <<>>
    BY <1>3, <2>1
  <2>3. PICK c \in S : c = s[i + 1]
    BY <2>1
  <2>4. f[i + 1] = RowStep(rows, c)
    BY <1>1, <2>1, <2>2, <2>3
  <2>5. J(rows) = SubSeq(s, 1, i)
    BY <1>6, <2>2
  <2>6. SubSeq(s, 1, i + 1) = Append(SubSeq(s, 1, i), c)
    BY <2>1, <2>3
  <2>7. /\ Front(rows) \in Seq(Seq(S)) /\ Last(rows) \in Seq(S)
        /\ rows = Append(Front(rows), Last(rows)) /\ Len(Front(rows)) = Len(rows) - 1
    <3>1. PICK Q : Q = Seq(S)
      OBVIOUS
    <3>2. rows \in Seq(Q)
      BY <3>1
    <3> QED
      BY <2>2, <3>1, <3>2, FrontAndLast
  <2>8. Lines(Front(rows)) \in Seq(S)
    BY <1>4, <2>7
  <2>9. CASE c = NL
    <3>1. f[i + 1] = Append(rows, <<>>)
      BY <2>4, <2>9 DEF RowStep
    <3>2. Front(f[i + 1]) = rows /\ Last(f[i + 1]) = <<>>
      <4>1. PICK Q : Q = Seq(S)
        OBVIOUS
      <4>2. <<>> \in Q /\ rows \in Seq(Q)
        BY <4>1
      <4> QED
        BY <3>1, <4>2, FrontOfAppend
    <3>3. Lines(rows) = Lines(Front(rows)) \o Last(rows) \o <<NL>>
      BY <2>7, LinesAppend
    <3>4. J(f[i + 1]) = Lines(rows)
      <4>1. Lines(rows) \in Seq(S)
        BY <1>4
      <4>2. Lines(rows) \o <<>> = Lines(rows)
        BY <4>1
      <4> QED
        BY <3>2, <4>2
    <3>5. Lines(rows) = SubSeq(s, 1, i) \o <<NL>>
      BY <2>5, <3>3
    <3>6. SubSeq(s, 1, i) \o <<NL>> = Append(SubSeq(s, 1, i), c)
      <4>1. SubSeq(s, 1, i) \in Seq(S)
        BY <2>1
      <4> QED
        BY <2>9, <4>1
    <3> QED
      BY <2>1, <2>6, <3>4, <3>5, <3>6
  <2>10. CASE c # NL
    <3> DEFINE longer == Append(Last(rows), c)
    <3>1. f[i + 1] = [rows EXCEPT ![Len(rows)] = Append(rows[Len(rows)], c)]
      BY <2>4, <2>10 DEF RowStep
    <3>2. longer \in Seq(S) /\ Len(rows) \in Nat
      BY <2>7
    <3>3. f[i + 1] = Append(Front(rows), longer)
      <4>1. f[i + 1] = [rows EXCEPT ![Len(rows)] = longer]
        BY <3>1 DEF Last
      <4> HIDE DEF longer
      <4>2. PICK Q : Q = Seq(S)
        OBVIOUS
      <4>3. rows \in Seq(Q) /\ longer \in Q /\ Front(rows) \in Seq(Q)
        BY <2>7, <3>2, <4>2
      <4>4. Front(rows) = SubSeq(rows, 1, Len(rows) - 1)
        BY DEF Front
      <4> QED
        BY <2>2, <4>1, <4>3, <4>4, SMTT(30)
    <3>4. Front(f[i + 1]) = Front(rows) /\ Last(f[i + 1]) = longer
      <4> HIDE DEF longer
      <4>1. PICK Q : Q = Seq(S)
        OBVIOUS
      <4>2. longer \in Q /\ Front(rows) \in Seq(Q)
        BY <2>7, <3>2, <4>1
      <4> QED
        BY <3>3, <4>2, FrontOfAppend
    <3>5. Lines(Front(rows)) \o longer = Append(Lines(Front(rows)) \o Last(rows), c)
      BY <2>7, <2>8, SMTT(30)
    <3>6. J(f[i + 1]) = Append(J(rows), c)
      BY <3>4, <3>5
    <3> HIDE DEF J
    <3> QED
      BY <2>1, <2>5, <2>6, <3>6
  <2> QED
    BY <2>9, <2>10
<1>7. J(f[Len(s)]) = s
  <2>1. \A i \in 0 .. Len(s) : i \in T
    <3> HIDE DEF T
    <3> QED
      BY <1>2, <1>5, <1>6, UpToInduction
  <2>2. Len(s) \in T
    <3> HIDE DEF T
    <3> QED
      BY <1>2, <2>1
  <2>3. J(f[Len(s)]) = SubSeq(s, 1, Len(s))
    <3> HIDE DEF J
    <3> QED
      BY <2>2
  <2> HIDE DEF J, T
  <2> QED
    BY <2>3
<1>8. PICK rows \in Seq(Seq(S)) : rows = Rows(s) /\ rows # <<>> /\ J(rows) = s
  BY <1>1, <1>2, <1>3, <1>7
<1>9. /\ Front(rows) \in Seq(Seq(S)) /\ Last(rows) \in Seq(S) /\ rows = Append(Front(rows), Last(rows))
  <2>1. PICK Q : Q = Seq(S)
    OBVIOUS
  <2>2. rows \in Seq(Q)
    BY <2>1
  <2> QED
    BY <1>8, <2>1, <2>2, FrontAndLast
<1>10. Lines(rows) = Lines(Front(rows)) \o Last(rows) \o <<NL>>
  BY <1>9, LinesAppend
<1>11. Lines(rows) = s \o <<NL>>
  BY <1>8, <1>10
<1>12. Last(rows) = <<>> => Lines(Front(rows)) = s
  <2>1. Lines(Front(rows)) \in Seq(S)
    BY <1>4, <1>9
  <2>2. Lines(Front(rows)) \o <<>> = Lines(Front(rows))
    BY <2>1
  <2> QED
    BY <1>8, <2>2
<1> QED
  BY <1>8, <1>11, <1>12

Plain(S) == S \ {NL}

\* Rows hold no end of line.
LEMMA RowsPlain ==
    ASSUME NEW S, NEW s \in Seq(S)
    PROVE  Rows(s) \in Seq(Seq(Plain(S))) /\ Rows(s) # <<>>
<1>1. PICK n \in Nat : n = Len(s)
  OBVIOUS
<1>2. PICK f : /\ f[0] = <<<<>>>>
               /\ \A i \in 1 .. n : f[i] = RowStep(f[i - 1], s[i])
               /\ Rows(s) = f[n]
  BY <1>1, RowsSteps
<1> DEFINE T == {i \in 0 .. n : f[i] \in RowsOf(Plain(S))}
<1>3. 0 \in T
  <2>1. <<<<>>>> \in RowsOf(Plain(S))
    BY DEF RowsOf
  <2> QED
    BY <1>2, <2>1
<1>4. ASSUME NEW i \in 0 .. (n - 1), i \in T PROVE i + 1 \in T
  <2>1. i + 1 \in 1 .. n /\ i + 1 \in 0 .. n /\ (i + 1) - 1 = i
    OBVIOUS
  <2>2. PICK c \in S : c = s[i + 1]
    BY <1>1, <2>1
  <2>3. PICK rows \in RowsOf(Plain(S)) : rows = f[i]
    BY <1>4
  <2>4. f[i + 1] = RowStep(rows, c)
    BY <1>2, <2>1, <2>2, <2>3
  <2>5. CASE c = NL
    <3>1. f[i + 1] = Append(rows, <<>>) /\ <<>> \in Seq(Plain(S))
      BY <2>4, <2>5 DEF RowStep
    <3>2. PICK Q : Q = Seq(Plain(S))
      OBVIOUS
    <3>3. rows \in Seq(Q) /\ <<>> \in Q
      BY <3>1, <3>2 DEF RowsOf
    <3>4. Append(rows, <<>>) \in Seq(Q) /\ Append(rows, <<>>) # <<>>
      BY <3>3
    <3> QED
      BY <2>1, <3>1, <3>2, <3>4 DEF RowsOf
  <2>6. CASE c # NL
    <3>1. c \in Plain(S)
      BY <2>6 DEF Plain
    <3>2. RowStep(rows, c) \in RowsOf(Plain(S))
      BY <3>1, RowStepIn
    <3> QED
      BY <2>1, <2>4, <3>2
  <2> QED
    BY <2>5, <2>6
<1>5. n \in T
  <2> HIDE DEF T
  <2>1. \A i \in 0 .. n : i \in T
    BY <1>3, <1>4, UpToInduction
  <2> QED
    BY <2>1
<1> QED
  BY <1>2, <1>5 DEF RowsOf

------------------------------------------------------------------------------
(***************************************************************************)
(* The buffer of the GridBASIC editor                                      *)
(***************************************************************************)
Symbols == Words \cup {<<"num", n>> : n \in Nat}
Signs == Plain(Symbols)     \* what lines are made of

ShortRows == {row \in Seq(Signs) : Len(row) < LineLen}

\* Buffers, whose cursor may be beside the text.
Buffers ==
    [lines : Seq(ShortRows), row : Int, col : Int, path : Paths \cup {NoPath}, dirty : BOOLEAN]

Loose(b) == b \in Buffers /\ Len(b.lines) \in 1 .. MaxLines

BufferOK(b) == Loose(b) /\ b.row \in 1 .. Len(b.lines) /\ b.col \in 0 .. Len(Line(b))

LEMMA Sizes ==
    /\ LineLen \in Nat /\ MaxLines \in Nat /\ SrcMax \in Nat
    /\ LineLen > 2 /\ MaxLines > 0 /\ Tab = 4
  BY BufferAssumption DEF Tab

LEMMA RowsAreTexts ==
    /\ ShortRows \in SUBSET Seq(Signs) /\ ShortRows \in SUBSET Seq(Symbols) /\ <<>> \in ShortRows
    /\ \A row \in ShortRows : Len(row) \in Nat /\ Len(row) < LineLen
<1>1. <<>> \in Seq(Signs) /\ Len(<<>>) = 0
  OBVIOUS
<1>2. \A row \in Seq(Signs) : Len(row) \in Nat
  OBVIOUS
<1>3. Signs \subseteq Symbols
  BY DEF Signs, Plain
<1>4. \A row \in Seq(Signs) : row \in Seq(Symbols)
  BY <1>3, SeqMonotonic
<1> QED
  BY <1>1, <1>2, <1>4, Sizes DEF ShortRows

LEMMA RowFits ==
    ASSUME NEW row \in Seq(Signs), Len(row) < LineLen
    PROVE  row \in ShortRows
  BY DEF ShortRows

LEMMA SymbolsHave ==
    /\ NL \in Symbols /\ Blank \in Symbols /\ Chars \subseteq Symbols
    /\ Blank \in Signs /\ Chars \subseteq Signs /\ NL \notin Signs /\ Signs \subseteq Symbols
<1>1. NL \in Words /\ Blank \in Words /\ Chars \subseteq Words
  BY DEF Words
<1>2. Blank # NL
  BY DEF Blank, NL
<1> QED
  BY <1>1, <1>2, EditorsAssumption DEF Symbols, Signs, Plain

LEMMA LooseHas ==
    ASSUME NEW b, Loose(b)
    PROVE  /\ b \in Buffers /\ b.lines \in Seq(ShortRows) /\ Len(b.lines) \in 1 .. MaxLines
           /\ Len(b.lines) \in Nat /\ Len(b.lines) >= 1
           /\ b.row \in Int /\ b.col \in Int /\ b.dirty \in BOOLEAN
           /\ \A i \in 1 .. Len(b.lines) : b.lines[i] \in ShortRows /\ Len(b.lines[i]) \in Nat
<1>1. /\ b \in Buffers /\ b.lines \in Seq(ShortRows) /\ Len(b.lines) \in 1 .. MaxLines
      /\ b.row \in Int /\ b.col \in Int /\ b.dirty \in BOOLEAN
  BY DEF Loose, Buffers
<1>2. \A i \in 1 .. Len(b.lines) : b.lines[i] \in ShortRows
  BY <1>1
<1> QED
  BY <1>1, <1>2, RowsAreTexts, Sizes

LEMMA BufferHas ==
    ASSUME NEW b, BufferOK(b)
    PROVE  /\ Loose(b)
           /\ b.row \in 1 .. Len(b.lines) /\ b.col \in 0 .. Len(Line(b))
           /\ Line(b) = b.lines[b.row] /\ Line(b) \in ShortRows
           /\ Line(b) \in Seq(Signs) /\ Len(Line(b)) \in Nat /\ Len(Line(b)) < LineLen
<1>1. Loose(b) /\ b.row \in 1 .. Len(b.lines) /\ b.col \in 0 .. Len(Line(b)) /\ Line(b) = b.lines[b.row]
  BY DEF BufferOK, Line
<1>2. Line(b) \in ShortRows
  BY <1>1, LooseHas
<1> QED
  BY <1>1, <1>2, RowsAreTexts

LEMMA EmptyOK == BufferOK(EmptyBuffer) /\ EmptyBuffer.lines = <<<<>>>> /\ EmptyBuffer.dirty = FALSE
<1>1. <<<<>>>> \in Seq(ShortRows) /\ Len(<<<<>>>>) = 1 /\ <<<<>>>>[1] = <<>> /\ Len(<<>>) = 0
  BY RowsAreTexts
<1>2. /\ EmptyBuffer.lines = <<<<>>>> /\ EmptyBuffer.row = 1 /\ EmptyBuffer.col = 0
      /\ EmptyBuffer.dirty = FALSE
  BY DEF EmptyBuffer
<1>3. EmptyBuffer \in Buffers
  BY <1>1 DEF EmptyBuffer, Buffers
<1>4. Len(EmptyBuffer.lines) = 1 /\ Len(Line(EmptyBuffer)) = 0
  BY <1>1, <1>2 DEF Line
<1>5. 1 \in 1 .. MaxLines
  BY Sizes
<1> QED
  BY <1>2, <1>3, <1>4, <1>5 DEF BufferOK, Loose

LEMMA ClampOK ==
    ASSUME NEW b, Loose(b)
    PROVE  /\ BufferOK(clamp_cursor(b)) /\ clamp_cursor(b).lines = b.lines
           /\ clamp_cursor(b).dirty = b.dirty
<1>1. PICK row : row = Within(b.row, 1, Len(b.lines))
  OBVIOUS
<1>2. row \in 1 .. Len(b.lines)
  <2>1. b.row \in Int /\ Len(b.lines) \in Nat /\ Len(b.lines) >= 1
    BY LooseHas
  <2> QED
    BY <1>1, <2>1 DEF Within
<1>3. b.lines[row] \in ShortRows /\ Len(b.lines[row]) \in Nat
  BY <1>2, LooseHas
<1>4. PICK col : col = Within(b.col, 0, Len(b.lines[row]))
  OBVIOUS
<1>5. col \in 0 .. Len(b.lines[row])
  <2>1. b.col \in Int /\ Len(b.lines[row]) \in Int /\ 0 <= Len(b.lines[row])
    BY <1>3, LooseHas
  <2> QED
    BY <1>4, <2>1 DEF Within
<1>6. PICK c : c = [b EXCEPT !.row = row, !.col = col]
  OBVIOUS
<1>7. clamp_cursor(b) = c
  BY <1>1, <1>4, <1>6 DEF clamp_cursor
<1>8. b \in Buffers /\ row \in Int /\ col \in Int
  BY <1>2, <1>5, LooseHas
<1>9. c \in Buffers /\ c.row = row /\ c.col = col /\ c.lines = b.lines /\ c.dirty = b.dirty
  BY <1>6, <1>8 DEF Buffers
<1>10. Len(c.lines) \in 1 .. MaxLines
  BY <1>9, LooseHas
<1> QED
  BY <1>2, <1>5, <1>7, <1>9, <1>10 DEF BufferOK, Loose, Line

LEMMA MovedOK ==
    ASSUME NEW b, Loose(b), NEW row \in Int, NEW col \in Int,
           NEW c, c = [b EXCEPT !.row = row, !.col = col]
    PROVE  Loose(c) /\ c.lines = b.lines /\ c.dirty = b.dirty /\ c.row = row /\ c.col = col
<1>1. b \in Buffers
  BY DEF Loose
<1>2. c \in Buffers /\ c.lines = b.lines /\ c.dirty = b.dirty /\ c.row = row /\ c.col = col
  BY <1>1 DEF Buffers
<1> QED
  BY <1>2 DEF Loose

LEMMA BesideOK ==
    ASSUME NEW b, Loose(b), NEW col \in Int, NEW c, c = [b EXCEPT !.col = col]
    PROVE  Loose(c) /\ c.lines = b.lines /\ c.dirty = b.dirty /\ c.row = b.row /\ c.col = col
<1>1. b \in Buffers
  BY DEF Loose
<1>2. c \in Buffers /\ c.lines = b.lines /\ c.dirty = b.dirty /\ c.row = b.row /\ c.col = col
  BY <1>1 DEF Buffers
<1> QED
  BY <1>2 DEF Loose

LEMMA ChangedOK ==
    ASSUME NEW b, BufferOK(b)
    PROVE  BufferOK(Changed(b)) /\ Changed(b).dirty = TRUE
<1>1. PICK c : c = [b EXCEPT !.dirty = TRUE]
  OBVIOUS
<1>2. b \in Buffers
  BY DEF BufferOK, Loose
<1>3. c \in Buffers /\ c.lines = b.lines /\ c.row = b.row /\ c.col = b.col /\ c.dirty = TRUE
  BY <1>1, <1>2 DEF Buffers
<1>4. Changed(b) = c
  BY <1>1 DEF Changed
<1> QED
  BY <1>3, <1>4 DEF BufferOK, Loose, Line

\* A buffer with other lines.
LEMMA RelinedOK ==
    ASSUME NEW b, Loose(b), NEW rows \in Seq(ShortRows), Len(rows) \in 1 .. MaxLines,
           NEW c, c = [b EXCEPT !.lines = rows]
    PROVE  Loose(c) /\ c.lines = rows /\ c.row = b.row /\ c.col = b.col
<1>1. b \in Buffers
  BY DEF Loose
<1>2. c \in Buffers /\ c.lines = rows /\ c.row = b.row /\ c.col = b.col
  BY <1>1 DEF Buffers
<1> QED
  BY <1>2 DEF Loose

LEMMA RowPut ==
    ASSUME NEW S, NEW rows \in Seq(S), NEW i \in 1 .. Len(rows), NEW row \in S
    PROVE  /\ [rows EXCEPT ![i] = row] \in Seq(S)
           /\ Len([rows EXCEPT ![i] = row]) = Len(rows)
           /\ [rows EXCEPT ![i] = row][i] = row
           /\ \A j \in 1 .. Len(rows) : j # i => [rows EXCEPT ![i] = row][j] = rows[j]
  BY ExceptSeq

------------------------------------------------------------------------------
(***************************************************************************)
(* What the keys make of a buffer                                          *)
(***************************************************************************)
LEMMA InsertCharOK ==
    ASSUME NEW b, BufferOK(b), NEW c \in Signs
    PROVE  BufferOK(insert_char_at(b, c))
<1>1. CASE Len(Line(b)) + 1 >= LineLen
  BY <1>1 DEF insert_char_at
<1>2. CASE ~ (Len(Line(b)) + 1 >= LineLen)
  <2>1. /\ Line(b) = b.lines[b.row] /\ Line(b) \in Seq(Signs) /\ Len(Line(b)) \in Nat
        /\ b.row \in 1 .. Len(b.lines) /\ b.col \in 0 .. Len(Line(b)) /\ Loose(b)
    BY BufferHas
  <2>2. PICK row : row = InsertAt(Line(b), b.col + 1, c)
    OBVIOUS
  <2>3. row \in Seq(Signs) /\ Len(row) = Len(Line(b)) + 1
    <3>1. b.col + 1 \in 1 .. (Len(Line(b)) + 1)
      BY <2>1
    <3> QED
      BY <2>1, <2>2, <3>1, Inserted
  <2>4. row \in ShortRows
    <3>1. Len(row) < LineLen
      BY <1>2, <2>1, <2>3, Sizes
    <3> QED
      BY <2>3, <3>1, RowFits
  <2>5. PICK rows : rows = [b.lines EXCEPT ![b.row] = row]
    OBVIOUS
  <2>6. b.lines \in Seq(ShortRows) /\ Len(b.lines) \in 1 .. MaxLines /\ b \in Buffers
    BY <2>1, LooseHas
  <2>7. rows \in Seq(ShortRows) /\ Len(rows) = Len(b.lines) /\ rows[b.row] = row
    BY <2>1, <2>4, <2>5, <2>6, RowPut
  <2>8. insert_char_at(b, c) = [b EXCEPT !.lines = rows]
    <3>1. insert_char_at(b, c) = [b EXCEPT !.lines[b.row] = row]
      BY <1>2, <2>1, <2>2 DEF insert_char_at
    <3> QED
      BY <2>5, <2>6, <3>1 DEF Buffers
  <2>9. PICK d : d = insert_char_at(b, c)
    OBVIOUS
  <2>10. Loose(d) /\ d.lines = rows /\ d.row = b.row /\ d.col = b.col
    BY <2>1, <2>6, <2>7, <2>8, <2>9, RelinedOK
  <2>11. d.row \in 1 .. Len(d.lines) /\ d.col \in 0 .. Len(d.lines[d.row])
    BY <2>1, <2>3, <2>7, <2>10
  <2> QED
    BY <2>9, <2>10, <2>11 DEF BufferOK, Line
<1> QED
  BY <1>1, <1>2

LEMMA TypeCharOK ==
    ASSUME NEW b, BufferOK(b), NEW c \in Signs
    PROVE  BufferOK(TypeChar(b, c)) /\ TypeChar(b, c).dirty = TRUE
<1>1. PICK d : d = insert_char_at(b, c)
  OBVIOUS
<1>2. BufferOK(d) /\ Loose(d) /\ d.col + 1 \in Int
  BY <1>1, InsertCharOK, BufferHas, LooseHas
<1>3. PICK e : e = [d EXCEPT !.col = d.col + 1]
  OBVIOUS
<1>4. BufferOK(clamp_cursor(e))
  BY <1>2, <1>3, BesideOK, ClampOK
<1>5. TypeChar(b, c) = Changed(clamp_cursor(e))
  BY <1>1, <1>3 DEF TypeChar
<1> QED
  BY <1>4, <1>5, ChangedOK

GoodBuffers == {b \in Buffers : BufferOK(b)}

TabStep(b, i) == insert_char_at(b, Blank)

Keys == [i \in 1 .. Tab |-> i]

Tabbed(b) == FoldLeft(LAMBDA x, i : insert_char_at(x, Blank), b, Keys)

\* A tab is blanks, one after the other.
LEMMA TabSteps ==
    ASSUME NEW b \in GoodBuffers
    PROVE  \E f : /\ f[0] = b
                  /\ \A i \in 1 .. Len(Keys) : f[i] = TabStep(f[i - 1], Keys[i])
                  /\ \A i \in 0 .. Len(Keys) : f[i] \in GoodBuffers
                  /\ Tabbed(b) = f[Len(Keys)]
<1>1. PICK N \in Nat : N = Len(Keys) /\ DOMAIN Keys = 1 .. N
  <2>1. Len(Keys) = 4 /\ DOMAIN Keys = 1 .. 4
    BY Sizes DEF Keys
  <2> QED
    BY <2>1
<1>2. PICK A : A = GoodBuffers
  OBVIOUS
<1>3. b \in A /\ \A i \in 1 .. N : \A a \in A : TabStep(a, Keys[i]) \in A
  <2>1. ASSUME NEW a \in GoodBuffers PROVE insert_char_at(a, Blank) \in GoodBuffers
    BY InsertCharOK, SymbolsHave DEF GoodBuffers, BufferOK, Loose
  <2> QED
    BY <1>2, <2>1 DEF TabStep
<1>4. PICK step : step = [i \in 1 .. N |-> [a \in A |-> TabStep(a, Keys[i])]]
  OBVIOUS
<1>5. step \in [1 .. N -> [A -> A]]
  BY <1>3, <1>4
<1>6. PICK g : FoldOf(g, N, A, b, step)
  BY <1>3, <1>5, FoldSteps
<1> DEFINE body(h) == [J \in SUBSET DOMAIN Keys |->
                         IF J = {} THEN b ELSE TabStep(h[J \ {Max(J)}], Keys[Max(J)])]
           iter == CHOOSE h : h = body(h)
           f == [i \in 0 .. N |-> iter[1 .. i]]
<1>7. g = body(g)
  <2>1. \A J \in SUBSET (1 .. N) : J # {} => g[J] = TabStep(g[J \ {Max(J)}], Keys[Max(J)])
    <3> TAKE J \in SUBSET (1 .. N)
    <3> HAVE J # {}
    <3>1. Max(J) \in 1 .. N /\ J \ {Max(J)} \in SUBSET (1 .. N)
      BY LargestOf
    <3>2. g[J] = step[Max(J)][g[J \ {Max(J)}]] /\ g[J \ {Max(J)}] \in A
      BY <1>6, <3>1 DEF FoldOf
    <3> QED
      BY <1>4, <3>1, <3>2
  <2> QED
    BY <1>1, <1>6, <2>1 DEF FoldOf
<1>8. iter = body(iter)
  <2> HIDE DEF body
  <2> QED
    BY <1>7, Zenon
<1>9. Tabbed(b) = f[N]
  <2>1. Tabbed(b) = iter[DOMAIN Keys]
    BY DEF Tabbed, TabStep, FoldLeft, MapThenFoldSet
  <2> HIDE DEF iter
  <2> QED
    BY <1>1, <2>1
<1> HIDE DEF iter
<1>10. f[0] = b
  BY <1>1, <1>8
<1>11. ASSUME NEW i \in 1 .. N PROVE f[i] = TabStep(f[i - 1], Keys[i])
  <2>1. Max(1 .. i) = i /\ (1 .. i) \ {i} = 1 .. (i - 1)
    BY LargestUpTo
  <2>2. 1 .. i \in SUBSET DOMAIN Keys /\ 1 .. i # {}
    <3>1. DOMAIN Keys = 1 .. N
      BY <1>1
    <3>2. 1 .. i \in SUBSET (1 .. N) /\ 1 .. i # {}
      BY FirstNumbers
    <3> QED
      BY <3>1, <3>2
  <2>3. iter[1 .. i] = TabStep(iter[(1 .. i) \ {Max(1 .. i)}], Keys[Max(1 .. i)])
    BY <1>8, <2>2
  <2>4. f[i] = iter[1 .. i] /\ f[i - 1] = iter[1 .. (i - 1)]
    BY <1>1
  <2> HIDE DEF f, body
  <2> QED
    BY <2>1, <2>3, <2>4
<1> HIDE DEF f
<1> DEFINE T == {i \in 0 .. N : f[i] \in A}
<1>12. \A i \in 0 .. N : i \in T
  <2>1. 0 \in T
    BY <1>3, <1>10
  <2>2. ASSUME NEW i \in 0 .. (N - 1), i \in T PROVE i + 1 \in T
    <3>1. i + 1 \in 1 .. N /\ (i + 1) - 1 = i
      OBVIOUS
    <3>2. f[i + 1] = TabStep(f[i], Keys[i + 1])
      BY <1>11, <3>1
    <3>3. TabStep(f[i], Keys[i + 1]) \in A
      BY <1>3, <2>2, <3>1
    <3> QED
      BY <3>1, <3>2, <3>3
  <2> HIDE DEF T
  <2> QED
    BY <2>1, <2>2, UpToInduction
<1> QED
  BY <1>1, <1>2, <1>9, <1>10, <1>11, <1>12

LEMMA TypeTabOK ==
    ASSUME NEW b, BufferOK(b)
    PROVE  BufferOK(TypeTab(b)) /\ TypeTab(b).dirty = TRUE
<1>1. PICK d : d = Tabbed(b)
  OBVIOUS
<1>2. b \in GoodBuffers
  BY DEF GoodBuffers, BufferOK, Loose
<1>3. d \in GoodBuffers
  <2>1. PICK f : /\ \A i \in 0 .. Len(Keys) : f[i] \in GoodBuffers
                 /\ d = f[Len(Keys)]
    BY <1>1, <1>2, TabSteps
  <2>2. Len(Keys) \in 0 .. Len(Keys)
    BY Sizes DEF Keys
  <2> QED
    BY <2>1, <2>2
<1>4. Loose(d) /\ d.col + Tab \in Int
  BY <1>3, BufferHas, LooseHas, Sizes DEF GoodBuffers
<1>5. PICK e : e = [d EXCEPT !.col = d.col + Tab]
  OBVIOUS
<1>6. BufferOK(clamp_cursor(e))
  BY <1>4, <1>5, BesideOK, ClampOK
<1>7. TypeTab(b) = Changed(clamp_cursor(e))
  BY <1>1, <1>5 DEF TypeTab, Tabbed, Keys
<1> QED
  BY <1>6, <1>7, ChangedOK

\* A part of a line is a line.
LEMMA PartOfRow ==
    ASSUME NEW row \in ShortRows, NEW m \in 1 .. (Len(row) + 1), NEW n \in (m - 1) .. Len(row)
    PROVE  SubSeq(row, m, n) \in ShortRows
<1>1. row \in Seq(Signs) /\ Len(row) \in Nat /\ Len(row) < LineLen
  BY RowsAreTexts
<1>2. SubSeq(row, m, n) \in Seq(Signs) /\ Len(SubSeq(row, m, n)) = n - m + 1
  BY <1>1, Part
<1>3. Len(SubSeq(row, m, n)) < LineLen
  BY <1>1, <1>2, Sizes
<1> QED
  BY <1>2, <1>3, RowFits

LEMMA SplitOK ==
    ASSUME NEW b, BufferOK(b)
    PROVE  Loose(split_line(b)) /\ split_line(b).row = b.row
<1>1. /\ Line(b) = b.lines[b.row] /\ Line(b) \in ShortRows /\ Len(Line(b)) \in Nat
      /\ b.row \in 1 .. Len(b.lines) /\ b.col \in 0 .. Len(Line(b)) /\ Loose(b)
  BY BufferHas
<1>2. CASE Len(b.lines) >= MaxLines
  BY <1>1, <1>2 DEF split_line
<1>3. CASE ~ (Len(b.lines) >= MaxLines)
  <2>1. PICK before, after : /\ before = SubSeq(Line(b), 1, b.col)
                             /\ after = SubSeq(Line(b), b.col + 1, Len(Line(b)))
    OBVIOUS
  <2>2. before \in ShortRows
    <3>1. 1 \in 1 .. (Len(Line(b)) + 1) /\ b.col \in (1 - 1) .. Len(Line(b))
      BY <1>1
    <3> QED
      BY <1>1, <2>1, <3>1, PartOfRow
  <2>3. after \in ShortRows
    <3>1. b.col + 1 \in 1 .. (Len(Line(b)) + 1) /\ Len(Line(b)) \in ((b.col + 1) - 1) .. Len(Line(b))
      BY <1>1
    <3> QED
      BY <1>1, <2>1, <3>1, PartOfRow
  <2>4. PICK cut : cut = [b.lines EXCEPT ![b.row] = before]
    OBVIOUS
  <2>5. b.lines \in Seq(ShortRows) /\ Len(b.lines) \in 1 .. MaxLines /\ Len(b.lines) \in Nat
    BY <1>1, LooseHas
  <2>6. cut \in Seq(ShortRows) /\ Len(cut) = Len(b.lines)
    BY <1>1, <2>2, <2>4, <2>5, RowPut
  <2>7. PICK rows : rows = InsertAt(cut, b.row + 1, after)
    OBVIOUS
  <2>8. rows \in Seq(ShortRows) /\ Len(rows) = Len(b.lines) + 1
    <3>1. b.row + 1 \in 1 .. (Len(cut) + 1)
      BY <1>1, <2>5, <2>6
    <3> QED
      BY <2>3, <2>6, <2>7, <3>1, Inserted
  <2>9. Len(rows) \in 1 .. MaxLines
    BY <1>3, <2>5, <2>8, Sizes
  <2>10. split_line(b) = [b EXCEPT !.lines = rows]
    BY <1>3, <2>1, <2>4, <2>7 DEF split_line
  <2> QED
    BY <1>1, <2>8, <2>9, <2>10, RelinedOK
<1> QED
  BY <1>2, <1>3

LEMMA EnterOK ==
    ASSUME NEW b, BufferOK(b)
    PROVE  BufferOK(Enter(b)) /\ Enter(b).dirty = TRUE
<1>1. PICK d : d = split_line(b)
  OBVIOUS
<1>2. Loose(d) /\ d.row + 1 \in Int /\ 0 \in Int
  BY <1>1, SplitOK, LooseHas
<1>3. PICK e : e = [d EXCEPT !.row = d.row + 1, !.col = 0]
  OBVIOUS
<1>4. BufferOK(clamp_cursor(e))
  BY <1>2, <1>3, MovedOK, ClampOK, ZenonT(60)
<1>5. Enter(b) = Changed(clamp_cursor(e))
  BY <1>1, <1>3 DEF Enter
<1> QED
  BY <1>4, <1>5, ChangedOK

Fits(b, above) == Len(above) + Len(Line(b)) + 1 < LineLen

LEMMA MergeOK ==
    ASSUME NEW b, BufferOK(b)
    PROVE  Loose(merge_up(b))
<1>1. /\ Line(b) \in ShortRows /\ Line(b) \in Seq(Signs) /\ Len(Line(b)) \in Nat
      /\ b.row \in 1 .. Len(b.lines) /\ Loose(b)
  BY BufferHas
<1>2. PICK above : above = b.lines[b.row - 1]
  OBVIOUS
<1>4. PICK part : part = IF Fits(b, above) THEN Line(b) ELSE Upto(Line(b), LineLen - 2 - Len(above))
  OBVIOUS
<1>5. PICK rows : rows = [WithoutRow(b, b.row) EXCEPT ![b.row - 1] = above \o part]
  OBVIOUS
<1>6. merge_up(b) = IF b.row = 1 \/ (~ Fits(b, above) /\ Len(above) + 2 >= LineLen) THEN b
                    ELSE [b EXCEPT !.lines = rows, !.row = b.row - 1, !.col = Len(above)]
  BY <1>2, <1>4, <1>5, Zenon DEF merge_up, Fits
<1>7. CASE b.row = 1 \/ (~ Fits(b, above) /\ Len(above) + 2 >= LineLen)
  BY <1>1, <1>6, <1>7
<1>8. CASE ~ (b.row = 1 \/ (~ Fits(b, above) /\ Len(above) + 2 >= LineLen))
  <2>1. b.lines \in Seq(ShortRows) /\ Len(b.lines) \in 1 .. MaxLines /\ Len(b.lines) \in Nat /\ b \in Buffers
    BY <1>1, LooseHas
  <2>2. b.row - 1 \in 1 .. Len(b.lines) /\ b.row - 1 \in 1 .. (Len(b.lines) - 1)
    BY <1>1, <1>8, <2>1
  <2>3. above \in ShortRows /\ above \in Seq(Signs) /\ Len(above) \in Nat
    <3>1. above \in ShortRows
      BY <1>2, <2>1, <2>2
    <3> QED
      BY <3>1, RowsAreTexts
  <2>4. part \in Seq(Signs) /\ Len(part) \in Nat /\ Len(above) + Len(part) < LineLen
    <3>1. CASE Fits(b, above)
      BY <1>1, <1>4, <2>3, <3>1, Sizes DEF Fits
    <3>2. CASE ~ Fits(b, above)
      <4>1. PICK n \in Nat : n = LineLen - 2 - Len(above)
        <5>1. ~ (Len(above) + 2 >= LineLen)
          BY <1>8, <3>2
        <5>2. LineLen - 2 - Len(above) \in Nat
          BY <2>3, <5>1, Sizes
        <5> QED
          BY <5>2
      <4>2. part = Upto(Line(b), n)
        BY <1>4, <3>2, <4>1
      <4>3. part \in Seq(Signs) /\ Len(part) = IF n < Len(Line(b)) THEN n ELSE Len(Line(b))
        BY <1>1, <4>2, AtMost
      <4> QED
        BY <1>1, <2>3, <4>1, <4>3, Sizes
    <3> QED
      BY <3>1, <3>2
  <2>5. above \o part \in ShortRows
    <3>1. above \o part \in Seq(Signs) /\ Len(above \o part) = Len(above) + Len(part)
      BY <2>3, <2>4
    <3> QED
      BY <2>4, <3>1, RowFits
  <2>6. WithoutRow(b, b.row) \in Seq(ShortRows) /\ Len(WithoutRow(b, b.row)) = Len(b.lines) - 1
    BY <1>1, <2>1, Removed DEF WithoutRow
  <2>7. rows \in Seq(ShortRows) /\ Len(rows) = Len(b.lines) - 1
    <3>1. PICK fewer : fewer = WithoutRow(b, b.row)
      OBVIOUS
    <3>2. b.row - 1 \in 1 .. Len(fewer)
      BY <2>2, <2>6, <3>1
    <3> QED
      BY <1>5, <2>5, <2>6, <3>1, <3>2, RowPut
  <2>8. Len(rows) \in 1 .. MaxLines
    BY <2>1, <2>2, <2>7, Sizes
  <2>9. PICK c : c = [b EXCEPT !.lines = rows, !.row = b.row - 1, !.col = Len(above)]
    OBVIOUS
  <2>10. b.row - 1 \in Int /\ Len(above) \in Int
    BY <2>2, <2>3
  <2>11. c \in Buffers /\ c.lines = rows
    BY <2>1, <2>7, <2>9, <2>10 DEF Buffers
  <2>12. merge_up(b) = c
    BY <1>6, <1>8, <2>9
  <2> QED
    BY <2>8, <2>11, <2>12 DEF Loose
<1> QED
  BY <1>7, <1>8

LEMMA DeleteCharOK ==
    ASSUME NEW b, BufferOK(b)
    PROVE  BufferOK(delete_char(b))
<1>1. /\ Line(b) = b.lines[b.row] /\ Line(b) \in ShortRows /\ Line(b) \in Seq(Signs)
      /\ Len(Line(b)) \in Nat /\ Len(Line(b)) < LineLen
      /\ b.row \in 1 .. Len(b.lines) /\ b.col \in 0 .. Len(Line(b)) /\ Loose(b)
  BY BufferHas
<1>2. b.lines \in Seq(ShortRows) /\ Len(b.lines) \in 1 .. MaxLines /\ Len(b.lines) \in Nat /\ b \in Buffers
  BY <1>1, LooseHas
<1>3. ASSUME NEW rows \in Seq(ShortRows), Len(rows) \in 1 .. MaxLines, b.row \in 1 .. Len(rows),
             NEW row \in ShortRows, rows[b.row] = row, b.col <= Len(row),
             delete_char(b) = [b EXCEPT !.lines = rows]
      PROVE  BufferOK(delete_char(b))
  <2>1. PICK d : d = [b EXCEPT !.lines = rows]
    OBVIOUS
  <2>2. Loose(d) /\ d.lines = rows /\ d.row = b.row /\ d.col = b.col
    BY <1>1, <1>3, <2>1, RelinedOK
  <2>3. d.row \in 1 .. Len(d.lines) /\ d.col \in 0 .. Len(d.lines[d.row])
    <3>1. Len(row) \in Nat
      BY RowsAreTexts
    <3> QED
      BY <1>1, <1>3, <2>2, <3>1
  <2> QED
    BY <1>3, <2>1, <2>2, <2>3 DEF BufferOK, Line
<1>4. CASE b.col < Len(Line(b))
  <2>1. PICK row : row = RemoveAt(Line(b), b.col + 1)
    OBVIOUS
  <2>2. row \in Seq(Signs) /\ Len(row) = Len(Line(b)) - 1
    <3>1. b.col + 1 \in 1 .. Len(Line(b))
      BY <1>1, <1>4
    <3> QED
      BY <1>1, <2>1, <3>1, Removed
  <2>3. row \in ShortRows
    <3>1. Len(row) < LineLen
      BY <1>1, <2>2, Sizes
    <3> QED
      BY <2>2, <3>1, RowFits
  <2>4. PICK rows : rows = [b.lines EXCEPT ![b.row] = row]
    OBVIOUS
  <2>5. rows \in Seq(ShortRows) /\ Len(rows) = Len(b.lines) /\ rows[b.row] = row
    BY <1>1, <1>2, <2>3, <2>4, RowPut
  <2>6. delete_char(b) = [b EXCEPT !.lines = rows]
    <3>1. delete_char(b) = [b EXCEPT !.lines[b.row] = RemoveAt(b.lines[b.row], b.col + 1)]
      BY <1>4 DEF delete_char
    <3>2. delete_char(b) = [b EXCEPT !.lines[b.row] = row]
      BY <1>1, <2>1, <3>1
    <3> QED
      BY <1>2, <2>4, <3>2 DEF Buffers
  <2>7. b.col <= Len(row)
    BY <1>1, <1>4, <2>2
  <2> QED
    BY <1>1, <1>2, <1>3, <2>3, <2>5, <2>6, <2>7
<1>5. CASE ~ (b.col < Len(Line(b))) /\ b.row = Len(b.lines)
  BY <1>5 DEF delete_char
<1>6. CASE ~ (b.col < Len(Line(b))) /\ b.row # Len(b.lines)
  <2>1. PICK next : next = b.lines[b.row + 1]
    OBVIOUS
  <2>2. b.row + 1 \in 1 .. Len(b.lines)
    BY <1>1, <1>2, <1>6
  <2>3. next \in ShortRows /\ next \in Seq(Signs) /\ Len(next) \in Nat
    <3>1. next \in ShortRows
      BY <1>2, <2>1, <2>2
    <3> QED
      BY <3>1, RowsAreTexts
  <2>4. PICK row : row = IF Len(Line(b)) + Len(next) + 1 < LineLen THEN Line(b) \o next ELSE Line(b)
    OBVIOUS
  <2>5. row \in ShortRows /\ b.col <= Len(row)
    <3>1. CASE Len(Line(b)) + Len(next) + 1 < LineLen
      <4>1. row \in Seq(Signs) /\ Len(row) = Len(Line(b)) + Len(next)
        BY <1>1, <2>3, <2>4, <3>1
      <4>2. Len(row) < LineLen /\ b.col <= Len(row)
        BY <1>1, <2>3, <3>1, <4>1, Sizes
      <4> QED
        BY <4>1, <4>2, RowFits
    <3>2. CASE ~ (Len(Line(b)) + Len(next) + 1 < LineLen)
      BY <1>1, <2>4, <3>2
    <3> QED
      BY <3>1, <3>2
  <2>6. PICK fewer : fewer = WithoutRow(b, b.row + 1)
    OBVIOUS
  <2>7. fewer \in Seq(ShortRows) /\ Len(fewer) = Len(b.lines) - 1
    BY <1>2, <2>2, <2>6, Removed DEF WithoutRow
  <2>8. b.row \in 1 .. Len(fewer)
    BY <1>1, <2>2, <2>7
  <2>9. PICK rows : rows = [fewer EXCEPT ![b.row] = row]
    OBVIOUS
  <2>10. rows \in Seq(ShortRows) /\ Len(rows) = Len(fewer) /\ rows[b.row] = row
    BY <2>5, <2>7, <2>8, <2>9, RowPut
  <2>11. Len(rows) \in 1 .. MaxLines /\ b.row \in 1 .. Len(rows)
    BY <1>1, <1>2, <2>7, <2>8, <2>10, Sizes
  <2>12. delete_char(b) = [b EXCEPT !.lines = rows]
    BY <1>6, <2>1, <2>4, <2>6, <2>9, Zenon DEF delete_char
  <2> QED
    BY <1>3, <2>5, <2>10, <2>11, <2>12
<1> QED
  BY <1>4, <1>5, <1>6

LEMMA BackspaceOK ==
    ASSUME NEW b, BufferOK(b)
    PROVE  BufferOK(Backspace(b)) /\ Backspace(b).dirty = TRUE
<1>1. Loose(b) /\ b.row \in 1 .. Len(b.lines) /\ b.col \in 0 .. Len(Line(b))
      /\ Len(Line(b)) \in Nat /\ Line(b) = b.lines[b.row]
  BY BufferHas
<1>2. PICK d : d = IF b.col = 0 THEN merge_up(b) ELSE delete_char([b EXCEPT !.col = b.col - 1])
  OBVIOUS
<1>3. Loose(d)
  <2>1. CASE b.col = 0
    BY <1>2, <2>1, MergeOK
  <2>2. CASE b.col # 0
    <3>1. PICK e : e = [b EXCEPT !.col = b.col - 1]
      OBVIOUS
    <3>2. b.col - 1 \in Int
      BY <1>1
    <3>3. Loose(e) /\ e.lines = b.lines /\ e.row = b.row /\ e.col = b.col - 1
      BY <1>1, <3>1, <3>2, BesideOK
    <3>4. BufferOK(e)
      BY <1>1, <2>2, <3>3 DEF BufferOK, Line
    <3>5. d = delete_char(e)
      BY <1>2, <2>2, <3>1
    <3> QED
      BY <3>4, <3>5, DeleteCharOK, BufferHas
  <2> QED
    BY <2>1, <2>2
<1>4. Backspace(b) = Changed(clamp_cursor(d))
  BY <1>2 DEF Backspace
<1> QED
  BY <1>3, <1>4, ClampOK, ChangedOK, ZenonT(60)

LEMMA DeleteOK ==
    ASSUME NEW b, BufferOK(b)
    PROVE  BufferOK(Delete(b)) /\ Delete(b).dirty = TRUE
  BY DeleteCharOK, ChangedOK DEF Delete

LEMMA ArrowOK ==
    ASSUME NEW b, BufferOK(b), NEW dr \in Int, NEW dc \in Int
    PROVE  /\ BufferOK(Arrow(b, dr, dc)) /\ Arrow(b, dr, dc).lines = b.lines
           /\ Arrow(b, dr, dc).dirty = b.dirty
<1>1. Loose(b) /\ b.row + dr \in Int /\ b.col + dc \in Int
  BY BufferHas, LooseHas
<1>2. PICK c : c = [b EXCEPT !.row = b.row + dr, !.col = b.col + dc]
  OBVIOUS
<1>3. Loose(c) /\ c.lines = b.lines /\ c.dirty = b.dirty
  <2>1. PICK row \in Int, col \in Int : row = b.row + dr /\ col = b.col + dc
    BY <1>1
  <2>2. c = [b EXCEPT !.row = row, !.col = col]
    BY <1>2, <2>1
  <2> QED
    BY <1>1, <2>1, <2>2 DEF Loose, Buffers
<1>4. Arrow(b, dr, dc) = clamp_cursor(c)
  BY <1>2 DEF Arrow
<1> QED
  BY <1>3, <1>4, ClampOK

LEMMA EndsOK ==
    ASSUME NEW b, BufferOK(b), NEW c, c \in {Home(b), EndKey(b)}
    PROVE  BufferOK(c) /\ c.lines = b.lines /\ c.dirty = b.dirty
<1>1. /\ Loose(b) /\ b.row \in 1 .. Len(b.lines) /\ Len(Line(b)) \in Nat /\ Line(b) = b.lines[b.row]
  BY BufferHas
<1>2. ASSUME NEW col \in 0 .. Len(Line(b)), c = [b EXCEPT !.col = col]
      PROVE  BufferOK(c) /\ c.lines = b.lines /\ c.dirty = b.dirty
  <2>1. col \in Int
    BY <1>1
  <2>2. Loose(c) /\ c.lines = b.lines /\ c.dirty = b.dirty /\ c.row = b.row /\ c.col = col
    BY <1>1, <1>2, <2>1, BesideOK
  <2> QED
    BY <1>1, <1>2, <2>2 DEF BufferOK, Line
<1>3. CASE c = Home(b)
  BY <1>1, <1>2, <1>3 DEF Home
<1>4. CASE c = EndKey(b)
  BY <1>1, <1>2, <1>4 DEF EndKey
<1> QED
  BY <1>3, <1>4

\* A key leaves the buffer in order, and lines that it may have changed are
\* noted as changed.
LEMMA PressedOK ==
    ASSUME BufferOK(ide), NEW c \in Pressed
    PROVE  BufferOK(c) /\ (c.dirty = TRUE \/ (c.lines = ide.lines /\ c.dirty = ide.dirty))
<1>1. CASE c \in {TypeChar(ide, x) : x \in Chars}
  BY <1>1, TypeCharOK, SymbolsHave
<1>2. CASE c \in {Arrow(ide, m[1], m[2]) : m \in Moves}
  <2>1. PICK m \in Moves : c = Arrow(ide, m[1], m[2])
    BY <1>2
  <2>2. m[1] \in Int /\ m[2] \in Int
    BY DEF Moves
  <2> QED
    BY <2>1, <2>2, ArrowOK
<1>3. CASE c \in {TypeTab(ide), Enter(ide), Backspace(ide), Delete(ide)}
  BY <1>3, TypeTabOK, EnterOK, BackspaceOK, DeleteOK
<1>4. CASE c \in {Home(ide), EndKey(ide)}
  BY <1>4, EndsOK
<1> QED
  BY <1>1, <1>2, <1>3, <1>4 DEF Pressed

------------------------------------------------------------------------------
(***************************************************************************)
(* Files and the buffer                                                    *)
(***************************************************************************)
LEMMA SerializeIs ==
    ASSUME NEW b, BufferOK(b)
    PROVE  serialize(b) \in Seq(Symbols)
<1>1. b.lines \in Seq(ShortRows) /\ ShortRows \in SUBSET Seq(Symbols) /\ NL \in Symbols
      /\ Len(b.lines) \in Nat
  BY BufferHas, LooseHas, RowsAreTexts, SymbolsHave
<1>2. PICK f : /\ \A i \in 0 .. Len(b.lines) : f[i] \in Seq(Symbols)
               /\ Lines(b.lines) = f[Len(b.lines)]
  BY <1>1, LinesSteps, SMTT(60)
<1> QED
  BY <1>1, <1>2 DEF serialize

LEMMA CutRow ==
    ASSUME NEW row \in Seq(Signs)
    PROVE  /\ Upto(row, LineLen - 1) \in ShortRows
           /\ Len(row) < LineLen => Upto(row, LineLen - 1) = row
<1>1. PICK n \in Nat : n = LineLen - 1
  BY Sizes
<1>2. Upto(row, n) \in Seq(Signs) /\ Len(Upto(row, n)) = (IF n < Len(row) THEN n ELSE Len(row))
      /\ (Len(row) <= n => Upto(row, n) = row)
  BY AtMost
<1>3. Len(Upto(row, n)) < LineLen
  BY <1>1, <1>2, Sizes
<1>4. Upto(row, n) \in ShortRows
  BY <1>2, <1>3, RowFits
<1>5. Len(row) < LineLen => Len(row) <= n
  BY <1>1, Sizes
<1> QED
  BY <1>1, <1>2, <1>4, <1>5

\* A file read into the buffer; one that fits is written as it was read.
LEMMA ParsedOK ==
    ASSUME NEW b, NEW path \in Paths, NEW src \in Seq(Symbols), NEW c,
           c = parse_source_into(b, path, src)
    PROVE  /\ BufferOK(c) /\ c.dirty = FALSE
           /\ FitsBuffer(src) => serialize(c) \in {src, src \o <<NL>>}
<1>1. PICK all : all = Rows(src)
  OBVIOUS
<1>2. PICK Q : Q = Seq(Symbols)
  OBVIOUS
<1>3. /\ all \in Seq(Q) /\ all # <<>> /\ Lines(all) = src \o <<NL>>
      /\ Last(all) = <<>> => Lines(Front(all)) = src
  BY <1>1, <1>2, SymbolsHave, RowsBack
<1>4. PICK rows : rows = Upto(all, MaxLines)
  OBVIOUS
<1>5. /\ rows \in Seq(Q) /\ Len(rows) = (IF MaxLines < Len(all) THEN MaxLines ELSE Len(all))
      /\ \A i \in 1 .. Len(rows) : rows[i] = all[i]
      /\ Len(all) <= MaxLines => rows = all
  BY <1>3, <1>4, Sizes, AtMost
<1>6. Len(all) \in Nat /\ Len(all) > 0
  BY <1>3
<1>7. Len(rows) \in 1 .. MaxLines /\ Len(rows) \in Nat
  BY <1>5, <1>6, Sizes
<1>8. PICK lines : lines = [i \in 1 .. Len(rows) |-> Upto(rows[i], LineLen - 1)]
  OBVIOUS
<1>9. \A i \in 1 .. Len(rows) : rows[i] \in Seq(Signs)
  <2>1. PICK P : P = Seq(Signs)
    OBVIOUS
  <2>2. all \in Seq(P)
    BY <1>1, <2>1, RowsPlain DEF Signs
  <2>3. \A i \in 1 .. Len(rows) : i \in 1 .. Len(all)
    BY <1>5, <1>6, Sizes
  <2> QED
    BY <1>5, <2>1, <2>2, <2>3
<1>10. \A i \in 1 .. Len(rows) : lines[i] \in ShortRows /\ (Len(rows[i]) < LineLen => lines[i] = rows[i])
  BY <1>8, <1>9, CutRow
<1>11. lines \in Seq(ShortRows) /\ Len(lines) = Len(rows)
  BY <1>7, <1>8, <1>10
<1>12. c = [lines |-> lines, row |-> 1, col |-> 0, path |-> path, dirty |-> FALSE]
  BY <1>1, <1>4, <1>8 DEF parse_source_into
<1>13. c.lines = lines /\ c.row = 1 /\ c.col = 0 /\ c.dirty = FALSE
  BY <1>12
<1>14. c \in Buffers
  BY <1>11, <1>12 DEF Buffers
<1>15. BufferOK(c)
  <2>1. Len(lines[1]) \in Nat
    BY <1>7, <1>10, RowsAreTexts
  <2> QED
    BY <1>7, <1>11, <1>13, <1>14, <2>1 DEF BufferOK, Loose, Line
<1>16. ASSUME FitsBuffer(src) PROVE serialize(c) \in {src, src \o <<NL>>}
  <2>1. /\ ~ (Len(all) > MaxLines + 1)
        /\ ~ (Len(all) = MaxLines + 1 /\ Last(all) # <<>>)
        /\ \A row \in Range(all) : Len(row) < LineLen
    BY <1>1, <1>16 DEF FitsBuffer, TooManyLines
  <2>2. \A i \in 1 .. Len(all) : all[i] \in Range(all)
    BY <1>3 DEF Range
  <2>3. \A i \in 1 .. Len(rows) : i \in 1 .. Len(all)
    BY <1>5, <1>6, <1>7, Sizes
  <2>4. \A i \in 1 .. Len(rows) : lines[i] = rows[i]
    <3> TAKE i \in 1 .. Len(rows)
    <3>1. Len(rows[i]) < LineLen
      BY <1>5, <2>1, <2>2, <2>3
    <3> QED
      BY <1>10, <3>1
  <2>5. lines = rows
    <3>1. ShortRows \in SUBSET Seq(Symbols)
      BY RowsAreTexts
    <3>2. lines \in Seq(Q)
      BY <1>2, <1>11, <3>1
    <3> QED
      BY <1>5, <1>11, <2>4, <3>2, SeqEqual
  <2>6. serialize(c) = Lines(rows)
    BY <1>13, <2>5 DEF serialize
  <2>7. CASE Len(all) <= MaxLines
    BY <1>3, <1>5, <2>6, <2>7
  <2>8. CASE ~ (Len(all) <= MaxLines)
    <3>1. Len(all) = MaxLines + 1 /\ Last(all) = <<>> /\ MaxLines < Len(all)
      BY <1>6, <2>1, <2>8, Sizes
    <3>2. rows = SubSeq(all, 1, MaxLines)
      BY <1>4, <3>1 DEF Upto
    <3>3. Len(all) - 1 = MaxLines
      BY <3>1, Sizes
    <3>4. rows = Front(all)
      BY <3>2, <3>3 DEF Front
    <3> QED
      BY <1>3, <2>6, <3>1, <3>4
  <2> QED
    BY <2>7, <2>8
<1> QED
  BY <1>13, <1>15, <1>16

------------------------------------------------------------------------------
(***************************************************************************)
(* Lists: what is left out, and what is put in another order               *)
(***************************************************************************)
\* t is what of the first k elements of s is in P; its elements are at the
\* places g.
KeptOf(s, P, k, t, g) ==
    /\ g \in [1 .. Len(t) -> 1 .. k]
    /\ \A i \in 1 .. Len(t) : t[i] = s[g[i]] /\ s[g[i]] \in P
    /\ \A i, j \in 1 .. Len(t) : i < j => g[i] < g[j]
    /\ \A j \in 1 .. k : s[j] \in P => \E i \in 1 .. Len(t) : g[i] = j

LEMMA OnlyKeeps ==
    ASSUME NEW S, NEW s \in Seq(S), NEW P
    PROVE  Only(s, P) \in Seq(S) /\ \E g : KeptOf(s, P, Len(s), Only(s, P), g)
<1>1. PICK f : /\ f[0] = <<>>
               /\ \A i \in 1 .. Len(s) : f[i] = PickStep(f[i - 1], s[i], P)
               /\ \A i \in 0 .. Len(s) : f[i] \in Seq(S)
               /\ Only(s, P) = f[Len(s)]
  BY OnlySteps, ZenonT(60)
<1>2. PICK n \in Nat : n = Len(s) /\ \A i \in 1 .. n : s[i] \in S
  OBVIOUS
<1> DEFINE T == {k \in 0 .. n : \E g : KeptOf(s, P, k, f[k], g)}
<1>3. 0 \in T
  <2>1. Len(f[0]) = 0
    BY <1>1
  <2>2. KeptOf(s, P, 0, f[0], [i \in 1 .. 0 |-> i])
    BY <2>1 DEF KeptOf
  <2> QED
    BY <2>2
<1>4. ASSUME NEW k \in 0 .. (n - 1), k \in T PROVE k + 1 \in T
  <2>1. PICK g : KeptOf(s, P, k, f[k], g)
    BY <1>4
  <2>2. PICK t, u : t = f[k] /\ u = f[k + 1]
    OBVIOUS
  <2>3. t \in Seq(S) /\ k + 1 \in 1 .. n /\ Len(t) \in Nat
    BY <1>1, <1>2, <2>2
  <2>4. u = PickStep(t, s[k + 1], P)
    <3>1. (k + 1) - 1 = k
      OBVIOUS
    <3> QED
      BY <1>1, <1>2, <2>2, <2>3, <3>1
  <2>5. /\ g \in [1 .. Len(t) -> 1 .. k]
        /\ \A i \in 1 .. Len(t) : t[i] = s[g[i]] /\ s[g[i]] \in P
        /\ \A i, j \in 1 .. Len(t) : i < j => g[i] < g[j]
        /\ \A j \in 1 .. k : s[j] \in P => \E i \in 1 .. Len(t) : g[i] = j
    BY <2>1, <2>2 DEF KeptOf
  <2>6. CASE s[k + 1] \in P
    <3>1. u = Append(t, s[k + 1]) /\ s[k + 1] \in S
      BY <1>2, <2>3, <2>4, <2>6 DEF PickStep
    <3>2. /\ Len(u) = Len(t) + 1 /\ u[Len(t) + 1] = s[k + 1]
          /\ \A i \in 1 .. Len(t) : u[i] = t[i]
      BY <2>3, <3>1
    <3>3. PICK h : h = [i \in 1 .. Len(u) |-> IF i = Len(t) + 1 THEN k + 1 ELSE g[i]]
      OBVIOUS
    <3>4. \A i \in 1 .. Len(u) : i = Len(t) + 1 \/ i \in 1 .. Len(t)
      BY <2>3, <3>2
    <3>5. h[Len(t) + 1] = k + 1 /\ \A i \in 1 .. Len(t) : h[i] = g[i] /\ g[i] \in 1 .. k
      <4>1. Len(t) + 1 \in 1 .. Len(u)
            /\ \A i \in 1 .. Len(t) : i \in 1 .. Len(u) /\ i # Len(t) + 1
        BY <2>3, <3>2
      <4>2. \A i \in 1 .. Len(t) : g[i] \in 1 .. k
        BY <2>5
      <4> QED
        BY <3>3, <4>1, <4>2
    <3>6. h \in [1 .. Len(u) -> 1 .. (k + 1)]
      <4>1. k + 1 \in 1 .. (k + 1) /\ \A j \in 1 .. k : j \in 1 .. (k + 1)
        OBVIOUS
      <4>2. \A i \in 1 .. Len(u) : h[i] \in 1 .. (k + 1)
        BY <3>4, <3>5, <4>1
      <4> QED
        BY <3>3, <4>2
    <3>7. \A i \in 1 .. Len(u) : u[i] = s[h[i]] /\ s[h[i]] \in P
      BY <2>5, <2>6, <3>2, <3>4, <3>5
    <3>8. \A i, j \in 1 .. Len(u) : i < j => h[i] < h[j]
      <4> TAKE i, j \in 1 .. Len(u)
      <4> HAVE i < j
      <4>1. i \in 1 .. Len(t) /\ (j = Len(t) + 1 \/ j \in 1 .. Len(t))
        BY <2>3, <3>2, <3>4
      <4>2. CASE j = Len(t) + 1
        BY <3>5, <4>1, <4>2
      <4>3. CASE j \in 1 .. Len(t)
        BY <2>5, <3>5, <4>1, <4>3
      <4> QED
        BY <4>1, <4>2, <4>3
    <3>9. \A j \in 1 .. (k + 1) : s[j] \in P => \E i \in 1 .. Len(u) : h[i] = j
      <4> TAKE j \in 1 .. (k + 1)
      <4> HAVE s[j] \in P
      <4>1. CASE j = k + 1
        <5>1. Len(t) + 1 \in 1 .. Len(u)
          BY <2>3, <3>2
        <5> QED
          BY <3>5, <4>1, <5>1
      <4>2. CASE j # k + 1
        <5>1. j \in 1 .. k
          BY <4>2
        <5>2. PICK i \in 1 .. Len(t) : g[i] = j
          BY <2>5, <5>1
        <5>3. i \in 1 .. Len(u) /\ h[i] = j
          BY <2>3, <3>2, <3>5, <5>2
        <5> QED
          BY <5>3
      <4> QED
        BY <4>1, <4>2
    <3>10. KeptOf(s, P, k + 1, u, h)
      BY <3>6, <3>7, <3>8, <3>9 DEF KeptOf
    <3> QED
      BY <2>2, <2>3, <3>10
  <2>7. CASE s[k + 1] \notin P
    <3>1. u = t
      BY <2>4, <2>7 DEF PickStep
    <3>2. g \in [1 .. Len(t) -> 1 .. (k + 1)]
      <4>1. \A i \in 1 .. k : i \in 1 .. (k + 1)
        OBVIOUS
      <4> QED
        BY <2>5, <4>1
    <3>3. \A j \in 1 .. (k + 1) : s[j] \in P => j \in 1 .. k
      BY <2>7
    <3>4. KeptOf(s, P, k + 1, u, g)
      BY <2>5, <3>1, <3>2, <3>3 DEF KeptOf
    <3> QED
      BY <2>2, <2>3, <3>4
  <2> QED
    BY <2>6, <2>7
<1>5. n \in T
  <2>1. \A k \in 0 .. n : k \in T
    <3> HIDE DEF T
    <3> QED
      BY <1>3, <1>4, UpToInduction
  <2> QED
    BY <2>1
<1> QED
  BY <1>1, <1>2, <1>5

\* The places of an element.
At(s, x) == {i \in DOMAIN s : s[i] = x}

LEMMA AtFinite ==
    ASSUME NEW S, NEW s \in Seq(S), NEW x
    PROVE  IsFiniteSet(At(s, x)) /\ Cardinality(At(s, x)) \in Nat
           /\ At(s, x) = {i \in 1 .. Len(s) : s[i] = x}
<1>1. DOMAIN s = 1 .. Len(s) /\ Len(s) \in Int
  OBVIOUS
<1>2. At(s, x) = {i \in 1 .. Len(s) : s[i] = x}
  BY <1>1 DEF At
<1>3. IsFiniteSet(1 .. Len(s))
  BY <1>1, FS_Interval
<1>4. IsFiniteSet(At(s, x))
  <2>1. At(s, x) \in SUBSET (1 .. Len(s))
    BY <1>2
  <2> QED
    BY <1>3, <2>1, FS_Subset
<1> QED
  BY <1>2, <1>4, FS_CardinalityType

LEMMA SameCount ==
    ASSUME NEW U, NEW V, IsFiniteSet(U), NEW f \in [U -> V],
           \A x, y \in U : f[x] = f[y] => x = y,
           \A y \in V : \E x \in U : f[x] = y
    PROVE  Cardinality(V) = Cardinality(U)
<1>1. f \in Bijection(U, V)
  BY DEF Bijection, Injection, Surjection, IsInjective
<1>2. ExistsBijection(U, V)
  BY <1>1 DEF ExistsBijection
<1> QED
  BY <1>2, FS_Bijection

\* What is kept is kept as often as it was there.
LEMMA OnlyCounts ==
    ASSUME NEW S, NEW s \in Seq(S), NEW P, NEW x
    PROVE  Cardinality(At(Only(s, P), x)) = IF x \in P THEN Cardinality(At(s, x)) ELSE 0
<1>1. PICK t : t = Only(s, P)
  OBVIOUS
<1>2. PICK g : KeptOf(s, P, Len(s), t, g)
  BY <1>1, OnlyKeeps
<1>3. /\ g \in [1 .. Len(t) -> 1 .. Len(s)]
      /\ \A i \in 1 .. Len(t) : t[i] = s[g[i]] /\ s[g[i]] \in P
      /\ \A i, j \in 1 .. Len(t) : i < j => g[i] < g[j]
      /\ \A j \in 1 .. Len(s) : s[j] \in P => \E i \in 1 .. Len(t) : g[i] = j
  BY <1>2 DEF KeptOf
<1>4. t \in Seq(S)
  BY <1>1, OnlyKeeps
<1>5. /\ At(t, x) = {i \in 1 .. Len(t) : t[i] = x} /\ IsFiniteSet(At(t, x))
      /\ At(s, x) = {i \in 1 .. Len(s) : s[i] = x}
  BY <1>4, AtFinite
<1>6. CASE x \notin P
  <2>1. At(t, x) = {}
    BY <1>3, <1>5, <1>6
  <2> QED
    BY <1>1, <1>6, <2>1, FS_EmptySet
<1>7. CASE x \in P
  <2>1. PICK h : h = [i \in At(t, x) |-> g[i]]
    OBVIOUS
  <2>2. \A i \in At(t, x) : i \in 1 .. Len(t) /\ h[i] = g[i] /\ g[i] \in At(s, x)
    BY <1>3, <1>5, <2>1
  <2>3. h \in [At(t, x) -> At(s, x)]
    BY <2>1, <2>2
  <2>4. \A i, j \in At(t, x) : h[i] = h[j] => i = j
    <3> TAKE i, j \in At(t, x)
    <3> HAVE h[i] = h[j]
    <3>1. i \in 1 .. Len(t) /\ j \in 1 .. Len(t) /\ g[i] = g[j] /\ g[i] \in Int
      BY <1>3, <2>2
    <3>2. ~ (i < j) /\ ~ (j < i)
      BY <1>3, <3>1
    <3> QED
      BY <3>1, <3>2
  <2>5. \A j \in At(s, x) : \E i \in At(t, x) : h[i] = j
    <3> TAKE j \in At(s, x)
    <3>1. j \in 1 .. Len(s) /\ s[j] = x
      BY <1>5
    <3>2. PICK i \in 1 .. Len(t) : g[i] = j
      BY <1>3, <1>7, <3>1
    <3>3. i \in At(t, x)
      BY <1>3, <1>5, <3>1, <3>2
    <3> QED
      BY <2>2, <3>2, <3>3
  <2> QED
    BY <1>1, <1>5, <1>7, <2>3, <2>4, <2>5, SameCount
<1> QED
  BY <1>6, <1>7

\* Lists with every element equally often are the same bag.
LEMMA SameBag ==
    ASSUME NEW S, NEW s \in Seq(S), NEW t \in Seq(S),
           \A x \in S : Cardinality(At(s, x)) = Cardinality(At(t, x))
    PROVE  ToBag(s) = ToBag(t)
<1>1. ASSUME NEW u \in Seq(S) PROVE Range(u) = {x \in S : Cardinality(At(u, x)) # 0}
  <2>1. Range(u) = {x \in S : At(u, x) # {}}
    <3>1. Range(u) = {u[i] : i \in 1 .. Len(u)} /\ \A i \in 1 .. Len(u) : u[i] \in S
      BY DEF Range
    <3>2. \A x : At(u, x) = {i \in 1 .. Len(u) : u[i] = x}
      BY AtFinite
    <3> QED
      BY <3>1, <3>2
  <2>2. \A x : IsFiniteSet(At(u, x))
    BY AtFinite
  <2> QED
    BY <2>1, <2>2, FS_EmptySet
<1>2. Range(s) = Range(t) /\ \A x \in Range(s) : x \in S
  BY <1>1
<1>3. ToBag(s) = [x \in Range(s) |-> Cardinality(At(s, x))]
      /\ ToBag(t) = [x \in Range(t) |-> Cardinality(At(t, x))]
  BY DEF ToBag, At
<1> QED
  BY <1>2, <1>3

------------------------------------------------------------------------------
(***************************************************************************)
(* The exchange sort of the Workbench                                      *)
(***************************************************************************)
Entries == [number : Nat, text : Seq(Symbols)]

\* The elements of l in another order: p says whence, q whither.
ShuffledBy(l, m, n, p, q) ==
    /\ p \in [1 .. n -> 1 .. n] /\ q \in [1 .. n -> 1 .. n]
    /\ \A i \in 1 .. n : m[i] = l[p[i]] /\ p[q[i]] = i /\ q[p[i]] = i

Shuffles(l) ==
    {m \in Seq(Entries) : Len(m) = Len(l) /\ \E p, q : ShuffledBy(l, m, Len(l), p, q)}

LEMMA SameShuffle ==
    ASSUME NEW l \in Seq(Entries)
    PROVE  l \in Shuffles(l)
<1>1. PICK p : p = [i \in 1 .. Len(l) |-> i]
  OBVIOUS
<1>2. ShuffledBy(l, l, Len(l), p, p)
  BY <1>1 DEF ShuffledBy
<1> QED
  BY <1>2 DEF Shuffles

LEMMA Reshuffled ==
    ASSUME NEW l \in Seq(Entries), NEW m \in Shuffles(l), NEW k \in Shuffles(m)
    PROVE  k \in Shuffles(l)
<1>1. PICK n \in Nat : n = Len(l)
  OBVIOUS
<1>2. m \in Seq(Entries) /\ Len(m) = n /\ k \in Seq(Entries) /\ Len(k) = n
  BY <1>1 DEF Shuffles
<1>3. PICK p, q : ShuffledBy(l, m, n, p, q)
  BY <1>1 DEF Shuffles
<1>4. PICK r, s : ShuffledBy(m, k, n, r, s)
  BY <1>1, <1>2 DEF Shuffles
<1>5. PICK u, v : u = [i \in 1 .. n |-> p[r[i]]] /\ v = [i \in 1 .. n |-> s[q[i]]]
  OBVIOUS
<1>6. ShuffledBy(l, k, n, u, v)
  BY <1>3, <1>4, <1>5, ZenonT(60) DEF ShuffledBy
<1> QED
  BY <1>1, <1>2, <1>6 DEF Shuffles

LEMMA SwapIs ==
    ASSUME NEW l \in Seq(Entries), NEW i \in 1 .. Len(l), NEW j \in 1 .. Len(l)
    PROVE  /\ Swap(l, i, j) \in Seq(Entries) /\ Len(Swap(l, i, j)) = Len(l)
           /\ \A a \in 1 .. Len(l) :
                 Swap(l, i, j)[a] = IF a = i THEN l[j] ELSE IF a = j THEN l[i] ELSE l[a]
<1>1. l[i] \in Entries /\ l[j] \in Entries
  OBVIOUS
<1>2. PICK m : m = [l EXCEPT ![i] = l[j]]
  OBVIOUS
<1>3. /\ m \in Seq(Entries) /\ Len(m) = Len(l)
      /\ \A a \in 1 .. Len(l) : m[a] = IF a = i THEN l[j] ELSE l[a]
  BY <1>1, <1>2, ExceptSeq
<1>4. PICK k : k = [m EXCEPT ![j] = l[i]]
  OBVIOUS
<1>5. /\ k \in Seq(Entries) /\ Len(k) = Len(l)
      /\ \A a \in 1 .. Len(l) : k[a] = IF a = j THEN l[i] ELSE m[a]
  BY <1>1, <1>3, <1>4, ExceptSeq
<1>6. Swap(l, i, j) = k
  BY <1>2, <1>4 DEF Swap
<1> QED
  BY <1>3, <1>5, <1>6

LEMMA SwapShuffles ==
    ASSUME NEW l \in Seq(Entries), NEW i \in 1 .. Len(l), NEW j \in 1 .. Len(l)
    PROVE  Swap(l, i, j) \in Shuffles(l)
<1>1. PICK n \in Nat : n = Len(l)
  OBVIOUS
<1>2. PICK p : p = [a \in 1 .. n |-> IF a = i THEN j ELSE IF a = j THEN i ELSE a]
  OBVIOUS
<1>3. p \in [1 .. n -> 1 .. n] /\ \A a \in 1 .. n : p[p[a]] = a
  BY <1>1, <1>2
<1>4. PICK m : m = Swap(l, i, j)
  OBVIOUS
<1>5. /\ m \in Seq(Entries) /\ Len(m) = n
      /\ \A a \in 1 .. n : m[a] = IF a = i THEN l[j] ELSE IF a = j THEN l[i] ELSE l[a]
  <2>1. /\ Swap(l, i, j) \in Seq(Entries) /\ Len(Swap(l, i, j)) = Len(l)
        /\ \A a \in 1 .. Len(l) :
              Swap(l, i, j)[a] = IF a = i THEN l[j] ELSE IF a = j THEN l[i] ELSE l[a]
    BY SwapIs
  <2> QED
    BY <1>1, <1>4, <2>1
<1>6. \A a \in 1 .. n : m[a] = l[p[a]]
  BY <1>2, <1>5
<1>7. ShuffledBy(l, m, n, p, p)
  BY <1>3, <1>6 DEF ShuffledBy
<1> QED
  BY <1>1, <1>4, <1>5, <1>7 DEF Shuffles

SettleStep(x, j, i) == IF x[j].number < x[i].number THEN Swap(x, i, j) ELSE x

LaterThan(l, i) == [k \in 1 .. (Len(l) - i) |-> i + k]

\* A place is compared with every later one.
LEMMA SettleSteps ==
    ASSUME NEW l \in Seq(Entries), NEW place \in 1 .. Len(l)
    PROVE  \E f : /\ f[0] = l
                  /\ \A i \in 1 .. Len(LaterThan(l, place)) : f[i] = SettleStep(f[i - 1], LaterThan(l, place)[i], place)
                  /\ \A i \in 0 .. Len(LaterThan(l, place)) : f[i] \in Shuffles(l)
                  /\ Settle(l, place) = f[Len(LaterThan(l, place))]
<1>1. PICK N \in Nat : N = Len(LaterThan(l, place)) /\ DOMAIN LaterThan(l, place) = 1 .. N /\ \A i \in 1 .. N : LaterThan(l, place)[i] \in ((place + 1) .. Len(l))
  <2>1. PICK n \in Nat : n = Len(l) - place /\ n \in Int
    OBVIOUS
  <2>2. LaterThan(l, place) = [k \in 1 .. n |-> place + k]
    BY <2>1 DEF LaterThan
  <2>3. Len(LaterThan(l, place)) = n /\ DOMAIN LaterThan(l, place) = 1 .. n
        /\ \A i \in 1 .. n : LaterThan(l, place)[i] = place + i
    BY <2>1, <2>2
  <2>4. \A i \in 1 .. n : place + i \in (place + 1) .. Len(l)
    BY <2>1
  <2> QED
    BY <2>1, <2>3, <2>4
<1>2. PICK A : A = Shuffles(l)
  OBVIOUS
<1>3. l \in A /\ \A i \in 1 .. N : \A a \in A : SettleStep(a, LaterThan(l, place)[i], place) \in A
  <2>1. ASSUME NEW a \in Shuffles(l), NEW j \in 1 .. Len(l) PROVE SettleStep(a, j, place) \in Shuffles(l)
    <3>1. a \in Seq(Entries) /\ Len(a) = Len(l)
      BY DEF Shuffles
    <3>2. Swap(a, place, j) \in Shuffles(a)
      BY <3>1, SwapShuffles
    <3>3. Swap(a, place, j) \in Shuffles(l)
      BY <3>2, Reshuffled
    <3> QED
      BY <3>3 DEF SettleStep
  <2>2. \A i \in 1 .. N : LaterThan(l, place)[i] \in 1 .. Len(l)
    BY <1>1
  <2> QED
    BY <1>2, <2>1, <2>2, SameShuffle
<1>4. PICK step : step = [i \in 1 .. N |-> [a \in A |-> SettleStep(a, LaterThan(l, place)[i], place)]]
  OBVIOUS
<1>5. step \in [1 .. N -> [A -> A]]
  BY <1>3, <1>4
<1>6. PICK g : FoldOf(g, N, A, l, step)
  BY <1>3, <1>5, FoldSteps
<1> DEFINE body(h) == [J \in SUBSET DOMAIN LaterThan(l, place) |->
                         IF J = {} THEN l ELSE SettleStep(h[J \ {Max(J)}], LaterThan(l, place)[Max(J)], place)]
           iter == CHOOSE h : h = body(h)
           f == [i \in 0 .. N |-> iter[1 .. i]]
<1>7. g = body(g)
  <2>1. \A J \in SUBSET (1 .. N) : J # {} => g[J] = SettleStep(g[J \ {Max(J)}], LaterThan(l, place)[Max(J)], place)
    <3> TAKE J \in SUBSET (1 .. N)
    <3> HAVE J # {}
    <3>1. Max(J) \in 1 .. N /\ J \ {Max(J)} \in SUBSET (1 .. N)
      BY LargestOf
    <3>2. g[J] = step[Max(J)][g[J \ {Max(J)}]] /\ g[J \ {Max(J)}] \in A
      BY <1>6, <3>1 DEF FoldOf
    <3> QED
      BY <1>4, <3>1, <3>2
  <2> QED
    BY <1>1, <1>6, <2>1 DEF FoldOf
<1>8. iter = body(iter)
  <2> HIDE DEF body
  <2> QED
    BY <1>7, Zenon
<1>9. Settle(l, place) = f[N]
  <2>1. Settle(l, place) = iter[DOMAIN LaterThan(l, place)]
    BY DEF Settle, SettleStep, LaterThan, FoldLeft, MapThenFoldSet
  <2> HIDE DEF iter
  <2> QED
    BY <1>1, <2>1
<1> HIDE DEF iter
<1>10. f[0] = l
  BY <1>1, <1>8
<1>11. ASSUME NEW i \in 1 .. N PROVE f[i] = SettleStep(f[i - 1], LaterThan(l, place)[i], place)
  <2>1. Max(1 .. i) = i /\ (1 .. i) \ {i} = 1 .. (i - 1)
    BY LargestUpTo
  <2>2. 1 .. i \in SUBSET DOMAIN LaterThan(l, place) /\ 1 .. i # {}
    <3>1. DOMAIN LaterThan(l, place) = 1 .. N
      BY <1>1
    <3>2. 1 .. i \in SUBSET (1 .. N) /\ 1 .. i # {}
      BY FirstNumbers
    <3> QED
      BY <3>1, <3>2
  <2>3. iter[1 .. i] = SettleStep(iter[(1 .. i) \ {Max(1 .. i)}], LaterThan(l, place)[Max(1 .. i)], place)
    BY <1>8, <2>2
  <2>4. f[i] = iter[1 .. i] /\ f[i - 1] = iter[1 .. (i - 1)]
    BY <1>1
  <2> HIDE DEF f, body
  <2> QED
    BY <2>1, <2>3, <2>4
<1> HIDE DEF f
<1> DEFINE T == {i \in 0 .. N : f[i] \in A}
<1>12. \A i \in 0 .. N : i \in T
  <2>1. 0 \in T
    BY <1>3, <1>10
  <2>2. ASSUME NEW i \in 0 .. (N - 1), i \in T PROVE i + 1 \in T
    <3>1. i + 1 \in 1 .. N /\ (i + 1) - 1 = i
      OBVIOUS
    <3>2. f[i + 1] = SettleStep(f[i], LaterThan(l, place)[i + 1], place)
      BY <1>11, <3>1
    <3>3. SettleStep(f[i], LaterThan(l, place)[i + 1], place) \in A
      BY <1>3, <2>2, <3>1
    <3> QED
      BY <3>1, <3>2, <3>3
  <2> HIDE DEF T
  <2> QED
    BY <2>1, <2>2, UpToInduction
<1> QED
  BY <1>1, <1>2, <1>9, <1>10, <1>11, <1>12

\* The first k of the later places are compared with place i.
Settled(x, y, i, k) ==
    /\ y \in Seq(Entries) /\ Len(y) = Len(x)
    /\ \A a \in 1 .. (i - 1) : y[a] = x[a]
    /\ \A j \in (i + 1) .. (i + k) : y[i].number <= y[j].number
    /\ \A b \in i .. Len(x) : \E c \in i .. Len(x) : y[b] = x[c]

LEMMA NumbersAre ==
    ASSUME NEW l \in Seq(Entries), NEW i \in 1 .. Len(l)
    PROVE  l[i] \in Entries /\ l[i].number \in Nat /\ l[i].text \in Seq(Symbols)
<1>1. l[i] \in Entries
  OBVIOUS
<1> QED
  BY <1>1 DEF Entries

LEMMA SettleOne ==
    ASSUME NEW l \in Seq(Entries), NEW y, NEW i \in 1 .. Len(l), NEW k \in Nat,
           i + k + 1 \in 1 .. Len(l), Settled(l, y, i, k)
    PROVE  Settled(l, SettleStep(y, i + k + 1, i), i, k + 1)
<1>1. PICK n \in Nat : n = Len(l)
  OBVIOUS
<1>2. PICK j : j = i + k + 1
  OBVIOUS
<1>3. /\ y \in Seq(Entries) /\ Len(y) = n
      /\ \A a \in 1 .. (i - 1) : y[a] = l[a]
      /\ \A b \in (i + 1) .. (i + k) : y[i].number <= y[b].number
      /\ \A b \in i .. n : \E c \in i .. n : y[b] = l[c]
  BY <1>1 DEF Settled
<1>4. i \in 1 .. n /\ j \in 1 .. n /\ j \in i .. n /\ i \in i .. n /\ j # i
  BY <1>1, <1>2
<1>5. \A b \in (i + 1) .. (i + (k + 1)) : b = j \/ b \in (i + 1) .. (i + k)
  BY <1>2
<1>6. \A b \in 1 .. n : y[b].number \in Nat
  BY <1>3, NumbersAre
<1>7. \A b \in (i + 1) .. (i + k) : b \in 1 .. n /\ b # i /\ b # j
  BY <1>1, <1>2, <1>4
<1>8. CASE y[j].number < y[i].number
  <2>1. PICK z : z = Swap(y, i, j)
    OBVIOUS
  <2>2. /\ z \in Seq(Entries) /\ Len(z) = n /\ z[i] = y[j] /\ z[j] = y[i]
        /\ \A a \in 1 .. n : a # i /\ a # j => z[a] = y[a]
    <3>1. i \in 1 .. Len(y) /\ j \in 1 .. Len(y)
      BY <1>3, <1>4
    <3>2. /\ z \in Seq(Entries) /\ Len(z) = Len(y)
          /\ \A a \in 1 .. Len(y) : z[a] = IF a = i THEN y[j] ELSE IF a = j THEN y[i] ELSE y[a]
      <4>1. y \in Seq(Entries)
        BY <1>3
      <4>2. /\ Swap(y, i, j) \in Seq(Entries) /\ Len(Swap(y, i, j)) = Len(y)
            /\ \A a \in 1 .. Len(y) :
                  Swap(y, i, j)[a] = IF a = i THEN y[j] ELSE IF a = j THEN y[i] ELSE y[a]
        BY <3>1, <4>1, SwapIs
      <4> QED
        BY <2>1, <4>2
    <3>3. Len(y) = n
      BY <1>3
    <3>4. \A a \in 1 .. n : z[a] = IF a = i THEN y[j] ELSE IF a = j THEN y[i] ELSE y[a]
      BY <3>2, <3>3
    <3> QED
      BY <1>4, <3>2, <3>3, <3>4
  <2>3. SettleStep(y, j, i) = z
    BY <1>8, <2>1 DEF SettleStep
  <2>4. \A a \in 1 .. (i - 1) : z[a] = l[a]
    <3>1. \A a \in 1 .. (i - 1) : a \in 1 .. n /\ a # i /\ a # j
      BY <1>4
    <3> QED
      BY <1>3, <2>2, <3>1
  <2>5. \A b \in (i + 1) .. (i + (k + 1)) : z[i].number <= z[b].number
    <3> TAKE b \in (i + 1) .. (i + (k + 1))
    <3>1. CASE b = j
      BY <1>4, <1>6, <1>8, <2>2, <3>1
    <3>2. CASE b \in (i + 1) .. (i + k)
      <4>1. z[b] = y[b] /\ y[i].number <= y[b].number /\ b \in 1 .. n
        BY <1>3, <1>7, <2>2, <3>2
      <4>2. y[i].number \in Nat /\ y[j].number \in Nat /\ y[b].number \in Nat
        BY <1>4, <1>6, <4>1
      <4> QED
        BY <1>8, <2>2, <4>1, <4>2, SMTT(30)
    <3> QED
      BY <1>5, <3>1, <3>2
  <2>6. \A b \in i .. n : \E c \in i .. n : z[b] = l[c]
    <3> TAKE b \in i .. n
    <3>1. b \in 1 .. n
      BY <1>4
    <3>2. z[b] \in {y[i], y[j], y[b]}
      BY <2>2, <3>1
    <3>3. \A a \in {i, j, b} : a \in i .. n /\ \E c \in i .. n : y[a] = l[c]
      BY <1>3, <1>4
    <3>4. PICK a \in {i, j, b} : z[b] = y[a]
      BY <3>2
    <3> QED
      BY <3>3, <3>4
  <2> QED
    BY <1>1, <1>2, <2>2, <2>3, <2>4, <2>5, <2>6, ZenonT(60) DEF Settled
<1>9. CASE ~ (y[j].number < y[i].number)
  <2>1. SettleStep(y, j, i) = y
    BY <1>9 DEF SettleStep
  <2>2. y[i].number <= y[j].number
    BY <1>4, <1>6, <1>9
  <2>3. \A b \in (i + 1) .. (i + (k + 1)) : y[i].number <= y[b].number
    BY <1>3, <1>5, <2>2
  <2> QED
    BY <1>1, <1>2, <1>3, <2>1, <2>3 DEF Settled
<1> QED
  BY <1>8, <1>9

LEMMA SettleIs ==
    ASSUME NEW l \in Seq(Entries), NEW i \in 1 .. Len(l)
    PROVE  Settle(l, i) \in Shuffles(l) /\ Settled(l, Settle(l, i), i, Len(l) - i)
<1>1. PICK n \in Nat : n = Len(l) - i
  <2>1. Len(l) \in Nat /\ Len(l) - i \in Nat
    OBVIOUS
  <2> QED
    BY <2>1
<1>2. Len(LaterThan(l, i)) = n /\ \A k \in 1 .. n : LaterThan(l, i)[k] = i + k
  BY <1>1 DEF LaterThan
<1>3. PICK f : /\ f[0] = l
               /\ \A k \in 1 .. n : f[k] = SettleStep(f[k - 1], LaterThan(l, i)[k], i)
               /\ \A k \in 0 .. n : f[k] \in Shuffles(l)
               /\ Settle(l, i) = f[n]
  BY <1>2, SettleSteps
<1> DEFINE T == {k \in 0 .. n : Settled(l, f[k], i, k)}
<1>4. 0 \in T
  <2>1. Settled(l, l, i, 0)
    BY DEF Settled
  <2> QED
    BY <1>3, <2>1
<1>5. ASSUME NEW k \in 0 .. (n - 1), k \in T PROVE k + 1 \in T
  <2>1. k + 1 \in 1 .. n /\ (k + 1) - 1 = k /\ k \in Nat /\ i + (k + 1) = i + k + 1 /\ i + k + 1 \in 1 .. Len(l)
    BY <1>1
  <2>2. f[k + 1] = SettleStep(f[k], i + k + 1, i)
    BY <1>2, <1>3, <2>1
  <2>3. Settled(l, f[k], i, k)
    BY <1>5
  <2>4. Settled(l, f[k + 1], i, k + 1)
    BY <2>1, <2>2, <2>3, SettleOne
  <2> QED
    BY <2>1, <2>4
<1>6. \A k \in 0 .. n : k \in T
  <2> HIDE DEF T
  <2> QED
    BY <1>4, <1>5, UpToInduction
<1>7. Settled(l, f[n], i, n)
  BY <1>6
<1> QED
  BY <1>1, <1>3, <1>7

SortStep(x, i) == Settle(x, i)

Places(l) == [i \in 1 .. Len(l) |-> i]

\* One place after the other is settled.
LEMMA SortSteps ==
    ASSUME NEW l \in Seq(Entries)
    PROVE  \E f : /\ f[0] = l
                  /\ \A i \in 1 .. Len(Places(l)) : f[i] = SortStep(f[i - 1], Places(l)[i])
                  /\ \A i \in 0 .. Len(Places(l)) : f[i] \in Shuffles(l)
                  /\ sort_lines(l) = f[Len(Places(l))]
<1>1. PICK N \in Nat : N = Len(Places(l)) /\ DOMAIN Places(l) = 1 .. N /\ \A i \in 1 .. N : Places(l)[i] \in (1 .. Len(l))
  <2>1. PICK n \in Nat : n = Len(l)
    OBVIOUS
  <2>2. Places(l) = [i \in 1 .. n |-> i]
    BY <2>1 DEF Places
  <2> QED
    BY <2>1, <2>2
<1>2. PICK A : A = Shuffles(l)
  OBVIOUS
<1>3. l \in A /\ \A i \in 1 .. N : \A a \in A : SortStep(a, Places(l)[i]) \in A
  <2>1. ASSUME NEW a \in Shuffles(l), NEW j \in 1 .. Len(l) PROVE SortStep(a, j) \in Shuffles(l)
    <3>1. a \in Seq(Entries) /\ Len(a) = Len(l)
      BY DEF Shuffles
    <3>2. Settle(a, j) \in Shuffles(a)
      BY <3>1, SettleIs
    <3>3. Settle(a, j) \in Shuffles(l)
      BY <3>2, Reshuffled
    <3> QED
      BY <3>3 DEF SortStep
  <2> QED
    BY <1>1, <1>2, <2>1, SameShuffle
<1>4. PICK step : step = [i \in 1 .. N |-> [a \in A |-> SortStep(a, Places(l)[i])]]
  OBVIOUS
<1>5. step \in [1 .. N -> [A -> A]]
  BY <1>3, <1>4
<1>6. PICK g : FoldOf(g, N, A, l, step)
  BY <1>3, <1>5, FoldSteps
<1> DEFINE body(h) == [J \in SUBSET DOMAIN Places(l) |->
                         IF J = {} THEN l ELSE SortStep(h[J \ {Max(J)}], Places(l)[Max(J)])]
           iter == CHOOSE h : h = body(h)
           f == [i \in 0 .. N |-> iter[1 .. i]]
<1>7. g = body(g)
  <2>1. \A J \in SUBSET (1 .. N) : J # {} => g[J] = SortStep(g[J \ {Max(J)}], Places(l)[Max(J)])
    <3> TAKE J \in SUBSET (1 .. N)
    <3> HAVE J # {}
    <3>1. Max(J) \in 1 .. N /\ J \ {Max(J)} \in SUBSET (1 .. N)
      BY LargestOf
    <3>2. g[J] = step[Max(J)][g[J \ {Max(J)}]] /\ g[J \ {Max(J)}] \in A
      BY <1>6, <3>1 DEF FoldOf
    <3> QED
      BY <1>4, <3>1, <3>2
  <2> QED
    BY <1>1, <1>6, <2>1 DEF FoldOf
<1>8. iter = body(iter)
  <2> HIDE DEF body
  <2> QED
    BY <1>7, Zenon
<1>9. sort_lines(l) = f[N]
  <2>1. sort_lines(l) = iter[DOMAIN Places(l)]
    BY DEF sort_lines, SortStep, Places, FoldLeft, MapThenFoldSet
  <2> HIDE DEF iter
  <2> QED
    BY <1>1, <2>1
<1> HIDE DEF iter
<1>10. f[0] = l
  BY <1>1, <1>8
<1>11. ASSUME NEW i \in 1 .. N PROVE f[i] = SortStep(f[i - 1], Places(l)[i])
  <2>1. Max(1 .. i) = i /\ (1 .. i) \ {i} = 1 .. (i - 1)
    BY LargestUpTo
  <2>2. 1 .. i \in SUBSET DOMAIN Places(l) /\ 1 .. i # {}
    <3>1. DOMAIN Places(l) = 1 .. N
      BY <1>1
    <3>2. 1 .. i \in SUBSET (1 .. N) /\ 1 .. i # {}
      BY FirstNumbers
    <3> QED
      BY <3>1, <3>2
  <2>3. iter[1 .. i] = SortStep(iter[(1 .. i) \ {Max(1 .. i)}], Places(l)[Max(1 .. i)])
    BY <1>8, <2>2
  <2>4. f[i] = iter[1 .. i] /\ f[i - 1] = iter[1 .. (i - 1)]
    BY <1>1
  <2> HIDE DEF f, body
  <2> QED
    BY <2>1, <2>3, <2>4
<1> HIDE DEF f
<1> DEFINE T == {i \in 0 .. N : f[i] \in A}
<1>12. \A i \in 0 .. N : i \in T
  <2>1. 0 \in T
    BY <1>3, <1>10
  <2>2. ASSUME NEW i \in 0 .. (N - 1), i \in T PROVE i + 1 \in T
    <3>1. i + 1 \in 1 .. N /\ (i + 1) - 1 = i
      OBVIOUS
    <3>2. f[i + 1] = SortStep(f[i], Places(l)[i + 1])
      BY <1>11, <3>1
    <3>3. SortStep(f[i], Places(l)[i + 1]) \in A
      BY <1>3, <2>2, <3>1
    <3> QED
      BY <3>1, <3>2, <3>3
  <2> HIDE DEF T
  <2> QED
    BY <2>1, <2>2, UpToInduction
<1> QED
  BY <1>1, <1>2, <1>9, <1>10, <1>11, <1>12

\* The lines sorted: the same ones, by number.
LEMMA SortIs ==
    ASSUME NEW l \in Seq(Entries)
    PROVE  /\ sort_lines(l) \in Shuffles(l)
           /\ \A a, b \in 1 .. Len(l) : a < b => sort_lines(l)[a].number <= sort_lines(l)[b].number
<1>1. PICK n \in Nat : n = Len(l)
  OBVIOUS
<1>2. Len(Places(l)) = n /\ \A i \in 1 .. n : Places(l)[i] = i
  BY <1>1 DEF Places
<1>3. PICK f : /\ f[0] = l
               /\ \A i \in 1 .. n : f[i] = SortStep(f[i - 1], Places(l)[i])
               /\ \A i \in 0 .. n : f[i] \in Shuffles(l)
               /\ sort_lines(l) = f[n]
  BY <1>2, SortSteps
<1>4. \A i \in 0 .. n : f[i] \in Seq(Entries) /\ Len(f[i]) = n
  BY <1>1, <1>3 DEF Shuffles
<1> DEFINE T == {k \in 0 .. n : \A a \in 1 .. k, b \in 1 .. n :
                                    a < b => f[k][a].number <= f[k][b].number}
<1>5. 0 \in T
  OBVIOUS
<1>6. ASSUME NEW k \in 0 .. (n - 1), k \in T PROVE k + 1 \in T
  <2>1. PICK i : i = k + 1 /\ i \in 1 .. n /\ i - 1 = k
    OBVIOUS
  <2>2. PICK x, y : x = f[k] /\ y = f[i]
    OBVIOUS
  <2>3. x \in Seq(Entries) /\ Len(x) = n
    BY <1>4, <2>2
  <2>4. y = Settle(x, i)
    BY <1>2, <1>3, <2>1, <2>2 DEF SortStep
  <2>5. Settled(x, y, i, n - i)
    BY <2>1, <2>3, <2>4, SettleIs
  <2>6. i + (n - i) = n
    BY <2>1
  <2>7. /\ \A a \in 1 .. (i - 1) : y[a] = x[a]
        /\ \A j \in (i + 1) .. n : y[i].number <= y[j].number
        /\ \A b \in i .. n : \E c \in i .. n : y[b] = x[c]
    BY <2>3, <2>5, <2>6 DEF Settled
  <2>8. \A a \in 1 .. k, b \in 1 .. n : a < b => x[a].number <= x[b].number
    BY <1>6, <2>2
  <2>9. ASSUME NEW a \in 1 .. i, NEW b \in 1 .. n, a < b PROVE y[a].number <= y[b].number
    <3>1. CASE a = i
      <4>1. b \in (i + 1) .. n
        BY <2>1, <2>9, <3>1
      <4> QED
        BY <2>7, <3>1, <4>1
    <3>2. CASE a # i
      <4>1. a \in 1 .. (i - 1) /\ a \in 1 .. k
        BY <2>1, <3>2
      <4>2. CASE b \in 1 .. (i - 1)
        BY <2>7, <2>8, <2>9, <4>1, <4>2
      <4>3. CASE b \in i .. n
        <5>1. PICK c \in i .. n : y[b] = x[c]
          BY <2>7, <4>3
        <5>2. c \in 1 .. n /\ a < c
          BY <2>1, <4>1
        <5> QED
          BY <2>7, <2>8, <4>1, <5>1, <5>2
      <4> QED
        BY <2>1, <4>2, <4>3
    <3> QED
      BY <3>1, <3>2
  <2> QED
    BY <2>1, <2>2, <2>9
<1>7. \A k \in 0 .. n : k \in T
  <2> HIDE DEF T
  <2> QED
    BY <1>5, <1>6, UpToInduction
<1>8. n \in T
  BY <1>7
<1>9. \A a, b \in 1 .. n : a < b => f[n][a].number <= f[n][b].number
  BY <1>8
<1> QED
  BY <1>1, <1>3, <1>9

\* In another order every line is there as often.
LEMMA ShuffleCounts ==
    ASSUME NEW l \in Seq(Entries), NEW m \in Shuffles(l), NEW x
    PROVE  Cardinality(At(m, x)) = Cardinality(At(l, x))
<1>1. PICK n \in Nat : n = Len(l)
  OBVIOUS
<1>2. m \in Seq(Entries) /\ Len(m) = n
  BY <1>1 DEF Shuffles
<1>3. PICK p, q : ShuffledBy(l, m, n, p, q)
  BY <1>1 DEF Shuffles
<1>4. /\ p \in [1 .. n -> 1 .. n] /\ q \in [1 .. n -> 1 .. n]
      /\ \A i \in 1 .. n : m[i] = l[p[i]] /\ p[q[i]] = i /\ q[p[i]] = i
  BY <1>3 DEF ShuffledBy
<1>5. /\ At(m, x) = {i \in 1 .. n : m[i] = x} /\ IsFiniteSet(At(m, x))
      /\ At(l, x) = {i \in 1 .. n : l[i] = x}
  BY <1>1, <1>2, AtFinite
<1>6. PICK h : h = [i \in At(m, x) |-> p[i]]
  OBVIOUS
<1>7. \A i \in At(m, x) : i \in 1 .. n /\ h[i] = p[i] /\ p[i] \in At(l, x)
  BY <1>4, <1>5, <1>6
<1>8. h \in [At(m, x) -> At(l, x)]
  BY <1>6, <1>7
<1>9. \A i, j \in At(m, x) : h[i] = h[j] => i = j
  BY <1>4, <1>7
<1>10. \A j \in At(l, x) : \E i \in At(m, x) : h[i] = j
  <2> TAKE j \in At(l, x)
  <2>1. j \in 1 .. n /\ l[j] = x
    BY <1>5
  <2>2. q[j] \in 1 .. n /\ p[q[j]] = j /\ m[q[j]] = l[p[q[j]]]
    BY <1>4, <2>1
  <2>3. q[j] \in At(m, x)
    BY <1>5, <2>1, <2>2
  <2> QED
    BY <1>7, <2>2, <2>3
<1> QED
  BY <1>5, <1>8, <1>9, <1>10, SameCount

------------------------------------------------------------------------------
(***************************************************************************)
(* The source of the Workbench and its lines                               *)
(***************************************************************************)
LEMMA ScriptSizes ==
    /\ SourceMax \in Nat /\ TextMax \in Nat /\ ScriptMax \in Nat
    /\ SourceMax > 0 /\ TextMax > 0 /\ ScriptMax > 0
  BY ScriptAssumption

LEMMA SymbolNumbers == \A c \in Symbols : IsNum(c) => c[2] \in Nat
<1>1. \A c \in Words : IsNum(c) => c[2] \in Nat
  BY ContentsAssumption
<1> QED
  BY <1>1 DEF Symbols

LEMMA ContentsAreTexts == Contents \subseteq Seq(Symbols)
<1>1. Words \subseteq Symbols /\ Contents \subseteq Seq(Words)
  BY ContentsAssumption DEF Symbols
<1> QED
  BY <1>1

LEMMA NumberedIs ==
    ASSUME NEW row \in Seq(Symbols), NEW i \in Nat
    PROVE  Numbered(row, i) \in Entries
<1>1. CASE row # <<>> /\ IsNum(row[1])
  <2>1. row[1] \in Symbols /\ Tail(row) \in Seq(Symbols)
    BY <1>1
  <2>2. row[1][2] \in Nat
    BY <1>1, <2>1, SymbolNumbers
  <2>3. Numbered(row, i) = [number |-> row[1][2], text |-> Tail(row)]
    BY <1>1 DEF Numbered
  <2> QED
    BY <2>1, <2>2, <2>3 DEF Entries
<1>2. CASE ~ (row # <<>> /\ IsNum(row[1]))
  <2>1. Numbered(row, i) = [number |-> 10 * i, text |-> row]
    BY <1>2 DEF Numbered
  <2>2. 10 * i \in Nat
    OBVIOUS
  <2> QED
    BY <2>1, <2>2 DEF Entries
<1> QED
  BY <1>1, <1>2

LEMMA SourceRowsAre ==
    ASSUME NEW s \in Seq(Symbols)
    PROVE  SourceRows(s) \in Seq(Seq(Symbols))
<1>1. PICK Q : Q = Seq(Symbols)
  OBVIOUS
<1>2. PICK rows : rows = Rows(s)
  OBVIOUS
<1>3. rows \in Seq(Q) /\ rows # <<>>
  BY <1>1, <1>2, SymbolsHave, RowsBack
<1>4. Front(rows) \in Seq(Q)
  BY <1>3, FrontAndLast
<1>5. SourceRows(s) = IF Last(rows) = <<>> THEN Front(rows) ELSE rows
  BY <1>2 DEF SourceRows
<1> QED
  BY <1>1, <1>3, <1>4, <1>5

LEMMA ListingIs ==
    ASSUME NEW s \in Seq(Symbols)
    PROVE  /\ Listing(s) \in Seq(Entries) /\ Len(Listing(s)) = Len(SourceRows(s))
           /\ \A i \in 1 .. Len(Listing(s)) : Listing(s)[i] = Numbered(SourceRows(s)[i], i)
<1>1. PICK rows, Q : rows = SourceRows(s) /\ Q = Seq(Symbols)
  OBVIOUS
<1>2. rows \in Seq(Q)
  BY <1>1, SourceRowsAre
<1>3. Len(rows) \in Nat /\ \A i \in 1 .. Len(rows) : rows[i] \in Q
  BY <1>2
<1>4. \A i \in 1 .. Len(rows) : Numbered(rows[i], i) \in Entries
  BY <1>1, <1>3, NumberedIs
<1>5. Listing(s) = [i \in 1 .. Len(rows) |-> Numbered(rows[i], i)]
  BY <1>1 DEF Listing
<1> QED
  BY <1>1, <1>3, <1>4, <1>5

CutEntry(x) == [number |-> x.number, text |-> Upto(x.text, TextMax - 1)]

LEMMA CutEntryIs ==
    ASSUME NEW x \in Entries
    PROVE  CutEntry(x) \in Entries /\ (Len(x.text) < TextMax => CutEntry(x) = x)
<1>1. x.number \in Nat /\ x.text \in Seq(Symbols) /\ x = [number |-> x.number, text |-> x.text]
  BY DEF Entries
<1>2. PICK n \in Nat : n = TextMax - 1
  BY ScriptSizes
<1>3. Upto(x.text, n) \in Seq(Symbols) /\ (Len(x.text) <= n => Upto(x.text, n) = x.text)
  BY <1>1, AtMost
<1>4. CutEntry(x) \in Entries
  BY <1>1, <1>2, <1>3 DEF CutEntry, Entries
<1>5. ASSUME Len(x.text) < TextMax PROVE CutEntry(x) = x
  <2>1. Len(x.text) <= n
    BY <1>1, <1>2, <1>5, ScriptSizes
  <2> QED
    BY <1>1, <1>2, <1>3, <2>1 DEF CutEntry
<1> QED
  BY <1>4, <1>5

LEMMA ParsedLinesAre ==
    ASSUME NEW s \in Seq(Symbols)
    PROVE  /\ parse_source_lines(s) \in Seq(Entries)
           /\ FitsScript(s) => parse_source_lines(s) = Listing(s)
<1>1. PICK l : l = Listing(s)
  OBVIOUS
<1>2. l \in Seq(Entries) /\ Len(l) \in Nat /\ \A i \in 1 .. Len(l) : l[i] \in Entries
  BY <1>1, ListingIs
<1>3. PICK cut : cut = [i \in 1 .. Len(l) |-> CutEntry(l[i])]
  OBVIOUS
<1>4. cut \in Seq(Entries) /\ Len(cut) = Len(l) /\ \A i \in 1 .. Len(l) : cut[i] = CutEntry(l[i])
  BY <1>2, <1>3, CutEntryIs
<1>5. parse_source_lines(s) = Upto(cut, ScriptMax)
  BY <1>1, <1>3 DEF parse_source_lines, CutEntry
<1>6. parse_source_lines(s) \in Seq(Entries)
  BY <1>4, <1>5, ScriptSizes, AtMost
<1>7. ASSUME FitsScript(s) PROVE parse_source_lines(s) = l
  <2>1. Len(l) < ScriptMax /\ \A x \in Range(l) : Len(x.text) < TextMax
    BY <1>1, <1>7 DEF FitsScript
  <2>2. \A i \in 1 .. Len(l) : l[i] \in Range(l)
    BY <1>2 DEF Range
  <2>3. \A i \in 1 .. Len(l) : cut[i] = l[i]
    BY <1>2, <1>4, <2>1, <2>2, CutEntryIs
  <2>4. cut = l
    BY <1>2, <1>4, <2>3, SeqEqual
  <2>5. Len(l) <= ScriptMax
    BY <1>2, <2>1, ScriptSizes
  <2> QED
    BY <1>2, <1>5, <2>4, <2>5, ScriptSizes, AtMost
<1> QED
  BY <1>1, <1>6, <1>7

\* The symbols a line is written with.
RowOf(x) == <<<<"num", x.number>>>> \o x.text

LEMMA RowOfIs ==
    ASSUME NEW x \in Entries
    PROVE  RowOf(x) \in Seq(Symbols)
<1>1. x.number \in Nat /\ x.text \in Seq(Symbols)
  BY DEF Entries
<1>2. <<"num", x.number>> \in Symbols
  BY <1>1 DEF Symbols
<1> QED
  BY <1>1, <1>2 DEF RowOf

LEMMA WrittenIs ==
    ASSUME NEW l \in Seq(Entries)
    PROVE  Written(l) \in Seq(Symbols)
<1>1. PICK kept : kept = Only(l, {x \in Range(l) : x.number > 0})
  OBVIOUS
<1>2. kept \in Seq(Entries)
  BY <1>1, OnlyKeeps
<1>3. PICK rows, Q : rows = [i \in 1 .. Len(kept) |-> RowOf(kept[i])] /\ Q = Seq(Symbols)
  OBVIOUS
<1>4. rows \in Seq(Q)
  <2>1. Len(kept) \in Nat /\ \A i \in 1 .. Len(kept) : kept[i] \in Entries
    BY <1>2
  <2>2. \A i \in 1 .. Len(kept) : RowOf(kept[i]) \in Q
    BY <1>3, <2>1, RowOfIs
  <2> QED
    BY <1>3, <2>1, <2>2
<1>5. Written(l) = Lines(rows)
  BY <1>1, <1>3 DEF Written, RowOf
<1>6. PICK f : /\ \A i \in 0 .. Len(rows) : f[i] \in Seq(Symbols)
               /\ Lines(rows) = f[Len(rows)]
  BY <1>3, <1>4, SymbolsHave, LinesSteps
<1>7. Len(rows) \in 0 .. Len(rows)
  BY <1>4
<1> QED
  BY <1>5, <1>6, <1>7

LEMMA FirstOf ==
    ASSUME NEW n \in Nat, NEW U \in SUBSET (1 .. n), U # {}
    PROVE  /\ (CHOOSE i \in U : \A j \in U : i <= j) \in U
           /\ \A j \in U : (CHOOSE i \in U : \A k \in U : i <= k) <= j
<1>1. U \in SUBSET Nat
  OBVIOUS
<1>2. \E i \in U : \A j \in U : i <= j
  BY <1>1, SmallestOf
<1> QED
  BY <1>2

\* The lines that RUN takes.
LEMMA RunIs ==
    ASSUME NEW s \in Seq(Symbols), NEW l \in Seq(Entries), l = parse_source_lines(s),
           NEW m, m = sort_lines(l)
    PROVE  /\ m \in Seq(Entries) /\ Len(m) = Len(l)
           /\ \E k \in 0 .. Len(m) :
                 /\ gridscript_lines(s) = SubSeq(m, 1, k)
                 /\ \A i \in 1 .. k : ~ Stops(m[i])
                 /\ k < Len(m) => Stops(m[k + 1])
<1>1. m \in Seq(Entries) /\ Len(m) = Len(l)
  BY SortIs DEF Shuffles
<1>2. PICK n \in Nat : n = Len(m)
  BY <1>1
<1>3. PICK ends : ends = {i \in 1 .. Len(m) : Stops(m[i])}
  OBVIOUS
<1>4. gridscript_lines(s) = IF ends = {} THEN m
                            ELSE SubSeq(m, 1, (CHOOSE i \in ends : \A j \in ends : i <= j) - 1)
  BY <1>3 DEF gridscript_lines
<1>5. CASE ends = {}
  <2>1. SubSeq(m, 1, n) = m
    BY <1>1, <1>2
  <2>2. \A i \in 1 .. n : ~ Stops(m[i])
    BY <1>2, <1>3, <1>5
  <2>3. gridscript_lines(s) = SubSeq(m, 1, n)
    BY <1>4, <1>5, <2>1
  <2>4. n \in 0 .. Len(m) /\ ~ (n < Len(m))
    BY <1>2
  <2> QED
    BY <1>1, <2>2, <2>3, <2>4
<1>6. CASE ends # {}
  <2>1. PICK e : e = CHOOSE i \in ends : \A j \in ends : i <= j
    OBVIOUS
  <2>2. ends \in SUBSET (1 .. n)
    BY <1>2, <1>3
  <2>3. e \in ends /\ \A j \in ends : e <= j
    BY <1>6, <2>1, <2>2, FirstOf
  <2>4. PICK k : k = e - 1
    OBVIOUS
  <2>5. k \in 0 .. n /\ k + 1 = e
    BY <2>2, <2>3, <2>4
  <2>6. gridscript_lines(s) = SubSeq(m, 1, k)
    BY <1>4, <1>6, <2>1, <2>4
  <2>7. \A i \in 1 .. k : ~ Stops(m[i])
    <3> TAKE i \in 1 .. k
    <3>1. i \in 1 .. n /\ ~ (e <= i)
      BY <2>2, <2>3, <2>4, <2>5
    <3> QED
      BY <1>2, <1>3, <2>3, <3>1
  <2>8. Stops(m[k + 1])
    BY <1>3, <2>3, <2>5
  <2> QED
    BY <1>1, <1>2, <2>5, <2>6, <2>7, <2>8
<1> QED
  BY <1>5, <1>6

LEMMA RunIsTyped ==
    ASSUME NEW s \in Seq(Symbols)
    PROVE  gridscript_lines(s) \in Seq(Entries)
<1>1. PICK l \in Seq(Entries) : l = parse_source_lines(s)
  BY ParsedLinesAre
<1>2. PICK m : m = sort_lines(l)
  OBVIOUS
<1>3. m \in Seq(Entries) /\ \E k \in 0 .. Len(m) : gridscript_lines(s) = SubSeq(m, 1, k)
  BY <1>1, <1>2, RunIs
<1>4. PICK k \in 0 .. Len(m) : gridscript_lines(s) = SubSeq(m, 1, k)
  BY <1>3
<1>5. 1 \in 1 .. (Len(m) + 1) /\ k \in (1 - 1) .. Len(m)
  BY <1>3
<1> QED
  BY <1>3, <1>4, <1>5, Part

------------------------------------------------------------------------------
(***************************************************************************)
(* RUN takes the lines in order, each once, up to the first END            *)
(***************************************************************************)
LEMMA RunInOrderOf ==
    ASSUME NEW s \in Seq(Symbols), FitsScript(s), NEW ran, ran = gridscript_lines(s)
    PROVE  LET ends == {x.number : x \in {y \in Range(Listing(s)) : Stops(y)}}
               due == {x \in Range(Listing(s)) \cup Range(ran) : \A e \in ends : x.number < e}
           IN  /\ \A i, j \in 1 .. Len(ran) : i < j => ran[i].number <= ran[j].number
               /\ ToBag(Only(Listing(s), due)) = ToBag(Only(ran, due))
               /\ \A i \in 1 .. Len(ran) : ~ Stops(ran[i])
<1>1. PICK l : l = Listing(s)
  OBVIOUS
<1>2. l \in Seq(Entries) /\ l = parse_source_lines(s)
  BY <1>1, ListingIs, ParsedLinesAre
<1>3. PICK m : m = sort_lines(l)
  OBVIOUS
<1>4. m \in Seq(Entries) /\ Len(m) = Len(l) /\ m \in Shuffles(l)
      /\ \A a, b \in 1 .. Len(l) : a < b => m[a].number <= m[b].number
  BY <1>2, <1>3, SortIs DEF Shuffles
<1>5. PICK k \in 0 .. Len(m) :
         /\ ran = SubSeq(m, 1, k)
         /\ \A i \in 1 .. k : ~ Stops(m[i])
         /\ k < Len(m) => Stops(m[k + 1])
  BY <1>2, <1>3, RunIs
<1>6. ran \in Seq(Entries) /\ Len(ran) = k /\ \A i \in 1 .. k : ran[i] = m[i]
  <2>1. 1 \in 1 .. (Len(m) + 1) /\ k \in (1 - 1) .. Len(m) /\ k - 1 + 1 = k
        /\ \A i \in 1 .. k : 1 + i - 1 = i
    BY <1>4
  <2> QED
    BY <1>4, <1>5, <2>1, Part
<1>7. PICK n \in Nat : n = Len(l) /\ n = Len(m) /\ k \in 0 .. n
  BY <1>2, <1>4
<1> DEFINE ends == {x.number : x \in {y \in Range(l) : Stops(y)}}
           due == {x \in Range(l) \cup Range(ran) : \A e \in ends : x.number < e}
<1>8. \A i, j \in 1 .. Len(ran) : i < j => ran[i].number <= ran[j].number
  <2> TAKE i, j \in 1 .. Len(ran)
  <2> HAVE i < j
  <2>1. i \in 1 .. n /\ j \in 1 .. n /\ ran[i] = m[i] /\ ran[j] = m[j]
    BY <1>6, <1>7
  <2> QED
    BY <1>4, <1>7, <2>1
<1>9. \A i \in 1 .. Len(ran) : ~ Stops(ran[i])
  BY <1>5, <1>6
<1>10. \A i \in 1 .. n : m[i] \in Range(l)
  <2>1. PICK p, q : ShuffledBy(l, m, n, p, q)
    BY <1>4, <1>7 DEF Shuffles
  <2>2. \A i \in 1 .. n : p[i] \in 1 .. n /\ m[i] = l[p[i]]
    BY <2>1 DEF ShuffledBy
  <2>3. \A i \in 1 .. n : l[i] \in Range(l)
    <3>1. DOMAIN l = 1 .. n
      <4>1. DOMAIN l = 1 .. Len(l)
        BY <1>2
      <4> QED
        BY <1>7, <4>1
    <3> QED
      BY <3>1 DEF Range
  <2> QED
    BY <2>2, <2>3
<1>11. ASSUME NEW x \in due, NEW i \in 1 .. n, m[i] = x PROVE i \in 1 .. k
  <2> SUFFICES ASSUME ~ (i <= k) PROVE FALSE
    BY <1>7
  <2>1. PICK e : e = k + 1
    OBVIOUS
  <2>2. e \in 1 .. n /\ (e = i \/ e < i) /\ k < Len(m)
    BY <1>7, <2>1
  <2>3. Stops(m[e]) /\ m[e] \in Range(l)
    BY <1>5, <1>10, <2>1, <2>2
  <2>4. m[e].number \in ends
    BY <2>3
  <2>5. m[i].number < m[e].number
    BY <1>11, <2>4
  <2>6. m[i].number \in Nat /\ m[e].number \in Nat
    BY <1>4, <1>7, <2>2, NumbersAre
  <2>7. CASE e = i
    BY <2>5, <2>6, <2>7
  <2>8. CASE e < i
    <3>1. m[e].number <= m[i].number
      BY <1>4, <1>7, <2>2, <2>8
    <3> QED
      BY <2>5, <2>6, <3>1
  <2> QED
    BY <2>2, <2>7, <2>8
<1>12. ASSUME NEW x \in due PROVE Cardinality(At(ran, x)) = Cardinality(At(l, x))
  <2>1. At(ran, x) = {i \in 1 .. k : ran[i] = x} /\ At(m, x) = {i \in 1 .. n : m[i] = x}
    BY <1>4, <1>6, <1>7, AtFinite
  <2>2. \A i \in 1 .. k : i \in 1 .. n
    BY <1>7
  <2>3. \A i : i \in At(ran, x) <=> i \in At(m, x)
    <3> HIDE DEF due
    <3> QED
      BY <1>6, <1>11, <2>1, <2>2
  <2>4. At(ran, x) = At(m, x)
    BY <2>3
  <2> QED
    BY <1>2, <1>4, <2>4, ShuffleCounts
<1> HIDE DEF due
<1>13. \A x \in Entries : Cardinality(At(Only(l, due), x)) = Cardinality(At(Only(ran, due), x))
  <2> TAKE x \in Entries
  <2>1. Cardinality(At(Only(l, due), x)) = IF x \in due THEN Cardinality(At(l, x)) ELSE 0
    BY <1>2, OnlyCounts
  <2>2. Cardinality(At(Only(ran, due), x)) = IF x \in due THEN Cardinality(At(ran, x)) ELSE 0
    BY <1>6, OnlyCounts
  <2> QED
    BY <1>12, <2>1, <2>2
<1>14. Only(l, due) \in Seq(Entries) /\ Only(ran, due) \in Seq(Entries)
  BY <1>2, <1>6, OnlyKeeps
<1>15. ToBag(Only(l, due)) = ToBag(Only(ran, due))
  BY <1>13, <1>14, SameBag
<1> QED
  BY <1>1, <1>8, <1>9, <1>15 DEF due

------------------------------------------------------------------------------
(***************************************************************************)
(* What the Workbench keeps                                                *)
(***************************************************************************)
Views == {"closed", "editor", "desktop", "cli", "filesel"}

Benches ==
    [source : Seq(Symbols), path : Paths, modified : BOOLEAN, view : Views, saving : BOOLEAN,
     list : Seq(Paths), volume : {"/source"} \cup Icons, ran : Seq(Entries),
     seen : Seq(Symbols), mixed : BOOLEAN]

\* Source and list keep to their arrays; a source without changes is its
\* file; what was run is what the source says, and is shown nowhere else.
BenchOK(b) ==
    /\ b \in Benches
    /\ Len(b.source) < SourceMax /\ Len(b.list) <= ListMax
    /\ b.modified \/ b.mixed \/ b.source = b.seen
    /\ b.ran # <<>> => b.view = "cli" /\ b.ran = gridscript_lines(b.source)

FilesOK == files \in [Paths -> {NoFile} \cup Seq(Symbols)]

LEMMA BenchHas ==
    ASSUME NEW b, BenchOK(b)
    PROVE  /\ b.source \in Seq(Symbols) /\ b.path \in Paths /\ b.modified \in BOOLEAN
           /\ b.view \in Views /\ b.saving \in BOOLEAN /\ b.list \in Seq(Paths)
           /\ b.volume \in {"/source"} \cup Icons /\ b.ran \in Seq(Entries)
           /\ b.seen \in Seq(Symbols) /\ b.mixed \in BOOLEAN
           /\ Len(b.source) \in Nat /\ Len(b.list) \in Nat
  BY DEF BenchOK, Benches

LEMMA FileIs ==
    ASSUME FilesOK, NEW p \in Paths, NEW room \in Nat, Readable(p, room)
    PROVE  files[p] \in Seq(Symbols) /\ Len(files[p]) \in Nat /\ Len(files[p]) <= room
           /\ files[p] # NoFile
  BY DEF FilesOK, Readable

LEMMA WrittenFile ==
    ASSUME FilesOK, NEW p \in Paths, NEW s \in Seq(Symbols),
           Written_at(p, s) \/ WriteFails(p)
    PROVE  FilesOK'
<1>1. Torn \in Seq(Symbols)
  <2>1. Torn \in Contents
    BY DEF Contents
  <2> QED
    BY <2>1, ContentsAreTexts
<1> QED
  BY <1>1 DEF FilesOK, Written_at, WriteFails

LEMMA FreshOK == BenchOK(Fresh) /\ Fresh.ran = <<>> /\ Fresh.volume = "/source"
<1>1. Untitled \in Paths
  BY EditorsAssumption
<1>2. <<>> \in Seq(Symbols) /\ <<>> \in Seq(Paths) /\ <<>> \in Seq(Entries) /\ Len(<<>>) = 0
  OBVIOUS
<1>3. "editor" \in Views
  BY DEF Views
<1>4. PICK b : b = Fresh
  OBVIOUS
<1>5. b \in Benches
  BY <1>1, <1>2, <1>3, <1>4 DEF Fresh, Benches
<1>6. /\ b.source = <<>> /\ b.list = <<>> /\ b.ran = <<>> /\ b.seen = <<>>
      /\ b.volume = "/source"
  BY <1>4 DEF Fresh
<1>7. Len(b.source) < SourceMax /\ Len(b.list) <= ListMax
  BY <1>2, <1>6, ScriptSizes, EditorsAssumption
<1> QED
  BY <1>4, <1>5, <1>6, <1>7 DEF BenchOK

LEMMA ShownIs ==
    ASSUME NEW b, BenchOK(b), NEW v \in Views
    PROVE  BenchOK(Show(b, v)) /\ Show(b, v).ran = <<>> /\ Show(b, v).view = v
           /\ Show(b, v).volume = b.volume
<1>1. PICK c : c = [b EXCEPT !.view = v, !.ran = <<>>]
  OBVIOUS
<1>2. b \in Benches /\ <<>> \in Seq(Entries)
  BY DEF BenchOK
<1>3. /\ c \in Benches /\ c.source = b.source /\ c.list = b.list /\ c.modified = b.modified
      /\ c.mixed = b.mixed /\ c.seen = b.seen /\ c.ran = <<>> /\ c.view = v /\ c.volume = b.volume
  BY <1>1, <1>2 DEF Benches
<1>4. BenchOK(c)
  BY <1>3 DEF BenchOK
<1>5. Show(b, v) = c
  BY <1>1 DEF Show
<1> QED
  BY <1>3, <1>4, <1>5

LEMMA SilencedOK ==
    ASSUME NEW b, BenchOK(b), NEW c, c = [b EXCEPT !.ran = <<>>]
    PROVE  BenchOK(c) /\ c.ran = <<>>
<1>1. b \in Benches /\ <<>> \in Seq(Entries)
  BY DEF BenchOK
<1>2. /\ c \in Benches /\ c.source = b.source /\ c.list = b.list /\ c.modified = b.modified
      /\ c.mixed = b.mixed /\ c.seen = b.seen /\ c.ran = <<>>
  BY <1>1 DEF Benches
<1> QED
  BY <1>2 DEF BenchOK

LEMMA RenamedOK ==
    ASSUME NEW b, BenchOK(b), NEW p \in Paths, NEW c, c = [b EXCEPT !.path = p]
    PROVE  BenchOK(c) /\ c.ran = b.ran /\ c.view = b.view /\ c.saving = b.saving
           /\ c.source = b.source /\ c.path = p
<1>1. b \in Benches
  BY DEF BenchOK
<1>2. /\ c \in Benches /\ c.source = b.source /\ c.list = b.list /\ c.modified = b.modified
      /\ c.mixed = b.mixed /\ c.seen = b.seen /\ c.ran = b.ran /\ c.view = b.view
      /\ c.saving = b.saving /\ c.path = p
  BY <1>1 DEF Benches
<1> QED
  BY <1>2 DEF BenchOK

LEMMA LoadedOK ==
    ASSUME FilesOK, NEW b, BenchOK(b), b.ran = <<>>, NEW p \in Paths, CanRead(p)
    PROVE  BenchOK(Loaded(b, p))
<1>1. PICK room \in Nat : room = SourceMax - 1
  BY ScriptSizes
<1>2. /\ files[p] \in Seq(Symbols) /\ Len(files[p]) \in Nat /\ Len(files[p]) <= room
  BY <1>1, FileIs DEF CanRead
<1>3. PICK s \in Seq(Symbols) : s = files[p] /\ Len(s) < SourceMax
  BY <1>1, <1>2, ScriptSizes
<1>4. PICK c : c = [b EXCEPT !.source = s, !.path = p, !.modified = FALSE, !.view = "editor",
                             !.seen = s, !.mixed = FALSE]
  OBVIOUS
<1>5. b \in Benches /\ "editor" \in Views
  BY DEF BenchOK, Views
<1>6. /\ c \in Benches /\ c.source = s /\ c.list = b.list /\ c.seen = s /\ c.ran = b.ran
  BY <1>4, <1>5 DEF Benches
<1>7. BenchOK(c)
  BY <1>3, <1>6 DEF BenchOK
<1> QED
  BY <1>3, <1>4, <1>7 DEF Loaded

\* What is left of a sequence.
LEMMA Remains ==
    ASSUME NEW S, NEW s \in Seq(S), NEW k \in Nat
    PROVE  /\ SubSeq(s, k + 1, Len(s)) \in Seq(S)
           /\ Len(SubSeq(s, k + 1, Len(s))) = IF k < Len(s) THEN Len(s) - k ELSE 0
<1>1. CASE k <= Len(s)
  <2>1. k + 1 \in 1 .. (Len(s) + 1) /\ Len(s) \in ((k + 1) - 1) .. Len(s)
        /\ Len(s) - (k + 1) + 1 = Len(s) - k /\ Len(s) \in Nat
    BY <1>1
  <2>2. SubSeq(s, k + 1, Len(s)) \in Seq(S)
        /\ Len(SubSeq(s, k + 1, Len(s))) = Len(s) - (k + 1) + 1
    BY <2>1, Part
  <2>3. (IF k < Len(s) THEN Len(s) - k ELSE 0) = Len(s) - k
    <3>1. PICK n \in Nat : n = Len(s)
      BY <2>1
    <3>2. k <= n
      BY <1>1, <3>1
    <3>3. (IF k < n THEN n - k ELSE 0) = n - k
      BY <3>2
    <3> QED
      BY <3>1, <3>3
  <2> QED
    BY <2>1, <2>2, <2>3
<1>2. CASE ~ (k <= Len(s))
  <2>1. Len(s) \in Nat /\ ~ (k < Len(s)) /\ Len(s) < k + 1
    BY <1>2
  <2>2. SubSeq(s, k + 1, Len(s)) = <<>>
    BY <2>1
  <2> QED
    BY <2>1, <2>2
<1> QED
  BY <1>1, <1>2

LEMMA LoadFailsOK ==
    ASSUME FilesOK, NEW b, BenchOK(b), b.ran = <<>>, NEW p \in Paths, NEW c \in LoadFails(b, p)
    PROVE  BenchOK(c) /\ c.ran = <<>>
<1>1. CASE c = b
  BY <1>1
<1>2. CASE c # b
  <2>1. CanRead(p) /\ \E k \in 1 .. (Len(files[p]) - 1) : c = Spliced(b, p, k)
    BY <1>2 DEF LoadFails
  <2>2. PICK k \in 1 .. (Len(files[p]) - 1) : c = Spliced(b, p, k)
    BY <2>1
  <2>3. PICK room \in Nat : room = SourceMax - 1
    BY ScriptSizes
  <2>4. PICK s \in Seq(Symbols) : s = files[p] /\ Len(s) \in Nat /\ Len(s) <= room
    BY <2>1, <2>3, FileIs DEF CanRead
  <2>5. k \in Nat /\ k < Len(s) /\ k < SourceMax
    BY <2>2, <2>3, <2>4, ScriptSizes
  <2>6. SubSeq(s, 1, k) \in Seq(Symbols) /\ Len(SubSeq(s, 1, k)) = k
    <3>1. 1 \in 1 .. (Len(s) + 1) /\ k \in (1 - 1) .. Len(s) /\ k - 1 + 1 = k
      BY <2>4, <2>5
    <3> QED
      BY <2>4, <3>1, Part
  <2>7. PICK old : old = SubSeq(b.source, k + 1, Len(b.source))
    OBVIOUS
  <2>8. /\ old \in Seq(Symbols)
        /\ Len(old) = IF k < Len(b.source) THEN Len(b.source) - k ELSE 0
    BY <2>5, <2>7, BenchHas, Remains
  <2>9. PICK new : new = SubSeq(s, 1, k) \o old
    OBVIOUS
  <2>10. new \in Seq(Symbols) /\ Len(new) < SourceMax
    <3>1. new \in Seq(Symbols) /\ Len(new) = k + Len(old)
      <4>1. PICK a \in Seq(Symbols) : a = SubSeq(s, 1, k) /\ Len(a) = k
        BY <2>6
      <4>2. new = a \o old
        BY <2>9, <4>1
      <4>3. old \in Seq(Symbols)
        BY <2>8
      <4>4. a \o old \in Seq(Symbols) /\ Len(a \o old) = Len(a) + Len(old)
        BY <4>3, ConcatProperties
      <4> QED
        BY <4>1, <4>2, <4>4
    <3>2. Len(b.source) \in Nat /\ Len(b.source) < SourceMax
      BY BenchHas DEF BenchOK
    <3> QED
      BY <2>5, <2>8, <3>1, <3>2, ScriptSizes
  <2>11. c = [b EXCEPT !.source = new, !.mixed = TRUE]
    BY <2>2, <2>4, <2>7, <2>9 DEF Spliced
  <2>12. b \in Benches
    BY DEF BenchOK
  <2>13. /\ c \in Benches /\ c.source = new /\ c.mixed = TRUE /\ c.list = b.list /\ c.ran = b.ran
    BY <2>10, <2>11, <2>12 DEF Benches
  <2> QED
    BY <2>10, <2>13 DEF BenchOK
<1> QED
  BY <1>1, <1>2

LEMMA ListedIs ==
    ASSUME NEW dir
    PROVE  Listed(dir) \in Seq(Paths) /\ Len(Listed(dir)) <= ListMax
<1>1. Inodes \in Seq(Paths) /\ ListMax \in Nat
  BY ContentsAssumption, EditorsAssumption
<1>2. PICK here : here = Only(Inodes, {p \in Paths : Dir[p] = dir /\ files[p] # NoFile})
  OBVIOUS
<1>3. here \in Seq(Paths) /\ Len(here) \in Nat
  <2>1. here \in Seq(Paths)
    BY <1>1, <1>2, OnlyKeeps
  <2> QED
    BY <2>1
<1>4. Upto(here, ListMax) \in Seq(Paths)
      /\ Len(Upto(here, ListMax)) = IF ListMax < Len(here) THEN ListMax ELSE Len(here)
  BY <1>1, <1>3, AtMost
<1>5. Len(Upto(here, ListMax)) <= ListMax
  BY <1>1, <1>3, <1>4
<1> QED
  BY <1>2, <1>4, <1>5 DEF Listed

LEMMA FileselOK ==
    ASSUME NEW b, BenchOK(b), NEW saving \in BOOLEAN
    PROVE  BenchOK(open_filesel(b, saving))
<1>1. PICK d : d = Show(b, "filesel")
  OBVIOUS
<1>2. BenchOK(d) /\ d.ran = <<>>
  <2>1. "filesel" \in Views
    BY DEF Views
  <2> QED
    BY <1>1, <2>1, ShownIs
<1>3. PICK list : list = IF Listed(b.volume) = <<>> /\ ~ saving THEN Listed("/source")
                         ELSE Listed(b.volume)
  OBVIOUS
<1>4. list \in Seq(Paths) /\ Len(list) <= ListMax
  BY <1>3, ListedIs
<1>5. PICK c : c = [d EXCEPT !.saving = saving, !.list = list]
  OBVIOUS
<1>6. d \in Benches
  BY <1>2 DEF BenchOK
<1>7. /\ c \in Benches /\ c.source = d.source /\ c.list = list /\ c.modified = d.modified
      /\ c.mixed = d.mixed /\ c.seen = d.seen /\ c.ran = d.ran
  BY <1>4, <1>5, <1>6 DEF Benches
<1>8. open_filesel(b, saving) = c
  BY <1>1, <1>3, <1>5 DEF open_filesel
<1> QED
  BY <1>2, <1>4, <1>7, <1>8 DEF BenchOK

LEMMA SavedOK ==
    ASSUME NEW b, BenchOK(b)
    PROVE  BenchOK(Saved(b)) /\ Saved(b).ran = b.ran /\ Saved(b).view = b.view
<1>1. PICK c : c = [b EXCEPT !.modified = FALSE, !.seen = b.source, !.mixed = FALSE]
  OBVIOUS
<1>2. b \in Benches
  BY DEF BenchOK
<1>3. b.source \in Seq(Symbols)
  BY BenchHas
<1>4. /\ c \in Benches /\ c.source = b.source /\ c.list = b.list
      /\ c.seen = b.source /\ c.ran = b.ran /\ c.view = b.view
  BY <1>1, <1>2, <1>3 DEF Benches
<1>5. Saved(b) = c
  BY <1>1 DEF Saved
<1> QED
  BY <1>4, <1>5 DEF BenchOK

LEMMA SaveStep ==
    ASSUME FilesOK, NEW b, BenchOK(b), NEW done, BenchOK(done), NEW failed, BenchOK(failed),
           ide_save(b, done, failed)
    PROVE  FilesOK' /\ BenchOK(bench')
<1>1. b.source \in Seq(Symbols) /\ b.path \in Paths
  BY BenchHas
<1>2. CASE b.source # <<>> /\ Written_at(b.path, b.source) /\ bench' = done
  BY <1>1, <1>2, WrittenFile
<1>3. CASE b.source # <<>> /\ WriteFails(b.path) /\ bench' = failed
  BY <1>1, <1>3, WrittenFile
<1>4. CASE b.source = <<>> /\ UNCHANGED files /\ bench' = failed
  BY <1>4 DEF FilesOK
<1> QED
  BY <1>2, <1>3, <1>4 DEF ide_save

LEMMA RebuiltOK ==
    ASSUME NEW b, BenchOK(b), b.ran = <<>>, NEW l \in Seq(Entries), NEW c, c = rebuild_source(b, l),
           NEW d, d = [c EXCEPT !.mixed = c.mixed \/ Len(c.source) = SourceMax - 1]
    PROVE  BenchOK(d)
<1>1. PICK all \in Seq(Symbols) : all = Written(l)
  BY WrittenIs
<1>2. b \in Benches
  BY DEF BenchOK
<1>3. Len(all) \in Nat
  OBVIOUS
<1>4. CASE Len(all) < SourceMax
  <2>1. c = [b EXCEPT !.source = all, !.modified = TRUE]
    BY <1>1, <1>4 DEF rebuild_source
  <2>2. c \in Benches /\ c.source = all /\ c.modified = TRUE /\ c.list = b.list /\ c.ran = b.ran
    BY <1>2, <2>1 DEF Benches
  <2>3. PICK mixed \in BOOLEAN : d = [c EXCEPT !.mixed = mixed]
    OBVIOUS
  <2>4. d \in Benches /\ d.source = all /\ d.modified = TRUE /\ d.list = b.list /\ d.ran = b.ran
    BY <2>2, <2>3 DEF Benches
  <2> QED
    BY <1>4, <2>4 DEF BenchOK
<1>5. CASE ~ (Len(all) < SourceMax)
  <2>1. PICK n \in Nat : n = SourceMax - 1
    BY ScriptSizes
  <2>2. PICK cut : cut = Upto(all, n)
    OBVIOUS
  <2>3. cut \in Seq(Symbols) /\ Len(cut) = IF n < Len(all) THEN n ELSE Len(all)
    BY <2>2, AtMost
  <2>4. Len(cut) = n /\ n < SourceMax
    BY <1>3, <1>5, <2>1, <2>3, ScriptSizes
  <2>5. c = [b EXCEPT !.source = cut]
    BY <1>1, <1>5, <2>1, <2>2 DEF rebuild_source
  <2>6. c \in Benches /\ c.source = cut /\ c.list = b.list /\ c.ran = b.ran
    BY <1>2, <2>3, <2>5 DEF Benches
  <2>7. (c.mixed \/ Len(c.source) = SourceMax - 1) = TRUE
    BY <2>1, <2>4, <2>6
  <2>8. d = [c EXCEPT !.mixed = TRUE]
    BY <2>7
  <2>9. d \in Benches /\ d.source = cut /\ d.mixed = TRUE /\ d.list = b.list /\ d.ran = b.ran
    BY <2>6, <2>8 DEF Benches
  <2> QED
    BY <2>4, <2>9 DEF BenchOK
<1> QED
  BY <1>4, <1>5

\* The lines after one is typed: in place of the first of its number, or at
\* the end.
Edited(l, n, text) ==
    LET same == {i \in 1 .. Len(l) : l[i].number = n}
        new == [number |-> n, text |-> text]
    IN  IF same # {}
        THEN ReplaceAt(l, CHOOSE i \in same : \A j \in same : i <= j, new)
        ELSE IF Len(l) < ScriptMax THEN Append(l, new) ELSE l

LEMMA EditedIs ==
    ASSUME NEW l \in Seq(Entries), NEW n \in Nat, NEW text \in Seq(Symbols)
    PROVE  Edited(l, n, text) \in Seq(Entries)
<1>1. PICK new : new = [number |-> n, text |-> text]
  OBVIOUS
<1>2. new \in Entries
  BY <1>1 DEF Entries
<1>3. PICK same : same = {i \in 1 .. Len(l) : l[i].number = n}
  OBVIOUS
<1>4. CASE same # {}
  <2>1. PICK i : i = CHOOSE k \in same : \A j \in same : k <= j
    OBVIOUS
  <2>2. i \in 1 .. Len(l)
    <3>1. PICK k \in Nat : k = Len(l)
      OBVIOUS
    <3>2. same \in SUBSET (1 .. k)
      BY <1>3, <3>1
    <3>3. i \in same
      BY <1>4, <2>1, <3>2, FirstOf
    <3> QED
      BY <1>3, <3>3
  <2>3. Edited(l, n, text) = [l EXCEPT ![i] = new]
    BY <1>1, <1>3, <1>4, <2>1 DEF Edited, ReplaceAt
  <2> QED
    BY <1>2, <2>2, <2>3, ExceptSeq
<1>5. CASE same = {}
  <2>1. Edited(l, n, text) = IF Len(l) < ScriptMax THEN Append(l, new) ELSE l
    BY <1>1, <1>3, <1>5 DEF Edited
  <2>2. Append(l, new) \in Seq(Entries)
    BY <1>2
  <2> QED
    BY <2>1, <2>2
<1> QED
  BY <1>4, <1>5

LEMMA SetLineIs ==
    ASSUME NEW b, NEW n, NEW text
    PROVE  ide_set_line(b, n, text)
             = rebuild_source(b, sort_lines(Edited(parse_source_lines(b.source), n, text)))
  BY Zenon DEF ide_set_line, Edited

LEMMA TypedAre == \A n \in Numbers, text \in Texts : n \in Nat /\ text \in Seq(Symbols)
<1>1. Texts \subseteq Contents /\ Numbers \subseteq Nat
  BY ContentsAssumption DEF Contents
<1> QED
  BY <1>1, ContentsAreTexts

LEMMA LineStepOK ==
    ASSUME BenchOK(bench), NEW n \in Numbers, NEW text \in Texts, BenchLine(n, text)
    PROVE  BenchOK(bench')
<1>1. n \in Nat /\ text \in Seq(Symbols)
  BY TypedAre
<1>2. bench.view = "editor" /\ bench.ran = <<>>
  BY DEF BenchLine, BenchOK
<1>3. PICK c : c = IF text = <<>> THEN ide_delete_line(bench, n) ELSE ide_set_line(bench, n, text)
  OBVIOUS
<1>4. bench' = [c EXCEPT !.mixed = c.mixed \/ Len(c.source) = SourceMax - 1]
  BY <1>3 DEF BenchLine
<1>5. PICK l \in Seq(Entries) : l = parse_source_lines(bench.source)
  BY BenchHas, ParsedLinesAre
<1>6. CASE text = <<>>
  <2>1. PICK k : k = Only(l, {x \in Range(l) : x.number # n})
    OBVIOUS
  <2>2. k \in Seq(Entries)
    BY <2>1, OnlyKeeps
  <2>3. c = rebuild_source(bench, k)
    BY <1>3, <1>5, <1>6, <2>1 DEF ide_delete_line
  <2> QED
    BY <1>2, <1>4, <2>2, <2>3, RebuiltOK
<1>7. CASE text # <<>>
  <2>1. PICK k \in Seq(Entries) : k = Edited(l, n, text)
    BY <1>1, EditedIs
  <2>2. sort_lines(k) \in Seq(Entries)
    BY SortIs DEF Shuffles
  <2>3. c = rebuild_source(bench, sort_lines(k))
    BY <1>3, <1>5, <1>7, <2>1, SetLineIs
  <2> QED
    BY <1>2, <1>4, <2>2, <2>3, RebuiltOK
<1> QED
  BY <1>6, <1>7

------------------------------------------------------------------------------
(***************************************************************************)
(* The invariant, step by step                                             *)
(***************************************************************************)
EditorsInv ==
    /\ FilesOK /\ BufferOK(ide) /\ seen \in {NoFile} \cup Seq(Symbols)
    /\ CleanBufferIsFile
    /\ BenchOK(bench)

LEMMA ClosedOK == BenchOK(Closed)
<1>1. PICK b : b = Fresh
  OBVIOUS
<1>2. PICK c : c = [b EXCEPT !.view = "closed"]
  OBVIOUS
<1>3. b \in Benches /\ "closed" \in Views
  BY <1>1, FreshOK DEF BenchOK, Views
<1>4. /\ c \in Benches /\ c.source = b.source /\ c.list = b.list /\ c.modified = b.modified
      /\ c.mixed = b.mixed /\ c.seen = b.seen /\ c.ran = b.ran
  BY <1>2, <1>3 DEF Benches
<1>5. BenchOK(c)
  BY <1>1, <1>4, FreshOK DEF BenchOK
<1> QED
  BY <1>1, <1>2, <1>5 DEF Closed

LEMMA InitOK == ASSUME Init PROVE EditorsInv
<1>1. FilesOK
  <2>1. OnDisk \in [Paths -> {NoFile} \cup Contents]
    BY ContentsAssumption
  <2> QED
    BY <2>1, ContentsAreTexts DEF FilesOK, Init
<1>2. BufferOK(ide) /\ seen = NoFile /\ BenchOK(bench)
  BY EmptyOK, ClosedOK DEF Init
<1> QED
  BY <1>1, <1>2 DEF EditorsInv, CleanBufferIsFile

\* A file in the buffer, as :load, :mod load and basic_ide put it there.
LEMMA ReadOK ==
    ASSUME EditorsInv, NEW p \in Paths, Readable(p, SrcMax - 1),
           ide' = parse_source_into(ide, p, files[p]), seen' = files[p]
    PROVE  BufferOK(ide') /\ seen' \in {NoFile} \cup Seq(Symbols) /\ CleanBufferIsFile'
<1>1. SrcMax - 1 \in Nat
  BY BufferAssumption
<1>2. PICK s \in Seq(Symbols) : s = files[p]
  BY <1>1, FileIs DEF EditorsInv
<1>3. PICK c : c = parse_source_into(ide, p, s)
  OBVIOUS
<1>4. BufferOK(c) /\ (FitsBuffer(s) => serialize(c) \in {s, s \o <<NL>>})
  BY <1>3, ParsedOK
<1>5. ide' = c /\ seen' = s
  BY <1>2, <1>3
<1>6. CleanBufferIsFile'
  BY <1>4, <1>5 DEF CleanBufferIsFile
<1> QED
  BY <1>4, <1>5, <1>6

LEMMA UnreadOK ==
    ASSUME NEW b, BufferOK(b), ide' = b, seen' = NoFile
    PROVE  BufferOK(ide') /\ seen' \in {NoFile} \cup Seq(Symbols) /\ CleanBufferIsFile'
  BY DEF CleanBufferIsFile

LEMMA PressStep == ASSUME EditorsInv, Press PROVE EditorsInv'
<1>1. PICK c \in Pressed : ide' = c
  BY DEF Press
<1>2. BufferOK(c) /\ (c.dirty = TRUE \/ (c.lines = ide.lines /\ c.dirty = ide.dirty))
  BY <1>1, PressedOK DEF EditorsInv
<1>3. FilesOK' /\ BenchOK(bench)' /\ seen' = seen
  BY DEF Press, EditorsInv, FilesOK
<1>4. CleanBufferIsFile'
  BY <1>1, <1>2, <1>3 DEF EditorsInv, CleanBufferIsFile, serialize
<1> QED
  BY <1>1, <1>2, <1>3, <1>4 DEF EditorsInv

LEMMA SaveStepOK == ASSUME EditorsInv, NEW p \in Paths, Save(p) PROVE EditorsInv'
<1>1. PICK s \in Seq(Symbols) : s = serialize(ide)
  BY SerializeIs DEF EditorsInv
<1>2. Written_at(p, s) /\ seen' = s /\ ide' = [ide EXCEPT !.path = p, !.dirty = FALSE]
      /\ bench' = bench
  BY <1>1 DEF Save, Basic
<1>3. PICK c : c = [ide EXCEPT !.path = p, !.dirty = FALSE]
  OBVIOUS
<1>4. ide \in Buffers
  BY DEF EditorsInv, BufferOK, Loose
<1>5. c \in Buffers /\ c.lines = ide.lines /\ c.row = ide.row /\ c.col = ide.col
  BY <1>3, <1>4 DEF Buffers
<1>6. BufferOK(c)
  BY <1>5 DEF EditorsInv, BufferOK, Loose, Line
<1>7. serialize(c) = s
  BY <1>1, <1>5 DEF serialize
<1>8. CleanBufferIsFile'
  BY <1>2, <1>3, <1>7 DEF CleanBufferIsFile
<1>9. FilesOK'
  BY <1>2, WrittenFile DEF EditorsInv
<1> QED
  BY <1>2, <1>3, <1>6, <1>8, <1>9 DEF EditorsInv

\* What leaves the buffer alone.
LEMMA KeepsBuffer ==
    ASSUME EditorsInv, ide' = ide, seen' = seen, FilesOK', BenchOK(bench')
    PROVE  EditorsInv'
  BY DEF EditorsInv, CleanBufferIsFile

LEMMA WriteSteps ==
    ASSUME EditorsInv, (\E p \in Paths : SaveFails(p) \/ Compile(p)) \/ ShellWrites
    PROVE  EditorsInv'
<1>1. ide' = ide /\ seen' = seen /\ bench' = bench
  BY DEF SaveFails, Compile, ShellWrites, Basic
<1>2. ASSUME NEW p \in Paths, SaveFails(p) PROVE FilesOK'
  <2>1. <<>> \in Seq(Symbols)
    OBVIOUS
  <2> QED
    BY <1>2, <2>1, WrittenFile DEF EditorsInv, SaveFails, FilesOK
<1>3. ASSUME NEW p \in Paths, Compile(p) PROVE FilesOK'
  <2>1. Compiled \in Seq(Symbols)
    <3>1. Compiled \in Contents
      BY DEF Contents
    <3> QED
      BY <3>1, ContentsAreTexts
  <2>2. Written_at(p, Compiled) \/ WriteFails(p)
    BY <1>3 DEF Compile
  <2> QED
    BY <2>1, <2>2, WrittenFile DEF EditorsInv
<1>4. ASSUME ShellWrites PROVE FilesOK'
  <2>1. PICK p \in Paths, content \in Foreign : Written_at(p, content)
    BY <1>4 DEF ShellWrites
  <2>2. content \in Seq(Symbols)
    <3>1. content \in Contents
      BY DEF Contents
    <3> QED
      BY <3>1, ContentsAreTexts
  <2> QED
    BY <2>1, <2>2, WrittenFile DEF EditorsInv
<1>5. BenchOK(bench')
  BY <1>1 DEF EditorsInv
<1> QED
  BY <1>1, <1>2, <1>3, <1>4, <1>5, KeepsBuffer

LEMMA LoadSteps ==
    ASSUME EditorsInv, NEW p \in Paths, Load(p) \/ Reenter(p)
    PROVE  EditorsInv'
<1>1. FilesOK' /\ BenchOK(bench)'
  BY DEF EditorsInv, FilesOK, Load, Reenter, Basic
<1>2. BufferOK(ide') /\ seen' \in {NoFile} \cup Seq(Symbols) /\ CleanBufferIsFile'
  <2>1. CASE /\ Readable(p, SrcMax - 1)
             /\ ide' = parse_source_into(ide, p, files[p])
             /\ seen' = files[p]
    BY <2>1, ReadOK
  <2>2. CASE ide' = [EmptyBuffer EXCEPT !.path = p] /\ seen' = NoFile
    <3>1. PICK b : b = EmptyBuffer
      OBVIOUS
    <3>2. PICK c : c = [b EXCEPT !.path = p]
      OBVIOUS
    <3>3. BufferOK(b) /\ b \in Buffers
      BY <3>1, EmptyOK DEF BufferOK, Loose
    <3>4. c \in Buffers /\ c.lines = b.lines /\ c.row = b.row /\ c.col = b.col
      BY <3>2, <3>3 DEF Buffers
    <3>5. BufferOK(c)
      BY <3>3, <3>4 DEF BufferOK, Loose, Line
    <3> QED
      BY <2>2, <3>1, <3>2, <3>5, UnreadOK
  <2> QED
    BY <2>1, <2>2 DEF Load, Reenter, basic_ide
<1> QED
  BY <1>1, <1>2 DEF EditorsInv

LEMMA NewStep == ASSUME EditorsInv, New PROVE EditorsInv'
<1>1. FilesOK' /\ BenchOK(bench)' /\ ide' = EmptyBuffer /\ seen' = NoFile
  BY DEF EditorsInv, FilesOK, New, Basic
<1>2. BufferOK(ide') /\ seen' \in {NoFile} \cup Seq(Symbols) /\ CleanBufferIsFile'
  BY <1>1, EmptyOK, UnreadOK
<1> QED
  BY <1>1, <1>2 DEF EditorsInv

LEMMA SeekStep == ASSUME EditorsInv, Seek PROVE EditorsInv'
<1>1. FilesOK' /\ BenchOK(bench)' /\ seen' = seen
  BY DEF EditorsInv, FilesOK, Seek, Basic
<1>2. BufferOK(ide) /\ Loose(ide)
  BY BufferHas DEF EditorsInv
<1>3. PICK row \in 1 .. Len(ide.lines) :
         \/ ide' = [ide EXCEPT !.row = row, !.col = 0]
         \/ \E col \in 0 .. (Len(ide.lines[row]) - 1) : ide' = [ide EXCEPT !.row = row, !.col = col]
  BY DEF Seek
<1>4. Len(ide.lines[row]) \in Nat
  BY <1>2, LooseHas
<1>5. PICK col \in 0 .. Len(ide.lines[row]) : ide' = [ide EXCEPT !.row = row, !.col = col]
  <2>1. CASE ide' = [ide EXCEPT !.row = row, !.col = 0]
    <3>1. 0 \in 0 .. Len(ide.lines[row])
      BY <1>4
    <3> QED
      BY <2>1, <3>1
  <2>2. CASE \E col \in 0 .. (Len(ide.lines[row]) - 1) : ide' = [ide EXCEPT !.row = row, !.col = col]
    <3>1. PICK col \in 0 .. (Len(ide.lines[row]) - 1) : ide' = [ide EXCEPT !.row = row, !.col = col]
      BY <2>2
    <3>2. col \in 0 .. Len(ide.lines[row])
      BY <1>4
    <3> QED
      BY <3>1, <3>2
  <2> QED
    BY <1>3, <2>1, <2>2
<1>6. PICK c : c = [ide EXCEPT !.row = row, !.col = col]
  OBVIOUS
<1>7. BufferOK(c) /\ c.lines = ide.lines /\ c.dirty = ide.dirty
  <2>1. ide \in Buffers /\ row \in Int /\ col \in Int
    BY <1>2, <1>4 DEF Loose
  <2>2. c \in Buffers /\ c.lines = ide.lines /\ c.dirty = ide.dirty /\ c.row = row /\ c.col = col
    BY <1>6, <2>1 DEF Buffers
  <2> QED
    BY <1>2, <2>2 DEF BufferOK, Loose, Line
<1>8. CleanBufferIsFile'
  BY <1>1, <1>5, <1>6, <1>7 DEF EditorsInv, CleanBufferIsFile, serialize
<1> QED
  BY <1>1, <1>5, <1>6, <1>7, <1>8 DEF EditorsInv

LEMMA OpenSteps ==
    ASSUME EditorsInv, OpenBenchPlain \/ \E p \in Paths : OpenBench(p)
    PROVE  EditorsInv'
<1>1. files' = files /\ ide' = ide /\ seen' = seen /\ FilesOK
  BY DEF OpenBenchPlain, OpenBench, EditorsInv
<1>2. BenchOK(bench')
  <2>1. CASE OpenBenchPlain
    <3>1. Welcome \in Paths
      BY EditorsAssumption
    <3>2. CanRead(Welcome) => BenchOK(Loaded(Fresh, Welcome))
      BY <1>1, <3>1, FreshOK, LoadedOK
    <3> QED
      BY <2>1, <3>2, FreshOK DEF OpenBenchPlain
  <2>2. ASSUME NEW p \in Paths, OpenBench(p) PROVE BenchOK(bench')
    <3>1. CASE CanRead(p) /\ bench' = Loaded(Fresh, p)
      BY <1>1, <3>1, FreshOK, LoadedOK
    <3>2. CASE \E b \in LoadFails(Fresh, p) : bench' = [b EXCEPT !.path = p]
      <4>1. PICK b \in LoadFails(Fresh, p) : bench' = [b EXCEPT !.path = p]
        BY <3>2
      <4>2. BenchOK(b)
        BY <1>1, FreshOK, LoadFailsOK
      <4> QED
        BY <4>1, <4>2, RenamedOK
    <3> QED
      BY <2>2, <3>1, <3>2 DEF OpenBench
  <2> QED
    BY <2>1, <2>2
<1>3. FilesOK'
  BY <1>1 DEF FilesOK
<1> QED
  BY <1>1, <1>2, <1>3, KeepsBuffer

LEMMA ViewSteps ==
    ASSUME EditorsInv, BenchView \/ BenchFiles \/ BenchIcon \/ BenchNew \/ BenchRun \/ BenchQuit
    PROVE  EditorsInv'
<1>1. files' = files /\ ide' = ide /\ seen' = seen /\ FilesOK /\ BenchOK(bench)
  BY DEF BenchView, BenchFiles, BenchIcon, BenchNew, BenchRun, BenchQuit, AtCommand, Bench, EditorsInv
<1>2. ASSUME BenchView PROVE BenchOK(bench')
  <2>1. PICK v \in {"desktop", "cli", "editor"} : bench' = Show(bench, v)
    BY <1>2 DEF BenchView
  <2>2. v \in Views
    BY DEF Views
  <2> QED
    BY <1>1, <2>1, <2>2, ShownIs
<1>3. ASSUME BenchFiles PROVE BenchOK(bench')
  BY <1>1, <1>3, FileselOK DEF BenchFiles
<1>4. ASSUME BenchIcon PROVE BenchOK(bench')
  <2>1. PICK dir \in Icons : LET b == [bench EXCEPT !.volume = dir]
                             IN  bench' = IF dir = "/source" THEN open_filesel(b, FALSE) ELSE Show(b, "cli")
    BY <1>4 DEF BenchIcon
  <2>2. PICK b : b = [bench EXCEPT !.volume = dir]
    OBVIOUS
  <2>3. bench' \in {open_filesel(b, FALSE), Show(b, "cli")}
    BY <2>1, <2>2
  <2>4. bench \in Benches
    BY <1>1 DEF BenchOK
  <2>5. /\ b \in Benches /\ b.source = bench.source /\ b.list = bench.list
        /\ b.modified = bench.modified /\ b.mixed = bench.mixed /\ b.seen = bench.seen
        /\ b.ran = bench.ran /\ b.view = bench.view
    BY <2>2, <2>4 DEF Benches
  <2>6. BenchOK(b)
    BY <1>1, <2>5 DEF BenchOK
  <2>7. "cli" \in Views
    BY DEF Views
  <2> QED
    BY <2>3, <2>6, <2>7, FileselOK, ShownIs
<1>5. ASSUME BenchNew PROVE BenchOK(bench')
  <2>1. PICK f, b : f = Fresh /\ b = bench
    OBVIOUS
  <2>2. PICK c : c = [f EXCEPT !.saving = b.saving, !.list = b.list, !.volume = b.volume]
    OBVIOUS
  <2>3. BenchOK(f) /\ f \in Benches /\ BenchOK(b) /\ f.ran = <<>>
    BY <1>1, <2>1, FreshOK DEF BenchOK
  <2>4. b.saving \in BOOLEAN /\ b.list \in Seq(Paths) /\ b.volume \in {"/source"} \cup Icons
        /\ Len(b.list) <= ListMax
    BY <2>3, BenchHas DEF BenchOK
  <2>5. /\ c \in Benches /\ c.source = f.source /\ c.list = b.list /\ c.modified = f.modified
        /\ c.mixed = f.mixed /\ c.seen = f.seen /\ c.ran = f.ran
    BY <2>2, <2>3, <2>4 DEF Benches
  <2>6. bench' = c
    BY <1>5, <2>1, <2>2 DEF BenchNew
  <2> QED
    BY <2>3, <2>4, <2>5, <2>6 DEF BenchOK
<1>6. ASSUME BenchRun PROVE BenchOK(bench')
  <2>1. PICK ran \in Seq(Entries) : ran = gridscript_lines(bench.source)
    BY <1>1, BenchHas, RunIsTyped
  <2>2. PICK c : c = [bench EXCEPT !.view = "cli", !.ran = ran]
    OBVIOUS
  <2>3. bench \in Benches /\ "cli" \in Views
    BY <1>1 DEF BenchOK, Views
  <2>4. /\ c \in Benches /\ c.source = bench.source /\ c.list = bench.list
        /\ c.modified = bench.modified /\ c.mixed = bench.mixed /\ c.seen = bench.seen
        /\ c.ran = ran /\ c.view = "cli"
    BY <2>2, <2>3 DEF Benches
  <2>5. bench' = c
    BY <1>6, <2>1, <2>2 DEF BenchRun
  <2> QED
    BY <1>1, <2>1, <2>4, <2>5 DEF BenchOK
<1>7. ASSUME BenchQuit PROVE BenchOK(bench')
  BY <1>7, ClosedOK DEF BenchQuit
<1>8. FilesOK'
  BY <1>1 DEF FilesOK
<1>9. BenchOK(bench')
  BY <1>2, <1>3, <1>4, <1>5, <1>6, <1>7
<1> QED
  BY <1>1, <1>8, <1>9, KeepsBuffer

\* A name for the file, and the editor shown.
LEMMA NamedOK ==
    ASSUME BenchOK(bench), NEW p \in Paths, NEW b, b = [bench EXCEPT !.path = p]
    PROVE  BenchOK(b) /\ BenchOK(Show(Saved(b), "editor")) /\ BenchOK(Show(b, "editor"))
<1>1. BenchOK(b)
  BY RenamedOK
<1>2. BenchOK(Saved(b)) /\ "editor" \in Views
  BY <1>1, SavedOK DEF Views
<1> QED
  BY <1>1, <1>2, ShownIs

LEMMA PickedOK ==
    ASSUME FilesOK, BenchOK(bench), bench.view = "filesel",
           (\E i \in 1 .. Len(bench.list) : PickListed(i)) \/ (\E p \in Paths : PickNamed(p))
    PROVE  FilesOK' /\ BenchOK(bench')
<1>1. bench.ran = <<>> /\ "editor" \in Views
  BY DEF BenchOK, Views
<1>2. ASSUME NEW i \in 1 .. Len(bench.list), PickListed(i) PROVE FilesOK' /\ BenchOK(bench')
  <2>1. PICK p \in Paths : p = bench.list[i]
    BY BenchHas
  <2>2. CASE bench.saving
    <3>1. PICK b : b = [bench EXCEPT !.path = p]
      OBVIOUS
    <3>2. BenchOK(b) /\ BenchOK(Show(Saved(b), "editor")) /\ BenchOK(Show(b, "editor"))
      BY <3>1, NamedOK
    <3>3. ide_save(b, Show(Saved(b), "editor"), Show(b, "editor"))
      BY <1>2, <2>1, <2>2, <3>1 DEF PickListed
    <3> QED
      BY <3>2, <3>3, SaveStep
  <2>3. CASE ~ bench.saving
    <3>1. \/ CanRead(p) /\ bench' = Loaded(bench, p)
          \/ \E b \in LoadFails(bench, p) : bench' = Show(b, "editor")
      BY <1>2, <2>1, <2>3 DEF PickListed
    <3>2. UNCHANGED files
      BY <1>2, <2>3 DEF PickListed
    <3>3. \A b \in LoadFails(bench, p) : BenchOK(Show(b, "editor"))
      BY <1>1, LoadFailsOK, ShownIs
    <3>4. CanRead(p) => BenchOK(Loaded(bench, p))
      BY <1>1, LoadedOK
    <3> QED
      BY <3>1, <3>2, <3>3, <3>4 DEF FilesOK
  <2> QED
    BY <2>2, <2>3
<1>3. ASSUME NEW p \in Paths, PickNamed(p) PROVE FilesOK' /\ BenchOK(bench')
  <2>1. CASE bench.saving
    <3>1. PICK b : b = [bench EXCEPT !.path = p]
      OBVIOUS
    <3>2. BenchOK(b) /\ BenchOK(Show(Saved(b), "editor"))
      BY <3>1, NamedOK
    <3>3. ide_save(b, Show(Saved(b), "editor"), b)
      BY <1>3, <2>1, <3>1 DEF PickNamed
    <3> QED
      BY <3>2, <3>3, SaveStep
  <2>2. CASE ~ bench.saving
    <3>1. \/ CanRead(p) /\ bench' = Loaded(bench, p)
          \/ bench' \in LoadFails(bench, p)
      BY <1>3, <2>2 DEF PickNamed
    <3>2. UNCHANGED files
      BY <1>3, <2>2 DEF PickNamed
    <3>3. \A b \in LoadFails(bench, p) : BenchOK(b)
      BY <1>1, LoadFailsOK
    <3>4. CanRead(p) => BenchOK(Loaded(bench, p))
      BY <1>1, LoadedOK
    <3> QED
      BY <3>1, <3>2, <3>3, <3>4 DEF FilesOK
  <2> QED
    BY <2>1, <2>2
<1> QED
  BY <1>2, <1>3

LEMMA PickSteps ==
    ASSUME EditorsInv, BenchPick \/ \E p \in Paths, short \in BOOLEAN : BenchName(p, short)
    PROVE  EditorsInv'
<1>1. ide' = ide /\ seen' = seen /\ FilesOK /\ BenchOK(bench) /\ bench.view = "filesel"
  BY DEF BenchPick, BenchName, Bench, EditorsInv
<1>2. Len(bench.list) \in Nat
  BY <1>1, BenchHas
<1>3. (\E i \in 1 .. Len(bench.list) : PickListed(i)) \/ (\E p \in Paths : PickNamed(p))
  <2>1. CASE BenchPick
    <3>1. PICK i \in 1 .. (IF Len(bench.list) < 9 THEN Len(bench.list) ELSE 9) : PickListed(i)
      BY <2>1 DEF BenchPick
    <3>2. i \in 1 .. Len(bench.list)
      BY <1>2
    <3> QED
      BY <3>1, <3>2
  <2>2. ASSUME NEW p \in Paths, NEW short \in BOOLEAN, BenchName(p, short)
        PROVE  \/ \E i \in 1 .. Len(bench.list) : PickListed(i)
               \/ \E q \in Paths : PickNamed(q)
    BY <2>2 DEF BenchName
  <2> QED
    BY <2>1, <2>2
<1>4. FilesOK' /\ BenchOK(bench')
  BY <1>1, <1>3, PickedOK
<1> QED
  BY <1>1, <1>4, KeepsBuffer

LEMMA BenchSaveStep == ASSUME EditorsInv, BenchSave PROVE EditorsInv'
<1>1. ide' = ide /\ seen' = seen /\ FilesOK /\ BenchOK(bench)
  BY DEF BenchSave, Bench, EditorsInv
<1>2. PICK s : s = Saved(bench)
  OBVIOUS
<1>3. BenchOK(s)
  BY <1>1, <1>2, SavedOK
<1>4. PICK done, failed : done = [s EXCEPT !.ran = <<>>] /\ failed = [bench EXCEPT !.ran = <<>>]
  OBVIOUS
<1>5. BenchOK(done) /\ BenchOK(failed)
  BY <1>1, <1>3, <1>4, SilencedOK
<1>6. ide_save(bench, done, failed)
  BY <1>2, <1>4 DEF BenchSave
<1>7. FilesOK' /\ BenchOK(bench')
  BY <1>1, <1>5, <1>6, SaveStep
<1> QED
  BY <1>1, <1>7, KeepsBuffer

LEMMA BenchLineStep ==
    ASSUME EditorsInv, NEW n \in Numbers, NEW text \in Texts, BenchLine(n, text)
    PROVE  EditorsInv'
<1>1. files' = files /\ ide' = ide /\ seen' = seen /\ FilesOK /\ BenchOK(bench)
  BY DEF BenchLine, AtCommand, Bench, EditorsInv
<1>2. BenchOK(bench')
  BY <1>1, LineStepOK
<1>3. FilesOK'
  BY <1>1 DEF FilesOK
<1> QED
  BY <1>1, <1>2, <1>3, KeepsBuffer

LEMMA EditorsStep == EditorsInv /\ [Next]_vars => EditorsInv'
<1> SUFFICES ASSUME EditorsInv, [Next]_vars PROVE EditorsInv'
  OBVIOUS
<1>1. CASE Press
  BY <1>1, PressStep
<1>2. CASE OpenBenchPlain \/ \E p \in Paths : OpenBench(p)
  BY <1>2, OpenSteps
<1>3. CASE \E p \in Paths : Save(p)
  BY <1>3, SaveStepOK
<1>4. CASE (\E p \in Paths : SaveFails(p) \/ Compile(p)) \/ ShellWrites
  BY <1>4, WriteSteps
<1>5. CASE \E p \in Paths : Load(p) \/ Reenter(p)
  BY <1>5, LoadSteps
<1>6. CASE New
  BY <1>6, NewStep
<1>7. CASE Seek
  BY <1>7, SeekStep
<1>8. CASE BenchView \/ BenchFiles \/ BenchIcon \/ BenchNew \/ BenchRun \/ BenchQuit
  BY <1>8, ViewSteps
<1>9. CASE BenchSave
  BY <1>9, BenchSaveStep
<1>10. CASE BenchPick \/ \E p \in Paths, short \in BOOLEAN : BenchName(p, short)
  BY <1>10, PickSteps
<1>11. CASE \E n \in Numbers, text \in Texts : BenchLine(n, text)
  BY <1>11, BenchLineStep
<1>12. CASE UNCHANGED vars
  BY <1>12 DEF vars, EditorsInv, FilesOK, CleanBufferIsFile
<1> QED
  BY <1>1, <1>2, <1>3, <1>4, <1>5, <1>6, <1>7, <1>8, <1>9, <1>10, <1>11, <1>12 DEF Next

LEMMA EditorsInvariant == Spec => []EditorsInv
<1>1. Init => EditorsInv
  BY InitOK
<1> QED
  BY <1>1, EditorsStep, PTL DEF Spec

------------------------------------------------------------------------------
(***************************************************************************)
(* Rows written and read again                                             *)
(***************************************************************************)
\* One symbol more.
LEMMA RowsAppend ==
    ASSUME NEW S, NEW s \in Seq(S), NEW c \in S
    PROVE  Rows(Append(s, c)) = RowStep(Rows(s), c)
<1>1. PICK n \in Nat : n = Len(s)
  OBVIOUS
<1>2. PICK t : t = Append(s, c)
  OBVIOUS
<1>3. /\ t \in Seq(S) /\ Len(t) = n + 1 /\ t[n + 1] = c
      /\ \A i \in 1 .. n : t[i] = s[i]
  BY <1>1, <1>2
<1>4. PICK f : /\ f[0] = <<<<>>>>
               /\ \A i \in 1 .. n : f[i] = RowStep(f[i - 1], s[i])
               /\ Rows(s) = f[n]
  BY <1>1, RowsSteps
<1>5. PICK g : /\ g[0] = <<<<>>>>
               /\ \A i \in 1 .. (n + 1) : g[i] = RowStep(g[i - 1], t[i])
               /\ Rows(t) = g[n + 1]
  BY <1>3, RowsSteps, ZenonT(60)
<1> DEFINE T == {i \in 0 .. n : f[i] = g[i]}
<1>6. \A i \in 0 .. n : i \in T
  <2>1. 0 \in T
    BY <1>4, <1>5
  <2>2. ASSUME NEW i \in 0 .. (n - 1), i \in T PROVE i + 1 \in T
    <3>1. i + 1 \in 1 .. n /\ i + 1 \in 1 .. (n + 1) /\ (i + 1) - 1 = i
      OBVIOUS
    <3>2. f[i + 1] = RowStep(f[i], s[i + 1]) /\ g[i + 1] = RowStep(g[i], t[i + 1])
      BY <1>4, <1>5, <3>1
    <3> QED
      BY <1>3, <2>2, <3>1, <3>2
  <2> HIDE DEF T
  <2> QED
    BY <2>1, <2>2, UpToInduction
<1>7. g[n + 1] = RowStep(g[n], t[n + 1])
  <2>1. n + 1 \in 1 .. (n + 1) /\ (n + 1) - 1 = n
    OBVIOUS
  <2> QED
    BY <1>5, <2>1
<1>8. g[n] = f[n]
  BY <1>6
<1> QED
  BY <1>2, <1>3, <1>4, <1>5, <1>7, <1>8

\* A row without an end of line, and one behind it.
LEMMA RowsOfLine ==
    ASSUME NEW S, NL \in S, NEW s \in Seq(S), NEW R \in Seq(Seq(S)), Rows(s) = Append(R, <<>>),
           NEW row \in Seq(Plain(S))
    PROVE  Rows(s \o row \o <<NL>>) = Append(Append(R, row), <<>>)
<1>1. PICK Q : Q = Seq(S)
  OBVIOUS
<1>2. PICK n \in Nat : n = Len(row)
  OBVIOUS
<1>3. \A i \in 1 .. n : row[i] \in S /\ row[i] # NL
  BY <1>2 DEF Plain
<1>4. row \in Seq(S)
  BY <1>2, <1>3
<1> DEFINE T == {k \in 0 .. n : Rows(s \o SubSeq(row, 1, k)) = Append(R, SubSeq(row, 1, k))}
<1>5. 0 \in T
  <2>1. SubSeq(row, 1, 0) = <<>> /\ s \o <<>> = s
    OBVIOUS
  <2>2. Rows(s \o SubSeq(row, 1, 0)) = Append(R, SubSeq(row, 1, 0))
    BY <2>1, Zenon
  <2> QED
    BY <2>2
<1>6. ASSUME NEW k \in 0 .. (n - 1), k \in T PROVE k + 1 \in T
  <2>1. k + 1 \in 1 .. n /\ k + 1 \in 0 .. n /\ k \in Nat
    OBVIOUS
  <2>2. PICK c \in S : c = row[k + 1] /\ c # NL
    BY <1>3, <2>1
  <2>3. PICK part \in Seq(S) : part = SubSeq(row, 1, k)
    <3>1. SubSeq(row, 1, k) \in Seq(S)
      BY <1>2, <1>4, <2>1, Part
    <3> QED
      BY <3>1
  <2>4. SubSeq(row, 1, k + 1) = Append(part, c)
    BY <1>2, <1>4, <2>1, <2>2, <2>3
  <2>5. s \o Append(part, c) = Append(s \o part, c) /\ s \o part \in Seq(S)
    OBVIOUS
  <2>6. Rows(s \o part) = Append(R, part)
    BY <1>6, <2>3
  <2>7. Rows(Append(s \o part, c)) = RowStep(Append(R, part), c)
    BY <2>5, <2>6, RowsAppend
  <2>8. RowStep(Append(R, part), c) = Append(R, Append(part, c))
    <3>1. PICK rows : rows = Append(R, part)
      OBVIOUS
    <3>2. R \in Seq(Q) /\ part \in Q /\ Append(part, c) \in Q
      BY <1>1
    <3>3. rows \in Seq(Q) /\ Len(rows) = Len(R) + 1 /\ rows[Len(rows)] = part
      BY <3>1, <3>2
    <3>4. RowStep(rows, c) = [rows EXCEPT ![Len(rows)] = Append(part, c)]
      BY <2>2, <3>3 DEF RowStep
    <3>5. PICK e : e = Append(part, c)
      OBVIOUS
    <3>6. [rows EXCEPT ![Len(rows)] = e] = Append(R, e)
      <4>1. PICK m \in Nat : m = Len(R)
        BY <3>2
      <4>2. PICK u : u = [rows EXCEPT ![m + 1] = e]
        OBVIOUS
      <4>3. m + 1 \in 1 .. Len(rows) /\ e \in Q
        BY <3>2, <3>3, <3>5, <4>1
      <4>4. /\ u \in Seq(Q) /\ Len(u) = m + 1
            /\ \A i \in 1 .. (m + 1) : u[i] = IF i = m + 1 THEN e ELSE rows[i]
        BY <3>3, <4>1, <4>2, <4>3, ExceptSeq
      <4>5. PICK v : v = Append(R, e)
        OBVIOUS
      <4>6. /\ v \in Seq(Q) /\ Len(v) = m + 1
            /\ \A i \in 1 .. (m + 1) : v[i] = IF i = m + 1 THEN e ELSE R[i]
        BY <3>2, <4>1, <4>3, <4>5
      <4>7. \A i \in 1 .. (m + 1) : i # m + 1 => rows[i] = R[i]
        BY <3>1, <3>2, <4>1
      <4>8. u = v
        BY <4>4, <4>6, <4>7, SeqEqual
      <4> QED
        BY <3>3, <4>1, <4>2, <4>5, <4>8
    <3> QED
      BY <3>1, <3>4, <3>5, <3>6
  <2> QED
    BY <2>1, <2>4, <2>5, <2>7, <2>8
<1>7. Rows(s \o row) = Append(R, row)
  <2>1. n \in T
    <3> HIDE DEF T
    <3>1. \A i \in 0 .. n : i \in T
      BY <1>5, <1>6, UpToInduction
    <3> QED
      BY <3>1
  <2>2. SubSeq(row, 1, n) = row
    BY <1>2
  <2> QED
    BY <2>1, <2>2
<1>8. s \o row \o <<NL>> = Append(s \o row, NL) /\ s \o row \in Seq(S)
  BY <1>4
<1>9. Rows(Append(s \o row, NL)) = RowStep(Append(R, row), NL)
  BY <1>7, <1>8, RowsAppend
<1> QED
  BY <1>8, <1>9 DEF RowStep

\* Rows that are written are read back.
LEMMA RowsOfLines ==
    ASSUME NEW S, NL \in S, NEW rows \in Seq(Seq(Plain(S)))
    PROVE  Lines(rows) \in Seq(S) /\ Rows(Lines(rows)) = Append(rows, <<>>)
<1>1. PICK P : P = Seq(Plain(S))
  OBVIOUS
<1>2. PICK n \in Nat : n = Len(rows)
  BY <1>1
<1>3. PICK Q : Q = Seq(S)
  OBVIOUS
<1>4. P \in SUBSET Q /\ rows \in Seq(P) /\ <<>> \in P
  BY <1>1, <1>3 DEF Plain
<1>5. PICK f : /\ f[0] = <<>>
               /\ \A i \in 1 .. n : f[i] = LineStep(f[i - 1], rows[i])
               /\ \A i \in 0 .. n : f[i] \in Seq(S)
               /\ Lines(rows) = f[n]
  BY <1>2, <1>3, <1>4, LinesSteps
<1> DEFINE T == {k \in 0 .. n : Rows(f[k]) = Append(SubSeq(rows, 1, k), <<>>)}
<1>6. 0 \in T
  <2>1. <<>> \in Seq(S) /\ Len(<<>>) = 0
    OBVIOUS
  <2>2. Rows(<<>>) = <<<<>>>>
    BY <2>1, RowsSteps
  <2>3. SubSeq(rows, 1, 0) = <<>>
    BY <1>4
  <2>4. Append(<<>>, <<>>) = <<<<>>>>
    OBVIOUS
  <2>5. Rows(f[0]) = Append(SubSeq(rows, 1, 0), <<>>)
    BY <1>5, <2>2, <2>3, <2>4, Zenon
  <2> QED
    BY <2>5
<1>7. ASSUME NEW k \in 0 .. (n - 1), k \in T PROVE k + 1 \in T
  <2>1. k + 1 \in 1 .. n /\ k + 1 \in 0 .. n /\ k \in Nat /\ k \in 0 .. n /\ (k + 1) - 1 = k
    OBVIOUS
  <2>2. PICK row \in P : row = rows[k + 1]
    BY <1>2, <1>4, <2>1
  <2>3. PICK R \in Seq(P) : R = SubSeq(rows, 1, k)
    <3>1. SubSeq(rows, 1, k) \in Seq(P)
      BY <1>2, <1>4, <2>1, Part
    <3> QED
      BY <3>1
  <2>4. SubSeq(rows, 1, k + 1) = Append(R, row)
    BY <1>2, <1>4, <2>1, <2>2, <2>3
  <2>5. PICK s \in Seq(S) : s = f[k]
    BY <1>5, <2>1
  <2>6. Rows(s) = Append(R, <<>>)
    BY <1>7, <2>3, <2>5
  <2>7. R \in Seq(Seq(S)) /\ row \in Seq(Plain(S))
    BY <1>1, <1>3, <1>4
  <2>8. Rows(s \o row \o <<NL>>) = Append(Append(R, row), <<>>)
    BY <2>6, <2>7, RowsOfLine
  <2>9. f[k + 1] = s \o row \o <<NL>>
    BY <1>5, <2>1, <2>2, <2>5 DEF LineStep
  <2> QED
    BY <2>1, <2>4, <2>8, <2>9
<1>8. n \in T
  <2> HIDE DEF T
  <2>1. \A i \in 0 .. n : i \in T
    BY <1>6, <1>7, UpToInduction
  <2> QED
    BY <2>1
<1>9. SubSeq(rows, 1, n) = rows /\ n \in 0 .. n
  BY <1>2, <1>4
<1> QED
  BY <1>5, <1>8, <1>9

LEMMA SourceRowsBack ==
    ASSUME NEW S, NL \in S, NEW rows \in Seq(Seq(Plain(S)))
    PROVE  SourceRows(Lines(rows)) = rows
<1>1. PICK P : P = Seq(Plain(S))
  OBVIOUS
<1>2. rows \in Seq(P) /\ <<>> \in P
  BY <1>1
<1>3. PICK all : all = Rows(Lines(rows))
  OBVIOUS
<1>4. all = Append(rows, <<>>)
  BY <1>3, RowsOfLines
<1>5. Front(all) = rows /\ Last(all) = <<>>
  BY <1>2, <1>4, FrontOfAppend
<1> QED
  BY <1>3, <1>5 DEF SourceRows

\* Only what is in the sequence matters.
LEMMA OnlyAppend ==
    ASSUME NEW S, NEW s \in Seq(S), NEW e \in S, NEW P, NEW R,
           \A i \in 1 .. Len(s) : s[i] \in P <=> s[i] \in R
    PROVE  Only(Append(s, e), P) = PickStep(Only(s, R), e, P)
<1>1. PICK n \in Nat : n = Len(s)
  OBVIOUS
<1>2. PICK t : t = Append(s, e)
  OBVIOUS
<1>3. /\ t \in Seq(S) /\ Len(t) = n + 1 /\ t[n + 1] = e
      /\ \A i \in 1 .. n : t[i] = s[i]
  BY <1>1, <1>2
<1>4. PICK f : /\ f[0] = <<>>
               /\ \A i \in 1 .. Len(s) : f[i] = PickStep(f[i - 1], s[i], R)
               /\ \A i \in 0 .. Len(s) : f[i] \in Seq(S)
               /\ Only(s, R) = f[Len(s)]
  BY OnlySteps
<1>5. PICK g : /\ g[0] = <<>>
               /\ \A i \in 1 .. Len(t) : g[i] = PickStep(g[i - 1], t[i], P)
               /\ \A i \in 0 .. Len(t) : g[i] \in Seq(S)
               /\ Only(t, P) = g[Len(t)]
  BY <1>3, OnlySteps, ZenonT(60)
<1> DEFINE T == {i \in 0 .. n : f[i] = g[i]}
<1>6. \A i \in 0 .. n : i \in T
  <2>1. 0 \in T
    BY <1>4, <1>5
  <2>2. ASSUME NEW i \in 0 .. (n - 1), i \in T PROVE i + 1 \in T
    <3>1. i + 1 \in 1 .. n /\ i + 1 \in 1 .. (n + 1) /\ (i + 1) - 1 = i
      OBVIOUS
    <3>2. f[i + 1] = PickStep(f[i], s[i + 1], R) /\ g[i + 1] = PickStep(g[i], t[i + 1], P)
      BY <1>1, <1>3, <1>4, <1>5, <3>1
    <3>3. t[i + 1] = s[i + 1] /\ (s[i + 1] \in P <=> s[i + 1] \in R)
      BY <1>1, <1>3, <3>1
    <3>4. f[i + 1] = g[i + 1]
      BY <2>2, <3>2, <3>3 DEF PickStep
    <3> QED
      BY <3>1, <3>4
  <2> HIDE DEF T
  <2> QED
    BY <2>1, <2>2, UpToInduction
<1>7. g[n + 1] = PickStep(g[n], t[n + 1], P)
  <2>1. n + 1 \in 1 .. (n + 1) /\ (n + 1) - 1 = n
    OBVIOUS
  <2> QED
    BY <1>3, <1>5, <2>1
<1>8. g[n] = f[n]
  BY <1>6
<1> QED
  BY <1>1, <1>2, <1>3, <1>4, <1>5, <1>7, <1>8

------------------------------------------------------------------------------
(***************************************************************************)
(* How long what is written of a list is                                   *)
(***************************************************************************)
\* What is written of a list, and how long each line of it is.
Kept(l) == Only(l, {x \in Range(l) : x.number > 0})
KeptRows(l) == [i \in 1 .. Len(Kept(l)) |-> RowOf(Kept(l)[i])]
Weight(x) == IF x.number > 0 THEN Len(x.text) + 2 ELSE 0

LEMMA KeptIs ==
    ASSUME NEW S, S \subseteq Entries, NEW l \in Seq(S)
    PROVE  /\ Kept(l) \in Seq(S) /\ Written(l) = Lines(KeptRows(l))
           /\ \A i \in 1 .. Len(Kept(l)) : Kept(l)[i] \in S /\ Kept(l)[i].number > 0
           /\ KeptRows(l) \in Seq(Seq(Symbols))
<1>1. PICK P : P = {x \in Range(l) : x.number > 0}
  OBVIOUS
<1>2. PICK kept : kept = Kept(l)
  OBVIOUS
<1>3. kept \in Seq(S) /\ kept = Only(l, P)
  BY <1>1, <1>2, OnlyKeeps DEF Kept
<1>4. PICK g : KeptOf(l, P, Len(l), kept, g)
  BY <1>3, OnlyKeeps
<1>5. \A i \in 1 .. Len(kept) : kept[i] \in P
  BY <1>4 DEF KeptOf
<1>6. \A i \in 1 .. Len(kept) : kept[i] \in S /\ kept[i] \in Entries
  BY <1>3
<1>7. \A i \in 1 .. Len(kept) : kept[i].number > 0
  BY <1>1, <1>5
<1>8. Written(l) = Lines(KeptRows(l))
  BY DEF Written, KeptRows, Kept, RowOf
<1>9. KeptRows(l) \in Seq(Seq(Symbols))
  <2>1. PICK Q : Q = Seq(Symbols)
    OBVIOUS
  <2>2. \A i \in 1 .. Len(kept) : RowOf(kept[i]) \in Q
    BY <1>6, <2>1, RowOfIs
  <2>3. KeptRows(l) = [i \in 1 .. Len(kept) |-> RowOf(kept[i])] /\ Len(kept) \in Nat
    BY <1>2, <1>3 DEF KeptRows
  <2> QED
    BY <2>1, <2>2, <2>3
<1> QED
  BY <1>2, <1>3, <1>6, <1>7, <1>8, <1>9

LEMMA KeptAppend ==
    ASSUME NEW l \in Seq(Entries), NEW x \in Entries
    PROVE  Kept(Append(l, x)) = IF x.number > 0 THEN Append(Kept(l), x) ELSE Kept(l)
<1>1. PICK t : t = Append(l, x)
  OBVIOUS
<1>2. PICK n \in Nat : n = Len(l)
  OBVIOUS
<1>3. /\ t \in Seq(Entries) /\ DOMAIN t = 1 .. (n + 1) /\ t[n + 1] = x /\ DOMAIN l = 1 .. n
      /\ \A i \in 1 .. n : t[i] = l[i]
  BY <1>1, <1>2
<1>4. PICK P, R : P = {y \in Range(t) : y.number > 0} /\ R = {y \in Range(l) : y.number > 0}
  OBVIOUS
<1>5. \A i \in 1 .. n : l[i] \in Range(l) /\ l[i] \in Range(t)
  <2> TAKE i \in 1 .. n
  <2>1. i \in DOMAIN l /\ i \in DOMAIN t /\ t[i] = l[i]
    BY <1>3
  <2> QED
    BY <2>1 DEF Range
<1>6. x \in Range(t)
  <2>1. n + 1 \in DOMAIN t
    BY <1>3
  <2> QED
    BY <1>3, <2>1 DEF Range
<1>7. \A i \in 1 .. n : l[i] \in P <=> l[i] \in R
  BY <1>4, <1>5
<1>8. x \in P <=> x.number > 0
  BY <1>4, <1>6
<1>9. Only(Append(l, x), P) = PickStep(Only(l, R), x, P)
  BY <1>2, <1>7, OnlyAppend
<1>10. Kept(t) = Only(t, P) /\ Kept(l) = Only(l, R)
  BY <1>4 DEF Kept
<1> QED
  BY <1>1, <1>8, <1>9, <1>10 DEF PickStep

\* One line more.
LEMMA WrittenAppend ==
    ASSUME NEW l \in Seq(Entries), NEW x \in Entries
    PROVE  Len(Written(Append(l, x))) = Len(Written(l)) + Weight(x)
<1>1. x.number \in Nat /\ x.text \in Seq(Symbols) /\ Append(l, x) \in Seq(Entries)
  BY DEF Entries
<1>2. Written(l) \in Seq(Symbols) /\ Len(Written(l)) \in Nat
  BY WrittenIs
<1>3. CASE x.number > 0
  <2>1. PICK Q : Q = Seq(Symbols)
    OBVIOUS
  <2>2. PICK rows : rows = KeptRows(l)
    OBVIOUS
  <2>3. rows \in Seq(Seq(Symbols)) /\ Written(l) = Lines(rows)
    BY <2>2, KeptIs
  <2>4. PICK row \in Seq(Symbols) : row = RowOf(x)
    BY RowOfIs
  <2>5. KeptRows(Append(l, x)) = Append(rows, row)
    <3>1. PICK kept \in Seq(Entries) : kept = Kept(l)
      BY KeptIs
    <3>2. Kept(Append(l, x)) = Append(kept, x)
      BY <1>3, <3>1, KeptAppend
    <3>3. PICK m \in Nat : m = Len(kept)
      BY <3>1
    <3>4. PICK more : more = Append(kept, x)
      OBVIOUS
    <3>5. /\ Len(more) = m + 1 /\ more[m + 1] = x
          /\ \A i \in 1 .. m : more[i] = kept[i]
      BY <3>1, <3>3, <3>4
    <3>6. rows = [i \in 1 .. m |-> RowOf(kept[i])]
      BY <2>2, <3>1, <3>3 DEF KeptRows
    <3>7. KeptRows(Append(l, x)) = [i \in 1 .. (m + 1) |-> RowOf(more[i])]
      BY <3>2, <3>4, <3>5 DEF KeptRows
    <3>8. PICK wider : wider = Append(rows, row)
      OBVIOUS
    <3>9. rows \in Seq(Q) /\ row \in Q /\ Len(rows) = m
      BY <2>1, <2>3, <3>3, <3>6
    <3>10. /\ wider \in Seq(Q) /\ Len(wider) = m + 1 /\ wider[m + 1] = row
           /\ \A i \in 1 .. m : wider[i] = rows[i]
      BY <3>8, <3>9
    <3>11. wider = [i \in 1 .. (m + 1) |-> wider[i]]
      BY <3>10
    <3>12. \A i \in 1 .. (m + 1) : wider[i] = RowOf(more[i])
      <4> TAKE i \in 1 .. (m + 1)
      <4>1. CASE i = m + 1
        BY <2>4, <3>5, <3>10, <4>1
      <4>2. CASE i # m + 1
        <5>1. i \in 1 .. m
          BY <4>2
        <5> QED
          BY <3>5, <3>6, <3>10, <5>1
      <4> QED
        BY <4>1, <4>2
    <3> QED
      BY <3>7, <3>8, <3>11, <3>12
  <2>6. Written(Append(l, x)) = Lines(Append(rows, row))
    BY <1>1, <2>5, KeptIs
  <2>7. Lines(Append(rows, row)) = Lines(rows) \o row \o <<NL>>
    BY <2>3, <2>4, SymbolsHave, LinesAppend
  <2>8. PICK all \in Seq(Symbols) : all = Written(l)
    BY <1>2
  <2>9. Len(row) = Len(x.text) + 1
    BY <1>1, <2>4 DEF RowOf
  <2>10. Len(all \o row \o <<NL>>) = Len(all) + Len(row) + 1
    <3>1. Len(all \o row) = Len(all) + Len(row) /\ all \o row \in Seq(Symbols)
      OBVIOUS
    <3>2. <<NL>> \in Seq(Symbols) /\ Len(<<NL>>) = 1
      BY SymbolsHave
    <3> QED
      BY <3>1, <3>2
  <2>11. Len(Written(Append(l, x))) = Len(all) + Len(row) + 1
    BY <2>3, <2>6, <2>7, <2>8, <2>10
  <2> QED
    BY <1>1, <1>3, <2>8, <2>9, <2>11 DEF Weight
<1>4. CASE ~ (x.number > 0)
  <2>1. Kept(Append(l, x)) = Kept(l)
    BY <1>4, KeptAppend
  <2>2. KeptRows(Append(l, x)) = KeptRows(l)
    BY <2>1 DEF KeptRows
  <2>3. Written(Append(l, x)) = Written(l)
    BY <1>1, <2>2, KeptIs
  <2> QED
    BY <1>2, <1>4, <2>3 DEF Weight
<1> QED
  BY <1>3, <1>4

Length(l) == Len(Written(l))

LEMMA WeightIs ==
    ASSUME NEW x \in Entries
    PROVE  Weight(x) \in Nat
  BY DEF Weight, Entries

\* The length of what is written is a sum.
LEMMA LengthSteps ==
    ASSUME NEW l \in Seq(Entries)
    PROVE  \E f : /\ f \in [0 .. Len(l) -> Nat] /\ f[0] = 0
                  /\ \A i \in 1 .. Len(l) : f[i] = f[i - 1] + Weight(l[i])
                  /\ Length(l) = f[Len(l)]
<1>1. PICK n \in Nat : n = Len(l)
  OBVIOUS
<1>2. PICK f : f = [i \in 0 .. n |-> Length(SubSeq(l, 1, i))]
  OBVIOUS
<1>3. \A i \in 0 .. n : SubSeq(l, 1, i) \in Seq(Entries)
  <2> TAKE i \in 0 .. n
  <2>1. 1 \in 1 .. (n + 1) /\ i \in (1 - 1) .. n
    OBVIOUS
  <2> QED
    BY <1>1, <2>1, Part
<1>4. f \in [0 .. n -> Nat]
  <2>1. \A i \in 0 .. n : Length(SubSeq(l, 1, i)) \in Nat
    BY <1>3, WrittenIs DEF Length
  <2> QED
    BY <1>2, <2>1
<1>5. f[0] = 0
  <2>1. SubSeq(l, 1, 0) = <<>>
    OBVIOUS
  <2>2. <<>> \in Seq(Entries) /\ Len(<<>>) = 0
    OBVIOUS
  <2>3. PICK kept : kept = Kept(<<>>)
    OBVIOUS
  <2>4. kept = <<>>
    <3>1. PICK e \in Seq(Entries) : e = <<>>
      BY <2>2
    <3>2. PICK P : kept = Only(e, P)
      BY <2>3, <3>1 DEF Kept
    <3>3. PICK h : /\ h[0] = <<>>
                   /\ \A i \in 1 .. Len(e) : h[i] = PickStep(h[i - 1], e[i], P)
                   /\ \A i \in 0 .. Len(e) : h[i] \in Seq(Entries)
                   /\ Only(e, P) = h[Len(e)]
      BY OnlySteps, ZenonT(60)
    <3>4. Len(e) = 0
      BY <3>1
    <3> QED
      BY <3>2, <3>3, <3>4
  <2>5. KeptRows(<<>>) = <<>>
    BY <2>3, <2>4 DEF KeptRows
  <2>6. Written(<<>>) = Lines(<<>>)
    BY <2>2, <2>5, KeptIs
  <2>7. Lines(<<>>) = <<>>
    <3>1. PICK Q : Q = Seq(Symbols)
      OBVIOUS
    <3>2. PICK e : e = <<>>
      OBVIOUS
    <3>3. e \in Seq(Q) /\ Q \in SUBSET Seq(Symbols) /\ Len(e) = 0
      BY <3>1, <3>2
    <3>4. PICK h : /\ h[0] = <<>>
                   /\ \A i \in 1 .. Len(e) : h[i] = LineStep(h[i - 1], e[i])
                   /\ \A i \in 0 .. Len(e) : h[i] \in Seq(Symbols)
                   /\ Lines(e) = h[Len(e)]
      BY <3>3, SymbolsHave, LinesSteps
    <3> QED
      BY <3>2, <3>3, <3>4
  <2>8. Length(<<>>) = 0
    BY <2>2, <2>6, <2>7 DEF Length
  <2>9. f[0] = Length(SubSeq(l, 1, 0))
    BY <1>2
  <2> QED
    BY <2>1, <2>8, <2>9
<1>6. ASSUME NEW i \in 1 .. n PROVE f[i] = f[i - 1] + Weight(l[i])
  <2>1. i - 1 \in 0 .. n /\ i \in 0 .. n /\ l[i] \in Entries
    BY <1>1
  <2>2. SubSeq(l, 1, i) = Append(SubSeq(l, 1, i - 1), l[i])
    BY <1>1, <2>1
  <2>3. Length(Append(SubSeq(l, 1, i - 1), l[i])) = Length(SubSeq(l, 1, i - 1)) + Weight(l[i])
    BY <1>3, <2>1, WrittenAppend DEF Length
  <2> QED
    BY <1>2, <2>1, <2>2, <2>3
<1>7. Length(l) = f[n]
  <2>1. SubSeq(l, 1, n) = l /\ n \in 0 .. n
    BY <1>1
  <2> QED
    BY <1>2, <2>1
<1> QED
  BY <1>1, <1>4, <1>5, <1>6, <1>7

\* Another line in a place changes it by the difference.
LEMMA LengthReplaced ==
    ASSUME NEW l \in Seq(Entries), NEW m \in Seq(Entries), Len(m) = Len(l),
           NEW place \in 1 .. Len(l), \A i \in 1 .. Len(l) : i # place => m[i] = l[i]
    PROVE  Length(m) + Weight(l[place]) = Length(l) + Weight(m[place])
<1>1. PICK n \in Nat : n = Len(l)
  OBVIOUS
<1>2. PICK f : /\ f \in [0 .. Len(l) -> Nat] /\ f[0] = 0
               /\ \A i \in 1 .. Len(l) : f[i] = f[i - 1] + Weight(l[i])
               /\ Length(l) = f[Len(l)]
  BY LengthSteps
<1>3. PICK g : /\ g \in [0 .. Len(m) -> Nat] /\ g[0] = 0
               /\ \A i \in 1 .. Len(m) : g[i] = g[i - 1] + Weight(m[i])
               /\ Length(m) = g[Len(m)]
  BY LengthSteps
<1>4. PICK u \in Nat, v \in Nat : u = Weight(l[place]) /\ v = Weight(m[place])
  BY WeightIs
<1> DEFINE T == {i \in 0 .. n : IF i < place THEN g[i] = f[i] ELSE g[i] + u = f[i] + v}
<1>5. 0 \in T
  BY <1>2, <1>3
<1>6. ASSUME NEW i \in 0 .. (n - 1), i \in T PROVE i + 1 \in T
  <2>1. i + 1 \in 1 .. n /\ (i + 1) - 1 = i /\ i \in 0 .. n
    OBVIOUS
  <2>2. PICK a \in Nat, b \in Nat : a = Weight(l[i + 1]) /\ b = Weight(m[i + 1])
    <3>1. l[i + 1] \in Entries /\ m[i + 1] \in Entries
      BY <1>1, <2>1
    <3> QED
      BY <3>1, WeightIs
  <2>3. f[i + 1] = f[i] + a /\ g[i + 1] = g[i] + b /\ f[i] \in Nat /\ g[i] \in Nat
    BY <1>1, <1>2, <1>3, <2>1, <2>2
  <2>4. i + 1 # place => a = b
    BY <1>1, <2>1, <2>2
  <2>5. i + 1 = place => a = u /\ b = v
    BY <1>4, <2>2
  <2>6. IF i < place THEN g[i] = f[i] ELSE g[i] + u = f[i] + v
    BY <1>6
  <2>7. IF i + 1 < place THEN g[i + 1] = f[i + 1] ELSE g[i + 1] + u = f[i + 1] + v
    <3>4. place \in Nat
      BY <1>1
    <3>1. CASE i + 1 < place
      BY <2>3, <2>4, <2>6, <3>1, <3>4
    <3>2. CASE i + 1 = place
      BY <2>3, <2>5, <2>6, <3>2
    <3>3. CASE i + 1 > place
      <4>1. ~ (i < place) /\ ~ (i + 1 < place) /\ i + 1 # place
        BY <3>3, <3>4
      <4>2. g[i] + u = f[i] + v /\ a = b
        BY <2>4, <2>6, <4>1
      <4>3. PICK x \in Nat, y \in Nat : x = f[i] /\ y = g[i]
        BY <2>3
      <4>4. f[i + 1] = x + a /\ g[i + 1] = y + a
        BY <2>3, <4>2, <4>3
      <4>5. y + u = x + v
        BY <4>2, <4>3
      <4>6. (y + a) + u = (x + a) + v
        BY <4>5
      <4>7. g[i + 1] + u = f[i + 1] + v
        BY <4>4, <4>6, Zenon
      <4> QED
        BY <4>1, <4>7
    <3> QED
      BY <3>1, <3>2, <3>3, <3>4
  <2> QED
    BY <2>1, <2>7
<1>7. n \in T
  <2> HIDE DEF T
  <2>1. \A i \in 0 .. n : i \in T
    BY <1>5, <1>6, UpToInduction
  <2> QED
    BY <2>1
<1>8. g[n] + u = f[n] + v
  BY <1>1, <1>7
<1> QED
  BY <1>1, <1>2, <1>3, <1>4, <1>8

LEMMA LengthSwapped ==
    ASSUME NEW l \in Seq(Entries), NEW i \in 1 .. Len(l), NEW j \in 1 .. Len(l)
    PROVE  Length(Swap(l, i, j)) = Length(l)
<1>1. PICK n \in Nat : n = Len(l)
  OBVIOUS
<1>2. l[i] \in Entries /\ l[j] \in Entries
  OBVIOUS
<1>3. PICK m : m = [l EXCEPT ![i] = l[j]]
  OBVIOUS
<1>4. /\ m \in Seq(Entries) /\ Len(m) = n
      /\ \A a \in 1 .. n : m[a] = IF a = i THEN l[j] ELSE l[a]
  BY <1>1, <1>2, <1>3, ExceptSeq
<1>5. PICK k : k = [m EXCEPT ![j] = l[i]]
  OBVIOUS
<1>6. /\ k \in Seq(Entries) /\ Len(k) = n
      /\ \A a \in 1 .. n : k[a] = IF a = j THEN l[i] ELSE m[a]
  BY <1>1, <1>2, <1>4, <1>5, ExceptSeq
<1>7. Length(m) + Weight(l[i]) = Length(l) + Weight(m[i])
  BY <1>1, <1>4, LengthReplaced
<1>8. Length(k) + Weight(m[j]) = Length(m) + Weight(k[j])
  BY <1>1, <1>4, <1>6, LengthReplaced
<1>9. m[i] = l[j] /\ m[j] = l[j] /\ k[j] = l[i]
  BY <1>1, <1>4, <1>6
<1>10. /\ Weight(l[i]) \in Nat /\ Weight(l[j]) \in Nat
       /\ Length(l) \in Nat /\ Length(m) \in Nat /\ Length(k) \in Nat
  BY <1>2, <1>4, <1>6, WeightIs, WrittenIs DEF Length
<1>11. Length(k) = Length(l)
  BY <1>7, <1>8, <1>9, <1>10
<1> QED
  BY <1>3, <1>5, <1>11 DEF Swap

LEMMA LengthSettled ==
    ASSUME NEW l \in Seq(Entries), NEW place \in 1 .. Len(l)
    PROVE  Length(Settle(l, place)) = Length(l)
<1>1. PICK f : /\ f[0] = l
               /\ \A i \in 1 .. Len(LaterThan(l, place)) : f[i] = SettleStep(f[i - 1], LaterThan(l, place)[i], place)
               /\ \A i \in 0 .. Len(LaterThan(l, place)) : f[i] \in Shuffles(l)
               /\ Settle(l, place) = f[Len(LaterThan(l, place))]
  BY SettleSteps
<1>2. PICK n \in Nat : n = Len(l)
  OBVIOUS
<1>3. PICK later : later = LaterThan(l, place)
  OBVIOUS
<1>4. PICK k \in Nat : k = n - place /\ place \in 1 .. n
  <2>1. place \in 1 .. n
    BY <1>2
  <2>2. n - place \in Nat
    BY <2>1
  <2> QED
    BY <2>1, <2>2
<1>5. Len(later) = k /\ \A i \in 1 .. k : later[i] = place + i
  BY <1>2, <1>3, <1>4 DEF LaterThan
<1> DEFINE T == {i \in 0 .. k : Length(f[i]) = Length(l)}
<1>6. 0 \in T
  BY <1>1
<1>7. ASSUME NEW i \in 0 .. (k - 1), i \in T PROVE i + 1 \in T
  <2>1. i + 1 \in 1 .. k /\ i + 1 \in 0 .. k /\ i \in 0 .. k /\ (i + 1) - 1 = i
    OBVIOUS
  <2>2. PICK x \in Seq(Entries) : x = f[i] /\ Len(x) = n
    BY <1>1, <1>2, <1>3, <1>5, <2>1 DEF Shuffles
  <2>3. PICK j : j = place + (i + 1)
    OBVIOUS
  <2>4. j \in 1 .. n
    BY <1>4, <2>1, <2>3
  <2>5. f[i + 1] = SettleStep(x, j, place)
    BY <1>1, <1>3, <1>5, <2>1, <2>2, <2>3
  <2>6. Length(Swap(x, place, j)) = Length(x)
    BY <1>4, <2>2, <2>4, LengthSwapped
  <2>7. Length(f[i + 1]) = Length(x)
    BY <2>5, <2>6 DEF SettleStep
  <2> QED
    BY <1>7, <2>1, <2>2, <2>7
<1>8. k \in T
  <2> HIDE DEF T
  <2>1. \A i \in 0 .. k : i \in T
    BY <1>6, <1>7, UpToInduction
  <2> QED
    BY <2>1
<1> QED
  BY <1>1, <1>3, <1>5, <1>8

\* Sorting changes nothing of it.
LEMMA LengthSorted ==
    ASSUME NEW l \in Seq(Entries)
    PROVE  Length(sort_lines(l)) = Length(l)
<1>1. PICK f : /\ f[0] = l
               /\ \A i \in 1 .. Len(Places(l)) : f[i] = SortStep(f[i - 1], Places(l)[i])
               /\ \A i \in 0 .. Len(Places(l)) : f[i] \in Shuffles(l)
               /\ sort_lines(l) = f[Len(Places(l))]
  BY SortSteps
<1>2. PICK n \in Nat : n = Len(l)
  OBVIOUS
<1>3. PICK places : places = Places(l)
  OBVIOUS
<1>4. Len(places) = n /\ \A i \in 1 .. n : places[i] = i
  BY <1>2, <1>3 DEF Places
<1> DEFINE T == {i \in 0 .. n : Length(f[i]) = Length(l)}
<1>5. 0 \in T
  BY <1>1
<1>6. ASSUME NEW i \in 0 .. (n - 1), i \in T PROVE i + 1 \in T
  <2>1. i + 1 \in 1 .. n /\ i + 1 \in 0 .. n /\ i \in 0 .. n /\ (i + 1) - 1 = i
    OBVIOUS
  <2>2. PICK x \in Seq(Entries) : x = f[i] /\ Len(x) = n
    BY <1>1, <1>2, <1>3, <1>4, <2>1 DEF Shuffles
  <2>3. f[i + 1] = Settle(x, i + 1)
    BY <1>1, <1>3, <1>4, <2>1, <2>2 DEF SortStep
  <2>4. Length(Settle(x, i + 1)) = Length(x)
    BY <2>1, <2>2, LengthSettled
  <2> QED
    BY <1>6, <2>1, <2>2, <2>3, <2>4
<1>7. n \in T
  <2> HIDE DEF T
  <2>1. \A i \in 0 .. n : i \in T
    BY <1>5, <1>6, UpToInduction
  <2> QED
    BY <2>1
<1> QED
  BY <1>1, <1>3, <1>4, <1>7

\* Leaving lines out does not make it longer.
LEMMA LengthOnly ==
    ASSUME NEW l \in Seq(Entries), NEW P
    PROVE  Length(Only(l, P)) <= Length(l)
<1>1. PICK n \in Nat : n = Len(l)
  OBVIOUS
<1>2. PICK f : /\ f[0] = <<>>
               /\ \A i \in 1 .. Len(l) : f[i] = PickStep(f[i - 1], l[i], P)
               /\ \A i \in 0 .. Len(l) : f[i] \in Seq(Entries)
               /\ Only(l, P) = f[Len(l)]
  BY OnlySteps, ZenonT(60)
<1>3. PICK g : /\ g \in [0 .. Len(l) -> Nat] /\ g[0] = 0
               /\ \A i \in 1 .. Len(l) : g[i] = g[i - 1] + Weight(l[i])
               /\ Length(l) = g[Len(l)]
  BY LengthSteps
<1> DEFINE T == {i \in 0 .. n : Length(f[i]) <= g[i]}
<1>4. 0 \in T
  <2>1. PICK e \in Seq(Entries) : e = <<>> /\ Len(e) = 0
    <3>1. <<>> \in Seq(Entries) /\ Len(<<>>) = 0
      OBVIOUS
    <3> QED
      BY <3>1
  <2>2. PICK h : /\ h \in [0 .. Len(e) -> Nat] /\ h[0] = 0
                 /\ \A i \in 1 .. Len(e) : h[i] = h[i - 1] + Weight(e[i])
                 /\ Length(e) = h[Len(e)]
    BY LengthSteps
  <2>3. Length(e) = 0
    BY <2>1, <2>2
  <2>4. Length(f[0]) = 0 /\ g[0] = 0
    BY <1>2, <1>3, <2>1, <2>3
  <2> QED
    BY <2>4
<1>5. ASSUME NEW i \in 0 .. (n - 1), i \in T PROVE i + 1 \in T
  <2>1. i + 1 \in 1 .. n /\ i + 1 \in 0 .. n /\ i \in 0 .. n /\ (i + 1) - 1 = i
    OBVIOUS
  <2>2. PICK x \in Entries, w \in Nat : x = l[i + 1] /\ w = Weight(x)
    <3>1. l[i + 1] \in Entries
      BY <1>1, <2>1
    <3> QED
      BY <3>1, WeightIs
  <2>3. PICK kept \in Seq(Entries) : kept = f[i]
    BY <1>1, <1>2, <2>1
  <2>4. f[i + 1] = PickStep(kept, x, P)
    BY <1>1, <1>2, <2>1, <2>2, <2>3
  <2>5. PICK a \in Nat, b \in Nat : a = Length(kept) /\ b = g[i] /\ g[i + 1] = b + w
    <3>1. Length(kept) \in Nat
      BY WrittenIs DEF Length
    <3>2. g[i] \in Nat
      BY <1>1, <1>3, <2>1
    <3>3. g[i + 1] = g[i] + w
      BY <1>1, <1>3, <2>1, <2>2
    <3> QED
      BY <3>1, <3>2, <3>3
  <2>6. a <= b
    BY <1>5, <2>3, <2>5
  <2>7. Length(Append(kept, x)) = a + w
    BY <2>2, <2>5, WrittenAppend DEF Length
  <2>8. Length(f[i + 1]) \in {a, a + w}
    BY <2>4, <2>5, <2>7 DEF PickStep
  <2>9. Length(f[i + 1]) <= b + w
    BY <2>6, <2>8
  <2> QED
    BY <2>1, <2>5, <2>9
<1>6. n \in T
  <2> HIDE DEF T
  <2>1. \A i \in 0 .. n : i \in T
    BY <1>4, <1>5, UpToInduction
  <2> QED
    BY <2>1
<1> QED
  BY <1>1, <1>2, <1>3, <1>6

------------------------------------------------------------------------------
(***************************************************************************)
(* A list written and read again                                           *)
(***************************************************************************)
\* Lines whose text holds no end of line.
PlainEntries == [number : Nat, text : Seq(Plain(Symbols))]

LEMMA PlainEntriesAre ==
    /\ PlainEntries \subseteq Entries
    /\ \A x \in PlainEntries : RowOf(x) \in Seq(Plain(Symbols))
<1>1. \A s \in Seq(Plain(Symbols)) : s \in Seq(Symbols)
  BY DEF Plain
<1>2. PlainEntries \subseteq Entries
  BY <1>1 DEF PlainEntries, Entries
<1>3. ASSUME NEW x \in PlainEntries PROVE RowOf(x) \in Seq(Plain(Symbols))
  <2>1. x.number \in Nat /\ x.text \in Seq(Plain(Symbols))
    BY DEF PlainEntries
  <2>2. PICK c : c = <<"num", x.number>>
    OBVIOUS
  <2>3. c \in Symbols
    BY <2>1, <2>2 DEF Symbols
  <2>4. c # NL
    <3>1. Len(c) = 2 /\ Len(NL) = 1
      BY <2>2 DEF NL
    <3> QED
      BY <3>1
  <2>5. c \in Plain(Symbols)
    BY <2>3, <2>4 DEF Plain
  <2>6. <<c>> \o x.text \in Seq(Plain(Symbols))
    BY <2>1, <2>5
  <2> QED
    BY <2>2, <2>6 DEF RowOf
<1> QED
  BY <1>2, <1>3

LEMMA ListingPlain ==
    ASSUME NEW s \in Seq(Symbols)
    PROVE  Listing(s) \in Seq(PlainEntries)
<1>1. PICK P : P = Seq(Plain(Symbols))
  OBVIOUS
<1>2. PICK all : all = Rows(s)
  OBVIOUS
<1>3. all \in Seq(P) /\ all # <<>>
  BY <1>1, <1>2, RowsPlain
<1>4. Front(all) \in Seq(P)
  BY <1>3, FrontAndLast
<1>5. PICK rows \in Seq(P) : rows = SourceRows(s)
  BY <1>2, <1>3, <1>4 DEF SourceRows
<1>6. Len(Listing(s)) = Len(rows) /\ \A i \in 1 .. Len(rows) : Listing(s)[i] = Numbered(rows[i], i)
  BY <1>5, ListingIs
<1>7. ASSUME NEW i \in 1 .. Len(rows) PROVE Numbered(rows[i], i) \in PlainEntries
  <2>1. PICK row \in P : row = rows[i]
    BY <1>5
  <2>2. row \in Seq(Plain(Symbols)) /\ i \in Nat
    BY <1>1
  <2>3. CASE row # <<>> /\ IsNum(row[1])
    <3>1. row[1] \in Plain(Symbols) /\ Tail(row) \in Seq(Plain(Symbols))
      BY <2>2, <2>3
    <3>2. row[1] \in Symbols
      BY <3>1 DEF Plain
    <3>3. row[1][2] \in Nat
      BY <2>3, <3>2, SymbolNumbers
    <3>4. Numbered(row, i) = [number |-> row[1][2], text |-> Tail(row)]
      BY <2>3 DEF Numbered
    <3> QED
      BY <2>1, <3>1, <3>3, <3>4 DEF PlainEntries
  <2>4. CASE ~ (row # <<>> /\ IsNum(row[1]))
    <3>1. Numbered(row, i) = [number |-> 10 * i, text |-> row]
      BY <2>4 DEF Numbered
    <3>2. 10 * i \in Nat
      BY <2>2
    <3> QED
      BY <2>1, <2>2, <3>1, <3>2 DEF PlainEntries
  <2> QED
    BY <2>3, <2>4
<1>8. Listing(s) \in Seq(Entries)
  BY ListingIs
<1>9. \A i \in 1 .. Len(Listing(s)) : Listing(s)[i] \in PlainEntries
  BY <1>6, <1>7
<1> QED
  BY <1>8, <1>9

\* A list that is written is read back, but for its lines of number 0.
LEMMA ListingWritten ==
    ASSUME NEW l \in Seq(PlainEntries)
    PROVE  Listing(Written(l)) = Kept(l)
<1>1. PICK kept : kept = Kept(l)
  OBVIOUS
<1>2. /\ kept \in Seq(PlainEntries) /\ Written(l) = Lines(KeptRows(l))
      /\ \A i \in 1 .. Len(kept) : kept[i] \in PlainEntries /\ kept[i].number > 0
  BY <1>1, PlainEntriesAre, KeptIs
<1>3. PICK n \in Nat : n = Len(kept)
  BY <1>2
<1>4. PICK rows : rows = KeptRows(l)
  OBVIOUS
<1>5. rows = [i \in 1 .. n |-> RowOf(kept[i])]
  BY <1>1, <1>3, <1>4 DEF KeptRows
<1>6. rows \in Seq(Seq(Plain(Symbols)))
  <2>1. PICK P : P = Seq(Plain(Symbols))
    OBVIOUS
  <2>2. \A i \in 1 .. n : RowOf(kept[i]) \in P
    BY <1>2, <1>3, <2>1, PlainEntriesAre
  <2> QED
    BY <1>5, <2>1, <2>2
<1>7. SourceRows(Written(l)) = rows
  BY <1>2, <1>4, <1>6, SymbolsHave, SourceRowsBack
<1>8. Len(rows) = n
  BY <1>5
<1>9. Listing(Written(l)) = [i \in 1 .. n |-> Numbered(rows[i], i)]
  BY <1>7, <1>8 DEF Listing
<1>10. ASSUME NEW i \in 1 .. n PROVE Numbered(rows[i], i) = kept[i]
  <2>1. PICK x \in PlainEntries : x = kept[i]
    BY <1>2, <1>3
  <2>2. PICK row : row = rows[i]
    OBVIOUS
  <2>3. x.text \in Seq(Plain(Symbols)) /\ x = [number |-> x.number, text |-> x.text]
    BY DEF PlainEntries
  <2>4. PICK c : c = <<"num", x.number>>
    OBVIOUS
  <2>5. row = <<c>> \o x.text
    BY <1>5, <2>1, <2>2, <2>4 DEF RowOf
  <2>6. row # <<>> /\ row[1] = c /\ Tail(row) = x.text
    BY <2>3, <2>5
  <2>7. IsNum(c) /\ c[2] = x.number
    BY <2>4 DEF IsNum
  <2>8. Numbered(row, i) = [number |-> x.number, text |-> x.text]
    BY <2>6, <2>7 DEF Numbered
  <2> QED
    BY <2>1, <2>2, <2>3, <2>8
<1>11. kept = [i \in 1 .. n |-> kept[i]]
  BY <1>2, <1>3
<1> QED
  BY <1>1, <1>9, <1>10, <1>11

LEMMA ShufflePlain ==
    ASSUME NEW l \in Seq(PlainEntries), NEW m \in Shuffles(l)
    PROVE  m \in Seq(PlainEntries)
<1>1. PICK n \in Nat : n = Len(l)
  OBVIOUS
<1>2. m \in Seq(Entries) /\ Len(m) = n
  BY <1>1 DEF Shuffles
<1>3. PICK p, q : ShuffledBy(l, m, n, p, q)
  BY <1>1 DEF Shuffles
<1>4. \A i \in 1 .. n : p[i] \in 1 .. n /\ m[i] = l[p[i]]
  BY <1>3 DEF ShuffledBy
<1>5. \A i \in 1 .. n : m[i] \in PlainEntries
  BY <1>1, <1>4
<1> QED
  BY <1>2, <1>5

------------------------------------------------------------------------------
(***************************************************************************)
(* What one line typed changes                                             *)
(***************************************************************************)
\* Counted by element, Kept and Others are the list but for what they drop.
LEMMA PartCounts ==
    ASSUME NEW l \in Seq(Entries), NEW P, NEW ok \in BOOLEAN, NEW x,
           x \in P <=> (x \in Range(l) /\ ok)
    PROVE  Cardinality(At(Only(l, P), x)) = IF ok THEN Cardinality(At(l, x)) ELSE 0
<1>1. Cardinality(At(Only(l, P), x)) = IF x \in P THEN Cardinality(At(l, x)) ELSE 0
  BY OnlyCounts
<1>2. CASE x \in Range(l)
  BY <1>1, <1>2
<1>3. CASE x \notin Range(l)
  <2>1. At(l, x) = {}
    BY <1>3 DEF At, Range
  <2>2. Cardinality(At(l, x)) = 0
    BY <2>1, FS_EmptySet
  <2> QED
    BY <1>1, <1>3, <2>2
<1> QED
  BY <1>2, <1>3

LEMMA KeptCounts ==
    ASSUME NEW l \in Seq(Entries), NEW x \in Entries, x.number # 0
    PROVE  Cardinality(At(Kept(l), x)) = Cardinality(At(l, x))
<1>1. x.number > 0
  BY DEF Entries
<1>2. PICK P : P = {y \in Range(l) : y.number > 0}
  OBVIOUS
<1>3. x \in P <=> (x \in Range(l) /\ TRUE)
  BY <1>1, <1>2
<1> QED
  BY <1>2, <1>3, PartCounts DEF Kept

LEMMA OthersSame ==
    ASSUME NEW s \in Seq(Symbols), NEW t \in Seq(Symbols), NEW n,
           \A x \in Entries : x.number \notin {0, n} =>
               Cardinality(At(Listing(s), x)) = Cardinality(At(Listing(t), x))
    PROVE  Others(s, n) = Others(t, n)
<1>1. ASSUME NEW l \in Seq(Entries), NEW P, P = {x \in Range(l) : x.number \notin {0, n}},
             NEW x \in Entries
      PROVE  Cardinality(At(Only(l, P), x)) = IF x.number \notin {0, n} THEN Cardinality(At(l, x)) ELSE 0
  <2>1. PICK ok \in BOOLEAN : ok <=> x.number \notin {0, n}
    OBVIOUS
  <2>2. x \in P <=> (x \in Range(l) /\ ok)
    BY <1>1, <2>1
  <2>3. Cardinality(At(Only(l, P), x)) = IF ok THEN Cardinality(At(l, x)) ELSE 0
    BY <2>2, PartCounts
  <2> QED
    BY <2>1, <2>3
<1>2. PICK l \in Seq(Entries), m \in Seq(Entries) : l = Listing(s) /\ m = Listing(t)
  BY ListingIs
<1>3. PICK P, R : P = {x \in Range(l) : x.number \notin {0, n}} /\ R = {x \in Range(m) : x.number \notin {0, n}}
  OBVIOUS
<1>4. PICK u \in Seq(Entries), v \in Seq(Entries) : u = Only(l, P) /\ v = Only(m, R)
  BY OnlyKeeps
<1>5. \A x \in Entries : Cardinality(At(u, x)) = Cardinality(At(v, x))
  BY <1>1, <1>2, <1>3, <1>4
<1>6. ToBag(u) = ToBag(v)
  BY <1>5, SameBag
<1> QED
  BY <1>2, <1>3, <1>4, <1>6 DEF Others

\* One line typed: the list has it, is no more than that line longer, and
\* has the lines of other numbers as before.
EditIs(l, n, text, m) ==
    /\ m \in Seq(PlainEntries)
    /\ Length(m) <= Length(l) + Len(text) + 2
    /\ \E i \in 1 .. Len(m) : m[i] = [number |-> n, text |-> text]
    /\ \A x : x.number # n => At(m, x) = At(l, x)

LEMMA EditedHas ==
    ASSUME NEW l \in Seq(PlainEntries), NEW n \in Nat, NEW text \in Seq(Plain(Symbols)),
           Len(l) < ScriptMax, NEW m, m = Edited(l, n, text)
    PROVE  EditIs(l, n, text, m)
<1>1. PICK new \in PlainEntries : new = [number |-> n, text |-> text]
  BY DEF PlainEntries
<1>2. new.number = n /\ new.text = text /\ new \in Entries
  BY <1>1, PlainEntriesAre
<1>3. PICK k \in Nat : k = Len(l)
  OBVIOUS
<1>4. l \in Seq(Entries) /\ Length(l) \in Nat /\ Len(text) \in Nat /\ DOMAIN l = 1 .. k
  <2>1. l \in Seq(Entries)
    BY PlainEntriesAre
  <2> QED
    BY <1>3, <2>1, WrittenIs DEF Length
<1>5. Weight(new) \in Nat /\ Weight(new) <= Len(text) + 2
  BY <1>2, <1>4, WeightIs DEF Weight
<1>6. PICK same : same = {i \in 1 .. k : l[i].number = n}
  OBVIOUS
<1>7. CASE same # {}
  <2>1. PICK i : i = CHOOSE a \in same : \A j \in same : a <= j
    OBVIOUS
  <2>2. i \in same /\ i \in 1 .. k
    <3>1. same \in SUBSET (1 .. k)
      BY <1>6
    <3> QED
      BY <1>7, <2>1, <3>1, FirstOf
  <2>3. m = [l EXCEPT ![i] = new]
    BY <1>1, <1>3, <1>6, <1>7, <2>1 DEF Edited, ReplaceAt
  <2>4. /\ m \in Seq(PlainEntries) /\ Len(m) = k
        /\ \A j \in 1 .. k : m[j] = IF j = i THEN new ELSE l[j]
    BY <1>3, <2>2, <2>3, ExceptSeq
  <2>5. l[i].number = n /\ m[i] = new /\ l[i] \in Entries /\ m \in Seq(Entries) /\ DOMAIN m = 1 .. k
    BY <1>3, <1>4, <1>6, <2>2, <2>4, PlainEntriesAre
  <2>6. Length(m) + Weight(l[i]) = Length(l) + Weight(new)
    BY <1>3, <1>4, <2>2, <2>4, <2>5, LengthReplaced
  <2>7. Weight(l[i]) \in Nat /\ Length(m) \in Nat
    BY <2>5, WeightIs, WrittenIs DEF Length
  <2>8. Length(m) <= Length(l) + Len(text) + 2
    BY <1>4, <1>5, <2>6, <2>7
  <2>9. ASSUME NEW x, x.number # n PROVE At(m, x) = At(l, x)
    <3>1. \A j \in 1 .. k : m[j] = x <=> l[j] = x
      BY <1>2, <2>4, <2>5, <2>9
    <3> QED
      BY <1>4, <2>5, <3>1 DEF At
  <2> QED
    BY <1>1, <2>2, <2>4, <2>5, <2>8, <2>9 DEF EditIs
<1>8. CASE same = {}
  <2>1. m = Append(l, new)
    BY <1>1, <1>3, <1>6, <1>8 DEF Edited
  <2>2. /\ m \in Seq(PlainEntries) /\ Len(m) = k + 1 /\ m[k + 1] = new /\ DOMAIN m = 1 .. (k + 1)
        /\ \A j \in 1 .. k : m[j] = l[j]
    BY <1>3, <2>1
  <2>3. Length(m) = Length(l) + Weight(new)
    BY <1>2, <1>4, <2>1, WrittenAppend DEF Length
  <2>4. Length(m) <= Length(l) + Len(text) + 2
    BY <1>4, <1>5, <2>3
  <2>5. ASSUME NEW x, x.number # n PROVE At(m, x) = At(l, x)
    <3>1. \A j \in 1 .. (k + 1) : m[j] = x <=> (j \in 1 .. k /\ l[j] = x)
      BY <1>2, <2>2, <2>5
    <3> QED
      BY <1>4, <2>2, <3>1 DEF At
  <2>6. k + 1 \in 1 .. Len(m)
    BY <2>2
  <2> QED
    BY <1>1, <2>2, <2>4, <2>5, <2>6 DEF EditIs
<1> QED
  BY <1>7, <1>8

LEMMA TypedPlain ==
    \A text \in Texts : text \in Seq(Plain(Symbols)) /\ Len(text) + 2 <= TextMax
<1> TAKE text \in Texts
<1>1. text \in Seq(Symbols)
  <2>1. Texts \subseteq Contents
    BY DEF Contents
  <2> QED
    BY <2>1, ContentsAreTexts
<1>2. NL \notin Range(text) /\ Len(text) + 2 <= TextMax
  BY TypedAssumption
<1>3. \A i \in 1 .. Len(text) : text[i] \in Plain(Symbols)
  <2> TAKE i \in 1 .. Len(text)
  <2>1. text[i] \in Range(text) /\ text[i] \in Symbols
    BY <1>1 DEF Range
  <2> QED
    BY <1>2, <2>1 DEF Plain
<1> QED
  BY <1>1, <1>2, <1>3

\* What fits is put together whole.
LEMMA RebuiltWhole ==
    ASSUME BenchOK(bench), NEW l \in Seq(Entries), Length(l) < SourceMax,
           NEW c, c = rebuild_source(bench, l),
           NEW d, d = [c EXCEPT !.mixed = c.mixed \/ Len(c.source) = SourceMax - 1]
    PROVE  d.source = Written(l)
<1>1. PICK all \in Seq(Symbols) : all = Written(l)
  BY WrittenIs
<1>2. bench \in Benches
  BY DEF BenchOK
<1>3. c = [bench EXCEPT !.source = all, !.modified = TRUE]
  BY <1>1 DEF rebuild_source, Length
<1>4. c \in Benches /\ c.source = all
  BY <1>2, <1>3 DEF Benches
<1>5. PICK mixed \in BOOLEAN : d = [c EXCEPT !.mixed = mixed]
  OBVIOUS
<1>6. d.source = all
  BY <1>4, <1>5 DEF Benches
<1> QED
  BY <1>1, <1>6

\* A list put together instead of another, with the other's lines of all
\* numbers but n.
LEMMA OthersKept ==
    ASSUME NEW s \in Seq(Symbols), NEW n, NEW m \in Seq(PlainEntries),
           \A x \in Entries : x.number # n =>
               Cardinality(At(m, x)) = Cardinality(At(Listing(s), x))
    PROVE  Others(s, n) = Others(Written(m), n)
<1>1. m \in Seq(Entries) /\ Written(m) \in Seq(Symbols)
  <2>1. m \in Seq(Entries)
    BY PlainEntriesAre
  <2> QED
    BY <2>1, WrittenIs
<1>2. Listing(Written(m)) = Kept(m)
  BY ListingWritten
<1>3. ASSUME NEW x \in Entries, x.number \notin {0, n}
      PROVE  Cardinality(At(Listing(s), x)) = Cardinality(At(Listing(Written(m)), x))
  <2>1. Cardinality(At(Kept(m), x)) = Cardinality(At(m, x))
    BY <1>1, <1>3, KeptCounts
  <2> QED
    BY <1>2, <1>3, <2>1
<1> QED
  BY <1>1, <1>3, OthersSame

LEMMA DeletedKeeps ==
    ASSUME BenchOK(bench), NEW n \in Numbers, BenchLine(n, <<>>), FitsScript(bench.source)
    PROVE  /\ Others(bench.source, n) = Others(bench'.source, n)
           /\ n > 0 => {y \in Range(Listing(bench'.source)) : y.number = n} = {}
<1>1. PICK s \in Seq(Symbols) : s = bench.source
  BY BenchHas
<1>2. PICK l : l = Listing(s)
  OBVIOUS
<1>3. l \in Seq(PlainEntries) /\ l \in Seq(Entries) /\ parse_source_lines(s) = l
  BY <1>1, <1>2, ListingPlain, ListingIs, ParsedLinesAre
<1>4. PICK P : P = {x \in Range(l) : x.number # n}
  OBVIOUS
<1>5. PICK m : m = Only(l, P)
  OBVIOUS
<1>6. m \in Seq(PlainEntries) /\ m \in Seq(Entries)
  BY <1>3, <1>5, OnlyKeeps
<1>7. PICK c : c = rebuild_source(bench, m)
  OBVIOUS
<1>8. bench' = [c EXCEPT !.mixed = c.mixed \/ Len(c.source) = SourceMax - 1]
  <2>1. ide_delete_line(bench, n) = c
    BY <1>1, <1>3, <1>4, <1>5, <1>7 DEF ide_delete_line
  <2> QED
    BY <2>1 DEF BenchLine
<1>9. Length(m) < SourceMax
  <2>1. Length(l) + TextMax < SourceMax
    BY <1>1, <1>2 DEF FitsScript, Length
  <2>2. Length(m) <= Length(l)
    BY <1>3, <1>5, LengthOnly
  <2>3. Length(m) \in Nat /\ Length(l) \in Nat
    BY <1>3, <1>6, WrittenIs DEF Length
  <2> QED
    BY <2>1, <2>2, <2>3, ScriptSizes
<1>10. bench'.source = Written(m)
  BY <1>6, <1>7, <1>8, <1>9, RebuiltWhole
<1>11. ASSUME NEW x \in Entries, x.number # n
       PROVE  Cardinality(At(m, x)) = Cardinality(At(l, x))
  <2>1. x \in P <=> (x \in Range(l) /\ TRUE)
    BY <1>4, <1>11
  <2> QED
    BY <1>3, <1>5, <2>1, PartCounts, ZenonT(60)
<1>12. Others(s, n) = Others(Written(m), n)
  BY <1>2, <1>6, <1>11, OthersKept
<1>13. {y \in Range(Kept(m)) : y.number = n} = {}
  <2>1. PICK S : S = {x \in PlainEntries : x.number # n}
    OBVIOUS
  <2>2. m \in Seq(S)
    <3>1. PICK g : KeptOf(l, P, Len(l), m, g)
      BY <1>3, <1>5, OnlyKeeps
    <3>2. \A i \in 1 .. Len(m) : m[i] \in P /\ m[i] \in PlainEntries
      BY <1>6, <3>1 DEF KeptOf
    <3>3. \A i \in 1 .. Len(m) : m[i] \in S
      BY <1>4, <2>1, <3>2
    <3> QED
      BY <1>6, <3>3
  <2>3. S \subseteq Entries
    BY <2>1, PlainEntriesAre
  <2>4. PICK kept : kept = Kept(m)
    OBVIOUS
  <2>5. kept \in Seq(S)
    BY <2>2, <2>3, <2>4, KeptIs
  <2>6. \A y \in Range(kept) : y \in S
    BY <2>5 DEF Range
  <2> QED
    BY <2>1, <2>4, <2>6
<1>14. Listing(Written(m)) = Kept(m)
  BY <1>6, ListingWritten
<1> QED
  BY <1>1, <1>10, <1>12, <1>13, <1>14

LEMMA TypedKeeps ==
    ASSUME BenchOK(bench), NEW n \in Numbers, NEW text \in Texts, text # <<>>,
           BenchLine(n, text), FitsScript(bench.source)
    PROVE  /\ Others(bench.source, n) = Others(bench'.source, n)
           /\ n > 0 => \E y \in Range(Listing(bench'.source)) : y.number = n /\ y.text = text
<1>1. PICK s \in Seq(Symbols) : s = bench.source
  BY BenchHas
<1>2. PICK l : l = Listing(s)
  OBVIOUS
<1>3. l \in Seq(PlainEntries) /\ l \in Seq(Entries) /\ parse_source_lines(s) = l
  BY <1>1, <1>2, ListingPlain, ListingIs, ParsedLinesAre
<1>4. n \in Nat /\ text \in Seq(Plain(Symbols)) /\ Len(text) + 2 <= TextMax /\ Len(text) \in Nat
  BY TypedAre, TypedPlain
<1>5. Len(l) < ScriptMax /\ Length(l) + TextMax < SourceMax
  BY <1>1, <1>2 DEF FitsScript, Length
<1>6. PICK e : e = Edited(l, n, text)
  OBVIOUS
<1>7. /\ e \in Seq(PlainEntries)
      /\ Length(e) <= Length(l) + Len(text) + 2
      /\ \E i \in 1 .. Len(e) : e[i] = [number |-> n, text |-> text]
      /\ \A x : x.number # n => At(e, x) = At(l, x)
  <2>1. EditIs(l, n, text, e)
    BY <1>3, <1>4, <1>5, <1>6, EditedHas
  <2> QED
    BY <2>1 DEF EditIs
<1>8. PICK m : m = sort_lines(e)
  OBVIOUS
<1>9. /\ e \in Seq(Entries) /\ m \in Shuffles(e) /\ m \in Seq(PlainEntries) /\ m \in Seq(Entries)
      /\ Length(m) = Length(e)
  <2>1. e \in Seq(Entries)
    BY <1>7, PlainEntriesAre
  <2>2. m \in Shuffles(e)
    BY <1>8, <2>1, SortIs
  <2>3. m \in Seq(PlainEntries) /\ m \in Seq(Entries)
    BY <1>7, <2>2, ShufflePlain DEF Shuffles
  <2> QED
    BY <1>8, <2>1, <2>2, <2>3, LengthSorted
<1>10. PICK c : c = rebuild_source(bench, m)
  OBVIOUS
<1>11. bench' = [c EXCEPT !.mixed = c.mixed \/ Len(c.source) = SourceMax - 1]
  <2>1. ide_set_line(bench, n, text) = c
    BY <1>1, <1>3, <1>6, <1>8, <1>10, SetLineIs
  <2> QED
    BY <2>1 DEF BenchLine
<1>12. Length(m) < SourceMax
  <2>1. Length(m) \in Nat /\ Length(l) \in Nat
    BY <1>3, <1>9, WrittenIs DEF Length
  <2> QED
    BY <1>4, <1>5, <1>7, <1>9, <2>1, ScriptSizes, SMTT(30)
<1>13. bench'.source = Written(m)
  BY <1>9, <1>10, <1>11, <1>12, RebuiltWhole, ZenonT(60)
<1>14. \A x \in Entries : x.number # n => Cardinality(At(m, x)) = Cardinality(At(l, x))
  BY <1>7, <1>9, ShuffleCounts
<1>15. Others(s, n) = Others(Written(m), n)
  BY <1>2, <1>9, <1>14, OthersKept
<1>16. ASSUME n > 0 PROVE \E y \in Range(Kept(m)) : y.number = n /\ y.text = text
  <2>1. PICK new \in PlainEntries : new = [number |-> n, text |-> text]
    BY <1>4 DEF PlainEntries
  <2>2. new.number = n /\ new.text = text /\ new \in Entries /\ new.number # 0
    BY <1>4, <1>16, <2>1, PlainEntriesAre
  <2>3. PICK i \in 1 .. Len(e) : e[i] = new
    BY <1>7, <2>1
  <2>4. At(e, new) # {} /\ IsFiniteSet(At(e, new))
    BY <1>9, <2>3, AtFinite
  <2>5. Cardinality(At(e, new)) # 0
    BY <2>4, FS_EmptySet
  <2>6. Cardinality(At(Kept(m), new)) = Cardinality(At(e, new))
    BY <1>9, <2>2, KeptCounts, ShuffleCounts
  <2>7. At(Kept(m), new) # {}
    BY <2>5, <2>6, FS_EmptySet
  <2>8. new \in Range(Kept(m))
    BY <2>7 DEF At, Range
  <2> QED
    BY <2>2, <2>8
<1>17. Listing(Written(m)) = Kept(m)
  BY <1>9, ListingWritten
<1> QED
  BY <1>1, <1>13, <1>15, <1>16, <1>17

------------------------------------------------------------------------------
(***************************************************************************)
(* Sequences in parts                                                      *)
(***************************************************************************)
LEMMA Halves ==
    ASSUME NEW S, NEW u \in Seq(S), NEW v \in Seq(S)
    PROVE  /\ u \o v \in Seq(S) /\ Len(u \o v) = Len(u) + Len(v)
           /\ SubSeq(u \o v, 1, Len(u)) = u
           /\ SubSeq(u \o v, Len(u) + 1, Len(u \o v)) = v
<1>1. PICK m \in Nat, n \in Nat : m = Len(u) /\ n = Len(v)
  OBVIOUS
<1>2. PICK s : s = u \o v
  OBVIOUS
<1>3. /\ s \in Seq(S) /\ Len(s) = m + n
      /\ \A i \in 1 .. m : s[i] = u[i]
      /\ \A i \in 1 .. n : s[m + i] = v[i]
  BY <1>1, <1>2
<1>4. SubSeq(s, 1, m) = u
  <2>1. 1 \in 1 .. (Len(s) + 1) /\ m \in (1 - 1) .. Len(s) /\ m - 1 + 1 = m
        /\ \A i \in 1 .. m : 1 + i - 1 = i
    BY <1>3
  <2>3. /\ SubSeq(s, 1, m) \in Seq(S) /\ Len(SubSeq(s, 1, m)) = m - 1 + 1
        /\ \A i \in 1 .. (m - 1 + 1) : SubSeq(s, 1, m)[i] = s[1 + i - 1]
    BY <1>3, <2>1, Part
  <2>2. SubSeq(s, 1, m) \in Seq(S) /\ Len(SubSeq(s, 1, m)) = m
        /\ \A i \in 1 .. m : SubSeq(s, 1, m)[i] = s[i]
    BY <2>1, <2>3
  <2> QED
    BY <1>1, <1>3, <2>2, SeqEqual
<1>5. SubSeq(s, m + 1, Len(s)) = v
  <2>1. m + 1 \in 1 .. (Len(s) + 1) /\ Len(s) \in ((m + 1) - 1) .. Len(s) /\ Len(s) - (m + 1) + 1 = n
        /\ \A i \in 1 .. n : (m + 1) + i - 1 = m + i
    BY <1>3
  <2>3. PICK a, z : a = m + 1 /\ z = Len(s)
    OBVIOUS
  <2>4. /\ SubSeq(s, a, z) \in Seq(S) /\ Len(SubSeq(s, a, z)) = z - a + 1
        /\ \A i \in 1 .. (z - a + 1) : SubSeq(s, a, z)[i] = s[a + i - 1]
    BY <1>3, <2>1, <2>3, Part
  <2>2. SubSeq(s, m + 1, Len(s)) \in Seq(S) /\ Len(SubSeq(s, m + 1, Len(s))) = n
        /\ \A i \in 1 .. n : SubSeq(s, m + 1, Len(s))[i] = s[m + i]
    BY <2>1, <2>3, <2>4
  <2> QED
    BY <1>1, <1>3, <2>2, SeqEqual
<1> QED
  BY <1>1, <1>2, <1>3, <1>4, <1>5

LEMMA Prefixed ==
    ASSUME NEW S, NEW u \in Seq(S), NEW v \in Seq(S), u # <<>>
    PROVE  u \o v \in Seq(S) /\ u \o v # <<>> /\ (u \o v)[1] = u[1]
<1>1. PICK s : s = u \o v
  OBVIOUS
<1>2. PICK m \in Nat, n \in Nat : m = Len(u) /\ n = Len(v)
  OBVIOUS
<1>3. s \in Seq(S) /\ Len(s) = m + n
  BY <1>1, <1>2, ConcatProperties
<1>4. m > 0 /\ 1 \in 1 .. (m + n) /\ 1 <= m
  BY <1>2
<1>5. s[1] = u[1]
  BY <1>1, <1>2, <1>4, ConcatProperties
<1>6. s # <<>>
  BY <1>3, <1>4
<1> QED
  BY <1>1, <1>3, <1>5, <1>6

\* e between u and v: how it is put there and taken away.
Middle(S, u, e, v) ==
    /\ u \o <<e>> \o v \in Seq(S) /\ Len(u \o <<e>> \o v) = Len(u) + 1 + Len(v)
    /\ (u \o <<e>> \o v)[Len(u) + 1] = e
    /\ u \o <<e>> \o v = u \o (<<e>> \o v)
    /\ InsertAt(u \o v, Len(u) + 1, e) = u \o <<e>> \o v
    /\ RemoveAt(u \o <<e>> \o v, Len(u) + 1) = u \o v

LEMMA Between ==
    ASSUME NEW S, NEW u \in Seq(S), NEW v \in Seq(S), NEW e \in S
    PROVE  Middle(S, u, e, v)
<1>1. <<e>> \in Seq(S) /\ Len(<<e>>) = 1 /\ <<e>> \o v \in Seq(S) /\ u \o <<e>> \in Seq(S)
      /\ Len(u \o <<e>>) = Len(u) + 1 /\ Len(u) \in Nat /\ Len(v) \in Nat
  OBVIOUS
<1>2. u \o <<e>> \o v = u \o (<<e>> \o v)
  BY <1>1, ConcatAssociative
<1>3. PICK s : s = u \o <<e>> \o v
  OBVIOUS
<1>4. s \in Seq(S) /\ Len(s) = Len(u) + 1 + Len(v) /\ s[Len(u) + 1] = e
  BY <1>1, <1>3
<1>5. SubSeq(s, 1, Len(u)) = u
  BY <1>1, <1>2, <1>3, Halves
<1>6. SubSeq(s, Len(u) + 1 + 1, Len(s)) = v
  BY <1>1, <1>3, Halves
<1>7. (Len(u) + 1) - 1 = Len(u)
  BY <1>1
<1>8. RemoveAt(s, Len(u) + 1) = u \o v
  <2>1. PICK k : k = Len(u) + 1
    OBVIOUS
  <2>2. RemoveAt(s, k) = SubSeq(s, 1, k - 1) \o SubSeq(s, k + 1, Len(s))
    BY DEF RemoveAt
  <2> QED
    BY <1>5, <1>6, <1>7, <2>1, <2>2, Zenon
<1>9. InsertAt(u \o v, Len(u) + 1, e) = u \o <<e>> \o v
  <2>3. PICK k, w : k = Len(u) + 1 /\ w = u \o v
    OBVIOUS
  <2>1. InsertAt(w, k, e) = SubSeq(w, 1, k - 1) \o <<e>> \o SubSeq(w, k, Len(w))
    BY DEF InsertAt
  <2>2. SubSeq(u \o v, 1, Len(u)) = u /\ SubSeq(u \o v, Len(u) + 1, Len(u \o v)) = v
    BY Halves
  <2> QED
    BY <1>7, <2>1, <2>2, <2>3, Zenon
<1> QED
  BY <1>1, <1>2, <1>3, <1>4, <1>8, <1>9 DEF Middle

LEMMA Replaced ==
    ASSUME NEW S, NEW u \in Seq(S), NEW v \in Seq(S), NEW e \in S, NEW d \in S
    PROVE  [u \o <<e>> \o v EXCEPT ![Len(u) + 1] = d] = u \o <<d>> \o v
<1>1. PICK s, t : s = u \o <<e>> \o v /\ t = u \o <<d>> \o v
  OBVIOUS
<1> DEFINE m == Len(u)
           n == Len(v)
<1>2. m \in Nat /\ n \in Nat /\ s \in Seq(S) /\ t \in Seq(S)
      /\ Len(s) = m + 1 + n /\ Len(t) = m + 1 + n /\ t[m + 1] = d
      /\ \A i \in 1 .. (m + 1 + n) : i # m + 1 => t[i] = s[i]
  BY <1>1
<1> HIDE DEF m, n
<1>3. PICK k : k = m + 1
  OBVIOUS
<1>4. PICK r : r = [s EXCEPT ![k] = d]
  OBVIOUS
<1>5. r \in Seq(S) /\ Len(r) = Len(s) /\ r[m + 1] = d /\ \A i \in 1 .. Len(s) : i # m + 1 => r[i] = s[i]
  <2>1. k \in 1 .. Len(s)
    BY <1>2, <1>3
  <2>2. /\ r \in Seq(S) /\ Len(r) = Len(s) /\ r[k] = d
        /\ \A i \in 1 .. Len(s) : i # k => r[i] = s[i]
    BY <1>2, <1>4, <2>1, RowPut
  <2> QED
    BY <1>3, <2>2
<1>6. \A i \in 1 .. Len(r) : r[i] = t[i]
  BY <1>2, <1>5
<1>7. r = t
  BY <1>2, <1>5, <1>6, SeqEqual
<1> QED
  BY <1>1, <1>3, <1>4, <1>7 DEF m

\* A sequence around one of its elements, and around one of its places.
LEMMA Around ==
    ASSUME NEW S, NEW s \in Seq(S), NEW i \in 1 .. Len(s)
    PROVE  \E u \in Seq(S), v \in Seq(S) :
              s = u \o <<s[i]>> \o v /\ Len(u) = i - 1 /\ u = SubSeq(s, 1, i - 1)
<1>1. PICK n \in Nat : n = Len(s)
  OBVIOUS
<1>2. /\ 1 \in 1 .. (n + 1) /\ i - 1 \in (1 - 1) .. n /\ (i - 1) - 1 + 1 = i - 1 /\ i \in 1 .. n /\ n \in i .. n
      /\ i + 1 \in 1 .. (n + 1) /\ n \in ((i + 1) - 1) .. n /\ i \in (1 - 1) .. n /\ (i - 1) + 1 = i
  BY <1>1
<1>3. PICK u : u = SubSeq(s, 1, i - 1)
  OBVIOUS
<1>4. PICK v : v = SubSeq(s, i + 1, n)
  OBVIOUS
<1>7. u \in Seq(S) /\ Len(u) = i - 1
  BY <1>1, <1>2, <1>3, Part
<1>8. v \in Seq(S)
  BY <1>1, <1>2, <1>4, Part
<1>5. SubSeq(s, 1, i) = u \o <<s[i]>>
  <2>1. 1 \in 1 .. Len(s) /\ i \in 1 .. Len(s)
    BY <1>1, <1>2
  <2> QED
    BY <1>3, <2>1, SubSeqRecursiveSecond
<1>6. s = SubSeq(s, 1, i) \o SubSeq(s, i + 1, n)
  <2>1. SubSeq(s, 1, i) \o SubSeq(s, i + 1, n) = SubSeq(s, 1, n)
    BY <1>1, <1>2, ConcatAdjacentSubSeq
  <2> QED
    BY <1>1, <2>1, SubSeqFull
<1> QED
  BY <1>3, <1>4, <1>5, <1>6, <1>7, <1>8

PartsAt(S, s, n) ==
    \E u \in Seq(S), v \in Seq(S) : s = u \o v /\ Len(u) = n /\ Len(v) = Len(s) - n

LEMMA Cleft ==
    ASSUME NEW S, NEW s \in Seq(S), NEW n \in 0 .. Len(s)
    PROVE  PartsAt(S, s, n)
<1>1. PICK m \in Nat : m = Len(s)
  OBVIOUS
<1>2. /\ 1 \in 1 .. (m + 1) /\ n \in (1 - 1) .. m /\ n - 1 + 1 = n
      /\ n + 1 \in 1 .. (m + 1) /\ m \in ((n + 1) - 1) .. m /\ m \in n .. m /\ m - (n + 1) + 1 = m - n
  BY <1>1
<1>3. PICK u, v : u = SubSeq(s, 1, n) /\ v = SubSeq(s, n + 1, m)
  OBVIOUS
<1>4. u \in Seq(S) /\ Len(u) = n /\ v \in Seq(S) /\ Len(v) = m - n
  BY <1>1, <1>2, <1>3, Part
<1>5. u \o v = SubSeq(s, 1, m)
  BY <1>1, <1>2, <1>3, <1>4, ConcatAdjacentSubSeq
<1>6. u \o v = s
  BY <1>1, <1>5, SubSeqFull
<1> QED
  BY <1>1, <1>3, <1>4, <1>6 DEF PartsAt

\* Parts put together in one order or another.
Joins(u, v, w) == u \o v \o w = u \o (v \o w)

LEMMA Joined3 ==
    ASSUME NEW S, NEW u \in Seq(S), NEW v \in Seq(S), NEW w \in Seq(S)
    PROVE  Joins(u, v, w)
  BY ConcatAssociative DEF Joins

Regroups(u, v, w, x) ==
    /\ u \o v \o w = u \o (v \o w)
    /\ u \o (v \o w) \o x = (u \o v) \o (w \o x)
    /\ u \o v \o w \o x = (u \o v) \o (w \o x)
    /\ (u \o v) \o (w \o x) = u \o (v \o (w \o x))

LEMMA Regrouped ==
    ASSUME NEW S, NEW u \in Seq(S), NEW v \in Seq(S), NEW w \in Seq(S), NEW x \in Seq(S)
    PROVE  Regroups(u, v, w, x)
<1>1. PICK y, z : y = u \o v /\ z = w \o x
  OBVIOUS
<1>2. y \in Seq(S) /\ z \in Seq(S)
  BY <1>1, ConcatProperties
<1>3. Joins(u, v, w) /\ Joins(y, w, x) /\ Joins(u, v, z)
  BY <1>2, Joined3
<1> QED
  BY <1>1, <1>3 DEF Regroups, Joins

------------------------------------------------------------------------------
(***************************************************************************)
(* The text of a buffer, and the cursor in it                              *)
(***************************************************************************)
LEMMA NoLines == Lines(<<>>) = <<>>
<1>1. PICK S : S = {NL}
  OBVIOUS
<1>2. PICK Q : Q = Seq(S)
  OBVIOUS
<1>3. PICK rows : rows = <<>>
  OBVIOUS
<1>5. rows \in Seq(Q) /\ Len(rows) = 0
  BY <1>3
<1>4. PICK f : /\ f[0] = <<>>
               /\ \A i \in 1 .. Len(rows) : f[i] = LineStep(f[i - 1], rows[i])
               /\ \A i \in 0 .. Len(rows) : f[i] \in Seq(S)
               /\ Lines(rows) = f[Len(rows)]
  BY <1>1, <1>2, <1>5, LinesSteps, ZenonT(60)
<1> QED
  BY <1>3, <1>4, <1>5

LEMMA LinesConcat ==
    ASSUME NEW S, NL \in S, NEW A \in Seq(Seq(S)), NEW B \in Seq(Seq(S))
    PROVE  /\ Lines(A) \in Seq(S) /\ Lines(B) \in Seq(S)
           /\ Lines(A \o B) = Lines(A) \o Lines(B)
<1>1. PICK Q : Q = Seq(S)
  OBVIOUS
<1>2. PICK n \in Nat : n = Len(B)
  OBVIOUS
<1>3. A \in Seq(Q) /\ B \in Seq(Q) /\ \A i \in 1 .. n : B[i] \in Q
  BY <1>1, <1>2
<1>4. \A s \in Seq(Q) : Lines(s) \in Seq(S)
  <2> TAKE s \in Seq(Q)
  <2>1. <<>> \in Seq(S)
    OBVIOUS
  <2> QED
    BY <1>1, <2>1, LinesAppend
<1> DEFINE P(i) == SubSeq(B, 1, i)
           T == {i \in 0 .. n : Lines(A \o P(i)) = Lines(A) \o Lines(P(i))}
<1>5. 0 \in T
  <2>1. P(0) = <<>>
    BY SubSeqEmpty
  <2>2. A \o P(0) = A /\ Lines(A) \o <<>> = Lines(A)
    BY <1>3, <1>4, <2>1, ConcatEmptySeq
  <2>3. Lines(A \o P(0)) = Lines(A) \o Lines(P(0))
    BY <2>1, <2>2, NoLines
  <2> QED
    BY <1>2, <2>3
<1>6. ASSUME NEW i \in 0 .. (n - 1), i \in T PROVE i + 1 \in T
  <2>1. PICK j \in 1 .. n : j = i + 1 /\ j - 1 = i
    OBVIOUS
  <2>2. PICK C, row : C = P(i) /\ row = B[j]
    OBVIOUS
  <2>3. C \in Seq(Q) /\ row \in Q
    <3>1. 1 \in 1 .. (n + 1) /\ i \in (1 - 1) .. n
      OBVIOUS
    <3> QED
      BY <1>2, <1>3, <2>2, <3>1, Part
  <2>4. P(j) = Append(C, row)
    <3>1. 1 \in 1 .. Len(B) /\ j \in 1 .. Len(B)
      BY <1>2
    <3>2. P(j) = SubSeq(B, 1, j - 1) \o <<B[j]>>
      BY <1>3, <3>1, SubSeqRecursiveSecond
    <3> QED
      BY <2>1, <2>2, <2>3, <3>2, AppendIsConcat
  <2>5. A \o P(j) = Append(A \o C, row)
    <3>1. A \o (C \o <<row>>) = (A \o C) \o <<row>>
      <4>1. <<row>> \in Seq(Q)
        BY <2>3
      <4> QED
        BY <1>3, <2>3, <4>1, ConcatAssociative
    <3>2. A \o C \in Seq(Q)
      BY <1>3, <2>3
    <3> QED
      BY <2>3, <2>4, <3>1, <3>2, AppendIsConcat
  <2>6. Lines(A \o P(j)) = Lines(A \o C) \o row \o <<NL>> /\ Lines(P(j)) = Lines(C) \o row \o <<NL>>
    <3>1. A \o C \in Seq(Q)
      BY <1>3, <2>3
    <3> QED
      BY <1>1, <2>3, <2>4, <2>5, <3>1, LinesAppend
  <2>7. Lines(A \o C) = Lines(A) \o Lines(C)
    BY <1>6, <2>2
  <2>8. (Lines(A) \o Lines(C)) \o row \o <<NL>> = Lines(A) \o (Lines(C) \o row \o <<NL>>)
    <3>1. PICK a \in Seq(S), c \in Seq(S) : a = Lines(A) /\ c = Lines(C)
      BY <1>3, <1>4, <2>3
    <3>2. row \in Seq(S) /\ <<NL>> \in Seq(S) /\ c \o row \in Seq(S)
      BY <1>1, <2>3, <3>1
    <3>3. PICK d, e : d = c \o row /\ e = <<NL>>
      OBVIOUS
    <3>4. (a \o c) \o row = a \o d
      BY <3>1, <3>2, <3>3, ConcatAssociative, SMTT(60)
    <3>5. (a \o d) \o e = a \o (d \o e)
      BY <3>1, <3>2, <3>3, ConcatAssociative, SMTT(60)
    <3> QED
      BY <3>1, <3>3, <3>4, <3>5
  <2>9. Lines(A \o P(j)) = Lines(A) \o Lines(P(j))
    BY <2>6, <2>7, <2>8
  <2> HIDE DEF P
  <2> QED
    BY <1>2, <2>1, <2>9
<1>7. n \in T
  <2> HIDE DEF T
  <2>1. \A i \in 0 .. n : i \in T
    BY <1>5, <1>6, UpToInduction
  <2> QED
    BY <2>1
<1>8. P(n) = B
  BY <1>2, <1>3, SubSeqFull
<1> QED
  BY <1>3, <1>4, <1>7, <1>8

MeasureStep(n, row) == n + Len(row) + 1

Measure(rows) == FoldLeft(LAMBDA n, row : n + Len(row) + 1, 0, rows)

\* Rows are counted one after the other, each with its end.
LEMMA MeasureSteps ==
    ASSUME NEW S, NEW Q \in SUBSET Seq(S), NEW rows \in Seq(Q)
    PROVE  \E f : /\ f[0] = 0
                  /\ \A i \in 1 .. Len(rows) : f[i] = MeasureStep(f[i - 1], rows[i])
                  /\ \A i \in 0 .. Len(rows) : f[i] \in Nat
                  /\ Measure(rows) = f[Len(rows)]
<1>1. PICK N \in Nat : N = Len(rows) /\ DOMAIN rows = 1 .. N /\ \A i \in 1 .. N : rows[i] \in Q
  OBVIOUS
<1>2. PICK A : A = Nat
  OBVIOUS
<1>3. 0 \in A /\ \A i \in 1 .. N : \A a \in A : MeasureStep(a, rows[i]) \in A
  BY <1>1, <1>2 DEF MeasureStep
<1>4. PICK step : step = [i \in 1 .. N |-> [a \in A |-> MeasureStep(a, rows[i])]]
  OBVIOUS
<1>5. step \in [1 .. N -> [A -> A]]
  BY <1>3, <1>4
<1>6. PICK g : FoldOf(g, N, A, 0, step)
  BY <1>3, <1>5, FoldSteps
<1> DEFINE body(h) == [J \in SUBSET DOMAIN rows |->
                         IF J = {} THEN 0 ELSE MeasureStep(h[J \ {Max(J)}], rows[Max(J)])]
           iter == CHOOSE h : h = body(h)
           f == [i \in 0 .. N |-> iter[1 .. i]]
<1>7. g = body(g)
  <2>1. \A J \in SUBSET (1 .. N) : J # {} => g[J] = MeasureStep(g[J \ {Max(J)}], rows[Max(J)])
    <3> TAKE J \in SUBSET (1 .. N)
    <3> HAVE J # {}
    <3>1. Max(J) \in 1 .. N /\ J \ {Max(J)} \in SUBSET (1 .. N)
      BY LargestOf
    <3>2. g[J] = step[Max(J)][g[J \ {Max(J)}]] /\ g[J \ {Max(J)}] \in A
      BY <1>6, <3>1 DEF FoldOf
    <3> QED
      BY <1>4, <3>1, <3>2
  <2> QED
    BY <1>1, <1>6, <2>1 DEF FoldOf
<1>8. iter = body(iter)
  <2> HIDE DEF body
  <2> QED
    BY <1>7, Zenon
<1>9. Measure(rows) = f[N]
  <2>1. Measure(rows) = iter[DOMAIN rows]
    BY DEF Measure, MeasureStep, FoldLeft, MapThenFoldSet
  <2> HIDE DEF iter
  <2> QED
    BY <1>1, <2>1
<1> HIDE DEF iter
<1>10. f[0] = 0
  BY <1>1, <1>8
<1>11. ASSUME NEW i \in 1 .. N PROVE f[i] = MeasureStep(f[i - 1], rows[i])
  <2>1. Max(1 .. i) = i /\ (1 .. i) \ {i} = 1 .. (i - 1)
    BY LargestUpTo
  <2>2. 1 .. i \in SUBSET DOMAIN rows /\ 1 .. i # {}
    <3>1. DOMAIN rows = 1 .. N
      BY <1>1
    <3>2. 1 .. i \in SUBSET (1 .. N) /\ 1 .. i # {}
      BY FirstNumbers
    <3> QED
      BY <3>1, <3>2
  <2>3. iter[1 .. i] = MeasureStep(iter[(1 .. i) \ {Max(1 .. i)}], rows[Max(1 .. i)])
    BY <1>8, <2>2
  <2>4. f[i] = iter[1 .. i] /\ f[i - 1] = iter[1 .. (i - 1)]
    BY <1>1
  <2> HIDE DEF f, body
  <2> QED
    BY <2>1, <2>3, <2>4
<1> HIDE DEF f
<1> DEFINE T == {i \in 0 .. N : f[i] \in A}
<1>12. \A i \in 0 .. N : i \in T
  <2>1. 0 \in T
    BY <1>3, <1>10
  <2>2. ASSUME NEW i \in 0 .. (N - 1), i \in T PROVE i + 1 \in T
    <3>1. i + 1 \in 1 .. N /\ (i + 1) - 1 = i
      OBVIOUS
    <3>2. f[i + 1] = MeasureStep(f[i], rows[i + 1])
      BY <1>11, <3>1
    <3>3. MeasureStep(f[i], rows[i + 1]) \in A
      BY <1>3, <2>2, <3>1
    <3> QED
      BY <3>1, <3>2, <3>3
  <2> HIDE DEF T
  <2> QED
    BY <2>1, <2>2, UpToInduction
<1> QED
  BY <1>1, <1>2, <1>9, <1>10, <1>11, <1>12

LEMMA MeasureIs ==
    ASSUME NEW S, NL \in S, NEW rows \in Seq(Seq(S))
    PROVE  Measure(rows) = Len(Lines(rows))
<1>1. PICK Q : Q = Seq(S)
  OBVIOUS
<1>2. PICK n \in Nat : n = Len(rows)
  OBVIOUS
<1>3. PICK f : /\ f[0] = 0
               /\ \A i \in 1 .. Len(rows) : f[i] = MeasureStep(f[i - 1], rows[i])
               /\ \A i \in 0 .. Len(rows) : f[i] \in Nat
               /\ Measure(rows) = f[Len(rows)]
  BY <1>1, MeasureSteps
<1>4. PICK g : /\ g[0] = <<>>
               /\ \A i \in 1 .. Len(rows) : g[i] = LineStep(g[i - 1], rows[i])
               /\ \A i \in 0 .. Len(rows) : g[i] \in Seq(S)
               /\ Lines(rows) = g[Len(rows)]
  BY <1>1, LinesSteps
<1> DEFINE T == {i \in 0 .. n : f[i] = Len(g[i])}
<1>5. 0 \in T
  BY <1>3, <1>4
<1>6. ASSUME NEW i \in 0 .. (n - 1), i \in T PROVE i + 1 \in T
  <2>1. i + 1 \in 1 .. Len(rows) /\ i \in 0 .. Len(rows) /\ (i + 1) - 1 = i
    BY <1>2
  <2>2. PICK row \in Seq(S), s \in Seq(S) : row = rows[i + 1] /\ s = g[i]
    BY <1>4, <2>1
  <2>3. f[i + 1] = f[i] + Len(row) + 1 /\ g[i + 1] = s \o row \o <<NL>>
    BY <1>3, <1>4, <2>1, <2>2 DEF MeasureStep, LineStep
  <2>4. Len(s \o row \o <<NL>>) = Len(s) + Len(row) + 1
    OBVIOUS
  <2>5. f[i] = Len(s)
    BY <1>6, <2>2
  <2>6. f[i + 1] = Len(g[i + 1])
    BY <2>3, <2>4, <2>5
  <2> QED
    BY <1>2, <2>1, <2>6
<1>7. n \in T
  <2> HIDE DEF T
  <2>1. \A i \in 0 .. n : i \in T
    BY <1>5, <1>6, UpToInduction
  <2> QED
    BY <2>1
<1> QED
  BY <1>2, <1>3, <1>4, <1>7

LEMMA FrontConcat ==
    ASSUME NEW S, NEW u \in Seq(S), NEW v \in Seq(S), v # <<>>
    PROVE  Front(v) \in Seq(S) /\ Front(u \o v) = u \o Front(v)
<1>1. PICK f, e : f = Front(v) /\ e = Last(v)
  OBVIOUS
<1>2. f \in Seq(S) /\ e \in S /\ v = Append(f, e)
  BY <1>1, FrontAndLast
<1>3. <<e>> \in Seq(S) /\ u \o f \in Seq(S)
  BY <1>2
<1>4. u \o v = Append(u \o f, e)
  <2>1. v = f \o <<e>>
    BY <1>2, AppendIsConcat
  <2>2. u \o (f \o <<e>>) = (u \o f) \o <<e>>
    BY <1>2, <1>3, ConcatAssociative
  <2>3. Append(u \o f, e) = (u \o f) \o <<e>>
    BY <1>2, <1>3, AppendIsConcat
  <2> QED
    BY <2>1, <2>2, <2>3
<1>5. Front(Append(u \o f, e)) = u \o f
  BY <1>2, <1>3, FrontOfAppend
<1> QED
  BY <1>1, <1>2, <1>4, <1>5

\* What is read behind a line, the end of that line included.
Rest(B) == Front(<<NL>> \o Lines(B))

LEMMA TextAround ==
    ASSUME NEW S, NL \in S, NEW A \in Seq(Seq(S)), NEW B \in Seq(Seq(S)), NEW L \in Seq(S)
    PROVE  /\ Lines(A) \in Seq(S) /\ Rest(B) \in Seq(S)
           /\ Joined(A \o <<L>> \o B) = Lines(A) \o L \o Rest(B)
<1>1. PICK Q : Q = Seq(S)
  OBVIOUS
<1>2. PICK C : C = A \o <<L>>
  OBVIOUS
<1>3. A \in Seq(Q) /\ B \in Seq(Q) /\ L \in Q /\ C \in Seq(Q) /\ C = Append(A, L)
  <2>1. A \in Seq(Q) /\ B \in Seq(Q) /\ L \in Q
    BY <1>1
  <2> QED
    BY <1>2, <2>1, AppendIsConcat
<1>4. PICK a, b : a = Lines(A) /\ b = Lines(B)
  OBVIOUS
<1>5. a \in Seq(S) /\ b \in Seq(S)
  BY <1>4, LinesConcat
<1>6. Lines(C \o B) = Lines(C) \o b
  BY <1>1, <1>3, <1>4, LinesConcat
<1>7. Lines(C) = (a \o L) \o <<NL>>
  BY <1>3, <1>4, LinesAppend
<1>8. PICK u, e : u = a \o L /\ e = <<NL>>
  OBVIOUS
<1>9. u \in Seq(S) /\ e \in Seq(S) /\ e \o b \in Seq(S) /\ e \o b # <<>>
  <2>1. u \in Seq(S) /\ e \in Seq(S) /\ e # <<>>
    BY <1>5, <1>8
  <2>2. e \o b \in Seq(S) /\ e \o b # <<>>
    BY <1>5, <2>1, Prefixed
  <2> QED
    BY <2>1, <2>2
<1>10. (u \o e) \o b = u \o (e \o b)
  BY <1>5, <1>9, ConcatAssociative, SMTT(60)
<1>11. Front(u \o (e \o b)) = u \o Front(e \o b) /\ Front(e \o b) \in Seq(S)
  BY <1>9, FrontConcat
<1>12. Rest(B) = Front(e \o b)
  BY <1>4, <1>8 DEF Rest
<1>13. Joined(C \o B) = Front(Lines(C \o B))
  BY DEF Joined
<1> QED
  BY <1>2, <1>4, <1>5, <1>6, <1>7, <1>8, <1>10, <1>11, <1>12, <1>13, Zenon

LEMMA RestIs ==
    ASSUME NEW S, NL \in S, NEW B \in Seq(Seq(S)), NEW L \in Seq(S)
    PROVE  /\ Rest(<<>>) = <<>>
           /\ Rest(<<L>> \o B) = <<NL>> \o (L \o Rest(B))
           /\ Rest(B) # <<>> => Rest(B)[1] = NL
<1>1. PICK Q : Q = Seq(S)
  OBVIOUS
<1>2. B \in Seq(Q) /\ L \in Q /\ <<L>> \in Seq(Q) /\ <<>> \in Seq(Q) /\ <<L>> = Append(<<>>, L)
  BY <1>1
<1>3. PICK b, e, l : b = Lines(B) /\ e = <<NL>> /\ l = Lines(<<L>>)
  OBVIOUS
<1>4. b \in Seq(S) /\ e \in Seq(S) /\ Len(e) = 1 /\ e[1] = NL /\ e # <<>>
  BY <1>1, <1>2, <1>3, LinesConcat
<1>5. l = L \o e /\ l \in Seq(S)
  <2>1. l = Lines(<<>>) \o L \o <<NL>>
    BY <1>1, <1>2, <1>3, LinesAppend
  <2>2. Lines(<<>>) \o L = L
    BY NoLines, ConcatEmptySeq
  <2>3. l = L \o e
    BY <1>3, <2>1, <2>2
  <2> QED
    BY <1>4, <2>3, Halves
<1>6. Rest(<<>>) = <<>>
  <2>1. e \o <<>> = e /\ <<>> \in Seq(S) /\ Append(<<>>, NL) = e
    BY <1>3, <1>4, ConcatEmptySeq
  <2>2. Front(e) = <<>>
    BY <2>1, FrontOfAppend
  <2> QED
    BY <1>3, <2>1, <2>2, NoLines DEF Rest
<1>7. Rest(<<L>> \o B) = e \o (L \o Rest(B))
  <2>1. Lines(<<L>> \o B) = l \o b
    BY <1>1, <1>2, <1>3, LinesConcat
  <2>2. e \o b \in Seq(S) /\ e \o L \in Seq(S) /\ e \o b # <<>>
    BY <1>4, Prefixed
  <2>3. (L \o e) \o b = L \o (e \o b) /\ e \o (L \o (e \o b)) = (e \o L) \o (e \o b)
    <3>1. PICK c : c = e \o b
      OBVIOUS
    <3>2. (L \o e) \o b = L \o c
      BY <1>4, <3>1, ConcatAssociative, SMTT(60)
    <3>4. c \in Seq(S)
      BY <2>2, <3>1
    <3>5. e \in Seq(S)
      BY <1>4
    <3>3. (e \o L) \o c = e \o (L \o c)
      BY <3>4, <3>5, ConcatAssociative, SMTT(60)
    <3> QED
      BY <3>1, <3>2, <3>3
  <2>4. Front((e \o L) \o (e \o b)) = (e \o L) \o Front(e \o b) /\ Front(e \o b) \in Seq(S)
    BY <2>2, FrontConcat
  <2>5. Front(e \o b) = Rest(B)
    BY <1>3 DEF Rest
  <2>6. (e \o L) \o Rest(B) = e \o (L \o Rest(B))
    <3>1. PICK r : r = Rest(B)
      OBVIOUS
    <3>2. r \in Seq(S) /\ e \in Seq(S)
      BY <1>4, <2>4, <2>5, <3>1
    <3>3. (e \o L) \o r = e \o (L \o r)
      BY <3>2, ConcatAssociative
    <3> QED
      BY <3>1, <3>3
  <2>7. Rest(<<L>> \o B) = Front(e \o Lines(<<L>> \o B))
    BY <1>3 DEF Rest
  <2> QED
    BY <1>5, <2>1, <2>3, <2>4, <2>5, <2>6, <2>7
<1>8. ASSUME Rest(B) # <<>> PROVE Rest(B)[1] = NL
  <2>1. PICK c : c = e \o b
    OBVIOUS
  <2>2. c \in Seq(S) /\ c[1] = NL /\ c # <<>>
    BY <1>4, <2>1, Prefixed
  <2>3. PICK r, z : r = Front(c) /\ z = Last(c)
    OBVIOUS
  <2>4. r \in Seq(S) /\ z \in S /\ c = Append(r, z)
    BY <2>2, <2>3, FrontAndLast
  <2>5. r # <<>>
    BY <1>3, <1>8, <2>1, <2>3 DEF Rest
  <2>6. r[1] = c[1]
    BY <2>4, <2>5
  <2> QED
    BY <1>3, <2>1, <2>2, <2>3, <2>6 DEF Rest
<1> QED
  BY <1>3, <1>6, <1>7, <1>8

LEMMA LinesEnd ==
    ASSUME NEW S, NL \in S, NEW A \in Seq(Seq(S)), Lines(A) # <<>>
    PROVE  Lines(A)[Len(Lines(A))] = NL
<1>1. PICK Q : Q = Seq(S)
  OBVIOUS
<1>2. A \in Seq(Q) /\ A # <<>>
  BY <1>1, NoLines
<1>3. PICK C \in Seq(Q), L \in Q : A = Append(C, L)
  BY <1>2, SequenceEmptyOrAppend
<1>4. Lines(C) \in Seq(S) /\ Lines(A) = Lines(C) \o L \o <<NL>>
  BY <1>1, <1>3, LinesAppend
<1>5. PICK s : s = Lines(C) \o L
  OBVIOUS
<1>6. s \in Seq(S) /\ Lines(A) = s \o <<NL>>
  BY <1>1, <1>4, <1>5
<1> QED
  BY <1>6

\* A buffer as its rows above the cursor's, what is before and behind the
\* cursor in its row, and the rows below.
Shape(b, A, U, V, B) ==
    /\ A \in Seq(ShortRows) /\ B \in Seq(ShortRows)
    /\ U \in Seq(Signs) /\ V \in Seq(Signs)
    /\ b.lines = A \o <<U \o V>> \o B
    /\ b.row = Len(A) + 1 /\ b.col = Len(U)

\* The text of a buffer, parted by the cursor.
Reads(b, X, Y) ==
    /\ X \in Seq(Symbols) /\ Y \in Seq(Symbols)
    /\ Joined(b.lines) = X \o Y
    /\ Offset(b) = Len(X)

LEMMA HasShape ==
    ASSUME NEW b, BufferOK(b)
    PROVE  \E A, U, V, B : Shape(b, A, U, V, B) /\ Line(b) = U \o V
<1>1. /\ b.lines \in Seq(ShortRows) /\ b.row \in 1 .. Len(b.lines) /\ b.col \in 0 .. Len(Line(b))
      /\ Line(b) = b.lines[b.row] /\ Line(b) \in Seq(Signs) /\ Len(b.lines) \in Nat
  BY BufferHas, LooseHas
<1>2. PICK A \in Seq(ShortRows), B \in Seq(ShortRows) :
          b.lines = A \o <<b.lines[b.row]>> \o B /\ Len(A) = b.row - 1
  <2>1. PICK rows, i : rows = b.lines /\ i = b.row
    OBVIOUS
  <2>2. rows \in Seq(ShortRows) /\ i \in 1 .. Len(rows)
    BY <1>1, <2>1
  <2>3. \E A \in Seq(ShortRows), B \in Seq(ShortRows) :
            rows = A \o <<rows[i]>> \o B /\ Len(A) = i - 1 /\ A = SubSeq(rows, 1, i - 1)
    BY <2>2, Around
  <2> QED
    BY <2>1, <2>3
<1>3. PICK U \in Seq(Signs), V \in Seq(Signs) : Line(b) = U \o V /\ Len(U) = b.col
  <2>1. PICK row, n : row = Line(b) /\ n = b.col
    OBVIOUS
  <2>2. row \in Seq(Signs) /\ n \in 0 .. Len(row)
    BY <1>1, <2>1
  <2>3. PartsAt(Signs, row, n)
    BY <2>2, Cleft
  <2> QED
    BY <2>1, <2>3 DEF PartsAt
<1>4. b.row = Len(A) + 1
  BY <1>1, <1>2
<1>5. Shape(b, A, U, V, B)
  BY <1>1, <1>2, <1>3, <1>4 DEF Shape
<1> QED
  BY <1>3, <1>5

LEMMA ManyTexts ==
    ASSUME NEW A \in Seq(ShortRows)
    PROVE  A \in Seq(Seq(Symbols)) /\ A \in Seq(Seq(Signs)) /\ Lines(A) \in Seq(Symbols) /\ Rest(A) \in Seq(Symbols)
<1>1. PICK Q, P : Q = Seq(Symbols) /\ P = Seq(Signs)
  OBVIOUS
<1>2. ShortRows \subseteq Q /\ ShortRows \subseteq P
  BY <1>1, RowsAreTexts
<1>3. A \in Seq(Q) /\ A \in Seq(P)
  BY <1>2, SeqMonotonic
<1>4. <<>> \in Seq(Symbols) /\ NL \in Symbols
  BY SymbolsHave
<1> QED
  BY <1>1, <1>3, <1>4, TextAround

LEMMA SignsAreSymbols == \A U \in Seq(Signs) : U \in Seq(Symbols)
  BY SymbolsHave, SeqMonotonic

LEMMA ShapeReads ==
    ASSUME NEW b, NEW A, NEW U, NEW V, NEW B, Shape(b, A, U, V, B)
    PROVE  Reads(b, Lines(A) \o U, V \o Rest(B))
<1>1. /\ A \in Seq(ShortRows) /\ B \in Seq(ShortRows) /\ U \in Seq(Symbols) /\ V \in Seq(Symbols)
      /\ b.lines = A \o <<U \o V>> \o B /\ b.row = Len(A) + 1 /\ b.col = Len(U)
  BY SignsAreSymbols DEF Shape
<1>2. PICK a, r : a = Lines(A) /\ r = Rest(B)
  OBVIOUS
<1>3. A \in Seq(Seq(Symbols)) /\ B \in Seq(Seq(Symbols)) /\ a \in Seq(Symbols) /\ r \in Seq(Symbols)
      /\ NL \in Symbols
  BY <1>1, <1>2, ManyTexts, SymbolsHave
<1>4. PICK L \in Seq(Symbols) : L = U \o V
  BY <1>1, ConcatProperties
<1>5. Joined(b.lines) = a \o L \o r
  BY <1>1, <1>2, <1>3, <1>4, TextAround, ZenonT(60)
<1>6. a \o U \in Seq(Symbols) /\ V \o r \in Seq(Symbols) /\ Len(a \o U) = Len(a) + Len(U)
  BY <1>1, <1>3, ConcatProperties
<1>7. a \o L \o r = (a \o U) \o (V \o r)
  <2>1. Regroups(a, U, V, r)
    BY <1>1, <1>3, Regrouped
  <2> QED
    BY <1>4, <2>1 DEF Regroups
<1>8. Offset(b) = Len(a) + Len(U)
  <2>1. SubSeq(b.lines, 1, b.row - 1) = A
    <3>1. PICK Q : Q = Seq(Symbols)
      OBVIOUS
    <3>2. <<L>> \o B \in Seq(Q) /\ A \o (<<L>> \o B) = (A \o <<L>>) \o B /\ A \in Seq(Q)
      <4>1. <<L>> \in Seq(Q) /\ A \in Seq(Q) /\ B \in Seq(Q)
        BY <1>3, <3>1
      <4> QED
        BY <4>1, ConcatAssociative, ConcatProperties, SMTT(60)
    <3>3. SubSeq(A \o (<<L>> \o B), 1, Len(A)) = A
      BY <3>2, Halves
    <3>4. b.row - 1 = Len(A)
      BY <1>1
    <3> QED
      BY <1>1, <1>4, <3>2, <3>3, <3>4
  <2>2. Offset(b) = b.col + Measure(SubSeq(b.lines, 1, b.row - 1))
    BY DEF Offset, Measure
  <2>3. Measure(A) = Len(a)
    BY <1>2, <1>3, MeasureIs
  <2>4. Offset(b) = Len(U) + Len(a)
    BY <1>1, <2>1, <2>2, <2>3
  <2>5. Len(U) \in Nat /\ Len(a) \in Nat
    BY <1>1, <1>3
  <2> QED
    BY <2>4, <2>5
<1> QED
  BY <1>2, <1>5, <1>6, <1>7, <1>8 DEF Reads

\* The cursor is in the text.
LEMMA CursorIn ==
    ASSUME NEW b, BufferOK(b)
    PROVE  Joined(b.lines) \in Seq(Symbols) /\ Offset(b) \in 0 .. Len(Joined(b.lines))
<1>1. PICK A, U, V, B : Shape(b, A, U, V, B)
  BY HasShape
<1>2. PICK X, Y : Reads(b, X, Y)
  BY <1>1, ShapeReads
<1>3. X \o Y \in Seq(Symbols) /\ Len(X \o Y) = Len(X) + Len(Y) /\ Len(X) \in Nat /\ Len(Y) \in Nat
  BY <1>2 DEF Reads
<1> QED
  BY <1>2, <1>3 DEF Reads

LEMMA OffsetIs ==
    ASSUME NEW b, NEW A \in Seq(ShortRows), NEW B \in Seq(ShortRows), NEW L \in Seq(Symbols),
           b.lines = A \o <<L>> \o B, b.row = Len(A) + 1
    PROVE  Offset(b) = b.col + Len(Lines(A))
<1>1. SubSeq(b.lines, 1, b.row - 1) = A
  <2>1. PICK Q : Q = Seq(Symbols)
    OBVIOUS
  <2>2. A \in Seq(Q) /\ B \in Seq(Q) /\ <<L>> \in Seq(Q)
    BY <2>1, ManyTexts
  <2>3. <<L>> \o B \in Seq(Q) /\ A \o (<<L>> \o B) = (A \o <<L>>) \o B
    BY <2>2, ConcatAssociative, ConcatProperties
  <2>4. SubSeq(A \o (<<L>> \o B), 1, Len(A)) = A
    BY <2>2, <2>3, Halves
  <2>5. b.row - 1 = Len(A)
    <3>1. Len(A) \in Nat
      OBVIOUS
    <3> QED
      BY <3>1
  <2> QED
    BY <2>3, <2>4, <2>5
<1>2. Offset(b) = b.col + Measure(SubSeq(b.lines, 1, b.row - 1))
  BY DEF Offset, Measure
<1>3. Measure(A) = Len(Lines(A))
  BY ManyTexts, SymbolsHave, MeasureIs
<1> QED
  BY <1>1, <1>2, <1>3

------------------------------------------------------------------------------
(***************************************************************************)
(* What a step of the editor makes of the text                             *)
(***************************************************************************)
Stays(b, c) == BufferOK(c) /\ c.lines = b.lines

Run(x, k) == [i \in 1 .. k |-> x]

Puts(b, c) ==
    \E X \in Seq(Symbols), Y \in Seq(Symbols), x \in Chars \cup {Blank, NL}, k \in 1 .. Tab :
        /\ Reads(b, X, Y)
        /\ Joined(c.lines) = X \o Run(x, k) \o Y
        /\ Offset(c) \in (Len(X) + k) .. (Len(X) + k + Len(Y))

RubsBefore(b, c) ==
    \E X \in Seq(Symbols), Y \in Seq(Symbols), x \in Symbols : Reads(b, X \o <<x>>, Y) /\ Reads(c, X, Y)

RubsAt(b, c) ==
    \E X \in Seq(Symbols), Y \in Seq(Symbols), x \in Symbols : Reads(b, X, <<x>> \o Y) /\ Reads(c, X, Y)

\* The lines M and N, between P and E, become one, of N its first k symbols.
Cuts(b, c) ==
    \E P \in Seq(Symbols), E \in Seq(Symbols), M \in Seq(Signs), N \in Seq(Signs) :
      \E k \in 0 .. Len(N) :
        /\ P # <<>> => P[Len(P)] = NL
        /\ E # <<>> => E[1] = NL
        /\ Joined(b.lines) = (P \o M) \o (<<NL>> \o (N \o E))
        /\ Offset(b) \in {Len(P \o M), Len(P \o M) + 1}
        /\ Len(M) + Len(N) >= LineLen - 1
        /\ Reads(c, P \o M, SubSeq(N, 1, k) \o E)

Steps(b, c) == Stays(b, c) \/ Puts(b, c) \/ RubsBefore(b, c) \/ RubsAt(b, c) \/ Cuts(b, c)

LEMMA RunIsText ==
    ASSUME NEW x \in Symbols, NEW k \in Nat
    PROVE  Run(x, k) \in Seq(Symbols) /\ Len(Run(x, k)) = k
  BY DEF Run

\* Symbols put in at the cursor, which goes on behind them.
LEMMA PutsRun ==
    ASSUME NEW b, NEW A, NEW U, NEW V, NEW B, Shape(b, A, U, V, B),
           NEW x \in Chars \cup {Blank}, NEW k \in 1 .. Tab,
           NEW c, c.lines = A \o <<U \o (Run(x, k) \o V)>> \o B, c.row = b.row,
           c.col \in (Len(U) + k) .. (Len(U) + k + Len(V))
    PROVE  Puts(b, c)
<1>1. /\ A \in Seq(ShortRows) /\ B \in Seq(ShortRows) /\ U \in Seq(Symbols) /\ V \in Seq(Symbols)
      /\ c.row = Len(A) + 1
  BY SignsAreSymbols DEF Shape
<1>2. PICK a, r, W : a = Lines(A) /\ r = Rest(B) /\ W = Run(x, k)
  OBVIOUS
<1>3. A \in Seq(Seq(Symbols)) /\ B \in Seq(Seq(Symbols)) /\ a \in Seq(Symbols) /\ r \in Seq(Symbols)
      /\ NL \in Symbols /\ x \in Symbols
  BY <1>1, <1>2, ManyTexts, SymbolsHave
<1>4. k \in Nat /\ W \in Seq(Symbols) /\ Len(W) = k
  <2>1. k \in Nat
    BY Sizes
  <2> QED
    BY <1>2, <1>3, <2>1, RunIsText
<1>5. PICK X, Y, L : X = a \o U /\ Y = V \o r /\ L = U \o (W \o V)
  OBVIOUS
<1>6. Reads(b, X, Y)
  BY <1>2, <1>5, ShapeReads
<1>7. L \in Seq(Symbols)
  BY <1>1, <1>4, <1>5, ConcatProperties
<1>8. Joined(c.lines) = X \o W \o Y
  <2>1. Joined(c.lines) = a \o L \o r
    BY <1>1, <1>2, <1>3, <1>5, <1>7, TextAround, ZenonT(60)
  <2>2. PICK w : w = W \o V
    OBVIOUS
  <2>3. w \in Seq(Symbols)
    BY <1>1, <1>4, <2>2, ConcatProperties
  <2>4. Regroups(a, U, w, r) /\ Regroups(X, W, V, r) /\ Joins(W, V, r)
    <3>1. X \in Seq(Symbols)
      BY <1>6 DEF Reads
    <3> QED
      BY <1>1, <1>3, <1>4, <2>3, <3>1, Regrouped, Joined3
  <2>5. a \o L \o r = X \o (w \o r)
    BY <1>5, <2>2, <2>4 DEF Regroups
  <2>6. X \o (w \o r) = X \o (W \o (V \o r))
    BY <2>2, <2>4 DEF Joins
  <2>7. X \o W \o Y = X \o (W \o Y)
    <3>1. X \in Seq(Symbols) /\ Y \in Seq(Symbols)
      BY <1>6 DEF Reads
    <3>2. Joins(X, W, Y)
      BY <1>4, <3>1, Joined3
    <3> QED
      BY <3>2 DEF Joins
  <2> QED
    BY <1>5, <2>1, <2>5, <2>6, <2>7
<1>9. Offset(c) \in (Len(X) + k) .. (Len(X) + k + Len(Y))
  <2>1. Offset(c) = c.col + Len(a)
    BY <1>1, <1>2, <1>5, <1>7, OffsetIs
  <2>2. Len(X) = Len(a) + Len(U) /\ Len(Y) = Len(V) + Len(r)
    BY <1>1, <1>3, <1>5, ConcatProperties
  <2>3. PICK la \in Nat, lu \in Nat, lv \in Nat, lr \in Nat :
            la = Len(a) /\ lu = Len(U) /\ lv = Len(V) /\ lr = Len(r)
    BY <1>1, <1>3
  <2>4. PICK n : n = c.col
    OBVIOUS
  <2>5. n \in (lu + k) .. (lu + k + lv)
    BY <2>3, <2>4
  <2>6. n + la \in ((la + lu) + k) .. ((la + lu) + k + (lv + lr))
    BY <1>4, <2>3, <2>5
  <2> QED
    BY <2>1, <2>2, <2>3, <2>4, <2>6
<1>10. X \in Seq(Symbols) /\ Y \in Seq(Symbols) /\ x \in Chars \cup {Blank, NL}
  BY <1>6 DEF Reads
<1> QED
  BY <1>2, <1>6, <1>8, <1>9, <1>10, Zenon DEF Puts

LEMMA ClampIs ==
    ASSUME NEW b, Loose(b), NEW c, c = Changed(clamp_cursor(b))
    PROVE  /\ BufferOK(c) /\ c.lines = b.lines
           /\ b.row \in 1 .. Len(b.lines) => c.row = b.row /\ c.col = Within(b.col, 0, Len(b.lines[b.row]))
<1>1. PICK d : d = clamp_cursor(b)
  OBVIOUS
<1>2. BufferOK(d) /\ d.lines = b.lines /\ d \in Buffers
  BY <1>1, ClampOK DEF BufferOK, Loose
<1>3. c = [d EXCEPT !.dirty = TRUE]
  BY <1>1 DEF Changed
<1>4. c.lines = d.lines /\ c.row = d.row /\ c.col = d.col
  BY <1>2, <1>3 DEF Buffers
<1>5. ASSUME b.row \in 1 .. Len(b.lines)
      PROVE  d.row = b.row /\ d.col = Within(b.col, 0, Len(b.lines[b.row]))
  <2>1. b \in Buffers /\ b.row \in Int /\ Len(b.lines) \in Nat
    BY LooseHas
  <2>2. Within(b.row, 1, Len(b.lines)) = b.row
    BY <1>5, <2>1 DEF Within
  <2>3. PICK row, col : row = b.row /\ col = Within(b.col, 0, Len(b.lines[b.row]))
    OBVIOUS
  <2>4. d = [b EXCEPT !.row = row, !.col = col]
    BY <1>1, <2>2, <2>3 DEF clamp_cursor
  <2>5. d.row = row /\ d.col = col
    BY <2>1, <2>4 DEF Buffers
  <2> QED
    BY <2>3, <2>5
<1>6. BufferOK(c)
  BY <1>1, <1>2, ChangedOK DEF Changed
<1> QED
  BY <1>2, <1>4, <1>5, <1>6

\* What a buffer's row is made into.
LEMMA ShapeHas ==
    ASSUME NEW b, NEW A, NEW U, NEW V, NEW B, Shape(b, A, U, V, B), BufferOK(b)
    PROVE  /\ Line(b) = U \o V /\ Line(b) \in ShortRows
           /\ Len(Line(b)) = Len(U) + Len(V) /\ Len(U) \in Nat /\ Len(V) \in Nat
           /\ Len(A) \in Nat /\ Len(B) \in Nat /\ Len(b.lines) = Len(A) + 1 + Len(B)
           /\ b.row \in 1 .. Len(b.lines)
           /\ \A row \in ShortRows : [b.lines EXCEPT ![b.row] = row] = A \o <<row>> \o B
<1>1. /\ A \in Seq(ShortRows) /\ B \in Seq(ShortRows) /\ U \in Seq(Signs) /\ V \in Seq(Signs)
      /\ b.lines = A \o <<U \o V>> \o B /\ b.row = Len(A) + 1
  BY DEF Shape
<1>2. Line(b) = b.lines[b.row] /\ Line(b) \in ShortRows /\ b.row \in 1 .. Len(b.lines)
  BY BufferHas
<1>3. PICK L : L = U \o V
  OBVIOUS
<1>4. b.lines \in Seq(ShortRows)
  BY BufferHas, LooseHas
<1>5. L \in ShortRows
  <2>1. \A i \in 1 .. Len(b.lines) : b.lines[i] \in ShortRows
    BY <1>4
  <2>2. PICK Q : Q = Seq(Signs)
    OBVIOUS
  <2>3. A \in Seq(Q) /\ B \in Seq(Q) /\ L \in Q
    <3>1. L \in Q
      BY <1>1, <1>3, <2>2, ConcatProperties
    <3> QED
      BY <1>1, <2>2, <3>1, ManyTexts
  <2>4. (A \o <<L>> \o B)[Len(A) + 1] = L
    <3>1. Middle(Q, A, L, B)
      BY <2>3, Between
    <3> QED
      BY <3>1 DEF Middle
  <2> QED
    BY <1>1, <1>2, <1>3, <2>4
<1>6. (A \o <<L>> \o B)[Len(A) + 1] = L /\ Len(A \o <<L>> \o B) = Len(A) + 1 + Len(B)
  <2>1. Middle(ShortRows, A, L, B)
    BY <1>1, <1>5, Between
  <2> QED
    BY <2>1 DEF Middle
<1>7. Len(L) = Len(U) + Len(V)
  BY <1>1, <1>3, ConcatProperties
<1>8. \A row \in ShortRows : [b.lines EXCEPT ![b.row] = row] = A \o <<row>> \o B
  <2> TAKE row \in ShortRows
  <2>1. [A \o <<L>> \o B EXCEPT ![Len(A) + 1] = row] = A \o <<row>> \o B
    BY <1>1, <1>5, Replaced, SMTT(60)
  <2> QED
    BY <1>1, <1>3, <2>1
<1>9. Len(U) \in Nat /\ Len(V) \in Nat /\ Len(A) \in Nat /\ Len(B) \in Nat
  BY <1>1
<1>10. Line(b) = L /\ Len(b.lines) = Len(A) + 1 + Len(B)
  BY <1>1, <1>2, <1>3, <1>6
<1> QED
  BY <1>2, <1>3, <1>7, <1>8, <1>9, <1>10

LEMMA InsertedShape ==
    ASSUME NEW b, NEW A, NEW U, NEW V, NEW B, Shape(b, A, U, V, B), BufferOK(b), NEW c \in Signs,
           NEW d, d = insert_char_at(b, c)
    PROVE  BufferOK(d) /\ (d = b \/ Shape(d, A, U, <<c>> \o V, B))
<1>1. BufferOK(d)
  BY InsertCharOK
<1>2. CASE Len(Line(b)) + 1 >= LineLen
  BY <1>1, <1>2 DEF insert_char_at
<1>3. CASE ~ (Len(Line(b)) + 1 >= LineLen)
  <2>1. /\ A \in Seq(ShortRows) /\ B \in Seq(ShortRows) /\ U \in Seq(Signs) /\ V \in Seq(Signs)
        /\ b.row = Len(A) + 1 /\ b.col = Len(U)
    BY DEF Shape
  <2>2. Line(b) = U \o V /\ Len(Line(b)) \in Nat /\ Line(b) = b.lines[b.row] /\ b \in Buffers
    BY ShapeHas, BufferHas, LooseHas
  <2>3. PICK row : row = InsertAt(U \o V, Len(U) + 1, c)
    OBVIOUS
  <2>4. row \in Seq(Signs) /\ Len(row) = Len(U) + 1 + Len(V) /\ row = U \o (<<c>> \o V) /\ <<c>> \o V \in Seq(Signs)
    <3>1. <<c>> \in Seq(Signs)
      OBVIOUS
    <3>2. <<c>> \o V \in Seq(Signs)
      BY <2>1, <3>1, ConcatProperties
    <3>3. Middle(Signs, U, c, V)
      BY <2>1, Between
    <3> QED
      BY <2>3, <3>2, <3>3 DEF Middle
  <2>5. row \in ShortRows
    <3>1. Len(Line(b)) = Len(U) + Len(V) /\ Len(U) \in Nat /\ Len(V) \in Nat
      BY ShapeHas
    <3>2. Len(row) < LineLen
      BY <1>3, <2>4, <3>1, Sizes
    <3> QED
      BY <2>4, <3>2, RowFits
  <2>6. PICK rows : rows = [b.lines EXCEPT ![b.row] = row]
    OBVIOUS
  <2>7. rows = A \o <<row>> \o B
    BY <2>5, <2>6, ShapeHas, SMTT(60)
  <2>8. d = [b EXCEPT !.lines[b.row] = InsertAt(b.lines[b.row], b.col + 1, c)]
    BY <1>3 DEF insert_char_at
  <2>9. d = [b EXCEPT !.lines[b.row] = row]
    BY <2>1, <2>2, <2>3, <2>8
  <2>10. d.lines = rows /\ d.row = b.row /\ d.col = b.col
    BY <2>2, <2>6, <2>9 DEF Buffers
  <2>11. Shape(d, A, U, <<c>> \o V, B)
    BY <2>1, <2>4, <2>7, <2>10 DEF Shape
  <2> QED
    BY <1>1, <2>11
<1> QED
  BY <1>2, <1>3

LEMMA TypeCharSteps ==
    ASSUME NEW b, BufferOK(b), NEW x \in Chars, NEW c, c = TypeChar(b, x)
    PROVE  Steps(b, c)
<1>1. PICK d : d = insert_char_at(b, x)
  OBVIOUS
<1>2. PICK A, U, V, B : Shape(b, A, U, V, B)
  BY HasShape
<1>3. x \in Signs
  BY SymbolsHave
<1>4. BufferOK(d) /\ (d = b \/ Shape(d, A, U, <<x>> \o V, B))
  BY <1>1, <1>2, <1>3, InsertedShape
<1>5. PICK e : e = [d EXCEPT !.col = d.col + 1]
  OBVIOUS
<1>6. Loose(e) /\ e.lines = d.lines /\ e.row = d.row /\ e.col = d.col + 1
  <2>1. Loose(d) /\ d.col + 1 \in Int
    BY <1>4, BufferHas, LooseHas
  <2> QED
    BY <1>5, <2>1, BesideOK
<1>7. c = Changed(clamp_cursor(e))
  BY <1>1, <1>5 DEF TypeChar
<1>8. /\ BufferOK(c) /\ c.lines = d.lines /\ c.row = d.row
      /\ c.col = Within(d.col + 1, 0, Len(d.lines[d.row]))
  <2>1. d.row \in 1 .. Len(d.lines)
    BY <1>4, BufferHas
  <2> QED
    BY <1>6, <1>7, <2>1, ClampIs
<1>9. CASE d = b
  BY <1>8, <1>9 DEF Steps, Stays
<1>10. CASE Shape(d, A, U, <<x>> \o V, B)
  <2>1. /\ U \in Seq(Signs) /\ V \in Seq(Signs) /\ d.col = Len(U) /\ d.row = b.row
        /\ d.lines = A \o <<U \o (<<x>> \o V)>> \o B
    BY <1>2, <1>10 DEF Shape
  <2>2. Line(d) = d.lines[d.row] /\ Len(Line(d)) = Len(U) + Len(<<x>> \o V)
    <3>1. Line(d) = d.lines[d.row]
      BY <1>4, BufferHas
    <3>3. PICK W : W = <<x>> \o V
      OBVIOUS
    <3>4. Shape(d, A, U, W, B)
      BY <1>10, <3>3
    <3>5. Len(Line(d)) = Len(U) + Len(W)
      BY <1>4, <3>4, ShapeHas
    <3>2. Len(Line(d)) = Len(U) + Len(<<x>> \o V)
      BY <3>3, <3>5
    <3> QED
      BY <3>1, <3>2
  <2>3. Len(<<x>> \o V) = 1 + Len(V) /\ Len(U) \in Nat /\ Len(V) \in Nat
    <3>1. <<x>> \in Seq(Signs) /\ Len(<<x>>) = 1
      BY <1>3
    <3> QED
      BY <2>1, <3>1, ConcatProperties
  <2>4. c.col = Len(U) + 1
    <3>1. PICK m \in Nat, n \in Nat : m = Len(U) /\ n = Len(V)
      BY <2>3
    <3>2. Len(d.lines[d.row]) = m + (1 + n) /\ d.col = m
      BY <2>1, <2>2, <2>3, <3>1
    <3>3. Within(m + 1, 0, m + (1 + n)) = m + 1
      BY <3>1 DEF Within
    <3> QED
      BY <1>8, <3>1, <3>2, <3>3
  <2>5. Run(x, 1) = <<x>>
    BY DEF Run
  <2>6. 1 \in 1 .. Tab /\ c.col \in (Len(U) + 1) .. (Len(U) + 1 + Len(V))
    BY <2>3, <2>4, Sizes
  <2>7. c.lines = A \o <<U \o (Run(x, 1) \o V)>> \o B /\ c.row = b.row
    BY <1>8, <2>1, <2>5
  <2>8. Puts(b, c)
    BY <1>2, <2>6, <2>7, PutsRun
  <2> QED
    BY <2>8 DEF Steps
<1> QED
  BY <1>4, <1>9, <1>10


Runs(S, x, k, V) ==
    /\ Run(x, 0) \o V = V
    /\ <<x>> \o (Run(x, k) \o V) = Run(x, k + 1) \o V
    /\ Run(x, k) \o V \in Seq(S)
    /\ Len(Run(x, k) \o V) = k + Len(V)

LEMMA RunMore ==
    ASSUME NEW S, NEW x \in S, NEW k \in Nat, NEW V \in Seq(S)
    PROVE  Runs(S, x, k, V)
<1>1. Run(x, 0) = <<>>
  BY DEF Run
<1>2. Run(x, k) \in Seq(S) /\ Len(Run(x, k)) = k /\ <<x>> \in Seq(S)
  BY DEF Run
<1>3. <<x>> \o Run(x, k) = Run(x, k + 1)
  <2>1. PICK r, s : r = Run(x, k) /\ s = Run(x, k + 1)
    OBVIOUS
  <2>2. /\ r \in Seq(S) /\ Len(r) = k /\ \A i \in 1 .. k : r[i] = x
        /\ s \in Seq(S) /\ Len(s) = k + 1 /\ \A i \in 1 .. (k + 1) : s[i] = x
    BY <2>1 DEF Run
  <2>3. PICK t : t = <<x>> \o r
    OBVIOUS
  <2>4. t \in Seq(S) /\ Len(t) = k + 1 /\ \A i \in 1 .. (k + 1) : t[i] = x
    BY <1>2, <2>2, <2>3
  <2>5. t = s
    BY <2>2, <2>4, SeqEqual
  <2> QED
    BY <2>1, <2>3, <2>5
<1>4. Joins(<<x>>, Run(x, k), V)
  BY <1>2, Joined3
<1>5. Run(x, k) \o V \in Seq(S) /\ Len(Run(x, k) \o V) = k + Len(V)
  BY <1>2, ConcatProperties
<1> QED
  BY <1>1, <1>3, <1>4, <1>5, ConcatEmptySeq DEF Joins, Runs

\* Blanks before V, of which there is room for some.
Blanked(d, A, U, V, B, i) == BufferOK(d) /\ \E j \in 0 .. i : Shape(d, A, U, Run(Blank, j) \o V, B)

LEMMA BlankMore ==
    ASSUME NEW d, NEW A, NEW U, NEW V \in Seq(Signs), NEW B, NEW i \in Nat, Blanked(d, A, U, V, B, i),
           NEW e, e = insert_char_at(d, Blank)
    PROVE  Blanked(e, A, U, V, B, i + 1)
<1>1. BufferOK(d)
  BY DEF Blanked
<1>2. PICK j \in 0 .. i : Shape(d, A, U, Run(Blank, j) \o V, B)
  BY DEF Blanked
<1>3. Blank \in Signs /\ j \in Nat /\ j \in 0 .. (i + 1) /\ j + 1 \in 0 .. (i + 1)
  BY SymbolsHave
<1>4. PICK W : W = Run(Blank, j) \o V
  OBVIOUS
<1>5. BufferOK(e) /\ (e = d \/ Shape(e, A, U, <<Blank>> \o W, B))
  BY <1>1, <1>2, <1>3, <1>4, InsertedShape
<1>6. <<Blank>> \o W = Run(Blank, j + 1) \o V
  <2>1. Runs(Signs, Blank, j, V)
    BY <1>3, RunMore
  <2> QED
    BY <1>4, <2>1 DEF Runs
<1> QED
  BY <1>2, <1>3, <1>5, <1>6 DEF Blanked

LEMMA TypeTabSteps ==
    ASSUME NEW b, BufferOK(b), NEW c, c = TypeTab(b)
    PROVE  Steps(b, c)
<1>1. PICK d : d = Tabbed(b)
  OBVIOUS
<1>2. PICK A, U, V, B : Shape(b, A, U, V, B)
  BY HasShape
<1>3. V \in Seq(Signs) /\ U \in Seq(Signs) /\ Len(U) \in Nat /\ Len(V) \in Nat
  BY <1>2, ShapeHas DEF Shape
<1>4. Blanked(d, A, U, V, B, 4)
  <2>1. b \in GoodBuffers
    BY DEF GoodBuffers, BufferOK, Loose
  <2>2. PICK f : /\ f[0] = b
                 /\ \A i \in 1 .. Len(Keys) : f[i] = TabStep(f[i - 1], Keys[i])
                 /\ \A i \in 0 .. Len(Keys) : f[i] \in GoodBuffers
                 /\ Tabbed(b) = f[Len(Keys)]
    BY <2>1, TabSteps
  <2>3. Len(Keys) = 4
    BY Sizes DEF Keys
  <2>4. Blanked(f[0], A, U, V, B, 0)
    <3>1. Runs(Signs, Blank, 0, V)
      BY <1>3, SymbolsHave, RunMore
    <3> QED
      <4>1. Shape(b, A, U, Run(Blank, 0) \o V, B)
        BY <1>2, <3>1 DEF Runs
      <4>2. 0 \in 0 .. 0
        OBVIOUS
      <4> QED
        BY <2>2, <4>1, <4>2 DEF Blanked
  <2>5. \A i \in 0 .. 3 : f[i + 1] = insert_char_at(f[i], Blank)
    <3> TAKE i \in 0 .. 3
    <3>1. i + 1 \in 1 .. Len(Keys) /\ (i + 1) - 1 = i
      BY <2>3
    <3> QED
      BY <2>2, <3>1 DEF TabStep
  <2>6. \A i \in 0 .. 3 : Blanked(f[i], A, U, V, B, i) => Blanked(f[i + 1], A, U, V, B, i + 1)
    <3> TAKE i \in 0 .. 3
    <3> HAVE Blanked(f[i], A, U, V, B, i)
    <3>1. i \in Nat
      OBVIOUS
    <3> QED
      BY <1>3, <2>5, <3>1, BlankMore
  <2>7. Blanked(f[1], A, U, V, B, 1)
    BY <2>4, <2>6
  <2>8. Blanked(f[2], A, U, V, B, 2)
    BY <2>6, <2>7
  <2>9. Blanked(f[3], A, U, V, B, 3)
    BY <2>6, <2>8
  <2>10. Blanked(f[4], A, U, V, B, 4)
    BY <2>6, <2>9
  <2> QED
    BY <1>1, <2>2, <2>3, <2>10
<1>5. BufferOK(d)
  BY <1>4 DEF Blanked
<1>6. PICK j \in 0 .. 4 : Shape(d, A, U, Run(Blank, j) \o V, B)
  BY <1>4 DEF Blanked
<1>7. PICK W : W = Run(Blank, j) \o V
  OBVIOUS
<1>8. W \in Seq(Signs) /\ Len(W) = j + Len(V) /\ Shape(d, A, U, W, B)
  <2>1. Runs(Signs, Blank, j, V)
    BY <1>3, SymbolsHave, RunMore
  <2> QED
    BY <1>6, <1>7, <2>1 DEF Runs
<1>9. PICK e : e = [d EXCEPT !.col = d.col + Tab]
  OBVIOUS
<1>10. Loose(e) /\ e.lines = d.lines /\ e.row = d.row /\ e.col = d.col + Tab
  <2>1. Loose(d) /\ d.col + Tab \in Int
    BY <1>5, BufferHas, LooseHas, Sizes
  <2> QED
    BY <1>9, <2>1, BesideOK
<1>11. c = Changed(clamp_cursor(e))
  BY <1>1, <1>9 DEF TypeTab, Tabbed, Keys
<1>12. d.row \in 1 .. Len(d.lines) /\ Line(d) = d.lines[d.row] /\ Len(Line(d)) = Len(U) + Len(W)
  BY <1>5, <1>8, ShapeHas, BufferHas
<1>13. /\ BufferOK(c) /\ c.lines = d.lines /\ c.row = d.row
       /\ c.col = Within(d.col + Tab, 0, Len(d.lines[d.row]))
  BY <1>10, <1>11, <1>12, ClampIs
<1>14. d.lines = A \o <<U \o W>> \o B /\ d.row = b.row /\ d.col = Len(U)
       /\ b.lines = A \o <<U \o V>> \o B
  BY <1>2, <1>8 DEF Shape
<1>15. CASE j = 0
  <2>1. Runs(Signs, Blank, 0, V)
    BY <1>3, SymbolsHave, RunMore
  <2>2. W = V
    BY <1>7, <1>15, <2>1 DEF Runs
  <2> QED
    BY <1>13, <1>14, <2>2 DEF Steps, Stays
<1>16. CASE j # 0
  <2>1. j \in 1 .. Tab
    BY <1>16, Sizes
  <2>2. c.col \in (Len(U) + j) .. (Len(U) + j + Len(V))
    <3>1. PICK m \in Nat, n \in Nat : m = Len(U) /\ n = Len(V)
      BY <1>3
    <3>2. c.col = Within(m + 4, 0, m + (j + n))
      BY <1>8, <1>12, <1>13, <1>14, <3>1, Sizes
    <3>3. Within(m + 4, 0, m + (j + n)) \in (m + j) .. (m + j + n)
      BY <3>1 DEF Within
    <3> QED
      BY <3>1, <3>2, <3>3
  <2>3. c.lines = A \o <<U \o (Run(Blank, j) \o V)>> \o B /\ c.row = b.row
    BY <1>7, <1>13, <1>14
  <2>4. Puts(b, c)
    BY <1>2, <2>1, <2>2, <2>3, PutsRun
  <2> QED
    BY <2>4 DEF Steps
<1> QED
  BY <1>15, <1>16

\* Both sides of the cursor are lines that fit.
Parted(b, A, U, V, B) ==
    /\ U \in ShortRows /\ V \in ShortRows /\ Append(A, U) = A \o <<U>>
    /\ A \o <<U>> \in Seq(ShortRows) /\ Len(A \o <<U>>) = Len(A) + 1
    /\ SubSeq(Line(b), 1, b.col) = U /\ SubSeq(Line(b), b.col + 1, Len(Line(b))) = V

LEMMA ShapeParts ==
    ASSUME NEW b, NEW A, NEW U, NEW V, NEW B, Shape(b, A, U, V, B), BufferOK(b)
    PROVE  Parted(b, A, U, V, B)
<1>1. A \in Seq(ShortRows) /\ U \in Seq(Signs) /\ V \in Seq(Signs) /\ b.col = Len(U)
  BY DEF Shape
<1>2. /\ Line(b) = U \o V /\ Len(Line(b)) < LineLen /\ Len(Line(b)) = Len(U) + Len(V)
      /\ Len(U) \in Nat /\ Len(V) \in Nat
  BY ShapeHas, BufferHas
<1>3. Len(U) < LineLen /\ Len(V) < LineLen
  BY <1>2, Sizes
<1>4. U \in ShortRows /\ V \in ShortRows
  BY <1>1, <1>3, RowFits
<1>5. SubSeq(U \o V, 1, Len(U)) = U /\ SubSeq(U \o V, Len(U) + 1, Len(U \o V)) = V
  BY <1>1, Halves
<1>6. Append(A, U) = A \o <<U>> /\ <<U>> \in Seq(ShortRows) /\ Len(<<U>>) = 1
  BY <1>1, <1>4, AppendIsConcat
<1>7. A \o <<U>> \in Seq(ShortRows) /\ Len(A \o <<U>>) = Len(A) + 1
  BY <1>1, <1>6, ConcatProperties
<1> QED
  BY <1>1, <1>2, <1>4, <1>5, <1>6, <1>7 DEF Parted

SplitsTo(b, d, A, U, V, B) ==
    /\ Loose(d) /\ d.row = b.row
    /\ d.lines = b.lines \/ d.lines = (A \o <<U>>) \o <<V>> \o B

LEMMA SplitShape ==
    ASSUME NEW b, NEW A, NEW U, NEW V, NEW B, Shape(b, A, U, V, B), BufferOK(b),
           NEW d, d = split_line(b)
    PROVE  Parted(b, A, U, V, B) /\ SplitsTo(b, d, A, U, V, B)
<1>0. Parted(b, A, U, V, B)
  BY ShapeParts
<1>1. Loose(d) /\ d.row = b.row
  BY SplitOK
<1>2. CASE Len(b.lines) >= MaxLines
  BY <1>0, <1>1, <1>2 DEF split_line, SplitsTo
<1>3. CASE ~ (Len(b.lines) >= MaxLines)
  <2>1. /\ U \in ShortRows /\ V \in ShortRows
        /\ SubSeq(Line(b), 1, b.col) = U /\ SubSeq(Line(b), b.col + 1, Len(Line(b))) = V
    BY <1>0 DEF Parted
  <2>2. PICK C : C = A \o <<U>>
    OBVIOUS
  <2>3. C \in Seq(ShortRows) /\ B \in Seq(ShortRows) /\ Len(C) + 1 = b.row + 1
    <3>1. C \in Seq(ShortRows) /\ Len(C) = Len(A) + 1
      BY <1>0, <2>2 DEF Parted
    <3> QED
      BY <3>1 DEF Shape
  <2>4. [b.lines EXCEPT ![b.row] = U] = C \o B
    BY <2>1, <2>2, ShapeHas, SMTT(60)
  <2>5. PICK rows : rows = InsertAt(C \o B, Len(C) + 1, V)
    OBVIOUS
  <2>6. rows = C \o <<V>> \o B
    <3>1. Middle(ShortRows, C, V, B)
      BY <2>1, <2>3, Between
    <3> QED
      BY <2>5, <3>1 DEF Middle
  <2>7. d = [b EXCEPT !.lines = rows]
    <3>1. d = [b EXCEPT !.lines = InsertAt([b.lines EXCEPT ![b.row] = SubSeq(Line(b), 1, b.col)],
                              b.row + 1, SubSeq(Line(b), b.col + 1, Len(Line(b))))]
      BY <1>3 DEF split_line
    <3> QED
      BY <2>1, <2>3, <2>4, <2>5, <3>1
  <2>8. d.lines = rows
    BY <2>7, BufferHas, LooseHas DEF Buffers
  <2> QED
    BY <1>0, <1>1, <2>2, <2>6, <2>8 DEF SplitsTo
<1> QED
  BY <1>2, <1>3

LEMMA EnterSteps ==
    ASSUME NEW b, BufferOK(b), NEW c, c = Enter(b)
    PROVE  Steps(b, c)
<1>1. PICK d : d = split_line(b)
  OBVIOUS
<1>2. PICK A, U, V, B : Shape(b, A, U, V, B)
  BY HasShape
<1>3. /\ Loose(d) /\ d.row = b.row
      /\ d.lines = b.lines \/ d.lines = (A \o <<U>>) \o <<V>> \o B
  <2>1. SplitsTo(b, d, A, U, V, B)
    BY <1>1, <1>2, SplitShape
  <2> QED
    BY <2>1 DEF SplitsTo
<1>4. PICK e : e = [d EXCEPT !.row = d.row + 1, !.col = 0]
  OBVIOUS
<1>5. Loose(e) /\ e.lines = d.lines /\ e.row = d.row + 1 /\ e.col = 0
  <2>1. PICK row \in Int, col \in Int : row = d.row + 1 /\ col = 0
    BY <1>3, LooseHas
  <2>4. Loose(d)
    BY <1>3
  <2>2. e = [d EXCEPT !.row = row, !.col = col]
    BY <1>4, <2>1
  <2>3. Loose(e) /\ e.lines = d.lines /\ e.dirty = d.dirty /\ e.row = row /\ e.col = col
    <3>1. d \in Buffers /\ row \in Int /\ col \in Int
      BY <2>1, <2>4 DEF Loose
    <3>2. e \in Buffers /\ e.lines = d.lines /\ e.dirty = d.dirty /\ e.row = row /\ e.col = col
      BY <2>2, <3>1 DEF Buffers
    <3> QED
      BY <2>4, <3>2 DEF Loose
  <2> QED
    BY <2>1, <2>3
<1>6. c = Changed(clamp_cursor(e))
  BY <1>1, <1>4 DEF Enter
<1>7. /\ BufferOK(c) /\ c.lines = d.lines
      /\ d.row + 1 \in 1 .. Len(d.lines) =>
            c.row = d.row + 1 /\ c.col = Within(0, 0, Len(d.lines[d.row + 1]))
  BY <1>5, <1>6, ClampIs
<1>8. CASE d.lines = b.lines
  BY <1>7, <1>8 DEF Steps, Stays
<1>9. CASE d.lines = (A \o <<U>>) \o <<V>> \o B
  <2>0. Parted(b, A, U, V, B)
    BY <1>2, ShapeParts
  <2>1. PICK C : C = A \o <<U>>
    OBVIOUS
  <2>2. C \in Seq(ShortRows) /\ U \in ShortRows /\ V \in ShortRows /\ Len(C) = Len(A) + 1 /\ C = Append(A, U)
    BY <2>1, <2>0 DEF Parted
  <2>3. B \in Seq(ShortRows) /\ A \in Seq(ShortRows) /\ V \in Seq(Signs) /\ U \in Seq(Signs) /\ b.row = Len(A) + 1
    BY <1>2 DEF Shape
  <2>4. Len(d.lines) = Len(C) + 1 + Len(B) /\ d.lines[Len(C) + 1] = V
    <3>1. Middle(ShortRows, C, V, B)
      BY <2>2, <2>3, Between
    <3> QED
      BY <1>9, <2>1, <3>1 DEF Middle
  <2>5. d.row + 1 = Len(C) + 1 /\ d.row + 1 \in 1 .. Len(d.lines)
    BY <1>3, <2>2, <2>3, <2>4
  <2>6. c.row = Len(C) + 1 /\ c.col = 0
    <3>1. Within(0, 0, Len(V)) = 0
      BY <2>3 DEF Within
    <3> QED
      BY <1>7, <2>4, <2>5, <3>1
  <2>7. Shape(c, C, <<>>, V, B)
    <3>1. <<>> \o V = V /\ Len(<<>>) = 0 /\ <<>> \in Seq(Signs)
      BY <2>3, ConcatEmptySeq
    <3> QED
      BY <1>7, <1>9, <2>1, <2>2, <2>3, <2>6, <3>1 DEF Shape
  <2>8. PICK a, r, X, Y : a = Lines(A) /\ r = Rest(B) /\ X = a \o U /\ Y = V \o r
    OBVIOUS
  <2>9. Reads(b, X, Y)
    BY <1>2, <2>8, ShapeReads
  <2>10. X \in Seq(Symbols) /\ Y \in Seq(Symbols)
    BY <2>9 DEF Reads
  <2>11. Lines(C) = X \o <<NL>>
    <3>1. PICK Q : Q = Seq(Symbols)
      OBVIOUS
    <3>2. A \in Seq(Q) /\ U \in Q
      BY <2>3, <3>1, ManyTexts, SignsAreSymbols
    <3> QED
      BY <2>2, <2>8, <3>1, <3>2, SymbolsHave, LinesAppend
  <2>12. PICK Z : Z = X \o <<NL>>
    OBVIOUS
  <2>13. Z \in Seq(Symbols) /\ Len(Z) = Len(X) + 1 /\ Z \o <<>> = Z
    <3>1. <<NL>> \in Seq(Symbols) /\ Len(<<NL>>) = 1
      BY SymbolsHave
    <3>2. Z \in Seq(Symbols) /\ Len(Z) = Len(X) + 1
      BY <2>10, <2>12, <3>1, ConcatProperties
    <3> QED
      BY <3>2, ConcatEmptySeq
  <2>14. Reads(c, Z, Y)
    BY <2>7, <2>8, <2>11, <2>12, <2>13, ShapeReads
  <2>15. Run(NL, 1) = <<NL>>
    BY DEF Run
  <2>16. Joined(c.lines) = X \o Run(NL, 1) \o Y
    BY <2>12, <2>14, <2>15 DEF Reads
  <2>17. Offset(c) \in (Len(X) + 1) .. (Len(X) + 1 + Len(Y))
    <3>1. Len(X) \in Nat /\ Len(Y) \in Nat /\ Offset(c) = Len(X) + 1
      BY <2>10, <2>13, <2>14 DEF Reads
    <3> QED
      BY <3>1
  <2>18. 1 \in 1 .. Tab /\ NL \in Chars \cup {Blank, NL}
    BY Sizes
  <2>19. Puts(b, c)
    BY <2>9, <2>10, <2>16, <2>17, <2>18, Zenon DEF Puts
  <2> QED
    BY <2>19 DEF Steps
<1> QED
  BY <1>3, <1>8, <1>9

ShapedLine(b, A, U, V, B) ==
    /\ Line(b) = U \o V /\ Len(Line(b)) = Len(U) + Len(V) /\ Len(U) \in Nat /\ Len(V) \in Nat
    /\ Len(A) \in Nat /\ Len(B) \in Nat /\ Len(b.lines) = Len(A) + 1 + Len(B)

LEMMA ShapeLine ==
    ASSUME NEW b, NEW A, NEW U, NEW V, NEW B, Shape(b, A, U, V, B), BufferOK(b)
    PROVE  ShapedLine(b, A, U, V, B)
  BY ShapeHas DEF ShapedLine

\* A buffer of that shape has its cursor in the text, and keeps the shape
\* when the cursor is put back into it and when it is noted as changed.
LEMMA ShapeOK ==
    ASSUME NEW b, NEW A, NEW U, NEW V, NEW B, Shape(b, A, U, V, B), Loose(b)
    PROVE  BufferOK(b)
<1>1. /\ A \in Seq(ShortRows) /\ B \in Seq(ShortRows) /\ U \in Seq(Signs) /\ V \in Seq(Signs)
      /\ b.lines = A \o <<U \o V>> \o B /\ b.row = Len(A) + 1 /\ b.col = Len(U)
  BY DEF Shape
<1>2. PICK L : L = U \o V
  OBVIOUS
<1>3. PICK Q : Q = Seq(Signs)
  OBVIOUS
<1>4. L \in Q /\ Len(L) = Len(U) + Len(V) /\ A \in Seq(Q) /\ B \in Seq(Q)
  BY <1>1, <1>2, <1>3, ManyTexts, ConcatProperties
<1>5. Middle(Q, A, L, B)
  BY <1>4, Between
<1>6. Len(b.lines) = Len(A) + 1 + Len(B) /\ b.lines[b.row] = L
  BY <1>1, <1>2, <1>5 DEF Middle
<1>7. Len(A) \in Nat /\ Len(B) \in Nat /\ Len(U) \in Nat /\ Len(V) \in Nat
  BY <1>1
<1>8. b.row \in 1 .. Len(b.lines) /\ b.col \in 0 .. Len(b.lines[b.row])
  BY <1>1, <1>4, <1>6, <1>7
<1> QED
  BY <1>8 DEF BufferOK, Line

LEMMA ShapeKept ==
    ASSUME NEW b, NEW A, NEW U, NEW V, NEW B, Shape(b, A, U, V, B), Loose(b)
    PROVE  /\ BufferOK(Changed(clamp_cursor(b))) /\ Shape(Changed(clamp_cursor(b)), A, U, V, B)
           /\ BufferOK(Changed(b)) /\ Shape(Changed(b), A, U, V, B)
<1>1. /\ BufferOK(b) /\ b.row \in 1 .. Len(b.lines) /\ b.col \in 0 .. Len(b.lines[b.row])
      /\ Len(b.lines[b.row]) \in Nat
  BY ShapeOK, BufferHas
<1>2. PICK c : c = Changed(clamp_cursor(b))
  OBVIOUS
<1>3. BufferOK(c) /\ c.lines = b.lines /\ c.row = b.row /\ c.col = Within(b.col, 0, Len(b.lines[b.row]))
  BY <1>1, <1>2, ClampIs
<1>4. c.col = b.col
  BY <1>1, <1>3 DEF Within
<1>5. Shape(c, A, U, V, B)
  BY <1>3, <1>4 DEF Shape
<1>6. PICK d : d = Changed(b)
  OBVIOUS
<1>7. d.lines = b.lines /\ d.row = b.row /\ d.col = b.col
  BY <1>6, LooseHas DEF Changed, Buffers
<1>8. BufferOK(d)
  BY <1>1, <1>6, ChangedOK
<1>9. Shape(d, A, U, V, B)
  BY <1>7 DEF Shape
<1> QED
  BY <1>2, <1>3, <1>5, <1>6, <1>8, <1>9

LEMMA DeletedShape ==
    ASSUME NEW b, NEW A, NEW U, NEW B, NEW x \in Signs, NEW V \in Seq(Signs), NEW W, W = <<x>> \o V,
           Shape(b, A, U, W, B), BufferOK(b), NEW d, d = delete_char(b)
    PROVE  BufferOK(d) /\ Shape(d, A, U, V, B)
<1>1. BufferOK(d)
  BY DeleteCharOK
<1>2. /\ A \in Seq(ShortRows) /\ B \in Seq(ShortRows) /\ U \in Seq(Signs)
      /\ b.row = Len(A) + 1 /\ b.col = Len(U)
  BY DEF Shape
<1>3. Len(W) = 1 + Len(V) /\ Len(V) \in Nat
  <2>1. <<x>> \in Seq(Signs) /\ Len(<<x>>) = 1
    OBVIOUS
  <2> QED
    BY <2>1, ConcatProperties
<1>4. Line(b) = b.lines[b.row] /\ Line(b) = U \o W /\ Len(Line(b)) = Len(U) + Len(W) /\ Len(U) \in Nat
      /\ Len(Line(b)) < LineLen /\ b \in Buffers
  <2>1. ShapedLine(b, A, U, W, B)
    BY ShapeLine
  <2> QED
    BY <2>1, BufferHas, LooseHas DEF ShapedLine
<1>5. b.col < Len(Line(b))
  BY <1>2, <1>3, <1>4
<1>6. PICK row : row = U \o V
  OBVIOUS
<1>7. row \in ShortRows
  <2>1. row \in Seq(Signs) /\ Len(row) = Len(U) + Len(V)
    BY <1>2, <1>6, ConcatProperties
  <2>2. Len(row) < LineLen
    BY <1>3, <1>4, <2>1, Sizes
  <2> QED
    BY <2>1, <2>2, RowFits
<1>8. RemoveAt(b.lines[b.row], b.col + 1) = row
  <2>1. Middle(Signs, U, x, V)
    BY <1>2, Between
  <2>2. U \o W = U \o <<x>> \o V
    BY <2>1 DEF Middle
  <2>3. RemoveAt(U \o <<x>> \o V, Len(U) + 1) = row
    BY <1>6, <2>1 DEF Middle
  <2> QED
    BY <1>2, <1>4, <2>2, <2>3
<1>9. PICK rows : rows = [b.lines EXCEPT ![b.row] = row]
  OBVIOUS
<1>10. rows = A \o <<row>> \o B
  BY <1>7, <1>9, ShapeHas, SMTT(60)
<1>11. d = [b EXCEPT !.lines[b.row] = RemoveAt(b.lines[b.row], b.col + 1)]
  BY <1>5 DEF delete_char
<1>12. d = [b EXCEPT !.lines[b.row] = row]
  BY <1>8, <1>11
<1>13. d.lines = rows /\ d.row = b.row /\ d.col = b.col
  BY <1>4, <1>9, <1>12 DEF Buffers
<1>14. Shape(d, A, U, V, B)
  BY <1>2, <1>6, <1>10, <1>13 DEF Shape
<1> QED
  BY <1>1, <1>14

\* Delete at the end of a line that is not the last.
LEMMA JoinedShape ==
    ASSUME NEW b, NEW A, NEW U, NEW N \in ShortRows, NEW C \in Seq(ShortRows), NEW B, B = <<N>> \o C,
           Shape(b, A, U, <<>>, B), BufferOK(b), NEW d, d = delete_char(b),
           NEW part, part = IF Len(U) + Len(N) + 1 < LineLen THEN N ELSE <<>>
    PROVE  BufferOK(d) /\ Shape(d, A, U, part, C)
<1>1. BufferOK(d)
  BY DeleteCharOK
<1>2. /\ A \in Seq(ShortRows) /\ B \in Seq(ShortRows) /\ U \in Seq(Signs)
      /\ b.row = Len(A) + 1 /\ b.col = Len(U) /\ U \o <<>> = U /\ <<>> \in Seq(Signs)
  BY ConcatEmptySeq DEF Shape
<1>3. Line(b) = U /\ Len(Line(b)) = Len(U) /\ b \in Buffers /\ Len(U) \in Nat
      /\ Len(A) \in Nat /\ Len(B) \in Nat /\ Len(b.lines) = Len(A) + 1 + Len(B)
  <2>1. ShapedLine(b, A, U, <<>>, B)
    BY ShapeLine
  <2>2. Line(b) = U \o <<>> /\ Len(U) \in Nat
        /\ Len(A) \in Nat /\ Len(B) \in Nat /\ Len(b.lines) = Len(A) + 1 + Len(B)
    BY <2>1 DEF ShapedLine
  <2> QED
    BY <1>2, <2>2, BufferHas, LooseHas
<1>4. U \in ShortRows
  BY <1>3, BufferHas
<1>5. N \in Seq(Signs) /\ Len(N) \in Nat /\ <<N>> \in Seq(ShortRows) /\ Len(<<N>>) = 1
  BY RowsAreTexts
<1>6. Len(B) = 1 + Len(C) /\ Len(C) \in Nat
  BY <1>5, ConcatProperties
<1>7. PICK D : D = A \o <<U>>
  OBVIOUS
<1>8. D \in Seq(ShortRows) /\ Len(D) = Len(A) + 1
  BY <1>2, <1>4, <1>7
<1>9. b.lines = D \o <<N>> \o C
  <2>1. b.lines = D \o B
    BY <1>2, <1>7 DEF Shape
  <2>2. D \o (<<N>> \o C) = D \o <<N>> \o C
    BY <1>5, <1>8, ConcatAssociative, SMTT(60)
  <2> QED
    BY <2>1, <2>2
<1>10. Middle(ShortRows, D, N, C)
  BY <1>8, Between
<1>11. b.lines[b.row + 1] = N /\ WithoutRow(b, b.row + 1) = D \o C
  <2>1. b.row + 1 = Len(D) + 1
    BY <1>2, <1>8
  <2> QED
    BY <1>9, <1>10, <2>1 DEF Middle, WithoutRow
<1>12. PICK row : row = IF Len(U) + Len(N) + 1 < LineLen THEN U \o N ELSE U
  OBVIOUS
<1>13. row \in ShortRows /\ row = U \o part /\ part \in Seq(Signs)
  <2>1. CASE Len(U) + Len(N) + 1 < LineLen
    <3>1. row = U \o N /\ part = N
      BY <1>12, <2>1
    <3>2. row \in Seq(Signs) /\ Len(row) = Len(U) + Len(N)
      BY <1>2, <1>5, <3>1, ConcatProperties
    <3>3. Len(row) < LineLen
      BY <1>3, <1>5, <2>1, <3>2, Sizes
    <3> QED
      BY <1>5, <3>1, <3>2, <3>3, RowFits
  <2>2. CASE ~ (Len(U) + Len(N) + 1 < LineLen)
    BY <1>2, <1>4, <1>12, <2>2
  <2> QED
    BY <2>1, <2>2
<1>14. PICK rows : rows = [D \o C EXCEPT ![b.row] = row]
  OBVIOUS
<1>15. rows = A \o <<row>> \o C
  <2>1. [A \o <<U>> \o C EXCEPT ![Len(A) + 1] = row] = A \o <<row>> \o C
    <3>1. A \in Seq(ShortRows) /\ U \in ShortRows /\ row \in ShortRows
      BY <1>2, <1>4, <1>13
    <3> QED
      BY <3>1, Replaced, SMTT(60)
  <2> QED
    BY <1>2, <1>7, <1>14, <2>1
<1>16. d = [b EXCEPT !.lines = rows]
  <2>1. ~ (b.col < Len(Line(b))) /\ b.row # Len(b.lines)
    BY <1>2, <1>3, <1>6
  <2>2. d = [b EXCEPT !.lines = [WithoutRow(b, b.row + 1) EXCEPT
               ![b.row] = IF Len(Line(b)) + Len(b.lines[b.row + 1]) + 1 < LineLen
                          THEN Line(b) \o b.lines[b.row + 1] ELSE Line(b)]]
    BY <2>1, Zenon DEF delete_char
  <2> QED
    BY <1>3, <1>11, <1>12, <1>14, <2>2, Zenon
<1>17. d.lines = rows /\ d.row = b.row /\ d.col = b.col
  BY <1>3, <1>16 DEF Buffers
<1>18. Shape(d, A, U, part, C)
  BY <1>2, <1>13, <1>15, <1>17 DEF Shape
<1> QED
  BY <1>1, <1>18

\* Backspace at the start of a line that is not the first: n symbols of it
\* at most go to the end of the line above.
MergedPart(M, V) == IF Len(M) + Len(V) + 1 < LineLen THEN V ELSE Upto(V, LineLen - 2 - Len(M))

LEMMA MergedShape ==
    ASSUME NEW b, NEW P \in Seq(ShortRows), NEW M \in ShortRows, NEW A, A = P \o <<M>>, NEW V, NEW B,
           Shape(b, A, <<>>, V, B), BufferOK(b), NEW d, d = merge_up(b)
    PROVE  \/ d.lines = b.lines /\ Loose(d)
           \/ /\ Loose(d) /\ Shape(d, P, M, MergedPart(M, V), B)
              /\ Len(M) + Len(V) + 1 < LineLen \/ Len(M) + 2 < LineLen
<1>1. /\ A \in Seq(ShortRows) /\ B \in Seq(ShortRows) /\ V \in Seq(Signs)
      /\ b.row = Len(A) + 1 /\ <<>> \o V = V
  BY ConcatEmptySeq DEF Shape
<1>2. Loose(d)
  BY MergeOK
<1>3. Line(b) = V /\ Line(b) \in ShortRows /\ Len(V) \in Nat /\ Len(V) < LineLen /\ b \in Buffers
  <2>1. ShapedLine(b, A, <<>>, V, B)
    BY ShapeLine
  <2>2. Line(b) = <<>> \o V /\ Len(V) \in Nat
    BY <2>1 DEF ShapedLine
  <2> QED
    BY <1>1, <2>2, BufferHas, LooseHas
<1>4. V \in ShortRows
  BY <1>3
<1>5. M \in Seq(Signs) /\ Len(M) \in Nat /\ Len(M) < LineLen
  BY RowsAreTexts
<1>6. Len(A) = Len(P) + 1 /\ Len(P) \in Nat /\ Len(b.lines) \in Nat
  <2>1. <<M>> \in Seq(ShortRows) /\ Len(<<M>>) = 1
    OBVIOUS
  <2> QED
    BY <2>1, ConcatProperties
<1>7. b.lines = P \o <<M>> \o (<<V>> \o B)
  <2>1. b.lines = A \o <<V>> \o B
    BY <1>1 DEF Shape
  <2>2. A \o <<V>> \o B = A \o (<<V>> \o B)
    <3>1. <<V>> \in Seq(ShortRows)
      BY <1>4
    <3> QED
      BY <1>1, <3>1, ConcatAssociative
  <2> QED
    BY <2>1, <2>2
<1>8. b.lines[b.row - 1] = M
  <2>1. PICK T : T = <<V>> \o B
    OBVIOUS
  <2>2. <<V>> \in Seq(ShortRows)
    BY <1>4
  <2>3. T \in Seq(ShortRows)
    BY <1>1, <2>1, <2>2, ConcatProperties
  <2>4. Middle(ShortRows, P, M, T)
    BY <2>3, Between
  <2>5. b.row - 1 = Len(P) + 1
    BY <1>1, <1>6
  <2> QED
    BY <1>7, <2>1, <2>4, <2>5 DEF Middle
<1>9. WithoutRow(b, b.row) = A \o B
  <2>1. Middle(ShortRows, A, V, B)
    BY <1>1, <1>4, Between
  <2>2. b.lines = A \o <<V>> \o B
    BY <1>1 DEF Shape
  <2> QED
    BY <1>1, <2>1, <2>2 DEF Middle, WithoutRow
<1>10. PICK part : part = MergedPart(M, V)
  OBVIOUS
<1>11. d = IF b.row = 1 \/ (~ Fits(b, M) /\ Len(M) + 2 >= LineLen) THEN b
           ELSE [b EXCEPT !.lines = [A \o B EXCEPT ![b.row - 1] = M \o part],
                          !.row = b.row - 1, !.col = Len(M)]
  <2>1. part = IF Fits(b, M) THEN V ELSE Upto(V, LineLen - 2 - Len(M))
    BY <1>3, <1>10 DEF MergedPart, Fits
  <2>2. d = IF b.row = 1 \/ (~ Fits(b, b.lines[b.row - 1]) /\ Len(b.lines[b.row - 1]) + 2 >= LineLen) THEN b
            ELSE [b EXCEPT !.lines = [WithoutRow(b, b.row) EXCEPT ![b.row - 1] = b.lines[b.row - 1] \o
                                        IF Fits(b, b.lines[b.row - 1]) THEN Line(b)
                                        ELSE Upto(Line(b), LineLen - 2 - Len(b.lines[b.row - 1]))],
                           !.row = b.row - 1, !.col = Len(b.lines[b.row - 1])]
    BY Zenon DEF merge_up, Fits
  <2> QED
    BY <1>3, <1>8, <1>9, <2>1, <2>2, Zenon
<1>12. CASE ~ Fits(b, M) /\ Len(M) + 2 >= LineLen
  BY <1>2, <1>11, <1>12
<1>13. CASE ~ (~ Fits(b, M) /\ Len(M) + 2 >= LineLen)
  <2>1. Len(M) + Len(V) + 1 < LineLen \/ Len(M) + 2 < LineLen
    BY <1>3, <1>5, <1>13, Sizes DEF Fits
  <2>2. part \in Seq(Signs) /\ Len(part) \in Nat /\ Len(M) + Len(part) < LineLen
    <3>1. CASE Len(M) + Len(V) + 1 < LineLen
      <4>1. part = V
        BY <1>10, <3>1 DEF MergedPart
      <4> QED
        BY <1>1, <1>3, <1>5, <3>1, <4>1, Sizes
    <3>2. CASE ~ (Len(M) + Len(V) + 1 < LineLen)
      <4>1. PICK n \in Nat : n = LineLen - 2 - Len(M)
        <5>1. Len(M) + 2 < LineLen
          BY <2>1, <3>2
        <5>2. LineLen - 2 - Len(M) \in Nat
          BY <1>5, <5>1, Sizes
        <5> QED
          BY <5>2
      <4>2. part = Upto(V, n)
        BY <1>10, <3>2, <4>1 DEF MergedPart
      <4>3. part \in Seq(Signs) /\ Len(part) = IF n < Len(V) THEN n ELSE Len(V)
        BY <1>1, <4>2, AtMost
      <4> QED
        BY <1>3, <1>5, <4>1, <4>3, Sizes
    <3> QED
      BY <3>1, <3>2
  <2>3. PICK row : row = M \o part
    OBVIOUS
  <2>4. row \in ShortRows
    <3>1. row \in Seq(Signs) /\ Len(row) = Len(M) + Len(part)
      BY <1>5, <2>2, <2>3, ConcatProperties
    <3> QED
      BY <2>2, <3>1, RowFits
  <2>5. PICK rows : rows = [A \o B EXCEPT ![b.row - 1] = row]
    OBVIOUS
  <2>6. rows = P \o <<row>> \o B /\ b.row - 1 = Len(P) + 1
    <3>1. b.row - 1 = Len(P) + 1
      BY <1>1, <1>6
    <3>2. [P \o <<M>> \o B EXCEPT ![Len(P) + 1] = row] = P \o <<row>> \o B
      BY <1>1, <2>4, Replaced
    <3> QED
      BY <2>5, <3>1, <3>2
  <2>7. d = [b EXCEPT !.lines = rows, !.row = b.row - 1, !.col = Len(M)]
    <3>1. b.row # 1
      BY <1>1, <1>6
    <3> QED
      BY <1>11, <1>13, <2>3, <2>5, <3>1, Zenon
  <2>8. d.lines = rows /\ d.row = b.row - 1 /\ d.col = Len(M)
    BY <1>3, <2>7 DEF Buffers
  <2>9. Shape(d, P, M, part, B)
    BY <1>1, <1>5, <2>2, <2>3, <2>6, <2>8 DEF Shape
  <2> QED
    BY <1>2, <1>10, <2>1, <2>9
<1> QED
  BY <1>12, <1>13

------------------------------------------------------------------------------
(***************************************************************************)
(* What Delete and Backspace do to the text                                *)
(***************************************************************************)
LEMMA RubsInLine ==
    ASSUME NEW b, NEW c, NEW A, NEW U \in Seq(Signs), NEW B, NEW x \in Signs, NEW V \in Seq(Signs),
           NEW W, W = <<x>> \o V, NEW u, u = U \o <<x>>
    PROVE  /\ Shape(b, A, U, W, B) /\ Shape(c, A, U, V, B) => RubsAt(b, c)
           /\ Shape(b, A, u, V, B) /\ Shape(c, A, U, V, B) => RubsBefore(b, c)
<1> SUFFICES ASSUME Shape(c, A, U, V, B)
             PROVE  /\ Shape(b, A, U, W, B) => RubsAt(b, c)
                    /\ Shape(b, A, u, V, B) => RubsBefore(b, c)
  OBVIOUS
<1>1. PICK a, r : a = Lines(A) /\ r = Rest(B)
  OBVIOUS
<1>2. PICK X, Y : X = a \o U /\ Y = V \o r
  OBVIOUS
<1>3. Reads(c, X, Y)
  BY <1>1, <1>2, ShapeReads
<1>4. /\ a \in Seq(Symbols) /\ r \in Seq(Symbols) /\ U \in Seq(Symbols) /\ V \in Seq(Symbols)
      /\ <<x>> \in Seq(Symbols) /\ X \in Seq(Symbols) /\ Y \in Seq(Symbols) /\ x \in Symbols
  <2>1. A \in Seq(ShortRows) /\ B \in Seq(ShortRows)
    BY DEF Shape
  <2>2. X \in Seq(Symbols) /\ Y \in Seq(Symbols)
    BY <1>3 DEF Reads
  <2> QED
    BY <1>1, <2>1, <2>2, ManyTexts, SignsAreSymbols, SymbolsHave
<1>5. ASSUME Shape(b, A, U, W, B) PROVE RubsAt(b, c)
  <2>1. Reads(b, X, W \o r)
    BY <1>1, <1>2, <1>5, ShapeReads
  <2>2. Joins(<<x>>, V, r)
    BY <1>4, Joined3
  <2>3. W \o r = <<x>> \o Y
    BY <1>2, <2>2 DEF Joins
  <2>4. Reads(b, X, <<x>> \o Y)
    BY <2>1, <2>3
  <2> QED
    BY <1>3, <1>4, <2>4, Zenon DEF RubsAt
<1>6. ASSUME Shape(b, A, u, V, B) PROVE RubsBefore(b, c)
  <2>1. Reads(b, a \o u, Y)
    BY <1>1, <1>2, <1>6, ShapeReads
  <2>2. Joins(a, U, <<x>>)
    BY <1>4, Joined3
  <2>3. a \o u = X \o <<x>>
    BY <1>2, <2>2 DEF Joins
  <2>4. Reads(b, X \o <<x>>, Y)
    BY <2>1, <2>3
  <2> QED
    BY <1>3, <1>4, <2>4, Zenon DEF RubsBefore
<1> QED
  BY <1>5, <1>6

\* The line N below joins the line at whose end the cursor is.
LEMMA JoinedText ==
    ASSUME NEW b, NEW c, NEW A, NEW U, NEW N \in ShortRows, NEW C \in Seq(ShortRows),
           NEW B, B = <<N>> \o C, Shape(b, A, U, <<>>, B),
           NEW part, part = (IF Len(U) + Len(N) + 1 < LineLen THEN N ELSE <<>>),
           Shape(c, A, U, part, C)
    PROVE  RubsAt(b, c) \/ Cuts(b, c)
<1>1. PICK a, r, s : a = Lines(A) /\ r = Rest(C) /\ s = Rest(B)
  OBVIOUS
<1>2. /\ A \in Seq(ShortRows) /\ U \in Seq(Signs) /\ U \in Seq(Symbols) /\ N \in Seq(Signs)
      /\ N \in Seq(Symbols) /\ Len(N) \in Nat /\ Len(U) \in Nat
  BY RowsAreTexts, SignsAreSymbols DEF Shape
<1>3. /\ A \in Seq(Seq(Symbols)) /\ C \in Seq(Seq(Symbols)) /\ a \in Seq(Symbols) /\ r \in Seq(Symbols)
      /\ NL \in Symbols
  BY <1>1, <1>2, ManyTexts, SymbolsHave
<1>4. s = <<NL>> \o (N \o r)
  BY <1>1, <1>2, <1>3, RestIs
<1>5. r # <<>> => r[1] = NL
  BY <1>1, <1>2, <1>3, RestIs
<1>6. PICK X : X = a \o U
  OBVIOUS
<1>7. Reads(b, X, s)
  <2>1. Reads(b, X, <<>> \o s)
    BY <1>1, <1>6, ShapeReads
  <2>2. s \in Seq(Symbols)
    <3>1. B \in Seq(ShortRows)
      BY DEF Shape
    <3> QED
      BY <1>1, <3>1, ManyTexts
  <2>3. <<>> \o s = s
    BY <2>2, ConcatEmptySeq
  <2> QED
    BY <2>1, <2>3
<1>8. Reads(c, X, part \o r)
  BY <1>1, <1>6, ShapeReads
<1>9. CASE Len(U) + Len(N) + 1 < LineLen
  <2>1. PICK Y : Y = N \o r
    OBVIOUS
  <2>2. Reads(c, X, Y)
    BY <1>8, <1>9, <2>1
  <2>3. Reads(b, X, <<NL>> \o Y)
    BY <1>4, <1>7, <2>1
  <2>4. X \in Seq(Symbols) /\ Y \in Seq(Symbols)
    BY <2>2 DEF Reads
  <2>5. RubsAt(b, c)
    BY <1>3, <2>2, <2>3, <2>4, Zenon DEF RubsAt
  <2> QED
    BY <2>5
<1>10. CASE ~ (Len(U) + Len(N) + 1 < LineLen)
  <2>1. SubSeq(N, 1, 0) = <<>> /\ 0 \in 0 .. Len(N)
    BY <1>2
  <2>2. Reads(c, a \o U, SubSeq(N, 1, 0) \o r)
    BY <1>6, <1>8, <1>10, <2>1
  <2>3. a # <<>> => a[Len(a)] = NL
    BY <1>1, <1>3, LinesEnd
  <2>4. Joined(b.lines) = (a \o U) \o (<<NL>> \o (N \o r)) /\ Offset(b) = Len(a \o U)
    BY <1>4, <1>6, <1>7 DEF Reads
  <2>5. Len(U) + Len(N) >= LineLen - 1
    BY <1>2, <1>10, Sizes
  <2>6. Offset(b) \in {Len(a \o U), Len(a \o U) + 1}
    BY <2>4
  <2>7. Cuts(b, c)
    BY <1>2, <1>3, <1>5, <2>1, <2>2, <2>3, <2>4, <2>5, <2>6, Zenon DEF Cuts
  <2> QED
    BY <2>7
<1> QED
  BY <1>9, <1>10

\* The line V, at whose start the cursor is, goes to the end of the line M.
LEMMA MergedText ==
    ASSUME NEW b, NEW c, NEW P \in Seq(ShortRows), NEW M \in ShortRows, NEW A, A = P \o <<M>>,
           NEW V, NEW B, Shape(b, A, <<>>, V, B), Shape(c, P, M, MergedPart(M, V), B),
           Len(M) + Len(V) + 1 < LineLen \/ Len(M) + 2 < LineLen
    PROVE  RubsBefore(b, c) \/ Cuts(b, c)
<1>1. PICK a, p, r : a = Lines(A) /\ p = Lines(P) /\ r = Rest(B)
  OBVIOUS
<1>2. /\ A \in Seq(ShortRows) /\ B \in Seq(ShortRows) /\ V \in Seq(Signs) /\ V \in Seq(Symbols)
      /\ M \in Seq(Signs) /\ M \in Seq(Symbols) /\ Len(M) \in Nat /\ Len(V) \in Nat
  BY RowsAreTexts, SignsAreSymbols DEF Shape
<1>3. /\ P \in Seq(Seq(Symbols)) /\ B \in Seq(Seq(Symbols)) /\ p \in Seq(Symbols) /\ r \in Seq(Symbols)
      /\ a \in Seq(Symbols) /\ NL \in Symbols /\ <<NL>> \in Seq(Symbols)
  <2>1. NL \in Symbols /\ <<NL>> \in Seq(Symbols)
    BY SymbolsHave
  <2> QED
    BY <1>1, <1>2, <2>1, ManyTexts
<1>4. PICK X : X = p \o M
  OBVIOUS
<1>5. a = X \o <<NL>>
  <2>1. PICK Q : Q = Seq(Symbols)
    OBVIOUS
  <2>2. P \in Seq(Q) /\ M \in Q
    BY <1>2, <1>3, <2>1
  <2>3. A = Append(P, M)
    BY <2>2, AppendIsConcat
  <2> QED
    BY <1>1, <1>3, <1>4, <2>1, <2>2, <2>3, LinesAppend
<1>6. Reads(b, X \o <<NL>>, V \o r)
  <2>1. Reads(b, a \o <<>>, V \o r)
    BY <1>1, ShapeReads
  <2>2. a \o <<>> = a
    BY <1>3, ConcatEmptySeq
  <2> QED
    BY <1>5, <2>1, <2>2
<1>7. PICK part : part = MergedPart(M, V)
  OBVIOUS
<1>8. Reads(c, X, part \o r)
  BY <1>1, <1>4, <1>7, ShapeReads
<1>9. X \in Seq(Symbols)
  BY <1>8 DEF Reads
<1>10. CASE Len(M) + Len(V) + 1 < LineLen
  <2>1. part = V
    BY <1>7, <1>10 DEF MergedPart
  <2>2. PICK Y : Y = V \o r
    OBVIOUS
  <2>3. Reads(c, X, Y) /\ Reads(b, X \o <<NL>>, Y)
    BY <1>6, <1>8, <2>1, <2>2
  <2>4. Y \in Seq(Symbols)
    BY <2>3 DEF Reads
  <2>5. RubsBefore(b, c)
    BY <1>3, <1>9, <2>3, <2>4, Zenon DEF RubsBefore
  <2> QED
    BY <2>5
<1>11. CASE ~ (Len(M) + Len(V) + 1 < LineLen)
  <2>1. PICK n : n = LineLen - 2 - Len(M)
    OBVIOUS
  <2>2. n \in Nat
    <3>1. Len(M) + 2 < LineLen
      BY <1>11
    <3> QED
      BY <1>2, <2>1, <3>1, Sizes
  <2>3. PICK k : k = IF n < Len(V) THEN n ELSE Len(V)
    OBVIOUS
  <2>4. k \in 0 .. Len(V)
    BY <1>2, <2>2, <2>3
  <2>5. part = SubSeq(V, 1, k)
    BY <1>7, <1>11, <2>1, <2>3 DEF MergedPart, Upto
  <2>6. Reads(c, p \o M, SubSeq(V, 1, k) \o r)
    BY <1>4, <1>8, <2>5
  <2>7. /\ p # <<>> => p[Len(p)] = NL
        /\ r # <<>> => r[1] = NL
    <3>1. p # <<>> => p[Len(p)] = NL
      BY <1>1, <1>3, LinesEnd
    <3>2. r # <<>> => r[1] = NL
      BY <1>1, <1>2, <1>3, RestIs
    <3> QED
      BY <3>1, <3>2
  <2>8. Joined(b.lines) = (p \o M) \o (<<NL>> \o (V \o r))
    <3>1. PICK Y : Y = V \o r
      OBVIOUS
    <3>2. Y \in Seq(Symbols)
      BY <1>2, <1>3, <3>1, ConcatProperties
    <3>3. Joins(X, <<NL>>, Y)
      BY <1>3, <1>9, <3>2, Joined3
    <3>4. Joined(b.lines) = X \o <<NL>> \o Y
      BY <1>6, <3>1 DEF Reads
    <3> QED
      BY <1>4, <3>1, <3>3, <3>4 DEF Joins
  <2>9. Offset(b) \in {Len(p \o M), Len(p \o M) + 1}
    <3>1. PICK z : z = <<NL>>
      OBVIOUS
    <3>2. z \in Seq(Symbols) /\ Len(z) = 1
      BY <1>3, <3>1
    <3>4. Len(X \o z) = Len(X) + Len(z)
      BY <1>9, <3>2, ConcatProperties
    <3>3. Len(X \o z) = Len(X) + 1
      BY <3>2, <3>4
    <3> QED
      BY <1>4, <1>6, <3>1, <3>3 DEF Reads
  <2>10. Len(M) + Len(V) >= LineLen - 1
    BY <1>2, <1>11, Sizes
  <2>11. Cuts(b, c)
    BY <1>2, <1>3, <2>4, <2>6, <2>7, <2>8, <2>9, <2>10, Zenon DEF Cuts
  <2> QED
    BY <2>11
<1> QED
  BY <1>10, <1>11

\* A sequence that is not empty, from its first and from its last element.
LEMMA FirstOrNone ==
    ASSUME NEW S, NEW s \in Seq(S), s # <<>>
    PROVE  \E e \in S, t \in Seq(S) : s = <<e>> \o t
<1>1. Len(s) \in Nat /\ 1 \in 1 .. Len(s)
  BY EmptySeq
<1>2. PICK u \in Seq(S), v \in Seq(S) :
         s = u \o <<s[1]>> \o v /\ Len(u) = 1 - 1 /\ u = SubSeq(s, 1, 1 - 1)
  BY <1>1, Around
<1>3. u = <<>>
  BY <1>2, EmptySeq
<1>4. <<s[1]>> \in Seq(S) /\ s[1] \in S
  BY <1>1
<1>5. <<>> \o <<s[1]>> = <<s[1]>>
  BY <1>4, ConcatEmptySeq
<1> QED
  BY <1>2, <1>3, <1>4, <1>5

LEMMA LastOrNone ==
    ASSUME NEW S, NEW s \in Seq(S), s # <<>>
    PROVE  \E t \in Seq(S), e \in S : s = t \o <<e>> /\ Len(s) = Len(t) + 1
<1>1. PICK t \in Seq(S), e \in S : s = Append(t, e)
  BY SequenceEmptyOrAppend
<1>2. s = t \o <<e>> /\ Len(s) = Len(t) + 1
  BY <1>1, AppendIsConcat
<1> QED
  BY <1>2

LEMMA DeleteSteps ==
    ASSUME NEW b, BufferOK(b), NEW c, c = Delete(b)
    PROVE  Steps(b, c)
<1>1. PICK d : d = delete_char(b)
  OBVIOUS
<1>2. PICK A, U, V, B : Shape(b, A, U, V, B)
  BY HasShape
<1>3. c = Changed(d) /\ BufferOK(d) /\ Loose(d)
  BY <1>1, DeleteCharOK, BufferHas DEF Delete
<1>4. V \in Seq(Signs) /\ U \in Seq(Signs) /\ B \in Seq(ShortRows)
  BY <1>2 DEF Shape
<1>5. CASE V # <<>>
  <2>1. PICK x \in Signs, W \in Seq(Signs) : V = <<x>> \o W
    BY <1>4, <1>5, FirstOrNone
  <2>2. Shape(d, A, U, W, B)
    BY <1>1, <1>2, <2>1, DeletedShape
  <2>3. Shape(c, A, U, W, B)
    BY <1>3, <2>2, ShapeKept
  <2>4. PICK u : u = U \o <<x>>
    OBVIOUS
  <2>5. RubsAt(b, c)
    BY <1>2, <1>4, <2>1, <2>3, <2>4, RubsInLine
  <2> QED
    BY <2>5 DEF Steps
<1>6. CASE V = <<>> /\ B # <<>>
  <2>1. PICK N \in ShortRows, C \in Seq(ShortRows) : B = <<N>> \o C
    BY <1>4, <1>6, FirstOrNone
  <2>2. PICK part : part = IF Len(U) + Len(N) + 1 < LineLen THEN N ELSE <<>>
    OBVIOUS
  <2>3. Shape(b, A, U, <<>>, B)
    BY <1>2, <1>6
  <2>4. Shape(d, A, U, part, C)
    BY <1>1, <2>1, <2>2, <2>3, JoinedShape
  <2>5. Shape(c, A, U, part, C)
    BY <1>3, <2>4, ShapeKept
  <2>6. RubsAt(b, c) \/ Cuts(b, c)
    BY <2>1, <2>2, <2>3, <2>5, JoinedText
  <2> QED
    BY <2>6 DEF Steps
<1>7. CASE V = <<>> /\ B = <<>>
  <2>1. ShapedLine(b, A, U, V, B)
    BY <1>2, ShapeLine
  <2>2. Len(V) = 0 /\ Len(B) = 0
    BY <1>7
  <2>3. ~ (b.col < Len(Line(b))) /\ b.row = Len(b.lines)
    BY <1>2, <2>1, <2>2 DEF ShapedLine, Shape
  <2>4. d = b
    BY <1>1, <2>3 DEF delete_char
  <2>5. Shape(c, A, U, V, B) /\ BufferOK(c)
    BY <1>2, <1>3, <2>4, ShapeKept
  <2>6. c.lines = b.lines
    BY <1>2, <2>5 DEF Shape
  <2> QED
    BY <2>5, <2>6 DEF Steps, Stays
<1> QED
  BY <1>5, <1>6, <1>7

LEMMA BackspaceSteps ==
    ASSUME NEW b, BufferOK(b), NEW c, c = Backspace(b)
    PROVE  Steps(b, c)
<1>1. PICK A, U, V, B : Shape(b, A, U, V, B)
  BY HasShape
<1>2. /\ A \in Seq(ShortRows) /\ V \in Seq(Signs) /\ U \in Seq(Signs) /\ B \in Seq(ShortRows)
      /\ b.col = Len(U) /\ b.row = Len(A) + 1
  BY <1>1 DEF Shape
<1>3. CASE U # <<>>
  <2>1. PICK u \in Seq(Signs), x \in Signs : U = u \o <<x>> /\ Len(U) = Len(u) + 1
    BY <1>2, <1>3, LastOrNone
  <2>2. b.col # 0 /\ b.col - 1 = Len(u) /\ b.col - 1 \in Int /\ Len(u) \in Nat
    BY <1>2, <2>1
  <2>3. PICK e : e = [b EXCEPT !.col = b.col - 1]
    OBVIOUS
  <2>4. Loose(e) /\ e.lines = b.lines /\ e.row = b.row /\ e.col = Len(u)
    <3>1. Loose(b)
      BY BufferHas
    <3> QED
      BY <2>2, <2>3, <3>1, BesideOK
  <2>5. PICK W : W = <<x>> \o V
    OBVIOUS
  <2>6. W \in Seq(Signs) /\ u \o W = U \o V
    <3>1. Middle(Signs, u, x, V) /\ <<x>> \in Seq(Signs)
      BY <1>2, Between
    <3> QED
      BY <1>2, <2>1, <2>5, <3>1, ConcatProperties DEF Middle
  <2>7. Shape(e, A, u, W, B)
    BY <1>1, <2>4, <2>6 DEF Shape
  <2>8. BufferOK(e)
    BY <2>4, <2>7, ShapeOK
  <2>9. PICK d : d = delete_char(e)
    OBVIOUS
  <2>10. BufferOK(d) /\ Shape(d, A, u, V, B)
    BY <1>2, <2>5, <2>7, <2>8, <2>9, DeletedShape
  <2>11. c = Changed(clamp_cursor(d))
    BY <2>2, <2>3, <2>9 DEF Backspace
  <2>12. Shape(c, A, u, V, B)
    BY <2>10, <2>11, BufferHas, ShapeKept
  <2>13. RubsBefore(b, c)
    BY <1>1, <1>2, <2>1, <2>5, <2>12, RubsInLine
  <2> QED
    BY <2>13 DEF Steps
<1>4. CASE U = <<>>
  <2>1. PICK d : d = merge_up(b)
    OBVIOUS
  <2>2. Loose(d)
    BY <2>1, MergeOK
  <2>3. c = Changed(clamp_cursor(d))
    <3>1. b.col = 0
      BY <1>2, <1>4
    <3> QED
      BY <2>1, <3>1 DEF Backspace
  <2>4. ASSUME d.lines = b.lines PROVE Steps(b, c)
    <3>1. BufferOK(c) /\ c.lines = b.lines
      BY <2>2, <2>3, <2>4, ClampIs
    <3> QED
      BY <3>1 DEF Steps, Stays
  <2>5. CASE A = <<>>
    <3>1. b.row = 1
      BY <1>2, <2>5
    <3>2. d = b
      BY <2>1, <3>1 DEF merge_up
    <3> QED
      BY <2>4, <3>2
  <2>6. CASE A # <<>>
    <3>1. PICK P \in Seq(ShortRows), M \in ShortRows : A = P \o <<M>>
      BY <1>2, <2>6, LastOrNone
    <3>2. Shape(b, A, <<>>, V, B)
      BY <1>1, <1>4
    <3>3. \/ d.lines = b.lines /\ Loose(d)
          \/ /\ Loose(d) /\ Shape(d, P, M, MergedPart(M, V), B)
             /\ Len(M) + Len(V) + 1 < LineLen \/ Len(M) + 2 < LineLen
      BY <2>1, <3>1, <3>2, MergedShape
    <3>4. ASSUME Shape(d, P, M, MergedPart(M, V), B),
                 Len(M) + Len(V) + 1 < LineLen \/ Len(M) + 2 < LineLen
          PROVE  Steps(b, c)
      <4>1. Shape(c, P, M, MergedPart(M, V), B)
        BY <2>2, <2>3, <3>4, ShapeKept
      <4>2. RubsBefore(b, c) \/ Cuts(b, c)
        BY <3>1, <3>2, <3>4, <4>1, MergedText
      <4> QED
        BY <4>2 DEF Steps
    <3> QED
      BY <2>4, <3>3, <3>4
  <2> QED
    BY <2>5, <2>6
<1> QED
  BY <1>3, <1>4

LEMMA PressSteps ==
    ASSUME BufferOK(ide), NEW c \in Pressed
    PROVE  Steps(ide, c)
<1>1. CASE c \in {TypeChar(ide, x) : x \in Chars}
  BY <1>1, TypeCharSteps
<1>2. CASE c \in {Arrow(ide, m[1], m[2]) : m \in Moves}
  <2>1. PICK m \in Moves : c = Arrow(ide, m[1], m[2])
    BY <1>2
  <2>2. m[1] \in Int /\ m[2] \in Int
    BY DEF Moves
  <2>3. BufferOK(c) /\ c.lines = ide.lines
    BY <2>1, <2>2, ArrowOK
  <2> QED
    BY <2>3 DEF Steps, Stays
<1>3. CASE c \in {TypeTab(ide), Enter(ide), Backspace(ide), Delete(ide)}
  BY <1>3, TypeTabSteps, EnterSteps, BackspaceSteps, DeleteSteps
<1>4. CASE c \in {Home(ide), EndKey(ide)}
  <2>1. BufferOK(c) /\ c.lines = ide.lines
    BY <1>4, EndsOK
  <2> QED
    BY <2>1 DEF Steps, Stays
<1> QED
  BY <1>1, <1>2, <1>3, <1>4 DEF Pressed

------------------------------------------------------------------------------
(***************************************************************************)
(* The text cut up behind an end of line                                   *)
(***************************************************************************)
CutUp(s, e, T, x, N, E, k) ==
    /\ Len(s) = e + Len(N) + Len(E) /\ s[e] = x
    /\ \A i \in 1 .. Len(T) : s[i] = T[i]
    /\ \A i \in 1 .. Len(N) : s[e + i] = N[i]
    /\ \A i \in 1 .. Len(E) : s[e + Len(N) + i] = E[i]
    /\ SubSeq(s, 1, e - 1) = T
    /\ SubSeq(s, e + 1, e + k) = SubSeq(N, 1, k)
    /\ SubSeq(s, e + Len(N) + 1, Len(s)) = E

LEMMA CutUpIs ==
    ASSUME NEW S, NEW T \in Seq(S), NEW x \in S, NEW N \in Seq(S), NEW E \in Seq(S),
           NEW s, s = T \o (<<x>> \o (N \o E)), NEW e, e = Len(T) + 1, NEW k \in 0 .. Len(N)
    PROVE  s \in Seq(S) /\ CutUp(s, e, T, x, N, E, k)
<1>1. PICK t \in Nat, n \in Nat, r \in Nat : t = Len(T) /\ n = Len(N) /\ r = Len(E)
  OBVIOUS
<1>2. PICK w : w = N \o E
  OBVIOUS
<1>3. /\ w \in Seq(S) /\ Len(w) = n + r
      /\ \A i \in 1 .. n : w[i] = N[i]
      /\ \A i \in 1 .. r : w[n + i] = E[i]
  BY <1>1, <1>2
<1>4. PICK v : v = <<x>> \o w
  OBVIOUS
<1>5. /\ v \in Seq(S) /\ Len(v) = 1 + (n + r) /\ v[1] = x
      /\ \A i \in 1 .. (n + r) : v[1 + i] = w[i]
  BY <1>3, <1>4
<1>6. s = T \o v
  BY <1>2, <1>4
<1>7. /\ s \in Seq(S) /\ Len(s) = t + (1 + (n + r))
      /\ \A i \in 1 .. t : s[i] = T[i]
      /\ \A i \in 1 .. (1 + (n + r)) : s[t + i] = v[i]
  <2>1. PICK l \in Nat : l = Len(v)
    BY <1>5
  <2>2. /\ s \in Seq(S) /\ Len(s) = t + l
        /\ \A i \in 1 .. t : s[i] = T[i]
        /\ \A i \in 1 .. l : s[t + i] = v[i]
    <3>1. T \in Seq(S) /\ v \in Seq(S) /\ Len(T) = t /\ Len(v) = l
      BY <1>1, <1>5, <2>1
    <3>2. s \in Seq(S) /\ Len(s) = t + l
      BY <1>6, <3>1, ConcatProperties
    <3>3. \A i \in 1 .. (t + l) : s[i] = IF i <= t THEN T[i] ELSE v[i - t]
      <4>1. \A i \in 1 .. Len(T) + Len(v) :
                (T \o v)[i] = IF i <= Len(T) THEN T[i] ELSE v[i - Len(T)]
        BY <3>1, ConcatProperties, ZenonT(60)
      <4> QED
        BY <1>6, <3>1, <4>1, ZenonT(60)
    <3>5. \A i \in 1 .. t : s[i] = T[i]
      <4> TAKE i \in 1 .. t
      <4>1. i \in 1 .. (t + l) /\ i <= t
        BY <1>1, <2>1
      <4> QED
        BY <3>3, <4>1
    <3>4. \A i \in 1 .. l : s[t + i] = v[i]
      <4> TAKE i \in 1 .. l
      <4>1. t + i \in 1 .. (t + l) /\ ~ (t + i <= t) /\ (t + i) - t = i
        BY <1>1, <2>1
      <4> QED
        BY <3>3, <4>1
    <3> QED
      BY <3>2, <3>4, <3>5
  <2> QED
    BY <1>5, <2>1, <2>2
<1>8. e = t + 1 /\ s[e] = x /\ e \in Nat
  <2>1. 1 \in 1 .. (1 + (n + r))
    BY <1>1
  <2> QED
    BY <1>1, <1>5, <1>7, <2>1
<1>9. \A i \in 1 .. n : s[e + i] = N[i]
  <2> TAKE i \in 1 .. n
  <2>1. 1 + i \in 1 .. (1 + (n + r)) /\ i \in 1 .. (n + r) /\ t + (1 + i) = e + i
    BY <1>1, <1>8
  <2> QED
    BY <1>3, <1>5, <1>7, <2>1, ZenonT(60)
<1>10. \A i \in 1 .. r : s[e + n + i] = E[i]
  <2> TAKE i \in 1 .. r
  <2>1. 1 + (n + i) \in 1 .. (1 + (n + r)) /\ n + i \in 1 .. (n + r) /\ t + (1 + (n + i)) = e + n + i
    BY <1>1, <1>8
  <2> QED
    BY <1>3, <1>5, <1>7, <2>1, ZenonT(60)
<1>11. SubSeq(s, 1, e - 1) = T
  <2>1. SubSeq(T \o v, 1, Len(T)) = T
    BY <1>5, Halves
  <2>2. e - 1 = Len(T)
    BY <1>1, <1>8
  <2> QED
    BY <1>6, <2>1, <2>2
<1>12. SubSeq(s, e + 1, e + k) = SubSeq(N, 1, k)
  <2>1. /\ e + 1 \in 1 .. (Len(s) + 1) /\ e + k \in ((e + 1) - 1) .. Len(s) /\ (e + k) - (e + 1) + 1 = k
        /\ 1 \in 1 .. (n + 1) /\ k \in (1 - 1) .. n /\ k - 1 + 1 = k /\ k \in Nat
        /\ \A i \in 1 .. k : (e + 1) + i - 1 = e + i /\ 1 + i - 1 = i /\ i \in 1 .. n
    BY <1>1, <1>7, <1>8
  <2>2. PICK a, z : a = e + 1 /\ z = e + k
    OBVIOUS
  <2>3. PICK p, q : p = SubSeq(s, a, z) /\ q = SubSeq(N, 1, k)
    OBVIOUS
  <2>8. a \in 1 .. (Len(s) + 1) /\ z \in (a - 1) .. Len(s)
    BY <2>1, <2>2
  <2>9. /\ SubSeq(s, a, z) \in Seq(S) /\ Len(SubSeq(s, a, z)) = z - a + 1
        /\ \A i \in 1 .. (z - a + 1) : SubSeq(s, a, z)[i] = s[a + i - 1]
    BY <1>7, <2>8, Part, SMTT(60)
  <2>4. /\ p \in Seq(S) /\ Len(p) = k /\ \A i \in 1 .. k : p[i] = s[e + i]
    <3>1. z - a + 1 = k
      BY <2>1, <2>2
    <3>2. p \in Seq(S) /\ Len(p) = k /\ \A i \in 1 .. k : p[i] = s[a + i - 1]
      BY <2>3, <2>9, <3>1
    <3>3. \A i \in 1 .. k : a + i - 1 = e + i
      BY <2>1, <2>2
    <3> QED
      BY <3>2, <3>3
  <2>10. /\ SubSeq(N, 1, k) \in Seq(S) /\ Len(SubSeq(N, 1, k)) = k - 1 + 1
         /\ \A i \in 1 .. (k - 1 + 1) : SubSeq(N, 1, k)[i] = N[1 + i - 1]
    BY <1>1, <2>1, Part
  <2>5. q \in Seq(S) /\ Len(q) = k /\ \A i \in 1 .. k : q[i] = N[i]
    BY <2>1, <2>3, <2>10
  <2>6. \A i \in 1 .. k : p[i] = q[i]
    BY <1>9, <2>1, <2>4, <2>5
  <2>7. p = q
    BY <2>4, <2>5, <2>6, SeqEqual
  <2> QED
    BY <2>2, <2>3, <2>7
<1>13. SubSeq(s, e + n + 1, Len(s)) = E
  <2>1. /\ e + n + 1 \in 1 .. (Len(s) + 1) /\ Len(s) \in ((e + n + 1) - 1) .. Len(s)
        /\ Len(s) - (e + n + 1) + 1 = r
        /\ \A i \in 1 .. r : (e + n + 1) + i - 1 = e + n + i
    BY <1>1, <1>7, <1>8
  <2>2. PICK a, z : a = e + n + 1 /\ z = Len(s)
    OBVIOUS
  <2>3. PICK p : p = SubSeq(s, a, z)
    OBVIOUS
  <2>8. a \in 1 .. (Len(s) + 1) /\ z \in (a - 1) .. Len(s)
    BY <2>1, <2>2
  <2>4. /\ SubSeq(s, a, z) \in Seq(S) /\ Len(SubSeq(s, a, z)) = z - a + 1
        /\ \A i \in 1 .. (z - a + 1) : SubSeq(s, a, z)[i] = s[a + i - 1]
    BY <1>7, <2>8, Part, SMTT(60)
  <2>5. p \in Seq(S) /\ Len(p) = r /\ \A i \in 1 .. r : p[i] = E[i]
    <3>1. z - a + 1 = r /\ \A i \in 1 .. r : a + i - 1 = e + n + i
      BY <2>1, <2>2
    <3>2. p \in Seq(S) /\ Len(p) = r /\ \A i \in 1 .. r : p[i] = s[a + i - 1]
      BY <2>3, <2>4, <3>1
    <3> QED
      BY <1>10, <3>1, <3>2
  <2>6. p = E
    BY <1>1, <2>5, SeqEqual
  <2> QED
    BY <2>2, <2>3, <2>6
<1>14. Len(s) = e + n + r
  BY <1>1, <1>7, <1>8
<1> QED
  BY <1>1, <1>7, <1>8, <1>9, <1>10, <1>11, <1>12, <1>13, <1>14 DEF CutUp

\* The lengths of the lines beside an end of line are determined.
LEMMA LineAfterIs ==
    ASSUME NEW s, Len(s) \in Nat, NEW e \in 1 .. Len(s), NEW n \in 0 .. (Len(s) - e),
           \A i \in 1 .. n : s[e + i] # NL, e + n = Len(s) \/ s[e + n + 1] = NL
    PROVE  Box!LineAfter(s, e) = n
<1> DEFINE Fit(k) == (\A i \in 1 .. k : s[e + i] # NL) /\ (e + k = Len(s) \/ s[e + k + 1] = NL)
<1>1. PICK q : q = Box!LineAfter(s, e)
  OBVIOUS
<1>2. q = CHOOSE k \in 0 .. (Len(s) - e) : Fit(k)
  BY <1>1 DEF Box!LineAfter
<1>3. Fit(n)
  OBVIOUS
<1>4. q \in 0 .. (Len(s) - e) /\ Fit(q)
  <2> HIDE DEF Fit
  <2> QED
    BY <1>2, <1>3
<1>5. ~ (q < n)
  <2> SUFFICES ASSUME q < n PROVE FALSE
    OBVIOUS
  <2>1. q + 1 \in 1 .. n /\ e + (q + 1) = e + q + 1 /\ e + q # Len(s)
    BY <1>4
  <2> QED
    BY <1>4, <2>1
<1>6. ~ (n < q)
  <2> SUFFICES ASSUME n < q PROVE FALSE
    OBVIOUS
  <2>1. n + 1 \in 1 .. q /\ e + (n + 1) = e + n + 1 /\ e + n # Len(s)
    BY <1>4
  <2> QED
    BY <1>4, <2>1
<1>7. q = n
  BY <1>4, <1>5, <1>6
<1> QED
  BY <1>1, <1>7

LEMMA LineBeforeIs ==
    ASSUME NEW s, NEW e \in Nat \ {0}, NEW n \in 0 .. (e - 1),
           \A i \in 1 .. n : s[e - i] # NL, e - n = 1 \/ s[e - n - 1] = NL
    PROVE  Box!LineBefore(s, e) = n
<1> DEFINE Fit(k) == (\A i \in 1 .. k : s[e - i] # NL) /\ (e - k = 1 \/ s[e - k - 1] = NL)
<1>1. PICK q : q = Box!LineBefore(s, e)
  OBVIOUS
<1>2. q = CHOOSE k \in 0 .. (e - 1) : Fit(k)
  BY <1>1 DEF Box!LineBefore
<1>3. Fit(n)
  OBVIOUS
<1>4. q \in 0 .. (e - 1) /\ Fit(q)
  <2> HIDE DEF Fit
  <2> QED
    BY <1>2, <1>3
<1>5. ~ (q < n)
  <2> SUFFICES ASSUME q < n PROVE FALSE
    OBVIOUS
  <2>1. q + 1 \in 1 .. n /\ e - (q + 1) = e - q - 1 /\ e - q # 1
    BY <1>4
  <2> QED
    BY <1>4, <2>1
<1>6. ~ (n < q)
  <2> SUFFICES ASSUME n < q PROVE FALSE
    OBVIOUS
  <2>1. n + 1 \in 1 .. q /\ e - (n + 1) = e - n - 1 /\ e - n # 1
    BY <1>4
  <2> QED
    BY <1>4, <2>1
<1>7. q = n
  BY <1>4, <1>5, <1>6
<1> QED
  BY <1>1, <1>7

------------------------------------------------------------------------------
(***************************************************************************)
(* The editors are a text with a cursor in it                              *)
(***************************************************************************)
LEMMA StaysIsMove ==
    ASSUME Stays(ide, ide'), Shelf' = Shelf
    PROVE  Box!Move
<1>1. PICK c : c = ide'
  OBVIOUS
<1>2. Joined(c.lines) = Joined(ide.lines) /\ Offset(c) \in 0 .. Len(Joined(c.lines))
  BY <1>1, CursorIn DEF Stays
<1> QED
  BY <1>1, <1>2 DEF Box!Move

LEMMA PutsIsInsert ==
    ASSUME Puts(ide, ide'), Shelf' = Shelf
    PROVE  Box!Insert
<1>1. PICK X \in Seq(Symbols), Y \in Seq(Symbols), x \in Chars \cup {Blank, NL}, k \in 1 .. Tab :
         /\ Reads(ide, X, Y)
         /\ Joined((ide').lines) = X \o Run(x, k) \o Y
         /\ Offset(ide') \in (Len(X) + k) .. (Len(X) + k + Len(Y))
  BY Zenon DEF Puts
<1>2. PICK old, new, at : old = Joined(ide.lines) /\ new = Joined((ide').lines) /\ at = Offset(ide)
  OBVIOUS
<1>3. old = X \o Y /\ at = Len(X) /\ new = X \o Run(x, k) \o Y
  BY <1>1, <1>2 DEF Reads
<1>4. k \in Nat /\ x \in Symbols
  BY Sizes, SymbolsHave
<1>5. Run(x, k) \in Seq(Symbols) /\ Len(Run(x, k)) = k
  BY <1>4, RunIsText
<1>6. Len(old) = Len(X) + Len(Y) /\ Len(new) = Len(X) + k + Len(Y) /\ Len(X) \in Nat /\ Len(Y) \in Nat
  <2>1. X \o Run(x, k) \in Seq(Symbols) /\ Len(X \o Run(x, k)) = Len(X) + k
    BY <1>5, ConcatProperties
  <2>2. Len(X \o Run(x, k) \o Y) = Len(X) + k + Len(Y)
    BY <2>1, ConcatProperties
  <2>3. Len(X \o Y) = Len(X) + Len(Y)
    BY ConcatProperties
  <2> QED
    BY <1>3, <2>2, <2>3
<1>7. Len(new) - Len(old) = k
  BY <1>4, <1>6
<1>8. Box!Before(old, at) = X /\ Box!After(old, at) = Y
  BY <1>3, Halves DEF Box!Before, Box!After
<1>9. new = Box!Before(old, at) \o Run(x, k) \o Box!After(old, at)
  BY <1>3, <1>8
<1>10. Offset(ide') \in (at + k) .. Len(new)
  BY <1>1, <1>3, <1>6
<1>11. Run(x, k) = [i \in 1 .. k |-> x]
  BY DEF Run
<1>12. Box!Insert = (/\ Len(new) - Len(old) \in 1 .. Tab
                     /\ \E c \in Chars \cup {Blank, NL} :
                           new = Box!Before(old, at) \o [i \in 1 .. (Len(new) - Len(old)) |-> c] \o Box!After(old, at)
                     /\ Offset(ide') \in (at + (Len(new) - Len(old))) .. Len(new)
                     /\ Shelf' = Shelf)
  BY <1>2 DEF Box!Insert
<1> QED
  BY <1>7, <1>9, <1>10, <1>11, <1>12

LEMMA RubsIsErase ==
    ASSUME Shelf' = Shelf
    PROVE  /\ RubsBefore(ide, ide') => Box!EraseBefore
           /\ RubsAt(ide, ide') => Box!EraseAt
<1>1. ASSUME RubsBefore(ide, ide') PROVE Box!EraseBefore
  <2>1. PICK X \in Seq(Symbols), Y \in Seq(Symbols), x \in Symbols :
           Reads(ide, X \o <<x>>, Y) /\ Reads(ide', X, Y)
    BY <1>1, Zenon DEF RubsBefore
  <2>2. Middle(Symbols, X, x, Y)
    BY Between
  <2>3. <<x>> \in Seq(Symbols) /\ Len(<<x>>) = 1 /\ Len(X) \in Nat
    OBVIOUS
  <2>4. Len(X \o <<x>>) = Len(X) + 1
    BY <2>3, ConcatProperties
  <2>5. /\ Joined(ide.lines) = X \o <<x>> \o Y /\ Offset(ide) = Len(X) + 1
        /\ Joined((ide').lines) = X \o Y /\ Offset(ide') = Len(X)
    BY <2>1, <2>4 DEF Reads
  <2>6. Joined((ide').lines) = RemoveAt(Joined(ide.lines), Offset(ide))
    BY <2>2, <2>5 DEF Middle
  <2>7. Offset(ide) > 0 /\ Offset(ide') = Offset(ide) - 1
    BY <2>3, <2>5
  <2> QED
    BY <2>6, <2>7 DEF Box!EraseBefore, Box!RemoveAt, RemoveAt
<1>2. ASSUME RubsAt(ide, ide') PROVE Box!EraseAt
  <2>1. PICK X \in Seq(Symbols), Y \in Seq(Symbols), x \in Symbols :
           Reads(ide, X, <<x>> \o Y) /\ Reads(ide', X, Y)
    BY <1>2, Zenon DEF RubsAt
  <2>2. Middle(Symbols, X, x, Y)
    BY Between
  <2>3. Len(X) \in Nat /\ Len(Y) \in Nat
    OBVIOUS
  <2>5. /\ Joined(ide.lines) = X \o <<x>> \o Y /\ Offset(ide) = Len(X)
        /\ Joined((ide').lines) = X \o Y /\ Offset(ide') = Len(X)
    BY <2>1, <2>2 DEF Reads, Middle
  <2>6. Joined((ide').lines) = RemoveAt(Joined(ide.lines), Offset(ide) + 1)
    BY <2>2, <2>5 DEF Middle
  <2>7. Len(Joined(ide.lines)) = Len(X) + 1 + Len(Y)
    BY <2>2, <2>5 DEF Middle
  <2>8. Offset(ide) < Len(Joined(ide.lines)) /\ Offset(ide') = Offset(ide)
    BY <2>3, <2>5, <2>7
  <2> QED
    BY <2>6, <2>8 DEF Box!EraseAt, Box!RemoveAt, RemoveAt
<1> QED
  BY <1>1, <1>2

LEMMA CutsIsCut ==
    ASSUME Cuts(ide, ide'), Shelf' = Shelf
    PROVE  Box!Cut
<1>0. PICK P \in Seq(Symbols), E \in Seq(Symbols), M \in Seq(Signs), N \in Seq(Signs) : \E k \in 0 .. Len(N) :
        /\ P # <<>> => P[Len(P)] = NL
        /\ E # <<>> => E[1] = NL
        /\ Joined(ide.lines) = (P \o M) \o (<<NL>> \o (N \o E))
        /\ Offset(ide) \in {Len(P \o M), Len(P \o M) + 1}
        /\ Len(M) + Len(N) >= LineLen - 1
        /\ Reads(ide', P \o M, SubSeq(N, 1, k) \o E)
  BY Zenon DEF Cuts
<1>1. PICK k \in 0 .. Len(N) :
        /\ P # <<>> => P[Len(P)] = NL
        /\ E # <<>> => E[1] = NL
        /\ Joined(ide.lines) = (P \o M) \o (<<NL>> \o (N \o E))
        /\ Offset(ide) \in {Len(P \o M), Len(P \o M) + 1}
        /\ Len(M) + Len(N) >= LineLen - 1
        /\ Reads(ide', P \o M, SubSeq(N, 1, k) \o E)
  BY <1>0
<1>2. PICK T, e : T = P \o M /\ e = Len(T) + 1
  OBVIOUS
<1>3. PICK old, new, at : old = Joined(ide.lines) /\ new = Joined((ide').lines) /\ at = Offset(ide)
  OBVIOUS
<1>4. M \in Seq(Symbols) /\ N \in Seq(Symbols) /\ NL \in Symbols /\ NL \notin Signs
  BY SignsAreSymbols, SymbolsHave
<1>5. PICK p \in Nat, m \in Nat, n \in Nat, r \in Nat : p = Len(P) /\ m = Len(M) /\ n = Len(N) /\ r = Len(E)
  OBVIOUS
<1>6. /\ T \in Seq(Symbols) /\ Len(T) = p + m
      /\ \A i \in 1 .. p : T[i] = P[i]
      /\ \A i \in 1 .. m : T[p + i] = M[i]
  BY <1>2, <1>4, <1>5
<1>7. old = T \o (<<NL>> \o (N \o E)) /\ at \in {Len(T), Len(T) + 1}
  BY <1>1, <1>2, <1>3
<1>8. CutUp(old, e, T, NL, N, E, k) /\ old \in Seq(Symbols)
  BY <1>2, <1>4, <1>6, <1>7, CutUpIs
<1>9. e = p + m + 1 /\ Len(old) = e + n + r /\ old[e] = NL /\ Len(old) \in Nat
      /\ e \in 1 .. Len(old) /\ n \in 0 .. (Len(old) - e) /\ e \in Nat \ {0} /\ m \in 0 .. (e - 1)
  <2>1. e = p + m + 1 /\ Len(old) = e + n + r /\ old[e] = NL
    BY <1>2, <1>5, <1>6, <1>8 DEF CutUp
  <2> QED
    BY <1>5, <2>1
<1>10. Box!LineAfter(old, e) = n
  <2>1. \A i \in 1 .. n : old[e + i] # NL
    <3>1. \A i \in 1 .. n : old[e + i] = N[i]
      BY <1>5, <1>8, Zenon DEF CutUp
    <3>2. \A i \in 1 .. n : N[i] \in Signs
      BY <1>5
    <3> QED
      BY <1>4, <3>1, <3>2
  <2>2. e + n = Len(old) \/ old[e + n + 1] = NL
    <3>1. CASE r = 0
      BY <1>5, <1>9, <3>1
    <3>2. CASE r # 0
      <4>1. E # <<>> /\ 1 \in 1 .. r
        BY <1>5, <3>2
      <4> QED
        BY <1>1, <1>5, <1>8, <4>1 DEF CutUp
    <3> QED
      BY <3>1, <3>2
  <2> QED
    BY <1>9, <2>1, <2>2, LineAfterIs
<1>11. Box!LineBefore(old, e) = m
  <2>1. \A i \in 1 .. m : old[e - i] # NL
    <3> TAKE i \in 1 .. m
    <3>1. /\ e - i \in 1 .. (p + m) /\ e - i = p + (m - i + 1) /\ m - i + 1 \in 1 .. m
      BY <1>5, <1>9
    <3>2. old[e - i] = T[e - i]
      BY <1>6, <1>8, <3>1 DEF CutUp
    <3>3. T[e - i] = M[m - i + 1]
      BY <1>6, <3>1
    <3>4. M[m - i + 1] \in Signs
      BY <1>5, <3>1
    <3> QED
      BY <1>4, <3>2, <3>3, <3>4
  <2>2. e - m = 1 \/ old[e - m - 1] = NL
    <3>1. CASE p = 0
      BY <1>5, <1>9, <3>1
    <3>2. CASE p # 0
      <4>1. P # <<>> /\ p \in 1 .. p /\ p \in 1 .. (p + m) /\ e - m - 1 = p
        BY <1>5, <1>9, <3>2
      <4>2. old[p] = T[p] /\ T[p] = P[p]
        BY <1>6, <1>8, <4>1 DEF CutUp
      <4> QED
        BY <1>1, <1>5, <4>1, <4>2
    <3> QED
      BY <3>1, <3>2
  <2> QED
    BY <1>9, <2>1, <2>2, LineBeforeIs
<1>12. PICK K : K = SubSeq(N, 1, k)
  OBVIOUS
<1>13. K \in Seq(Symbols) /\ Len(K) = k /\ k \in Nat /\ k \in 0 .. n
  <2>1. 1 \in 1 .. (Len(N) + 1) /\ k \in (1 - 1) .. Len(N) /\ k - 1 + 1 = k /\ k \in Nat /\ k \in 0 .. n
    BY <1>5
  <2>2. SubSeq(N, 1, k) \in Seq(Symbols) /\ Len(SubSeq(N, 1, k)) = k - 1 + 1
    BY <1>4, <2>1, Part
  <2> QED
    BY <1>12, <2>1, <2>2
<1>14. new = T \o (K \o E) /\ Offset(ide') = Len(T)
  BY <1>1, <1>2, <1>3, <1>12 DEF Reads
<1>15. Len(new) = p + m + (k + r)
  <2>1. PICK w : w = K \o E
    OBVIOUS
  <2>2. w \in Seq(Symbols) /\ Len(w) = k + r
    BY <1>5, <1>13, <2>1, ConcatProperties
  <2>3. Len(T \o w) = Len(T) + Len(w)
    BY <1>6, <2>2, ConcatProperties
  <2> QED
    BY <1>6, <1>14, <2>1, <2>2, <2>3
<1>16. Len(new) - Len(old) + n + 1 = k
  BY <1>5, <1>9, <1>13, <1>15
<1>17. new = Box!Before(old, e - 1) \o SubSeq(old, e + 1, e + k) \o Box!After(old, e + n)
  <2>1. Box!Before(old, e - 1) = T /\ SubSeq(old, e + 1, e + k) = K /\ Box!After(old, e + n) = E
    BY <1>5, <1>8, <1>12 DEF CutUp, Box!Before, Box!After
  <2>2. Joins(T, K, E)
    BY <1>6, <1>13, Joined3
  <2> QED
    BY <1>14, <2>1, <2>2 DEF Joins
<1>18. e \in {at, at + 1} \cap 1 .. Len(old) /\ Offset(ide') = e - 1
  BY <1>5, <1>6, <1>7, <1>9, <1>14
<1>19. m + n >= LineLen - 1
  BY <1>1, <1>5
<1>20. Box!Cut = \E d \in {at, at + 1} \cap 1 .. Len(old) :
                    /\ old[d] = NL
                    /\ Box!LineBefore(old, d) + Box!LineAfter(old, d) >= LineLen - 1
                    /\ Len(new) - Len(old) + Box!LineAfter(old, d) + 1 \in 0 .. Box!LineAfter(old, d)
                    /\ new = Box!Before(old, d - 1)
                             \o SubSeq(old, d + 1, d + (Len(new) - Len(old) + Box!LineAfter(old, d) + 1))
                             \o Box!After(old, d + Box!LineAfter(old, d))
                    /\ Offset(ide') = d - 1
                    /\ Shelf' = Shelf
  BY <1>3 DEF Box!Cut
<1>21. /\ Box!LineBefore(old, e) + Box!LineAfter(old, e) >= LineLen - 1
       /\ Len(new) - Len(old) + Box!LineAfter(old, e) + 1 \in 0 .. Box!LineAfter(old, e)
       /\ new = Box!Before(old, e - 1)
                \o SubSeq(old, e + 1, e + (Len(new) - Len(old) + Box!LineAfter(old, e) + 1))
                \o Box!After(old, e + Box!LineAfter(old, e))
  BY <1>10, <1>11, <1>13, <1>16, <1>17, <1>19
<1> QED
  BY <1>9, <1>18, <1>20, <1>21, Zenon

LEMMA ShelfKept == ASSUME UNCHANGED files PROVE Shelf' = Shelf
  BY DEF Shelf, Readable

\* The text and the cursor are in the lines, the row and the column alone.
LEMMA TextKept ==
    ASSUME ide' = ide \/ (ide'.lines = ide.lines /\ ide'.row = ide.row /\ ide'.col = ide.col)
    PROVE  Box!ShelfChanges
<1>1. PICK c : c = ide'
  OBVIOUS
<1>2. c.lines = ide.lines /\ c.row = ide.row /\ c.col = ide.col
  BY <1>1
<1>3. Offset(c) = c.col + Measure(SubSeq(c.lines, 1, c.row - 1))
  BY DEF Offset, Measure
<1>4. Offset(ide) = ide.col + Measure(SubSeq(ide.lines, 1, ide.row - 1))
  BY DEF Offset, Measure
<1>5. Offset(c) = Offset(ide) /\ Joined(c.lines) = Joined(ide.lines)
  BY <1>2, <1>3, <1>4
<1> QED
  BY <1>1, <1>5 DEF Box!ShelfChanges

\* A buffer that was just opened.
LEMMA AtStart ==
    ASSUME NEW c, BufferOK(c), c.row = 1, c.col = 0
    PROVE  Offset(c) = 0
<1>1. PICK A, U, V, B : Shape(c, A, U, V, B)
  BY HasShape
<1>2. /\ A \in Seq(ShortRows) /\ B \in Seq(ShortRows) /\ U \in Seq(Symbols) /\ V \in Seq(Symbols)
      /\ c.lines = A \o <<U \o V>> \o B /\ c.row = Len(A) + 1
  BY <1>1, SignsAreSymbols DEF Shape
<1>3. A = <<>>
  <2>1. Len(A) \in Nat /\ Len(A) = 0
    BY <1>2
  <2> QED
    BY <1>2, <2>1, EmptySeq
<1>4. PICK L : L = U \o V
  OBVIOUS
<1>5. L \in Seq(Symbols)
  BY <1>2, <1>4, ConcatProperties
<1>6. Offset(c) = c.col + Len(Lines(A))
  BY <1>2, <1>4, <1>5, OffsetIs
<1>7. Len(Lines(A)) = 0
  BY <1>3, NoLines
<1> QED
  BY <1>6, <1>7

LEMMA NothingShown == Joined(<<<<>>>>) = <<>>
<1>1. PICK S : S = {NL}
  OBVIOUS
<1>2. PICK Q : Q = Seq(S)
  OBVIOUS
<1>3. NL \in S /\ <<>> \in Seq(Q) /\ <<>> \in Q
  BY <1>1, <1>2
<1>4. Joined(<<>> \o <<<<>>>> \o <<>>) = Lines(<<>>) \o <<>> \o Rest(<<>>)
  BY <1>2, <1>3, TextAround
<1>5. <<<<>>>> \in Seq(Q)
  BY <1>3
<1>6. <<>> \o <<<<>>>> \o <<>> = <<<<>>>>
  BY <1>5, ConcatEmptySeq
<1>7. Rest(<<>>) = <<>>
  BY <1>2, <1>3, RestIs
<1>8. <<>> \o <<>> \o <<>> = <<>>
  OBVIOUS
<1> QED
  BY <1>4, <1>6, <1>7, <1>8, NoLines

\* A file of the shelf, or nothing, in the buffer.
LEMMA FileShown ==
    ASSUME EditorsInv, NEW p \in Paths, Readable(p, SrcMax - 1),
           NEW c, c = parse_source_into(ide, p, files[p]), BufferOK(c)
    PROVE  Joined(c.lines) = Shown(files[p]) /\ files[p] \in Shelf /\ Offset(c) = 0
<1>1. c.lines = parse_source_into(EmptyBuffer, NoPath, files[p]).lines /\ c.row = 1 /\ c.col = 0
  BY DEF parse_source_into
<1>2. Joined(c.lines) = Shown(files[p])
  BY <1>1 DEF Shown
<1>3. files[p] \in Shelf
  BY DEF Shelf
<1> QED
  BY <1>1, <1>2, <1>3, AtStart

LEMMA EmptyShown ==
    ASSUME NEW c, c = EmptyBuffer \/ \E p \in Paths : c = [EmptyBuffer EXCEPT !.path = p]
    PROVE  Joined(c.lines) = <<>> /\ Offset(c) = 0
<1>1. PICK b : b = EmptyBuffer
  OBVIOUS
<1>2. BufferOK(b) /\ b \in Buffers /\ b.lines = <<<<>>>> /\ b.row = 1 /\ b.col = 0
  <2>1. b.row = 1 /\ b.col = 0
    BY <1>1 DEF EmptyBuffer
  <2> QED
    BY <1>1, <2>1, EmptyOK DEF BufferOK, Loose
<1>3. BufferOK(c) /\ c.lines = <<<<>>>> /\ c.row = 1 /\ c.col = 0
  <2>1. CASE c = b
    BY <1>2, <2>1
  <2>2. CASE \E p \in Paths : c = [b EXCEPT !.path = p]
    <3>1. PICK p \in Paths : c = [b EXCEPT !.path = p]
      BY <2>2
    <3>2. c \in Buffers /\ c.lines = b.lines /\ c.row = b.row /\ c.col = b.col
      BY <1>2, <3>1 DEF Buffers
    <3> QED
      BY <1>2, <3>2 DEF BufferOK, Loose, Line
  <2> QED
    BY <1>1, <2>1, <2>2
<1> QED
  BY <1>3, NothingShown, AtStart

LEMMA OpensIsOpen ==
    ASSUME EditorsInv, EditorsInv', UNCHANGED files,
           \/ \E p \in Paths : Readable(p, SrcMax - 1) /\ ide' = parse_source_into(ide, p, files[p])
           \/ ide' = EmptyBuffer
           \/ \E p \in Paths : ide' = [EmptyBuffer EXCEPT !.path = p]
    PROVE  Box!Open
<1>1. Shelf' = Shelf
  BY ShelfKept
<1>2. PICK c : c = ide'
  OBVIOUS
<1>3. BufferOK(c)
  BY <1>2 DEF EditorsInv
<1>4. ASSUME NEW p \in Paths, Readable(p, SrcMax - 1), ide' = parse_source_into(ide, p, files[p])
      PROVE  Box!Open
  <2>1. c = parse_source_into(ide, p, files[p])
    BY <1>2, <1>4
  <2>2. Joined(c.lines) = Shown(files[p]) /\ files[p] \in Shelf /\ Offset(c) = 0
    BY <1>3, <1>4, <2>1, FileShown
  <2> QED
    BY <1>1, <1>2, <2>2 DEF Box!Open
<1>5. ASSUME c = EmptyBuffer \/ \E p \in Paths : c = [EmptyBuffer EXCEPT !.path = p]
      PROVE  Box!Open
  <2>1. Joined(c.lines) = <<>> /\ Offset(c) = 0
    BY <1>5, EmptyShown
  <2> QED
    BY <1>1, <1>2, <2>1 DEF Box!Open
<1> QED
  BY <1>2, <1>4, <1>5

LEMMA StepsAreBox ==
    ASSUME Steps(ide, ide'), UNCHANGED files
    PROVE  Box!Next
<1>1. Shelf' = Shelf
  BY ShelfKept
<1> QED
  BY <1>1, StaysIsMove, PutsIsInsert, RubsIsErase, CutsIsCut DEF Steps, Box!Next

LEMMA TextStep ==
    ASSUME EditorsInv, EditorsInv', [Next]_vars
    PROVE  Box!Next
<1>1. CASE Press
  <2>1. PICK c \in Pressed : ide' = c
    BY <1>1 DEF Press
  <2>2. UNCHANGED files
    BY <1>1 DEF Press
  <2>3. Steps(ide, c)
    BY PressSteps DEF EditorsInv
  <2> QED
    BY <2>1, <2>2, <2>3, StepsAreBox
<1>2. CASE \E p \in Paths : Save(p)
  <2>1. PICK p \in Paths : ide' = [ide EXCEPT !.path = p, !.dirty = FALSE]
    BY <1>2 DEF Save
  <2>2. ide \in Buffers
    BY DEF EditorsInv, BufferOK, Loose
  <2>3. ide'.lines = ide.lines /\ ide'.row = ide.row /\ ide'.col = ide.col
    BY <2>1, <2>2 DEF Buffers
  <2> QED
    BY <2>3, TextKept DEF Box!Next
<1>3. CASE \E p \in Paths : Load(p) \/ Reenter(p)
  <2>1. UNCHANGED files
    BY <1>3 DEF Load, Reenter
  <2>2. \/ \E p \in Paths : Readable(p, SrcMax - 1) /\ ide' = parse_source_into(ide, p, files[p])
        \/ \E p \in Paths : ide' = [EmptyBuffer EXCEPT !.path = p]
    BY <1>3 DEF Load, Reenter, basic_ide
  <2> QED
    BY <2>1, <2>2, OpensIsOpen DEF Box!Next
<1>4. CASE New
  BY <1>4, OpensIsOpen DEF New, Box!Next
<1>5. CASE Seek
  <2>1. UNCHANGED files
    BY <1>5 DEF Seek
  <2>2. ide'.lines = ide.lines
    <3>1. \E row, col : ide' = [ide EXCEPT !.row = row, !.col = col]
      BY <1>5 DEF Seek
    <3>2. ide \in Buffers
      BY DEF EditorsInv, BufferOK, Loose
    <3> QED
      BY <3>1, <3>2 DEF Buffers
  <2>3. Stays(ide, ide')
    BY <2>2 DEF Stays, EditorsInv
  <2> QED
    BY <2>1, <2>3, StepsAreBox DEF Steps
<1>6. CASE \/ (\E p \in Paths : SaveFails(p) \/ Compile(p)) \/ ShellWrites
           \/ OpenBenchPlain \/ \E p \in Paths : OpenBench(p)
  <2>1. ide' = ide
    BY <1>6 DEF SaveFails, Compile, ShellWrites, OpenBenchPlain, OpenBench
  <2> QED
    BY <2>1, TextKept DEF Box!Next
<1>7. CASE \/ BenchView \/ BenchFiles \/ BenchIcon \/ BenchSave \/ BenchPick
           \/ \E p \in Paths, short \in BOOLEAN : BenchName(p, short)
           \/ \E n \in Numbers, text \in Texts : BenchLine(n, text)
           \/ BenchNew \/ BenchRun \/ BenchQuit
  <2>1. ide' = ide
    BY <1>7 DEF BenchView, BenchFiles, BenchIcon, BenchSave, BenchPick, BenchName, BenchLine,
       BenchNew, BenchRun, BenchQuit, AtCommand, Bench
  <2> QED
    BY <2>1, TextKept DEF Box!Next
<1>8. CASE UNCHANGED vars
  <2>1. ide' = ide
    BY <1>8 DEF vars
  <2> QED
    BY <2>1, TextKept DEF Box!Next
<1> QED
  BY <1>1, <1>2, <1>3, <1>4, <1>5, <1>6, <1>7, <1>8 DEF Next

------------------------------------------------------------------------------
(***************************************************************************)
(* The editors' texts stay in their arrays and the cursor in the text, for *)
(* every key, load and search (basic_ide.c, ide.c).                        *)
(***************************************************************************)
THEOREM EditorsTypeHolds == Spec => []EditorsTypeOK
<1>1. EditorsInv => EditorsTypeOK
  <2> SUFFICES ASSUME EditorsInv PROVE EditorsTypeOK
    OBVIOUS
  <2>1. DOMAIN files = Paths
    BY DEF EditorsInv, FilesOK
  <2>2. BufferOK(ide) /\ Loose(ide)
    BY BufferHas DEF EditorsInv
  <2>3. Len(ide.lines) \in 1 .. MaxLines /\ ide.row \in 1 .. Len(ide.lines) /\ ide.col \in 0 .. Len(Line(ide))
    BY <2>2 DEF BufferOK, Loose
  <2>4. \A i \in 1 .. Len(ide.lines) : Len(ide.lines[i]) < LineLen
    BY <2>2, LooseHas, RowsAreTexts
  <2>5. Len(bench.source) < SourceMax /\ Len(bench.list) <= ListMax
    BY DEF EditorsInv, BenchOK
  <2> QED
    BY <2>1, <2>3, <2>4, <2>5 DEF EditorsTypeOK
<1> QED
  BY <1>1, EditorsInvariant, PTL

(***************************************************************************)
(* A buffer without changes is the file that was read or written, and so   *)
(* is the Workbench's source, whatever failed in between (:load, :save,    *)
(* ide_load, ide_save).                                                    *)
(***************************************************************************)
THEOREM CleanTextHolds == Spec => []CleanTextIsFile
<1>1. EditorsInv => CleanTextIsFile
  BY DEF EditorsInv, CleanTextIsFile, CleanSourceIsFile, BenchOK
<1> QED
  BY <1>1, EditorsInvariant, PTL

(***************************************************************************)
(* RUN takes the lines of the source by number, each once, up to the first *)
(* END (sort_lines, gridscript_run).                                       *)
(***************************************************************************)
THEOREM RunInOrderHolds == Spec => []RunInOrder
<1>1. EditorsInv => RunInOrder
  <2> SUFFICES ASSUME EditorsInv, bench.ran # <<>>, FitsScript(bench.source)
      PROVE  LET ends == {x.number : x \in {y \in Range(Listing(bench.source)) : Stops(y)}}
                 due == {x \in Range(Listing(bench.source)) \cup Range(bench.ran) :
                             \A e \in ends : x.number < e}
             IN  /\ \A i, j \in 1 .. Len(bench.ran) :
                       i < j => bench.ran[i].number <= bench.ran[j].number
                 /\ ToBag(Only(Listing(bench.source), due)) = ToBag(Only(bench.ran, due))
                 /\ \A i \in 1 .. Len(bench.ran) : ~ Stops(bench.ran[i])
    BY DEF RunInOrder
  <2>1. BenchOK(bench)
    BY DEF EditorsInv
  <2>2. bench.source \in Seq(Symbols) /\ bench.ran = gridscript_lines(bench.source)
    BY <2>1, BenchHas DEF BenchOK
  <2> QED
    BY <2>2, RunInOrderOf
<1> QED
  BY <1>1, EditorsInvariant, PTL

(***************************************************************************)
(* A numbered line typed into a script that fits leaves the lines of other *)
(* numbers as they were, and is there, or its number is gone, when the     *)
(* lines are sorted and written (ide_set_line, ide_delete_line).           *)
(***************************************************************************)
THEOREM EditKeepsOthersHolds == Spec => EditKeepsOthers
<1> DEFINE Kept_by(n, text) ==
              BenchLine(n, text) /\ FitsScript(bench.source) =>
                /\ Others(bench.source, n) = Others(bench'.source, n)
                /\ n > 0 => LET of == {x.text : x \in {y \in Range(Listing(bench'.source)) : y.number = n}}
                            IN  IF text = <<>> THEN of = {} ELSE text \in of
<1>1. ASSUME EditorsInv, NEW n \in Numbers, NEW text \in Texts PROVE Kept_by(n, text)
  <2> SUFFICES ASSUME BenchLine(n, text), FitsScript(bench.source)
      PROVE  /\ Others(bench.source, n) = Others(bench'.source, n)
             /\ n > 0 => LET of == {x.text : x \in {y \in Range(Listing(bench'.source)) : y.number = n}}
                         IN  IF text = <<>> THEN of = {} ELSE text \in of
    OBVIOUS
  <2>1. BenchOK(bench)
    BY <1>1 DEF EditorsInv
  <2>2. CASE text = <<>>
    <3>1. BenchLine(n, <<>>)
      BY <2>2
    <3> QED
      BY <2>1, <2>2, <3>1, DeletedKeeps
  <2>3. CASE text # <<>>
    BY <2>1, <2>3, TypedKeeps
  <2> QED
    BY <2>2, <2>3
<1>2. EditorsInv => [\A n \in Numbers, text \in Texts : Kept_by(n, text)]_vars
  BY <1>1
<1> QED
  BY <1>2, EditorsInvariant, PTL DEF EditKeepsOthers

\* The GridBASIC editor implements a text with a cursor in it: every key
\* (basic_ide.c:1414-1468) moves the cursor, puts in or erases symbols at it,
\* or joins two lines of which not all fits.
THEOREM KeysEditTextHolds == Spec => KeysEditText
<1>1. Init => Box!Init
  <2> SUFFICES ASSUME Init PROVE Box!Init
    OBVIOUS
  <2>1. ide = EmptyBuffer
    BY DEF Init
  <2>2. Joined(ide.lines) = <<>> /\ Offset(ide) = 0
    BY <2>1, EmptyShown
  <2> QED
    BY <2>2 DEF Box!Init
<1>2. EditorsInv /\ EditorsInv' /\ [Next]_vars => [Box!Next]_(Box!vars)
  BY TextStep
<1> QED
  BY <1>1, <1>2, EditorsInvariant, PTL DEF Spec, KeysEditText, Box!Spec
==============================================================================
