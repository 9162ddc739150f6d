------------------------------ MODULE FoldLemmas ------------------------------
(***************************************************************************)
(* Induction over a sequence, in a form that needs no operator parameter.  *)
(* A property is the set of the indices it holds of, and the step of a     *)
(* fold is a function; the set A the step stays in is what the fold keeps. *)
(***************************************************************************)
EXTENDS Naturals, Integers, Sequences, SequencesExt, WellFoundedInduction, TLAPS

\* Some numbers have a smallest one.
LEMMA SmallestOf ==
    ASSUME NEW U \in SUBSET Nat, U # {}
    PROVE  \E x \in U : \A y \in U : x <= y
<1>1. IsWellFoundedOn(OpToRel(<, Nat), Nat)
  BY NatLessThanWellFounded
<1>2. PICK x \in U : \A y \in U : ~ (<<y, x>> \in OpToRel(<, Nat))
  BY <1>1, WFMin
<1>3. \A y \in U : ~ (y < x)
  BY <1>2 DEF OpToRel
<1>4. \A y \in U : y \in Nat /\ x \in Nat
  OBVIOUS
<1> QED
  BY <1>3, <1>4

\* What holds of 0 and of a successor with its predecessor holds up to n.
LEMMA UpToInduction ==
    ASSUME NEW n \in Nat, NEW T, 0 \in T, \A i \in 0 .. (n - 1) : i \in T => i + 1 \in T
    PROVE  \A i \in 0 .. n : i \in T
<1> DEFINE U == {i \in 0 .. n : i \notin T}
<1> SUFFICES ASSUME U # {} PROVE FALSE
  OBVIOUS
<1>1. U \in SUBSET Nat
  OBVIOUS
<1> HIDE DEF U
<1>2. PICK x \in U : \A y \in U : x <= y
  BY <1>1, SmallestOf
<1> QED
  BY <1>2 DEF U

\* The largest of some of the first numbers, and what is below it.
LEMMA LargestOf ==
    ASSUME NEW n \in Nat, NEW s \in SUBSET (1 .. n), s # {}
    PROVE  Max(s) \in s /\ \A y \in s : Max(s) >= y
<1> DEFINE T == {i \in 0 .. n : (\E y \in s : y > n - i) => \E x \in s : \A y \in s : x >= y}
<1>1. 0 \in T
  OBVIOUS
<1>2. ASSUME NEW i \in 0 .. (n - 1), i \in T PROVE i + 1 \in T
  <2>1. CASE \E y \in s : y > n - i
    BY <1>2, <2>1
  <2>2. CASE ~ \E y \in s : y > n - i
    <3>1. ASSUME NEW y \in s, y > n - (i + 1) PROVE \E x \in s : \A z \in s : x >= z
      BY <2>2, <3>1
    <3> QED
      BY <3>1
  <2> QED
    BY <2>1, <2>2
<1>3. n \in T
  <2> HIDE DEF T
  <2> QED
    BY <1>1, <1>2, UpToInduction
<1>4. \E y \in s : y > n - n
  <2>1. PICK z \in s : TRUE
    OBVIOUS
  <2> QED
    BY <2>1
<1>5. \E x \in s : \A y \in s : x >= y
  BY <1>3, <1>4
<1> QED
  BY <1>5 DEF Max

LEMMA LargestUpTo ==
    ASSUME NEW i \in Nat, i # 0
    PROVE  Max(1 .. i) = i /\ (1 .. i) \ {i} = 1 .. (i - 1)
<1>1. Max(1 .. i) \in 1 .. i /\ \A y \in 1 .. i : Max(1 .. i) >= y
  <2>1. 1 .. i \in SUBSET (1 .. i) /\ 1 .. i # {}
    OBVIOUS
  <2> QED
    BY <2>1, LargestOf
<1> QED
  BY <1>1

LEMMA FirstNumbers ==
    ASSUME NEW n \in Nat, NEW i \in 1 .. n
    PROVE  1 .. i \in SUBSET (1 .. n) /\ 1 .. i # {}
  OBVIOUS

\* The function a fold is defined by exists: a step that stays in A is
\* taken for each number of a set, in their order.
FoldOf(g, n, A, base, step) ==
    /\ g \in [SUBSET (1 .. n) -> A]
    /\ g[{}] = base
    /\ \A s \in SUBSET (1 .. n) : s # {} => g[s] = step[Max(s)][g[s \ {Max(s)}]]

LEMMA FoldSteps ==
    ASSUME NEW n \in Nat, NEW A, NEW base \in A, NEW step \in [1 .. n -> [A -> A]]
    PROVE  \E g : FoldOf(g, n, A, base, step)
<1> DEFINE Steps(g, k) ==
              /\ g \in [SUBSET (1 .. k) -> A]
              /\ g[{}] = base
              /\ \A s \in SUBSET (1 .. k) : s # {} => g[s] = step[Max(s)][g[s \ {Max(s)}]]
<1> DEFINE T == {k \in 0 .. n : \E g : Steps(g, k)}
<1>1. 0 \in T
  <2> DEFINE g == [s \in SUBSET (1 .. 0) |-> base]
  <2>1. SUBSET (1 .. 0) = {{}}
    OBVIOUS
  <2>2. Steps(g, 0)
    BY <2>1
  <2> HIDE DEF Steps, g
  <2> QED
    BY <2>2
<1>2. ASSUME NEW k \in 0 .. (n - 1), k \in T PROVE k + 1 \in T
  <2>1. PICK g : Steps(g, k)
    BY <1>2
  <2> DEFINE h == [s \in SUBSET (1 .. (k + 1)) |->
                     IF k + 1 \in s THEN step[k + 1][g[s \ {k + 1}]] ELSE g[s]]
  <2>2. \A s \in SUBSET (1 .. (k + 1)) :
           /\ s \ {k + 1} \in SUBSET (1 .. k)
           /\ k + 1 \notin s => s \in SUBSET (1 .. k)
           /\ k + 1 \in s => Max(s) = k + 1
    <3> TAKE s \in SUBSET (1 .. (k + 1))
    <3>1. s # {} => Max(s) \in s /\ \A y \in s : Max(s) >= y
      <4>1. k + 1 \in Nat
        OBVIOUS
      <4> QED
        BY <4>1, LargestOf
    <3>2. s \ {k + 1} \in SUBSET (1 .. k) /\ (k + 1 \notin s => s \in SUBSET (1 .. k))
      OBVIOUS
    <3>3. ASSUME k + 1 \in s PROVE Max(s) = k + 1
      <4>1. Max(s) \in 1 .. (k + 1) /\ Max(s) >= k + 1
        BY <3>1, <3>3
      <4> QED
        BY <4>1
    <3> QED
      BY <3>2, <3>3
  <2>3. step[k + 1] \in [A -> A]
    OBVIOUS
  <2>4. h \in [SUBSET (1 .. (k + 1)) -> A]
    BY <2>1, <2>2, <2>3
  <2>5. h[{}] = base
    BY <2>1
  <2>6. ASSUME NEW s \in SUBSET (1 .. (k + 1)), s # {}
        PROVE  h[s] = step[Max(s)][h[s \ {Max(s)}]]
    <3>1. CASE k + 1 \in s
      <4>1. h[s] = step[k + 1][g[s \ {k + 1}]]
        BY <3>1
      <4>2. h[s \ {k + 1}] = g[s \ {k + 1}]
        BY <2>2
      <4> QED
        BY <2>2, <3>1, <4>1, <4>2
    <3>2. CASE k + 1 \notin s
      <4>1. s \in SUBSET (1 .. k) /\ Max(s) \in s
        <5>1. s \in SUBSET (1 .. k) /\ k \in Nat
          BY <2>2, <3>2
        <5> QED
          BY <5>1, <2>6, LargestOf
      <4>2. h[s] = g[s] /\ h[s \ {Max(s)}] = g[s \ {Max(s)}]
        BY <3>2, <4>1
      <4> QED
        BY <2>1, <2>6, <4>1, <4>2
    <3> QED
      BY <3>1, <3>2
  <2>7. Steps(h, k + 1)
    <3> HIDE DEF h
    <3> QED
      BY <2>4, <2>5, <2>6
  <2> HIDE DEF Steps, h
  <2> QED
    BY <2>7
<1>3. n \in T
  <2> HIDE DEF T
  <2>1. \A i \in 0 .. n : i \in T
    BY <1>1, <1>2, UpToInduction
  <2> QED
    BY <2>1
<1> QED
  BY <1>3 DEF FoldOf

==============================================================================
