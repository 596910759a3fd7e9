----------------------------- MODULE FoldFacts -----------------------------
(***************************************************************************)
(* What a left fold computes, for an operator that the module which takes  *)
(* these facts puts in the place of Op.                                    *)
(*                                                                         *)
(* FoldLeft of the community modules goes over the indices of the sequence *)
(* by a function on the sets of indices, chosen to satisfy an equation:    *)
(* the facts rest on there being one.  Induction is over sets of numbers,  *)
(* by their least elements.                                                *)
(***************************************************************************)
EXTENDS Integers, SequencesExt, WellFoundedInduction, TLAPS

CONSTANT Op(_, _)

Fold(b, s) == FoldLeft(Op, b, s)

(* The values a fold goes through. *)
Steps(f, b, s) ==
    /\ f[0] = b
    /\ \A i \in 1..Len(s) : f[i] = Op(f[i - 1], s[i])

(* The equation of the function on the sets of indices. *)
Over(g, b, s, T) == IF T = {} THEN b ELSE Op(g[T \ {Max(T)}], s[Max(T)])
Solves(g, b, s, D) == g = [T \in SUBSET D |-> Over(g, b, s, T)]

-----------------------------------------------------------------------------
(* Induction. *)
Below == {p \in Nat \X Nat : p[1] < p[2]}

LEMMA LeastOf ==
    ASSUME NEW S, S \subseteq Nat, S # {}
    PROVE  \E x \in S : \A y \in S : x <= y
<1>1. IsWellFoundedOn(Below, Nat)
  BY NatLessThanWellFounded DEF OpToRel, Below
<1>2. PICK x \in S : \A y \in S : <<y, x>> \notin Below
  BY <1>1, WFMin
<1>3. \A y \in S : ~(y < x)
  BY <1>2 DEF Below
<1> QED
  BY <1>3

LEMMA UpTo ==
    ASSUME NEW n \in Nat, NEW J, 0 \in J, \A i \in 0..(n - 1) : i \in J => i + 1 \in J
    PROVE  \A i \in 0..n : i \in J
<1> DEFINE S == {i \in 0..n : i \notin J}
<1> SUFFICES ASSUME S # {} PROVE FALSE
  OBVIOUS
<1>1. S \subseteq Nat
  OBVIOUS
<1>2. PICK x \in S : \A y \in S : x <= y
  <2> HIDE DEF S
  <2> QED
    BY <1>1, LeastOf
<1>3. x \in 0..n /\ x \notin J
  BY <1>2
<1>4. x - 1 \in 0..(n - 1) /\ x - 1 \in 0..n
  BY <1>3
<1>5. x - 1 \in J
  BY <1>2, <1>4
<1> QED
  BY <1>3, <1>4, <1>5

-----------------------------------------------------------------------------
LEMMA MaxUpTo ==
    ASSUME NEW i \in Nat, i > 0
    PROVE  Max(1..i) = i /\ 1..i # {} /\ (1..i) \ {i} = 1..(i - 1)
<1>1. i \in 1..i /\ \A y \in 1..i : i >= y
  OBVIOUS
<1>2. \A x \in 1..i : (\A y \in 1..i : x >= y) => x = i
  BY <1>1
<1> QED
  BY <1>1, <1>2 DEF Max

LEMMA MaxOf ==
    ASSUME NEW k \in Nat, NEW T, T \subseteq 1..(k + 1), k + 1 \in T
    PROVE  Max(T) = k + 1
<1>1. \A y \in T : k + 1 >= y
  OBVIOUS
<1>2. \A x \in T : (\A y \in T : x >= y) => x = k + 1
  OBVIOUS
<1> QED
  BY <1>1, <1>2 DEF Max

(* The function exists: it is built one index at a time. *)
LEMMA Solvable ==
    ASSUME NEW b, NEW s, NEW n \in Nat
    PROVE  \E g : Solves(g, b, s, 1..n)
<1> DEFINE J == {k \in Nat : \E g : Solves(g, b, s, 1..k)}
<1>1. 0 \in J
  <2> DEFINE g == [T \in SUBSET (1..0) |-> b]
  <2>1. SUBSET (1..0) = {{}}
    OBVIOUS
  <2>2. Solves(g, b, s, 1..0)
    BY <2>1 DEF Solves, Over
  <2> QED
    BY <2>2
<1>2. ASSUME NEW k \in 0..(n - 1), k \in J
      PROVE  k + 1 \in J
  <2>1. PICK h : Solves(h, b, s, 1..k)
    BY <1>2
  <2> DEFINE D == 1..k
             E == 1..(k + 1)
             g == [T \in SUBSET E |-> IF k + 1 \notin T THEN h[T]
                                      ELSE Op(h[T \ {k + 1}], s[k + 1])]
  <2>2. \A T \in SUBSET E : k + 1 \notin T => T \in SUBSET D
    OBVIOUS
  <2>3. \A T \in SUBSET E : T \ {k + 1} \in SUBSET D
    OBVIOUS
  <2>4. \A T \in SUBSET D : T \in SUBSET E /\ k + 1 \notin T
    OBVIOUS
  <2>5. \A T \in SUBSET E : k + 1 \in T => Max(T) = k + 1
    <3> SUFFICES ASSUME NEW T \in SUBSET E, k + 1 \in T PROVE Max(T) = k + 1
      OBVIOUS
    <3>1. k \in Nat /\ T \subseteq 1..(k + 1)
      OBVIOUS
    <3> QED
      BY <3>1, MaxOf
  <2> HIDE DEF D, E
  <2>6. \A T \in SUBSET D : h[T] = Over(h, b, s, T) /\ g[T] = h[T]
    BY <2>1, <2>4 DEF Solves, D
  <2>7. ASSUME NEW T \in SUBSET E
        PROVE  g[T] = Over(g, b, s, T)
    <3>1. CASE k + 1 \notin T
      <4>1. T \in SUBSET D /\ T \ {Max(T)} \in SUBSET D
        BY <2>2, <3>1
      <4>2. g[T] = Over(h, b, s, T) /\ g[T \ {Max(T)}] = h[T \ {Max(T)}]
        BY <2>6, <4>1
      <4> QED
        BY <4>2 DEF Over
    <3>2. CASE k + 1 \in T
      <4>1. g[T] = Op(h[T \ {k + 1}], s[k + 1]) /\ g[T \ {k + 1}] = h[T \ {k + 1}]
        BY <2>3, <2>6, <3>2
      <4>2. Max(T) = k + 1
        BY <2>5, <3>2
      <4> HIDE DEF g
      <4> QED
        BY <3>2, <4>1, <4>2 DEF Over
    <3> QED
      BY <3>1, <3>2
  <2>8. Solves(g, b, s, E)
    <3>1. g = [T \in SUBSET E |-> g[T]]
      OBVIOUS
    <3> HIDE DEF g
    <3> QED
      BY <2>7, <3>1 DEF Solves
  <2> HIDE DEF g
  <2>9. \E x : Solves(x, b, s, 1..(k + 1))
    BY <2>8 DEF E
  <2> QED
    BY <2>9
<1> HIDE DEF J
<1>3. \A i \in 0..n : i \in J
  BY <1>1, <1>2, UpTo
<1> QED
  BY <1>3 DEF J

-----------------------------------------------------------------------------
(* A fold goes through its values one by one ... *)
LEMMA FoldSteps ==
    ASSUME NEW S, NEW s \in Seq(S), NEW b
    PROVE  \E f : Steps(f, b, s) /\ Fold(b, s) = f[Len(s)]
<1> DEFINE n == Len(s)
           g == CHOOSE x : Solves(x, b, s, 1..n)
           f == [i \in 0..n |-> g[1..i]]
<1>1. n \in Nat /\ DOMAIN s = 1..n
  OBVIOUS
<1>2. Solves(g, b, s, 1..n)
  <2>1. \E x : Solves(x, b, s, 1..n)
    BY <1>1, Solvable
  <2> QED
    BY <2>1
<1>3. Fold(b, s) = g[1..n]
  BY <1>1 DEF Fold, FoldLeft, MapThenFoldSet, Solves, Over
<1> HIDE DEF g, n
<1>4. \A T \in SUBSET (1..n) : g[T] = Over(g, b, s, T)
  BY <1>2 DEF Solves
<1>5. f[0] = b
  <2>1. 1..0 = {} /\ 0 \in 0..n
    BY <1>1
  <2>2. {} \in SUBSET (1..n)
    OBVIOUS
  <2> QED
    BY <1>4, <2>1, <2>2 DEF Over
<1>6. ASSUME NEW i \in 1..n
      PROVE  f[i] = Op(f[i - 1], s[i])
  <2>1. i \in 0..n /\ i - 1 \in 0..n /\ 1..i \in SUBSET (1..n) /\ i \in Nat /\ i > 0
    BY <1>1
  <2>2. Max(1..i) = i /\ 1..i # {} /\ (1..i) \ {i} = 1..(i - 1)
    BY <2>1, MaxUpTo
  <2>3. g[1..i] = Op(g[1..(i - 1)], s[i])
    BY <1>4, <2>1, <2>2 DEF Over
  <2> QED
    BY <2>1, <2>3
<1>7. f[n] = g[1..n]
  BY <1>1
<1> HIDE DEF f
<1> QED
  BY <1>3, <1>5, <1>6, <1>7 DEF Steps, n

(* ... and any values it could go through are its own. *)
LEMMA FoldIs ==
    ASSUME NEW S, NEW s \in Seq(S), NEW b, NEW f, Steps(f, b, s)
    PROVE  Fold(b, s) = f[Len(s)]
<1>1. PICK h : Steps(h, b, s) /\ Fold(b, s) = h[Len(s)]
  BY FoldSteps
<1> DEFINE J == {i \in Nat : f[i] = h[i]}
           n == Len(s)
<1>2. 0 \in J
  BY <1>1 DEF Steps
<1>3. ASSUME NEW i \in 0..(n - 1), i \in J
      PROVE  i + 1 \in J
  <2>1. i + 1 \in 1..Len(s) /\ (i + 1) - 1 = i /\ i + 1 \in Nat
    OBVIOUS
  <2>2. f[i + 1] = Op(f[i], s[i + 1]) /\ h[i + 1] = Op(h[i], s[i + 1])
    BY <1>1, <2>1 DEF Steps
  <2> QED
    BY <1>3, <2>1, <2>2
<1>4. n \in Nat
  OBVIOUS
<1> HIDE DEF J, n
<1>5. n \in J
  <2>1. \A i \in 0..n : i \in J
    BY <1>2, <1>3, <1>4, UpTo
  <2> QED
    BY <1>4, <2>1
<1> QED
  BY <1>1, <1>5 DEF J, n

LEMMA FoldEmpty ==
    ASSUME NEW b
    PROVE  Fold(b, <<>>) = b
<1> DEFINE f == [i \in 0..0 |-> b]
<1>1. Steps(f, b, <<>>) /\ f[0] = b /\ Len(<<>>) = 0 /\ <<>> \in Seq({})
  BY DEF Steps
<1> HIDE DEF f
<1> QED
  BY <1>1, FoldIs

LEMMA FoldAppend ==
    ASSUME NEW S, NEW s \in Seq(S), NEW b, NEW x \in S
    PROVE  Fold(b, Append(s, x)) = Op(Fold(b, s), x)
<1> DEFINE t == Append(s, x)
           n == Len(s)
<1>1. t \in Seq(S) /\ Len(t) = n + 1 /\ n \in Nat
      /\ (\A i \in 1..n : t[i] = s[i]) /\ t[n + 1] = x
  OBVIOUS
<1> HIDE DEF t
<1>2. PICK f : Steps(f, b, t) /\ Fold(b, t) = f[Len(t)]
  BY <1>1, FoldSteps
<1>3. Steps(f, b, s)
  BY <1>1, <1>2 DEF Steps
<1>4. Fold(b, s) = f[n]
  BY <1>3, FoldIs
<1>5. n + 1 \in 1..Len(t) /\ (n + 1) - 1 = n
  BY <1>1
<1>6. f[n + 1] = Op(f[n], x)
  BY <1>1, <1>2, <1>5 DEF Steps
<1> QED
  BY <1>1, <1>2, <1>4, <1>6 DEF t

LEMMA FoldConcat ==
    ASSUME NEW S, NEW s \in Seq(S), NEW t \in Seq(S), NEW b
    PROVE  Fold(b, s \o t) = Fold(Fold(b, s), t)
<1> DEFINE u == s \o t
           m == Len(s)
           n == Len(t)
<1>1. u \in Seq(S) /\ Len(u) = m + n /\ m \in Nat /\ n \in Nat
      /\ (\A i \in 1..m : u[i] = s[i]) /\ (\A i \in 1..n : u[m + i] = t[i])
  OBVIOUS
<1> HIDE DEF u
<1>2. PICK f : Steps(f, b, u) /\ Fold(b, u) = f[Len(u)]
  BY <1>1, FoldSteps
<1>3. f[0] = b /\ \A i \in 1..(m + n) : f[i] = Op(f[i - 1], u[i])
  BY <1>1, <1>2 DEF Steps
<1>4. Fold(b, s) = f[m]
  <2>1. Steps(f, b, s)
    BY <1>1, <1>3 DEF Steps
  <2> QED
    BY <2>1, FoldIs
<1> DEFINE g == [i \in 0..n |-> f[m + i]]
<1>5. Steps(g, f[m], t)
  <2>1. g[0] = f[m]
    BY <1>1
  <2>2. ASSUME NEW i \in 1..n
        PROVE  g[i] = Op(g[i - 1], t[i])
    <3>1. i \in 0..n /\ i - 1 \in 0..n /\ m + i \in 1..(m + n) /\ (m + i) - 1 = m + (i - 1)
      BY <1>1
    <3>2. f[m + i] = Op(f[m + (i - 1)], t[i])
      BY <1>1, <1>3, <3>1
    <3> QED
      BY <3>1, <3>2
  <2> HIDE DEF g
  <2> QED
    BY <2>1, <2>2 DEF Steps
<1>6. Fold(f[m], t) = g[n]
  <2> HIDE DEF g
  <2> QED
    BY <1>5, FoldIs
<1>7. g[n] = f[m + n]
  BY <1>1
<1> HIDE DEF g
<1> QED
  BY <1>1, <1>2, <1>4, <1>6, <1>7 DEF u

(* What is folded first may as well be done before. *)
LEMMA FoldHead ==
    ASSUME NEW S, NEW s \in Seq(S), s # <<>>, NEW b
    PROVE  Fold(b, s) = Fold(Op(b, Head(s)), Tail(s))
<1> DEFINE h == Append(<<>>, Head(s))
<1>1. /\ Head(s) \in S /\ Tail(s) \in Seq(S) /\ <<>> \in Seq(S) /\ h \in Seq(S)
      /\ s = h \o Tail(s)
  <2>1. Head(s) \in S /\ Tail(s) \in Seq(S) /\ <<>> \in Seq(S)
    OBVIOUS
  <2>2. h \in Seq(S) /\ Len(h) = 1 /\ h[1] = s[1]
    BY <2>1
  <2>3. Len(h \o Tail(s)) = Len(s)
        /\ \A i \in 1..Len(s) : (h \o Tail(s))[i] = s[i]
    BY <2>1, <2>2
  <2> HIDE DEF h
  <2>4. h \o Tail(s) \in Seq(S)
    BY <2>1, <2>2
  <2> QED
    BY <2>1, <2>2, <2>3, <2>4
<1>2. Fold(b, h) = Op(b, Head(s))
  <2>1. Fold(b, <<>>) = b
    BY FoldEmpty
  <2>2. Fold(b, h) = Op(Fold(b, <<>>), Head(s))
    BY <1>1, FoldAppend, Zenon
  <2> QED
    BY <2>1, <2>2
<1> HIDE DEF h
<1>3. Fold(b, h \o Tail(s)) = Fold(Fold(b, h), Tail(s))
  BY <1>1, FoldConcat
<1> QED
  BY <1>1, <1>2, <1>3
=============================================================================
