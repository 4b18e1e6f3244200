--------------------------- MODULE Effects_proofs ---------------------------
(***************************************************************************)
(* What the sums of Effects come to, in whatever order their parts are     *)
(* taken. They are recursive functions, so the equation of each is a fact  *)
(* to prove: that a function satisfies it, by induction over the places of *)
(* the sequence, or over the subsets of the set that is summed. Induction  *)
(* is stated over sets: a set that holds 0 and the successor of each of    *)
(* its members, or the empty set and what a member is added to.            *)
(***************************************************************************)
EXTENDS Effects, Functions, FiniteSetTheorems, WellFoundedInduction, TLAPS

-----------------------------------------------------------------------------
(* Induction.                                                              *)

\* A set of naturals that is not empty has a least member.
LEMMA LeastMember ==
  ASSUME NEW S \in SUBSET Nat, S # {}
  PROVE  \E m \in S : \A k \in S : m <= k
<1> DEFINE R == {ss \in Nat \X Nat : ss[1] < ss[2]}
<1>1. IsWellFoundedOn(R, Nat)
  BY NatLessThanWellFounded, Zenon DEF OpToRel
<1>2. \A x, y \in Nat : x < y => <<x, y>> \in R
  OBVIOUS
<1> HIDE DEF R
<1>3. S \subseteq Nat
  OBVIOUS
<1>4. PICK m \in S : \A k \in S : ~(<<k, m>> \in R)
  BY <1>1, <1>3, WFMin
<1>5. ASSUME NEW k \in S
      PROVE  m <= k
  <2>1. k \in Nat /\ m \in Nat /\ ~(<<k, m>> \in R)
    BY <1>4
  <2>2. ~(k < m)
    BY <2>1, <1>2
  <2> QED
    BY <2>1, <2>2
<1> QED
  BY <1>5

\* Induction up to n.
LEMMA InductionTo ==
  ASSUME NEW n \in Nat, NEW S,
         0 \in S, \A i \in 0..(n - 1) : i \in S => i + 1 \in S
  PROVE  0..n \subseteq S
<1> DEFINE Out == {i \in 0..n : i \notin S}
<1>1. SUFFICES ASSUME Out # {}
               PROVE  FALSE
  OBVIOUS
<1>2. PICK m \in Out : \A k \in Out : m <= k
  <2>1. Out \in SUBSET Nat
    OBVIOUS
  <2> HIDE DEF Out
  <2> QED
    BY <1>1, <2>1, LeastMember
<1>3. m \in 1..n /\ m - 1 \notin Out
  BY <1>2
<1>4. m - 1 \in S /\ m - 1 \in 0..(n - 1)
  BY <1>3
<1>5. (m - 1) + 1 \in S
  BY <1>4
<1> QED
  BY <1>2, <1>3, <1>5

\* f starts at first and goes on by Step up to n.
Follows(f, n, first, Step) == f[0] = first /\ \A i \in 1..n : f[i] = Step[<<i, f[i - 1]>>]

\* A function defined along 0..n by a first value and a step exists.
LEMMA RecursionTo ==
  ASSUME NEW n \in Nat, NEW V, NEW first \in V, NEW Step \in [(1..n) \X V -> V]
  PROVE  \E f \in [0..n -> V] : Follows(f, n, first, Step)
<1> DEFINE S == {m \in 0..n : \E f \in [0..n -> V] : Follows(f, m, first, Step)}
<1>1. 0 \in S
  <2> DEFINE g == [i \in 0..n |-> first]
  <2>1. g \in [0..n -> V] /\ Follows(g, 0, first, Step)
    BY DEF Follows
  <2> HIDE DEF g
  <2> QED
    BY <2>1
<1>2. ASSUME NEW m \in 0..(n - 1), m \in S
      PROVE  m + 1 \in S
  <2>1. PICK f \in [0..n -> V] : Follows(f, m, first, Step)
    BY <1>2
  <2> DEFINE g == [f EXCEPT ![m + 1] = Step[<<m + 1, f[m]>>]]
  <2>2. Step[<<m + 1, f[m]>>] \in V
    OBVIOUS
  <2>3. g \in [0..n -> V] /\ g[m + 1] = Step[<<m + 1, f[m]>>] /\ \A i \in 0..m : g[i] = f[i]
    BY <2>2
  <2> HIDE DEF g
  <2>4. ASSUME NEW i \in 1..(m + 1)
        PROVE  g[i] = Step[<<i, g[i - 1]>>]
    <3>1. CASE i = m + 1
      BY <3>1, <2>3
    <3>2. CASE i \in 1..m
      BY <3>2, <2>1, <2>3 DEF Follows
    <3> QED
      BY <3>1, <3>2
  <2>5. Follows(g, m + 1, first, Step)
    BY <2>1, <2>3, <2>4 DEF Follows
  <2> QED
    BY <2>3, <2>5
<1> HIDE DEF S
<1>3. 0..n \subseteq S
  BY <1>1, <1>2, InductionTo
<1>4. n \in S
  BY <1>3
<1> QED
  BY <1>4 DEF S

\* Induction over the subsets of a finite set: what holds of the empty set and is
\* kept when a member is added holds of the set.
LEMMA FiniteInduction ==
  ASSUME NEW S, IsFiniteSet(S), NEW C, {} \in C,
         \A T \in SUBSET S, x \in S : T \in C /\ x \notin T => T \cup {x} \in C
  PROVE  S \in C
<1> DEFINE n == Cardinality(S)
<1>1. n \in Nat /\ ExistsBijection(1..n, S)
  BY FS_CardinalityType
<1>2. PICK e \in Bijection(1..n, S) : TRUE
  BY <1>1 DEF ExistsBijection
<1>3. /\ e \in [1..n -> S] /\ \A x \in S : \E i \in 1..n : e[i] = x
      /\ \A i, j \in 1..n : e[i] = e[j] => i = j
  BY <1>2 DEF Bijection, Injection, Surjection, IsInjective
<1> DEFINE K(k) == {e[i] : i \in 1..k}
           I == {k \in 0..n : K(k) \in C}
<1> HIDE DEF n
<1>4. 0 \in I
  <2>1. K(0) = {}
    OBVIOUS
  <2> HIDE DEF K
  <2>2. K(0) \in C
    BY <2>1
  <2>3. 0 \in 0..n
    BY <1>1
  <2> QED
    BY <2>2, <2>3
<1>5. ASSUME NEW k \in 0..(n - 1), k \in I
      PROVE  k + 1 \in I
  <2>1. k + 1 \in 1..n /\ 1..(k + 1) = (1..k) \cup {k + 1} /\ k + 1 \notin 1..k /\ 1..k \subseteq 1..n
    BY <1>1
  <2>2. K(k) \in SUBSET S /\ e[k + 1] \in S /\ e[k + 1] \notin K(k) /\ K(k + 1) = K(k) \cup {e[k + 1]}
    BY <1>3, <2>1
  <2>3. K(k) \in C
    BY <1>5
  <2> HIDE DEF K
  <2> QED
    BY <2>1, <2>2, <2>3
<1>6. 0..n \subseteq I
  <2> HIDE DEF I
  <2> QED
    BY <1>1, <1>4, <1>5, InductionTo
<1>7. n \in I
  BY <1>1, <1>6
<1>8. K(n) = S
  BY <1>3
<1> QED
  BY <1>7, <1>8

-----------------------------------------------------------------------------
(* The sums.                                                               *)

\* The equation of saturating_totals, and the range of its values.
LEMMA SaturatingTotals ==
  ASSUME MaxU128 \in Nat, NEW n \in Nat, NEW amounts \in [1..n -> Nat], Len(amounts) = n
  PROVE  LET total == saturating_totals(amounts) IN
         /\ total \in [0..n -> 0..MaxU128] /\ total[0] = 0
         /\ \A i \in 1..n : total[i] = saturating_add(total[i - 1], amounts[i])
<1> DEFINE V == 0..MaxU128
           Step == [x \in (1..n) \X V |-> saturating_add(x[2], amounts[x[1]])]
           Equation(f) == f = [i \in 0..n |-> IF i = 0 THEN 0 ELSE saturating_add(f[i - 1], amounts[i])]
<1>1. Step \in [(1..n) \X V -> V]
  BY DEF saturating_add, Capped
<1>2. \A i \in 1..n, v \in V : Step[<<i, v>>] = saturating_add(v, amounts[i])
  OBVIOUS
<1>3. 0 \in V
  OBVIOUS
<1>4. PICK g \in [0..n -> V] : Follows(g, n, 0, Step)
  <2> HIDE DEF V, Step
  <2> QED
    BY <1>1, <1>3, RecursionTo
<1> HIDE DEF Step
<1>5. ASSUME NEW i \in 1..n
      PROVE  g[i] = saturating_add(g[i - 1], amounts[i])
  <2>1. g[i - 1] \in V
    OBVIOUS
  <2> HIDE DEF V
  <2> QED
    BY <1>2, <1>4, <2>1 DEF Follows
<1>6. Equation(g)
  BY <1>4, <1>5 DEF Follows
<1>7. saturating_totals(amounts) = CHOOSE f : Equation(f)
  BY DEF saturating_totals
<1>8. Equation(saturating_totals(amounts))
  <2> HIDE DEF Equation
  <2> QED
    BY <1>6, <1>7
<1> DEFINE t == saturating_totals(amounts)
<1> HIDE DEF t
<1>9. t = [i \in 0..n |-> IF i = 0 THEN 0 ELSE saturating_add(t[i - 1], amounts[i])]
  BY <1>8 DEF t
<1>10. t[0] = 0 /\ \A i \in 1..n : t[i] = saturating_add(t[i - 1], amounts[i])
  BY <1>9
<1> DEFINE S == {i \in 0..n : t[i] \in 0..MaxU128}
<1>11. 0..n \subseteq S
  <2>1. 0 \in S
    BY <1>10
  <2>2. ASSUME NEW i \in 0..(n - 1), i \in S
        PROVE  i + 1 \in S
    <3>1. t[i + 1] = saturating_add(t[i], amounts[i + 1])
      BY <1>10
    <3> QED
      BY SMTT(30), <2>2, <3>1 DEF saturating_add, Capped
  <2> HIDE DEF S
  <2> QED
    BY <2>1, <2>2, InductionTo
<1>12. t \in [0..n -> 0..MaxU128]
  BY <1>9, <1>11
<1> QED
  BY <1>10, <1>12 DEF t

LEMMA SequenceShape ==
  ASSUME NEW s, IsSequence(s)
  PROVE  Len(s) \in Nat /\ DOMAIN s = 1..Len(s)
  BY DEF IsSequence

\* A decoded request is numbered from 1, and so are the actions of each promise.
LEMMA RequestShape ==
  ASSUME NEW request, IsRequest(request)
  PROVE  /\ Len(request) \in Nat /\ DOMAIN request = 1..Len(request)
         /\ \A i \in DOMAIN request :
              /\ Len(request[i].actions) \in Nat /\ DOMAIN request[i].actions = 1..Len(request[i].actions)
              /\ \A j \in DOMAIN request[i].actions : IsAction(request[i].actions[j])
  BY SequenceShape DEF IsRequest

\* What one promise attaches is a u128.
LEMMA AttachedIsU128 ==
  ASSUME MaxU128 \in Nat, NEW request, IsRequest(request), NEW i \in DOMAIN request
  PROVE  AttachedNative(request[i]) \in 0..MaxU128
<1> DEFINE n == Len(request[i].actions)
           amounts == [j \in 1..n |-> request[i].actions[j].amount]
<1>1. n \in Nat /\ \A j \in 1..n : request[i].actions[j].amount \in 0..MaxU128
  BY RequestShape DEF IsAction
<1>2. amounts \in [1..n -> Nat] /\ Len(amounts) = n
  BY <1>1
<1>3. AttachedNative(request[i]) = saturating_totals(amounts)[n]
  BY DEF AttachedNative
<1> HIDE DEF amounts, n
<1> QED
  BY <1>1, <1>2, <1>3, SaturatingTotals

-----------------------------------------------------------------------------
(* Sums over a set, picked in any order.                                   *)

\* g gives every subset of S the sum of w over it.
Sums(g, w, S) == g[{}] = 0 /\ \A T \in SUBSET S : \A x \in T : g[T] = w[x] + g[T \ {x}]

LEMMA SumsExist ==
  ASSUME NEW S, IsFiniteSet(S), NEW w \in [S -> Nat]
  PROVE  \E g \in [SUBSET S -> Nat] : Sums(g, w, S)
<1> DEFINE n == Cardinality(S)
           V == [SUBSET S -> Nat]
           none == [T \in SUBSET S |-> 0]
<1>1. n \in Nat /\ ExistsBijection(1..n, S)
  BY FS_CardinalityType
<1>2. PICK e \in Bijection(1..n, S) : TRUE
  BY <1>1 DEF ExistsBijection
<1>3. /\ e \in [1..n -> S] /\ \A x \in S : \E i \in 1..n : e[i] = x
      /\ \A i, j \in 1..n : e[i] = e[j] => i = j
  BY <1>2 DEF Bijection, Injection, Surjection, IsInjective
<1> HIDE DEF n
<1> DEFINE part(i, T) == IF e[i] \in T THEN w[e[i]] ELSE 0
           Step == [y \in (1..n) \X V |-> [T \in SUBSET S |-> y[2][T] + part(y[1], T)]]
<1>4. \A i \in 1..n : \A T : part(i, T) \in Nat
  BY <1>3
<1>5. Step \in [(1..n) \X V -> V] /\ none \in V
  BY <1>4
<1>6. PICK f \in [0..n -> V] : Follows(f, n, none, Step)
  <2> HIDE DEF V, Step, none
  <2> QED
    BY <1>1, <1>5, RecursionTo
<1>7. /\ \A T \in SUBSET S : f[0][T] = 0
      /\ \A i \in 1..n, T \in SUBSET S : f[i][T] = f[i - 1][T] + part(i, T)
  <2>1. \A T \in SUBSET S : f[0][T] = 0
    BY <1>6 DEF Follows
  <2>2. ASSUME NEW i \in 1..n
        PROVE  \A T \in SUBSET S : f[i][T] = f[i - 1][T] + part(i, T)
    <3>1. f[i - 1] \in V
      <4>1. i - 1 \in 0..n
        BY <1>1
      <4> HIDE DEF V
      <4> QED
        BY <4>1
    <3>2. f[i] = Step[<<i, f[i - 1]>>]
      BY <1>6 DEF Follows
    <3>3. Step[<<i, f[i - 1]>>] = [T \in SUBSET S |-> f[i - 1][T] + part(i, T)]
      <4> HIDE DEF V, part
      <4> QED
        BY <3>1
    <3> QED
      BY <3>2, <3>3
  <2> QED
    BY <2>1, <2>2
<1>8. \A i \in 0..n, T \in SUBSET S : f[i][T] \in Nat
  OBVIOUS
<1> HIDE DEF Step, V, none
<1>9. f[n][{}] = 0
  <2> DEFINE I == {k \in 0..n : f[k][{}] = 0}
  <2>1. 0 \in I
    BY <1>1, <1>7
  <2>2. ASSUME NEW k \in 0..(n - 1), k \in I
        PROVE  k + 1 \in I
    <3>1. f[k + 1][{}] = f[k][{}] + part(k + 1, {})
      BY <1>1, <1>7
    <3> QED
      BY <1>1, <2>2, <3>1
  <2>3. 0..n \subseteq I
    <3> HIDE DEF I
    <3> QED
      BY <1>1, <2>1, <2>2, InductionTo
  <2> QED
    BY <1>1, <2>3
<1>10. ASSUME NEW T \in SUBSET S, NEW x \in T
       PROVE  f[n][T] = w[x] + f[n][T \ {x}]
  <2>1. PICK j \in 1..n : e[j] = x
    BY <1>3
  <2> DEFINE U == T \ {x}
             I == {k \in 0..n : f[k][T] = (IF j <= k THEN w[x] ELSE 0) + f[k][U]}
  <2>2. 0 \in I
    BY <1>1, <1>7, <2>1
  <2>3. ASSUME NEW k \in 0..(n - 1), k \in I
        PROVE  k + 1 \in I
    <3>1. f[k + 1][T] = f[k][T] + part(k + 1, T) /\ f[k + 1][U] = f[k][U] + part(k + 1, U)
      BY <1>1, <1>7
    <3>2. /\ part(k + 1, T) = IF k + 1 = j THEN w[x] ELSE part(k + 1, U)
          /\ k + 1 = j => part(k + 1, U) = 0
      BY <1>1, <1>3, <2>1
    <3>3. part(k + 1, U) \in Nat /\ w[x] \in Nat /\ f[k][T] \in Nat /\ f[k][U] \in Nat
      BY <1>1, <1>4, <1>8
    <3>4. f[k][T] = (IF j <= k THEN w[x] ELSE 0) + f[k][U]
      BY <2>3
    <3> HIDE DEF part, U
    <3>5. f[k + 1][T] = (IF j <= k + 1 THEN w[x] ELSE 0) + f[k + 1][U]
      BY <3>1, <3>2, <3>3, <3>4
    <3> QED
      BY <1>1, <3>5
  <2>4. 0..n \subseteq I
    <3> HIDE DEF I
    <3> QED
      BY <1>1, <2>2, <2>3, InductionTo
  <2>5. n \in I
    <3> HIDE DEF I
    <3> QED
      BY <1>1, <2>4
  <2> QED
    BY <1>1, <2>1, <2>5
<1>11. f[n] \in [SUBSET S -> Nat]
  <2>1. f[n] \in V
    BY <1>1
  <2> QED
    BY <2>1 DEF V
<1> QED
  BY <1>9, <1>10, <1>11 DEF Sums

\* SumFunctionOnSet is what Sums says, in whatever order it picks the members.
LEMMA SumIs ==
  ASSUME NEW S, IsFiniteSet(S), NEW w, NEW g \in [SUBSET S -> Nat], Sums(g, w, S), NEW T \in SUBSET S
  PROVE  SumFunctionOnSet(w, T) = g[T]
<1> DEFINE pick(s) == CHOOSE x \in s : TRUE
           Equation(f) == f = [s \in SUBSET T |-> IF s = {} THEN 0 ELSE w[pick(s)] + f[s \ {pick(s)}]]
           iter == CHOOSE f : Equation(f)
           r == [s \in SUBSET T |-> g[s]]
<1>1. SumFunctionOnSet(w, T) = iter[T]
  BY DEF SumFunctionOnSet, FoldFunctionOnSet, MapThenFoldSet
<1>2. \A s : s # {} => pick(s) \in s
  OBVIOUS
<1> HIDE DEF pick
<1>3. Equation(r)
  <2>1. ASSUME NEW s \in SUBSET T
        PROVE  r[s] = IF s = {} THEN 0 ELSE w[pick(s)] + r[s \ {pick(s)}]
    BY <1>2 DEF Sums
  <2> QED
    BY <2>1
<1>4. Equation(iter)
  <2> HIDE DEF Equation
  <2> QED
    BY <1>3
<1> HIDE DEF iter, r
<1>5. \A s \in SUBSET T : iter[s] = IF s = {} THEN 0 ELSE w[pick(s)] + iter[s \ {pick(s)}]
  BY <1>4
<1>6. IsFiniteSet(T) /\ Cardinality(T) \in Nat
  BY FS_Subset, FS_CardinalityType
<1> DEFINE m == Cardinality(T)
           I == {k \in 0..m : \A s \in SUBSET T : Cardinality(s) <= k => iter[s] = g[s]}
<1>7. \A s \in SUBSET T : IsFiniteSet(s) /\ Cardinality(s) \in Nat /\ (Cardinality(s) = 0 <=> s = {})
  BY <1>6, FS_Subset, FS_CardinalityType, FS_EmptySet
<1>8. 0 \in I
  <2>1. ASSUME NEW s \in SUBSET T, Cardinality(s) <= 0
        PROVE  iter[s] = g[s]
    <3>1. s = {}
      BY <1>7, <2>1
    <3> QED
      BY <1>5, <3>1 DEF Sums
  <2> QED
    BY <1>6, <2>1
<1>9. ASSUME NEW k \in 0..(m - 1), k \in I
      PROVE  k + 1 \in I
  <2>1. ASSUME NEW s \in SUBSET T, Cardinality(s) <= k + 1, s # {}
        PROVE  iter[s] = g[s]
    <3> DEFINE u == s \ {pick(s)}
    <3>1. pick(s) \in s /\ u \in SUBSET T /\ s \in SUBSET S
      BY <1>2, <2>1
    <3>2. Cardinality(u) = Cardinality(s) - 1
      BY <1>7, <3>1, FS_RemoveElement
    <3>3. Cardinality(u) <= k
      BY <1>6, <1>7, <2>1, <3>2
    <3>4. iter[u] = g[u]
      BY <1>9, <3>1, <3>3
    <3> QED
      BY <1>5, <2>1, <3>1, <3>4 DEF Sums
  <2>2. ASSUME NEW s \in SUBSET T, s = {}
        PROVE  iter[s] = g[s]
    BY <1>5, <2>2 DEF Sums
  <2>3. k + 1 \in 0..m
    BY <1>6
  <2> QED
    BY <2>1, <2>2, <2>3
<1>10. 0..m \subseteq I
  <2> HIDE DEF I, m
  <2>1. m \in Nat
    BY <1>6 DEF m
  <2> QED
    BY <1>8, <1>9, <2>1, InductionTo
<1>11. m \in I /\ T \in SUBSET T
  BY <1>6, <1>10
<1>12. Cardinality(T) <= m
  BY <1>6
<1>13. iter[T] = g[T]
  BY <1>11, <1>12
<1> QED
  BY <1>1, <1>13

\* A sum is a natural, and a member's part of it can be taken first.
LEMMA SumWith ==
  ASSUME NEW S, IsFiniteSet(S), NEW w \in [S -> Nat], NEW T \in SUBSET S
  PROVE  /\ SumFunctionOnSet(w, T) \in Nat
         /\ SumFunctionOnSet(w, {}) = 0
         /\ \A x \in T : SumFunctionOnSet(w, T) = w[x] + SumFunctionOnSet(w, T \ {x})
<1>1. PICK g \in [SUBSET S -> Nat] : Sums(g, w, S)
  BY SumsExist
<1>2. \A U \in SUBSET S : SumFunctionOnSet(w, U) = g[U]
  BY ZenonT(40), <1>1, SumIs
<1> QED
  BY <1>1, <1>2 DEF Sums

\* A one-to-one image of a set, with the same parts, has the same sum.
LEMMA SumMapped ==
  ASSUME NEW S, IsFiniteSet(S), NEW w \in [S -> Nat],
         NEW R, IsFiniteSet(R), NEW v \in [R -> Nat], NEW h \in Bijection(S, R), \A x \in S : v[h[x]] = w[x]
  PROVE  SumFunction(w) = SumFunction(v)
<1> DEFINE image(T) == {h[x] : x \in T}
           C == {T \in SUBSET S : SumFunctionOnSet(w, T) = SumFunctionOnSet(v, image(T))}
<1>1. /\ h \in [S -> R] /\ \A y \in R : \E x \in S : h[x] = y
      /\ \A x, y \in S : h[x] = h[y] => x = y
  BY DEF Bijection, Injection, Surjection, IsInjective
<1>2. {} \in C
  <2>1. image({}) = {}
    OBVIOUS
  <2> HIDE DEF image
  <2> QED
    BY <2>1, SumWith
<1>3. ASSUME NEW T \in SUBSET S, NEW x \in S, T \in C, x \notin T
      PROVE  T \cup {x} \in C
  <2> DEFINE U == T \cup {x}
  <2>1. U \in SUBSET S /\ U \ {x} = T
    BY <1>3
  <2>2. image(U) \in SUBSET R /\ h[x] \in image(U) /\ image(U) \ {h[x]} = image(T)
    BY <1>1, <1>3
  <2>3. SumFunctionOnSet(w, T) = SumFunctionOnSet(v, image(T))
    BY <1>3
  <2> HIDE DEF image, U
  <2>4. SumFunctionOnSet(w, U) = w[x] + SumFunctionOnSet(w, T)
    BY <2>1, SumWith DEF U
  <2>5. SumFunctionOnSet(v, image(U)) = v[h[x]] + SumFunctionOnSet(v, image(T))
    BY <2>2, SumWith
  <2>6. U \in C
    BY <2>1, <2>3, <2>4, <2>5
  <2> QED
    BY <2>6 DEF U
<1> HIDE DEF C
<1>4. S \in C
  BY <1>2, <1>3, FiniteInduction
<1>5. image(S) = R
  BY <1>1
<1>6. SumFunctionOnSet(w, S) = SumFunctionOnSet(v, R)
  BY <1>4, <1>5 DEF C
<1> QED
  BY <1>6 DEF SumFunction

\* Sums of the same parts over the same members are one sum.
LEMMA SumsAgree ==
  ASSUME NEW S, IsFiniteSet(S), NEW w \in [S -> Nat], NEW R, IsFiniteSet(R), NEW v \in [R -> Nat],
         NEW T \in SUBSET S, T \subseteq R, \A x \in T : v[x] = w[x]
  PROVE  SumFunctionOnSet(v, T) = SumFunctionOnSet(w, T)
<1> DEFINE C == {U \in SUBSET T : SumFunctionOnSet(v, U) = SumFunctionOnSet(w, U)}
<1>1. {} \in C
  BY SumWith
<1>2. ASSUME NEW U \in SUBSET T, NEW x \in T, U \in C, x \notin U
      PROVE  U \cup {x} \in C
  <2> DEFINE V == U \cup {x}
  <2>1. V \in SUBSET S /\ V \in SUBSET R /\ V \in SUBSET T /\ x \in V /\ V \ {x} = U
    BY <1>2
  <2>2. SumFunctionOnSet(v, U) = SumFunctionOnSet(w, U)
    BY <1>2
  <2> HIDE DEF V
  <2>3. SumFunctionOnSet(v, V) = v[x] + SumFunctionOnSet(v, U)
    BY <2>1, SumWith
  <2>4. SumFunctionOnSet(w, V) = w[x] + SumFunctionOnSet(w, U)
    BY <2>1, SumWith
  <2>5. SumFunctionOnSet(v, V) = SumFunctionOnSet(w, V)
    BY <2>2, <2>3, <2>4
  <2>6. V \in C
    BY <2>1, <2>5
  <2> QED
    BY <2>6 DEF V
<1>3. IsFiniteSet(T)
  BY FS_Subset
<1> HIDE DEF C
<1>4. T \in C
  BY <1>1, <1>2, <1>3, FiniteInduction
<1> QED
  BY <1>4 DEF C

\* Fewer members sum to no more.
LEMMA SumOfFewer ==
  ASSUME NEW S, IsFiniteSet(S), NEW w \in [S -> Nat], NEW T \in SUBSET S
  PROVE  SumFunctionOnSet(w, T) <= SumFunctionOnSet(w, S)
<1> DEFINE C == {U \in SUBSET S : SumFunctionOnSet(w, T) <= SumFunctionOnSet(w, T \cup U)}
<1>1. {} \in C
  <2>1. T \cup {} = T /\ SumFunctionOnSet(w, T) \in Nat
    BY SumWith
  <2> QED
    BY <2>1
<1>2. ASSUME NEW U \in SUBSET S, NEW x \in S, U \in C, x \notin U
      PROVE  U \cup {x} \in C
  <2> DEFINE V == T \cup U
             X == V \cup {x}
  <2>1. /\ V \in SUBSET S /\ X \in SUBSET S /\ x \in X /\ T \cup (U \cup {x}) = X
        /\ X \ {x} = V \/ X = V
    BY <1>2
  <2>2. SumFunctionOnSet(w, T) <= SumFunctionOnSet(w, V)
    BY <1>2
  <2> HIDE DEF V, X
  <2>3. /\ SumFunctionOnSet(w, T) \in Nat /\ SumFunctionOnSet(w, V) \in Nat /\ SumFunctionOnSet(w, X) \in Nat
        /\ SumFunctionOnSet(w, X) = w[x] + SumFunctionOnSet(w, X \ {x}) /\ w[x] \in Nat
    BY <2>1, SumWith
  <2>4. SumFunctionOnSet(w, T) <= SumFunctionOnSet(w, X)
    BY <2>1, <2>2, <2>3
  <2> QED
    BY <2>1, <2>4
<1> HIDE DEF C
<1>3. S \in C
  BY <1>1, <1>2, FiniteInduction
<1>4. T \cup S = S
  OBVIOUS
<1> QED
  BY <1>3, <1>4 DEF C

-----------------------------------------------------------------------------
(* What a request attaches, action by action and promise by promise.       *)

LEMMA PlacesFinite ==
  ASSUME NEW request, IsRequest(request)
  PROVE  IsFiniteSet(Places(request))
<1> DEFINE n == Len(request)
           row == [i \in 1..n |-> {i} \X DOMAIN request[i].actions]
           rows == {{i} \X DOMAIN request[i].actions : i \in DOMAIN request}
<1>1. n \in Nat /\ DOMAIN request = 1..n
  BY RequestShape
<1>2. \A i \in 1..n : IsFiniteSet({i} \X DOMAIN request[i].actions)
  <2>1. ASSUME NEW i \in 1..n
        PROVE  IsFiniteSet({i} \X DOMAIN request[i].actions)
    <3>1. DOMAIN request[i].actions = 1..Len(request[i].actions) /\ Len(request[i].actions) \in Nat
      BY <1>1, RequestShape
    <3>2. IsFiniteSet(DOMAIN request[i].actions)
      <4>1. \A m, k \in Int : IsFiniteSet(m..k)
        BY FS_Interval
      <4>2. 1 \in Int /\ Len(request[i].actions) \in Int
        BY <3>1
      <4> QED
        BY <3>1, <4>1, <4>2
    <3> QED
      BY <3>2, FS_Singleton, FS_Product
  <2> QED
    BY <2>1
<1>3. IsFiniteSet(rows)
  <2>1. row \in Surjection(1..n, rows)
    BY <1>1 DEF Surjection
  <2>2. IsFiniteSet(1..n)
    BY <1>1, FS_Interval
  <2> QED
    BY <2>1, <2>2, FS_Surjection
<1>4. \A T \in rows : IsFiniteSet(T)
  BY <1>1, <1>2
<1>5. Places(request) = UNION rows
  BY DEF Places
<1> QED
  BY <1>3, <1>4, <1>5, FS_UNION

\* The amounts of a request, by the place of the action.
Amounts(request) == [p \in Places(request) |-> ActionAt(request, p).amount]

LEMMA AmountsAre ==
  ASSUME NEW request, IsRequest(request), MaxU128 \in Nat
  PROVE  Amounts(request) \in [Places(request) -> Nat]
<1>1. ASSUME NEW p \in Places(request)
      PROVE  ActionAt(request, p).amount \in Nat
  <2>1. p[1] \in DOMAIN request /\ p[2] \in DOMAIN request[p[1]].actions
    BY DEF Places
  <2>2. IsAction(ActionAt(request, p))
    BY <2>1, RequestShape DEF ActionAt
  <2> QED
    BY <2>2 DEF IsAction
<1> QED
  BY <1>1 DEF Amounts

\* The native total of the effects is the sum of every amount attached, capped.
THEOREM NativeIsAttached ==
  ASSUME MaxU128 \in Nat, NEW request, IsRequest(request)
  PROVE  SumFunction(Amounts(request)) \in Nat /\ NativeTotal(request) = Capped(SumFunction(Amounts(request)))
<1> DEFINE n == Len(request)
           w == Amounts(request)
           P == Places(request)
           UpTo(i) == {p \in P : p[1] <= i}
           amounts == [i \in 1..n |-> AttachedNative(request[i])]
           total == saturating_totals(amounts)
<1>1. /\ n \in Nat /\ DOMAIN request = 1..n
      /\ \A i \in 1..n : AttachedNative(request[i]) \in 0..MaxU128
      /\ \A i \in 1..n : Len(request[i].actions) \in Nat /\ DOMAIN request[i].actions = 1..Len(request[i].actions)
      /\ \A i \in 1..n : \A j \in 1..Len(request[i].actions) : request[i].actions[j].amount \in 0..MaxU128
  BY RequestShape, AttachedIsU128 DEF IsAction
<1>2. amounts \in [1..n -> Nat] /\ Len(amounts) = n /\ \A i \in 1..n : amounts[i] = AttachedNative(request[i])
  BY <1>1
<1>3. NativeTotal(request) = total[n]
  BY DEF NativeTotal
<1> HIDE DEF amounts
<1>4. /\ total \in [0..n -> 0..MaxU128] /\ total[0] = 0
      /\ \A i \in 1..n : total[i] = saturating_add(total[i - 1], amounts[i])
  BY <1>1, <1>2, SaturatingTotals
<1> HIDE DEF total
<1>5. IsFiniteSet(P) /\ w \in [P -> Nat]
  BY PlacesFinite, AmountsAre
<1>6. \A T \in SUBSET P : /\ SumFunctionOnSet(w, T) \in Nat
                          /\ \A x \in T : SumFunctionOnSet(w, T) = w[x] + SumFunctionOnSet(w, T \ {x})
  BY <1>5, SumWith
<1>7. \A i \in 1..n : \A j \in 1..Len(request[i].actions) :
        <<i, j>> \in P /\ w[<<i, j>>] = request[i].actions[j].amount
  BY <1>1 DEF Places, Amounts, ActionAt
<1>8. \A p \in P : /\ p = <<p[1], p[2]>> /\ p[1] \in 1..n
                   /\ p[2] \in 1..Len(request[p[1]].actions)
  BY <1>1 DEF Places
<1>9. n \in Nat /\ P = P
  BY <1>1
<1> HIDE DEF w, P, n
<1>10. ASSUME NEW i \in 1..n
       PROVE  \E s \in Nat : /\ SumFunctionOnSet(w, UpTo(i)) = SumFunctionOnSet(w, UpTo(i - 1)) + s
                             /\ AttachedNative(request[i]) = Capped(s)
  <2> DEFINE len == Len(request[i].actions)
             inner == [j \in 1..len |-> request[i].actions[j].amount]
             part == saturating_totals(inner)
             Within(j) == {p \in P : p[1] < i \/ (p[1] = i /\ p[2] <= j)}
             base == SumFunctionOnSet(w, UpTo(i - 1))
             I == {j \in 0..len : \E s \in Nat : SumFunctionOnSet(w, Within(j)) = base + s /\ part[j] = Capped(s)}
  <2>1. len \in Nat /\ \A j \in 1..len : request[i].actions[j].amount \in 0..MaxU128
    BY <1>1
  <2>2. inner \in [1..len -> Nat] /\ Len(inner) = len /\ \A j \in 1..len : inner[j] = request[i].actions[j].amount
    BY <2>1
  <2>3. AttachedNative(request[i]) = part[len]
    BY DEF AttachedNative
  <2> HIDE DEF inner
  <2>4. /\ part \in [0..len -> 0..MaxU128] /\ part[0] = 0
        /\ \A j \in 1..len : part[j] = saturating_add(part[j - 1], inner[j])
    BY <2>1, <2>2, SaturatingTotals
  <2> HIDE DEF part, len
  <2>5. Within(0) = UpTo(i - 1) /\ Within(len) = UpTo(i)
    BY <1>8, <2>1 DEF len
  <2>6. base \in Nat
    BY <1>6
  <2>7. 0 \in I
    <3>1. Within(0) = UpTo(i - 1)
      BY <2>5
    <3>2. SumFunctionOnSet(w, Within(0)) = base
      BY <3>1
    <3>3. part[0] = Capped(0)
      BY <2>4 DEF Capped
    <3> HIDE DEF base, Within, UpTo
    <3>4. base + 0 = base
      BY <2>6
    <3>5. 0 \in 0..len /\ 0 \in Nat
      BY <2>1 DEF len
    <3> QED
      BY <3>2, <3>3, <3>4, <3>5
  <2>8. ASSUME NEW j \in 0..(len - 1), j \in I
        PROVE  j + 1 \in I
    <3>1. PICK s \in Nat : SumFunctionOnSet(w, Within(j)) = base + s /\ part[j] = Capped(s)
      BY <2>8
    <3>2. j + 1 \in 1..len /\ <<i, j + 1>> \in P /\ w[<<i, j + 1>>] = inner[j + 1] /\ inner[j + 1] \in Nat
      BY <1>7, <2>1, <2>2 DEF len
    <3>3. /\ Within(j + 1) \in SUBSET P /\ <<i, j + 1>> \in Within(j + 1)
          /\ Within(j + 1) \ {<<i, j + 1>>} = Within(j)
      BY <1>8, <2>1, <3>2 DEF len
    <3> HIDE DEF Within, base
    <3>4. SumFunctionOnSet(w, Within(j + 1)) = base + (s + inner[j + 1])
      BY <1>6, <2>6, <3>1, <3>2, <3>3
    <3>5. part[j + 1] = saturating_add(part[j], inner[j + 1])
      BY <2>1, <2>4, <3>2
    <3>6. part[j + 1] = Capped(s + inner[j + 1])
      BY <3>1, <3>2, <3>5 DEF saturating_add, Capped
    <3>7. s + inner[j + 1] \in Nat
      BY <3>2
    <3> QED
      BY <2>1, <3>2, <3>4, <3>6, <3>7
  <2>9. len \in I
    <3> HIDE DEF I
    <3>1. 0..len \subseteq I
      BY <2>1, <2>7, <2>8, InductionTo
    <3> QED
      BY <2>1, <3>1
  <2>10. PICK s \in Nat : SumFunctionOnSet(w, Within(len)) = base + s /\ part[len] = Capped(s)
    BY <2>9
  <2> QED
    BY <2>3, <2>5, <2>10
<1> DEFINE J == {i \in 0..n : total[i] = Capped(SumFunctionOnSet(w, UpTo(i)))}
<1>11. 0 \in J
  <2>1. UpTo(0) = {}
    BY <1>8, <1>9
  <2>2. SumFunctionOnSet(w, UpTo(0)) = 0
    BY <1>5, <2>1, SumWith
  <2> HIDE DEF UpTo
  <2> QED
    BY <1>4, <1>9, <2>2 DEF Capped
<1>12. ASSUME NEW i \in 0..(n - 1), i \in J
       PROVE  i + 1 \in J
  <2>0. i + 1 \in 1..n /\ (i + 1) - 1 = i
    BY <1>9
  <2>1. PICK s \in Nat : /\ SumFunctionOnSet(w, UpTo(i + 1)) = SumFunctionOnSet(w, UpTo(i)) + s
                         /\ AttachedNative(request[i + 1]) = Capped(s)
    BY <1>10, <2>0
  <2>2. SumFunctionOnSet(w, UpTo(i)) \in Nat
    BY <1>6
  <2>3. total[i] = Capped(SumFunctionOnSet(w, UpTo(i)))
    BY <1>12
  <2> HIDE DEF UpTo
  <2>4. total[i + 1] = saturating_add(total[i], Capped(s))
    BY <1>2, <1>4, <2>0, <2>1
  <2>5. total[i + 1] = Capped(SumFunctionOnSet(w, UpTo(i + 1)))
    BY <2>1, <2>2, <2>3, <2>4 DEF saturating_add, Capped
  <2> QED
    BY <2>0, <2>5
<1>13. n \in J
  <2> HIDE DEF J
  <2>1. 0..n \subseteq J
    BY <1>9, <1>11, <1>12, InductionTo
  <2> QED
    BY <1>9, <2>1
<1>14. UpTo(n) = P
  BY <1>8, <1>9
<1>15. DOMAIN w = P
  BY <1>5
<1>16. SumFunction(w) = SumFunctionOnSet(w, UpTo(n))
  BY <1>14, <1>15 DEF SumFunction
<1> QED
  BY <1>3, <1>6, <1>13, <1>14, <1>16 DEF w
=============================================================================
