---------------------------- MODULE AccountProofs ----------------------------
(***************************************************************************)
(* The accounts of the resource manager, for all services, callers, limits *)
(* and task estimates: what a scope has reserved is the sum of what the    *)
(* scopes below it have reserved, so closing every span gives everything   *)
(* back.                                                                   *)
(***************************************************************************)
EXTENDS ResourceScopeProofs, WellFoundedInduction, NaturalsInduction

----------------------------------------------------------------------------
(* Sums over finite sets *)

\* The element that the sum over T adds first, and the equation that the running sums
\* of f over the subsets of S satisfy.
Pick(T) == CHOOSE x \in T : TRUE
RunningSum(f, g, T) == IF T = {} THEN 0 ELSE f[Pick(T)] + g[T \ {Pick(T)}]
Sums(f, S, g) == g = [T \in SUBSET S |-> RunningSum(f, g, T)]
IsRunning(f, g, U) == \A T \in SUBSET U : g[T] = RunningSum(f, g, T)
UpTo(U, n) == {T \in SUBSET U : Cardinality(T) <= n}
SumOf(f, S) == (CHOOSE g : Sums(f, S, g))[S]

\* The least number of a set of numbers.
LEMMA LeastNumber ==
  ASSUME NEW N \in SUBSET Nat, N # {}
  PROVE  \E n \in N : \A i \in N : n <= i
<1>1. \E n \in N : \A i \in N : ~(<<i, n>> \in OpToRel(<, Nat))
  BY NatLessThanWellFounded, WFMin, Zenon
<1>2. PICK n \in N : \A i \in N : ~(<<i, n>> \in OpToRel(<, Nat))
  BY <1>1, Zenon
<1>3. \A i \in N : ~(i < n)
  BY <1>2, Zenon DEF OpToRel
<1> QED BY <1>3

LEMMA PickIn == ASSUME NEW T, T # {} PROVE Pick(T) \in T
BY Zenon DEF Pick

LEMMA OneLess ==
  ASSUME NEW T, IsFiniteSet(T), NEW x \in T
  PROVE  /\ IsFiniteSet(T \ {x}) /\ Cardinality(T) \in Nat \ {0}
         /\ Cardinality(T \ {x}) = Cardinality(T) - 1 /\ Cardinality(T \ {x}) \in Nat
<1>1. IsFiniteSet(T \ {x}) /\ Cardinality(T \ {x}) = Cardinality(T) - 1
  BY FS_RemoveElement, Zenon
<1>2. Cardinality(T) \in Nat /\ Cardinality(T \ {x}) \in Nat
  BY <1>1, FS_CardinalityType, Zenon
<1> QED BY <1>1, <1>2

\* Running sums exist: those of the sets of at most n elements, for every n.
LEMMA SumsUpTo ==
  ASSUME NEW U, IsFiniteSet(U), NEW f \in [U -> Nat], NEW m \in Nat
  PROVE  \E g \in [UpTo(U, m) -> Nat] : \A T \in UpTo(U, m) : g[T] = RunningSum(f, g, T)
<1> DEFINE D(n) == UpTo(U, n)
           OK(n) == \E g \in [D(n) -> Nat] : \A T \in D(n) : g[T] = RunningSum(f, g, T)
           N == {n \in Nat : ~OK(n)}
<1> HIDE DEF OK, N
<1>0. \A T \in SUBSET U : IsFiniteSet(T) /\ Cardinality(T) \in Nat
  BY FS_Subset, FS_CardinalityType, Zenon
<1>1. SUFFICES OK(m)
  BY <1>1, Zenon DEF OK
<1>2. SUFFICES ASSUME N # {} PROVE FALSE
  BY <1>2, Zenon DEF N
<1>3. PICK n \in N : \A i \in N : n <= i
  <2>1. N \in SUBSET Nat BY Zenon DEF N
  <2> QED BY <1>2, <2>1, LeastNumber, Zenon
<1>4. n \in Nat /\ ~OK(n)
  BY <1>3, Zenon DEF N
<1>5. CASE n = 0
  <2>1. \A T \in D(n) : T = {}
    <3> SUFFICES ASSUME NEW T \in D(n), T # {} PROVE FALSE BY Zenon
    <3>1. T \in SUBSET U /\ Cardinality(T) <= 0 BY <1>5, Zenon DEF UpTo
    <3>2. PICK x : x \in T BY Zenon
    <3>3. Cardinality(T) \in Nat \ {0} BY <1>0, <3>1, <3>2, OneLess, Zenon
    <3> QED BY <3>1, <3>3
  <2> DEFINE g == [T \in D(n) |-> 0]
  <2>2. g \in [D(n) -> Nat] BY Zenon
  <2>3. \A T \in D(n) : g[T] = RunningSum(f, g, T)
    BY <2>1, Zenon DEF RunningSum
  <2> QED BY <1>4, <2>2, <2>3, Zenon DEF OK
<1>6. CASE n # 0
  <2>1. n - 1 \in Nat /\ n - 1 \notin N
    BY <1>3, <1>4, <1>6
  <2>2. PICK h \in [D(n - 1) -> Nat] : \A T \in D(n - 1) : h[T] = RunningSum(f, h, T)
    BY <2>1, Zenon DEF N, OK
  <2> DEFINE g == [T \in D(n) |-> RunningSum(f, h, T)]
  <2>3. ASSUME NEW T \in D(n), T # {}
        PROVE  /\ Pick(T) \in U /\ T \ {Pick(T)} \in D(n - 1)
               /\ h[T \ {Pick(T)}] = g[T \ {Pick(T)}] /\ h[T \ {Pick(T)}] \in Nat
    <3> DEFINE R == T \ {Pick(T)}
    <3>1. T \in SUBSET U /\ Cardinality(T) <= n BY Zenon DEF UpTo
    <3>2. Pick(T) \in T BY <2>3, PickIn, Zenon
    <3>3. Cardinality(R) = Cardinality(T) - 1 /\ Cardinality(T) \in Nat
      BY <1>0, <3>1, <3>2, OneLess, Zenon
    <3>4. R \in SUBSET U /\ Cardinality(R) <= n - 1
      BY <1>4, <3>1, <3>3
    <3>5. R \in D(n - 1) BY <3>4, Zenon DEF UpTo
    <3>6. R \in D(n)
      <4>1. Cardinality(R) <= n BY <1>4, <3>1, <3>3
      <4> QED BY <3>4, <4>1, Zenon DEF UpTo
    <3> HIDE DEF R
    <3>7. h[R] = g[R]
      BY <2>2, <3>5, <3>6, Zenon
    <3> QED BY <2>2, <3>1, <3>2, <3>5, <3>7, Zenon DEF R
  <2>4. \A T \in D(n) : g[T] \in Nat
    <3> SUFFICES ASSUME NEW T \in D(n) PROVE RunningSum(f, h, T) \in Nat BY Zenon
    <3>1. CASE T = {} BY <3>1, Zenon DEF RunningSum
    <3>2. CASE T # {}
      <4> HIDE DEF g
      <4>1. f[Pick(T)] \in Nat /\ h[T \ {Pick(T)}] \in Nat BY <2>3, <3>2, Zenon
      <4> QED BY <3>2, <4>1 DEF RunningSum
    <3> QED BY <3>1, <3>2, Zenon
  <2>5. \A T \in D(n) : g[T] = RunningSum(f, g, T)
    <3> SUFFICES ASSUME NEW T \in D(n) PROVE RunningSum(f, h, T) = RunningSum(f, g, T) BY Zenon
    <3> HIDE DEF g
    <3> QED BY <2>3, Zenon DEF RunningSum
  <2>6. g \in [D(n) -> Nat] BY <2>4, Zenon
  <2> HIDE DEF g
  <2> QED BY <1>4, <2>5, <2>6, Zenon DEF OK
<1> QED BY <1>5, <1>6, Zenon

\* The sum depends only on the values of f on the set.
LEMMA SumsAgree ==
  ASSUME NEW U, IsFiniteSet(U), NEW f, NEW e, NEW g, NEW h, \A x \in U : f[x] = e[x],
         IsRunning(f, g, U), IsRunning(e, h, U)
  PROVE  \A T \in SUBSET U : g[T] = h[T]
<1> DEFINE N == {n \in Nat : \E T \in SUBSET U : Cardinality(T) = n /\ g[T] # h[T]}
<1> HIDE DEF N
<1>0. \A T \in SUBSET U : IsFiniteSet(T) /\ Cardinality(T) \in Nat
  BY FS_Subset, FS_CardinalityType, Zenon
<1>1. SUFFICES ASSUME N # {} PROVE FALSE
  BY <1>0, <1>1, Zenon DEF N
<1>2. PICK n \in N : \A i \in N : n <= i
  <2>1. N \in SUBSET Nat BY Zenon DEF N
  <2> QED BY <1>1, <2>1, LeastNumber, Zenon
<1>3. PICK T \in SUBSET U : Cardinality(T) = n /\ g[T] # h[T]
  BY <1>2, Zenon DEF N
<1>4. CASE T = {}
  <2>1. g[T] = RunningSum(f, g, T) /\ h[T] = RunningSum(e, h, T)
    BY Zenon DEF IsRunning
  <2>2. RunningSum(f, g, T) = 0 /\ RunningSum(e, h, T) = 0
    BY <1>4, Zenon DEF RunningSum
  <2> QED BY <1>3, <2>1, <2>2, Zenon
<1>5. CASE T # {}
  <2> DEFINE R == T \ {Pick(T)}
  <2>1. Pick(T) \in T BY <1>5, PickIn, Zenon
  <2>2. R \in SUBSET U /\ Cardinality(R) = n - 1 /\ n - 1 \in Nat
    BY <1>0, <1>3, <2>1, OneLess, Zenon
  <2> HIDE DEF R
  <2>3. g[R] = h[R]
    <3> SUFFICES ASSUME g[R] # h[R] PROVE FALSE BY Zenon
    <3>1. n - 1 \in N BY <2>2, Zenon DEF N
    <3>2. n \in Nat BY <1>2, Zenon DEF N
    <3> QED BY <1>2, <2>2, <3>1, <3>2
  <2>4. f[Pick(T)] = e[Pick(T)] BY <2>1, Zenon
  <2>5. g[T] = f[Pick(T)] + g[R] /\ h[T] = e[Pick(T)] + h[R]
    BY <1>5, Zenon DEF IsRunning, RunningSum, R
  <2> QED BY <1>3, <2>3, <2>4, <2>5, Zenon
<1> QED BY <1>4, <1>5, Zenon

\* SumOf is the last of the running sums.
LEMMA SumsExist ==
  ASSUME NEW U, IsFiniteSet(U), NEW f \in [U -> Nat]
  PROVE  \E g \in [SUBSET U -> Nat] :
           /\ IsRunning(f, g, U)
           /\ SumOf(f, U) = g[U]
<1> DEFINE m == Cardinality(U)
<1>1. m \in Nat BY FS_CardinalityType, Zenon
<1>2. \A T \in SUBSET U : Cardinality(T) <= m
  BY FS_Subset, Zenon
<1>3. UpTo(U, m) = SUBSET U
  BY <1>2, Zenon DEF UpTo
<1> HIDE DEF m
<1>4. PICK h \in [SUBSET U -> Nat] : IsRunning(f, h, U)
  <2>1. \E g \in [UpTo(U, m) -> Nat] : \A T \in UpTo(U, m) : g[T] = RunningSum(f, g, T)
    BY <1>1, SumsUpTo, Zenon
  <2> QED BY <1>3, <2>1, Zenon DEF IsRunning
<1>5. Sums(f, U, h)
  BY <1>4, Zenon DEF Sums, IsRunning
<1> DEFINE g == CHOOSE g : Sums(f, U, g)
<1>6. Sums(f, U, g)
  BY <1>5, Zenon
<1>8. SumOf(f, U) = g[U]
  BY Zenon DEF SumOf
<1> HIDE DEF g
<1>7. g = [T \in SUBSET U |-> RunningSum(f, g, T)]
  BY <1>6, Zenon DEF Sums
<1>9. IsRunning(f, g, U)
  BY <1>7, Zenon DEF IsRunning
<1>10. \A T \in SUBSET U : g[T] = h[T]
  BY <1>4, <1>9, SumsAgree
<1> QED BY <1>4, <1>8, <1>10, Zenon

\* The sum of nothing.
LEMMA SumOfNone == ASSUME NEW f PROVE SumOf(f, {}) = 0
<1> DEFINE g == CHOOSE g : Sums(f, {}, g)
           z == [T \in {{}} |-> 0]
<1>1. SUBSET {} = {{}} BY Zenon
<1>2. Sums(f, {}, z)
  BY <1>1, Zenon DEF Sums, RunningSum
<1>3. Sums(f, {}, g)
  BY <1>2, Zenon
<1>4. SumOf(f, {}) = g[{}] BY Zenon DEF SumOf
<1> HIDE DEF g
<1>5. g[{}] = RunningSum(f, g, {}) BY <1>1, <1>3, Zenon DEF Sums
<1> QED BY <1>4, <1>5, Zenon DEF RunningSum

\* Sums over the same values are the same.
LEMMA SumOfSame ==
  ASSUME NEW S, IsFiniteSet(S), NEW f, NEW e,
         \A x \in S : f[x] = e[x] /\ f[x] \in Nat
  PROVE  SumOf(f, S) = SumOf(e, S) /\ SumOf(f, S) \in Nat
<1> DEFINE F == [x \in S |-> f[x]]
<1>1. F \in [S -> Nat] BY Zenon
<1>2. \A x \in S : F[x] = f[x] /\ F[x] = e[x] BY Zenon
<1> HIDE DEF F
<1>3. ASSUME NEW d, \A x \in S : F[x] = d[x] PROVE SumOf(d, S) = SumOf(F, S)
  <2>1. ASSUME NEW T \in SUBSET S, NEW g PROVE RunningSum(d, g, T) = RunningSum(F, g, T)
    BY <1>3, PickIn, Zenon DEF RunningSum
  <2>2. ASSUME NEW g PROVE [T \in SUBSET S |-> RunningSum(d, g, T)] =
                            [T \in SUBSET S |-> RunningSum(F, g, T)]
    BY <2>1, Zenon
  <2>3. ASSUME NEW g PROVE Sums(d, S, g) <=> Sums(F, S, g)
    BY <2>2, Zenon DEF Sums
  <2>4. (CHOOSE g : Sums(d, S, g)) = (CHOOSE g : Sums(F, S, g))
    BY <2>3, Zenon
  <2> QED BY <2>4, Zenon DEF SumOf
<1>4. SumOf(F, S) \in Nat
  <2>1. PICK g \in [SUBSET S -> Nat] : SumOf(F, S) = g[S]
    BY <1>1, SumsExist, Zenon
  <2> QED BY <2>1, Zenon
<1> QED BY <1>2, <1>3, <1>4, Zenon

\* The order in which elements are added does not matter.
LEMMA SumsAnyOrder ==
  ASSUME NEW U, IsFiniteSet(U), NEW f, NEW g, f \in [U -> Nat], g \in [SUBSET U -> Nat],
         IsRunning(f, g, U)
  PROVE  \A x \in U : g[U] = f[x] + g[U \ {x}]
<1> DEFINE N == {n \in Nat : \E T \in SUBSET U : Cardinality(T) = n /\ \E x \in T : g[T] # f[x] + g[T \ {x}]}
<1> HIDE DEF N
<1>0. \A T \in SUBSET U : IsFiniteSet(T) /\ Cardinality(T) \in Nat
  BY FS_Subset, FS_CardinalityType, Zenon
<1>1. SUFFICES ASSUME N # {} PROVE FALSE
  <2>1. U \in SUBSET U /\ Cardinality(U) \in Nat BY <1>0, Zenon
  <2> QED BY <1>1, <2>1, Zenon DEF N
<1>2. PICK n \in N : \A i \in N : n <= i
  <2>1. N \in SUBSET Nat BY Zenon DEF N
  <2> QED BY <1>1, <2>1, LeastNumber, Zenon
<1>3. PICK T \in SUBSET U : Cardinality(T) = n /\ \E x \in T : g[T] # f[x] + g[T \ {x}]
  BY <1>2, Zenon DEF N
<1>4. PICK x \in T : g[T] # f[x] + g[T \ {x}]
  BY <1>3, Zenon
<1>5. \A R \in SUBSET U : Cardinality(R) = n - 1 => \A y \in R : g[R] = f[y] + g[R \ {y}]
  <2> SUFFICES ASSUME NEW R \in SUBSET U, Cardinality(R) = n - 1, NEW y \in R,
                      g[R] # f[y] + g[R \ {y}]
               PROVE  FALSE
    BY Zenon
  <2>1. n \in Nat /\ n - 1 \in Nat BY <1>0, <1>2, Zenon DEF N
  <2>2. n - 1 \in N BY <2>1, Zenon DEF N
  <2> QED BY <1>2, <2>1, <2>2
<1> DEFINE c == Pick(T)
           A == T \ {c}
           B == T \ {x}
           C == T \ {c, x}
<1>6. c \in T
  BY PickIn, Zenon
<1>7. g[T] = f[c] + g[A]
  BY <1>4, Zenon DEF IsRunning, RunningSum
<1>8. c # x /\ c \in B /\ x \in A /\ A \ {x} = C /\ B \ {c} = C
  BY <1>4, <1>6, <1>7, Zenon
<1>9. A \in SUBSET U /\ B \in SUBSET U /\ C \in SUBSET U
  BY Zenon
<1>10. Cardinality(A) = n - 1 /\ Cardinality(B) = n - 1
  BY <1>0, <1>3, <1>6, OneLess, Zenon
<1> HIDE DEF A, B, C, c
<1>11. g[A] = f[x] + g[C] /\ g[B] = f[c] + g[C]
  BY <1>5, <1>8, <1>9, <1>10
<1>12. g[C] \in Nat /\ f[c] \in Nat /\ f[x] \in Nat
  BY <1>6, <1>9, Zenon
<1>13. g[T] # f[x] + g[B]
  BY <1>4, Zenon DEF B
<1> QED BY <1>7, <1>11, <1>12, <1>13

\* The sum over a set is the sum over the rest of it and one of its elements.
LEMMA SumsRemove ==
  ASSUME NEW S, IsFiniteSet(S), NEW F \in [S -> Nat], NEW x \in S,
         NEW g \in [SUBSET S -> Nat], IsRunning(F, g, S)
  PROVE  g[S] = F[x] + SumOf(F, S \ {x})
<1> DEFINE R == S \ {x}
           E == [y \in R |-> F[y]]
<1>1. E \in [R -> Nat] /\ \A y \in R : F[y] = E[y] /\ F[y] \in Nat
  BY Zenon
<1>2. IsFiniteSet(R) /\ R \in SUBSET S BY FS_Subset, Zenon
<1>3. g[S] = F[x] + g[R]
  BY SumsAnyOrder
<1> HIDE DEF E, R
<1>4. SumOf(F, R) = SumOf(E, R)
  BY <1>1, <1>2, SumOfSame, Zenon
<1>5. PICK h \in [SUBSET R -> Nat] : IsRunning(E, h, R) /\ SumOf(E, R) = h[R]
  BY <1>1, <1>2, SumsExist, Zenon
<1>6. IsRunning(F, g, R)
  BY <1>2, Zenon DEF IsRunning
<1>7. g[R] = h[R]
  BY <1>1, <1>2, <1>5, <1>6, SumsAgree
<1> QED BY <1>3, <1>4, <1>5, <1>7, Zenon DEF R

LEMMA SumOfRemove ==
  ASSUME NEW S, IsFiniteSet(S), NEW f, \A y \in S : f[y] \in Nat, NEW x \in S
  PROVE  /\ SumOf(f, S) = f[x] + SumOf(f, S \ {x})
         /\ SumOf(f, S \ {x}) \in Nat
<1> DEFINE F == [y \in S |-> f[y]]
<1>1. F \in [S -> Nat] /\ F[x] = f[x] /\ IsFiniteSet(S \ {x})
  BY FS_Subset, Zenon
<1>2. (\A y \in S : f[y] = F[y]) /\ (\A y \in S \ {x} : f[y] = F[y] /\ f[y] \in Nat)
  BY Zenon
<1> HIDE DEF F
<1>3. SumOf(f, S) = SumOf(F, S)
  BY <1>2, SumOfSame, Zenon
<1>4. SumOf(f, S \ {x}) = SumOf(F, S \ {x}) /\ SumOf(f, S \ {x}) \in Nat
  BY <1>1, <1>2, SumOfSame, Zenon
<1>5. PICK g \in [SUBSET S -> Nat] : IsRunning(F, g, S) /\ SumOf(F, S) = g[S]
  BY <1>1, SumsExist, Zenon
<1>6. g[S] = F[x] + SumOf(F, S \ {x})
  BY <1>1, <1>5, SumsRemove
<1> QED BY <1>1, <1>3, <1>4, <1>5, <1>6, Zenon

----------------------------------------------------------------------------
(* Accounts *)

\* An account counts at most what it should, and exactly that unless it was stopped.
Agrees(a, n, exact) == a <= n /\ (exact => a = n)

\* A scope counts a when a span counts c; the span counts d, and so the scope counts b.
Shift(a, b, c, d) ==
  \/ d >= c /\ b = a + (d - c)
  \/ d < c /\ b = IF a < c - d THEN 0 ELSE a - (c - d)

\* The kind k of all spans, and the spans that a service and the system count.
Column(r, k) == [q \in Callers |-> r[q][k]]
InService(c, s) == {q \in Spans(s) : c[q] # "hungInSpan"}
InSystem(c) == {q \in Callers : c[q] \notin {"hungInSpan", "hungInService"}}

\* One span moves within the account, or leaves it with nothing reserved: the account
\* over the spans A of column f counts a, and that over B of column e counts b.
Moves(p, A, B, f, e, a, b) ==
  /\ \A q \in Callers \ {p} : e[q] = f[q] /\ (q \in A <=> q \in B)
  /\ \/ p \notin A /\ p \notin B /\ b = a
     \/ p \in A /\ p \in B /\ Shift(a, b, f[p], e[p])
     \/ p \in A /\ p \notin B /\ f[p] = 0 /\ b = a

\* An account stays right when one span moves, or leaves it with nothing reserved.
LEMMA AccountStep ==
  ASSUME NEW A \in SUBSET Callers, NEW B \in SUBSET Callers, NEW p \in Callers,
         NEW f \in [Callers -> Nat], NEW e \in [Callers -> Nat],
         NEW a \in Nat, NEW b \in Nat,
         Moves(p, A, B, f, e, a, b), a <= SumOf(f, A)
  PROVE  b <= SumOf(e, B) /\ (a = SumOf(f, A) => b = SumOf(e, B))
<1> DEFINE R == A \ {p}
           n == SumOf(f, R)
<1>1. IsFiniteSet(A) /\ IsFiniteSet(B) /\ IsFiniteSet(R)
  BY NamesAssumption, FS_Subset, Zenon
<1>2. /\ \A q \in A : f[q] \in Nat
      /\ \A q \in B : e[q] \in Nat
      /\ \A q \in R : f[q] = e[q] /\ f[q] \in Nat
      /\ f[p] \in Nat /\ e[p] \in Nat
  BY Zenon DEF Moves
<1>3. R = B \ {p} BY Zenon DEF Moves
<1> HIDE DEF R
<1>4. SumOf(f, R) = SumOf(e, R) /\ n \in Nat
  BY <1>1, <1>2, SumOfSame, Zenon
<1>5. IF p \in A THEN SumOf(f, A) = f[p] + n ELSE SumOf(f, A) = n
  <2>1. CASE p \in A BY <1>1, <1>2, <2>1, SumOfRemove, Zenon DEF R
  <2>2. CASE p \notin A
    <3>1. R = A BY <2>2, Zenon DEF R
    <3> QED BY <2>2, <3>1, Zenon
  <2> QED BY <2>1, <2>2, Zenon
<1>6. IF p \in B THEN SumOf(e, B) = e[p] + n ELSE SumOf(e, B) = n
  <2>1. CASE p \in B
    <3>1. SumOf(e, B) = e[p] + SumOf(e, B \ {p}) BY <1>1, <1>2, <2>1, SumOfRemove, Zenon
    <3> QED BY <1>3, <1>4, <2>1, <3>1, Zenon
  <2>2. CASE p \notin B
    <3>1. R = B BY <1>3, <2>2, Zenon
    <3> QED BY <1>4, <2>2, <3>1, Zenon
  <2> QED BY <2>1, <2>2, Zenon
<1> HIDE DEF n
<1>7. CASE p \notin A /\ p \notin B /\ b = a
  BY <1>4, <1>5, <1>6, <1>7, Zenon
<1>8. CASE p \in A /\ p \in B /\ Shift(a, b, f[p], e[p])
  <2>1. SumOf(f, A) = f[p] + n /\ SumOf(e, B) = e[p] + n BY <1>5, <1>6, <1>8, Zenon
  <2> QED BY <1>2, <1>4, <1>8, <2>1 DEF Shift
<1>9. CASE p \in A /\ p \notin B /\ f[p] = 0 /\ b = a
  <2>1. SumOf(f, A) = 0 + n /\ SumOf(e, B) = n BY <1>5, <1>6, <1>9, Zenon
  <2> QED BY <1>4, <1>9, <2>1
<1> QED BY <1>7, <1>8, <1>9, Zenon DEF Moves

----------------------------------------------------------------------------
Quiet == {"idle", "asked", "begun", "ending"}
Hung  == {"hungInSpan", "hungInService"}

\* The accounts of the kinds of K, and what they depend on: a span that is not in use
\* counts nothing, and a span counts a descriptor for every outbound connection.
AccountInv(K) ==
  /\ RefInv
  /\ \A q \in Callers : /\ pc[q] \in Quiet => rc[q] = Zero
                        /\ rc[q]["connsOut"] <= rc[q]["fd"]
                        /\ st[q]["connsOut"] <= st[q]["fd"]
  /\ \A k \in K : /\ \A s \in Services :
                       Agrees(rc[s][k], SumOf(Column(rc, k), InService(pc, s)), s \notin stopped)
                  /\ Agrees(rc[SYS][k], SumOf(Column(rc, k), InSystem(pc)), stopped = {})

\* A step of caller p that moves its span, its service and the system together, or that
\* leaves it hanging with the scopes that had let it through charged.
SpanStep(p, K) ==
  /\ pc[p] \notin Hung /\ stopped' = stopped
  /\ \A q \in Callers \ {p} : rc'[q] = rc[q] /\ pc'[q] = pc[q] /\ st'[q] = st[q]
  /\ \A s \in Services \ {Owner[p]} : rc'[s] = rc[s]
  /\ pc'[p] \in Quiet => rc'[p] = Zero
  /\ rc'[p]["connsOut"] <= rc'[p]["fd"]
  /\ st'[p]["connsOut"] <= st'[p]["fd"]
  /\ \A k \in K :
       /\ IF pc'[p] = "hungInSpan"
          THEN rc[p][k] = 0 /\ rc'[Owner[p]][k] = rc[Owner[p]][k]
          ELSE Shift(rc[Owner[p]][k], rc'[Owner[p]][k], rc[p][k], rc'[p][k])
       /\ IF pc'[p] \in Hung
          THEN rc[p][k] = 0 /\ rc'[SYS][k] = rc[SYS][k]
          ELSE Shift(rc[SYS][k], rc'[SYS][k], rc[p][k], rc'[p][k])

LEMMA SpanStepKeeps ==
  ASSUME NEW K \in SUBSET Kinds, AccountInv(K), RefInv', NEW p \in Callers, SpanStep(p, K)
  PROVE  AccountInv(K)'
<1>1. rc \in [Scopes -> Counters] /\ rc' \in [Scopes -> Counters]
  BY Zenon DEF AccountInv, RefInv, LimitInv
<1>2. Owner[p] \in Services /\ Services \subseteq Scopes /\ SYS \in Scopes /\ Callers \subseteq Scopes
  BY ChainOfThree, Zenon DEF Scopes
<1>3. \A q \in Callers : /\ pc'[q] \in Quiet => rc'[q] = Zero
                         /\ rc'[q]["connsOut"] <= rc'[q]["fd"]
                         /\ st'[q]["connsOut"] <= st'[q]["fd"]
  <2> SUFFICES ASSUME NEW q \in Callers
               PROVE  /\ pc'[q] \in Quiet => rc'[q] = Zero
                      /\ rc'[q]["connsOut"] <= rc'[q]["fd"]
                      /\ st'[q]["connsOut"] <= st'[q]["fd"]
    BY Zenon
  <2>1. CASE q = p BY <2>1, Zenon DEF SpanStep
  <2>2. CASE q # p
    <3>1. rc'[q] = rc[q] /\ pc'[q] = pc[q] /\ st'[q] = st[q] BY <2>2, Zenon DEF SpanStep
    <3>2. /\ pc[q] \in Quiet => rc[q] = Zero
          /\ rc[q]["connsOut"] <= rc[q]["fd"]
          /\ st[q]["connsOut"] <= st[q]["fd"]
      BY Zenon DEF AccountInv
    <3> QED BY <3>1, <3>2, Zenon
  <2> QED BY <2>1, <2>2, Zenon
<1>4. ASSUME NEW k \in K
      PROVE  /\ \A s \in Services :
                  Agrees(rc'[s][k], SumOf(Column(rc', k), InService(pc', s)), s \notin stopped')
             /\ Agrees(rc'[SYS][k], SumOf(Column(rc', k), InSystem(pc')), stopped' = {})
  <2> DEFINE f == Column(rc, k)
             e == Column(rc', k)
  <2>1. k \in Kinds /\ \A s \in Scopes : rc[s][k] \in Nat /\ rc'[s][k] \in Nat
    BY <1>1, Zenon DEF Counters
  <2>2. f \in [Callers -> Nat] /\ e \in [Callers -> Nat]
    BY <1>2, <2>1, Zenon DEF Column
  <2>3. f[p] = rc[p][k] /\ e[p] = rc'[p][k] /\ \A q \in Callers \ {p} : e[q] = f[q]
    BY Zenon DEF Column, SpanStep
  <2> HIDE DEF f, e
  <2>4. stopped' = stopped /\ pc[p] \notin Hung BY Zenon DEF SpanStep
  <2>5. ASSUME NEW s \in Services
        PROVE  Agrees(rc'[s][k], SumOf(e, InService(pc', s)), s \notin stopped)
    <3> DEFINE A == InService(pc, s)
               B == InService(pc', s)
    <3>1. A \in SUBSET Callers /\ B \in SUBSET Callers BY Zenon DEF InService, Spans
    <3>2. \A q \in Callers \ {p} : q \in A <=> q \in B
      BY Zenon DEF InService, SpanStep
    <3>3. rc[s][k] <= SumOf(f, A) /\ (s \notin stopped => rc[s][k] = SumOf(f, A))
      BY Zenon DEF AccountInv, Agrees, f
    <3>4. rc[s][k] \in Nat /\ rc'[s][k] \in Nat BY <1>2, <2>1, Zenon
    <3>5. \/ p \notin A /\ p \notin B /\ rc'[s][k] = rc[s][k]
          \/ p \in A /\ p \in B /\ Shift(rc[s][k], rc'[s][k], f[p], e[p])
          \/ p \in A /\ p \notin B /\ f[p] = 0 /\ rc'[s][k] = rc[s][k]
      <4>1. CASE s # Owner[p]
        <5>1. rc'[s] = rc[s] BY <4>1, Zenon DEF SpanStep
        <5> QED BY <4>1, <5>1, Zenon DEF InService, Spans
      <4>2. CASE s = Owner[p] /\ pc'[p] = "hungInSpan"
        <5>1. f[p] = 0 /\ rc'[s][k] = rc[s][k] BY <2>3, <4>2, Zenon DEF SpanStep
        <5>2. p \in A /\ p \notin B BY <2>4, <4>2, Zenon DEF InService, Spans, Hung
        <5> QED BY <5>1, <5>2, Zenon
      <4>3. CASE s = Owner[p] /\ pc'[p] # "hungInSpan"
        <5>1. Shift(rc[s][k], rc'[s][k], f[p], e[p]) BY <2>3, <4>3, Zenon DEF SpanStep
        <5>2. p \in A /\ p \in B BY <2>4, <4>3, Zenon DEF InService, Spans, Hung
        <5> QED BY <5>1, <5>2, Zenon
      <4> QED BY <4>1, <4>2, <4>3, Zenon
    <3> HIDE DEF A, B
    <3>6. Moves(p, A, B, f, e, rc[s][k], rc'[s][k]) BY <2>3, <3>2, <3>5, Zenon DEF Moves
    <3>7. /\ rc'[s][k] <= SumOf(e, B)
          /\ rc[s][k] = SumOf(f, A) => rc'[s][k] = SumOf(e, B)
      BY <2>2, <3>1, <3>3, <3>4, <3>6, AccountStep
    <3> QED BY <3>3, <3>7, Zenon DEF Agrees, B
  <2>6. Agrees(rc'[SYS][k], SumOf(e, InSystem(pc')), stopped = {})
    <3> DEFINE A == InSystem(pc)
               B == InSystem(pc')
               a == rc[SYS][k]
               b == rc'[SYS][k]
    <3>1. A \in SUBSET Callers /\ B \in SUBSET Callers BY Zenon DEF InSystem
    <3>2. \A q \in Callers \ {p} : q \in A <=> q \in B
      BY Zenon DEF InSystem, SpanStep
    <3>3. a <= SumOf(f, A) /\ (stopped = {} => a = SumOf(f, A))
      BY Zenon DEF AccountInv, Agrees, f
    <3>4. a \in Nat /\ b \in Nat BY <1>2, <2>1, Zenon
    <3>5. \/ p \notin A /\ p \notin B /\ b = a
          \/ p \in A /\ p \in B /\ Shift(a, b, f[p], e[p])
          \/ p \in A /\ p \notin B /\ f[p] = 0 /\ b = a
      BY <2>3, <2>4, Zenon DEF InSystem, Hung, SpanStep
    <3> HIDE DEF A, B, a, b
    <3>6. Moves(p, A, B, f, e, a, b) BY <2>3, <3>2, <3>5, Zenon DEF Moves
    <3>7. /\ b <= SumOf(e, B)
          /\ a = SumOf(f, A) => b = SumOf(e, B)
      BY <2>2, <3>1, <3>3, <3>4, <3>6, AccountStep
    <3> QED BY <3>3, <3>7, Zenon DEF Agrees, B, b
  <2> QED BY <2>4, <2>5, <2>6, Zenon DEF e
<1> QED BY <1>3, <1>4, Zenon DEF AccountInv

\* The counters before and after a step, by kind.
LEMMA CounterValues ==
  ASSUME RefInv, NEW s \in Scopes, NEW k \in Kinds
  PROVE  rc[s][k] \in Nat /\ rc[s] \in Counters
BY Zenon DEF RefInv, LimitInv, Counters

\* Sums and differences, by kind.
LEMMA Arithmetic ==
  ASSUME NEW a \in Counters, NEW d \in Counters, NEW k \in Kinds
  PROVE  /\ a[k] \in Nat /\ d[k] \in Nat
         /\ Plus(a, d)[k] = a[k] + d[k]
         /\ Minus(a, d)[k] = IF a[k] < d[k] THEN 0 ELSE a[k] - d[k]
BY Zenon DEF Plus, Minus, Counters

\* What is charged to all scopes of a chain.
LEMMA ChainPlusStep ==
  ASSUME NEW K \in SUBSET Kinds, AccountInv(K), NEW p \in Callers, NEW d \in Counters,
         d["connsOut"] <= d["fd"],
         rc' = [s \in Scopes |-> IF s \in Chain(p) THEN Plus(rc[s], d) ELSE rc[s]],
         pc[p] \notin Hung, pc'[p] = "reserved", st' = st, stopped' = stopped,
         \A q \in Callers \ {p} : pc'[q] = pc[q]
  PROVE  SpanStep(p, K)
<1>1. Owner[p] \in Services /\ {p, Owner[p], SYS} \subseteq Scopes /\ Chain(p) = {p, Owner[p], SYS}
  BY ChainOfThree, Zenon DEF Chain
<1>2. /\ rc'[p] = Plus(rc[p], d) /\ rc'[Owner[p]] = Plus(rc[Owner[p]], d)
      /\ rc'[SYS] = Plus(rc[SYS], d)
  BY <1>1, Zenon
<1>3. /\ \A q \in Callers \ {p} : rc'[q] = rc[q]
      /\ \A s \in Services \ {Owner[p]} : rc'[s] = rc[s]
  BY <1>1, NamesAssumption, Zenon DEF Scopes
<1>4. rc[p] \in Counters /\ rc[Owner[p]] \in Counters /\ rc[SYS] \in Counters
  BY <1>1, Zenon DEF AccountInv, RefInv, LimitInv
<1>5. ASSUME NEW k \in Kinds, NEW s \in {Owner[p], SYS}
      PROVE  Shift(rc[s][k], rc'[s][k], rc[p][k], rc'[p][k])
  <2>1. rc[s][k] \in Nat /\ d[k] \in Nat /\ rc'[s][k] = rc[s][k] + d[k]
    BY <1>2, <1>4, Arithmetic
  <2>2. rc[p][k] \in Nat /\ rc'[p][k] = rc[p][k] + d[k]
    BY <1>2, <1>4, Arithmetic
  <2> QED BY <2>1, <2>2 DEF Shift
<1>6. rc'[p]["connsOut"] <= rc'[p]["fd"]
  <2>1. "connsOut" \in Kinds /\ "fd" \in Kinds BY Zenon DEF Kinds, Dirs
  <2>2. /\ rc[p]["connsOut"] \in Nat /\ rc[p]["fd"] \in Nat
        /\ d["connsOut"] \in Nat /\ d["fd"] \in Nat
        /\ rc'[p]["connsOut"] = rc[p]["connsOut"] + d["connsOut"]
        /\ rc'[p]["fd"] = rc[p]["fd"] + d["fd"]
    BY <1>2, <1>4, <2>1, Arithmetic
  <2>3. rc[p]["connsOut"] <= rc[p]["fd"] BY Zenon DEF AccountInv
  <2> QED BY <2>2, <2>3
<1>7. st[p]["connsOut"] <= st[p]["fd"] BY Zenon DEF AccountInv
<1>8. "reserved" \notin Quiet \cup Hung /\ "reserved" # "hungInSpan" BY Zenon DEF Quiet, Hung
<1> QED BY <1>3, <1>5, <1>6, <1>7, <1>8, Zenon DEF SpanStep

\* What the span counts and gives back in all scopes of a chain.
LEMMA ChainMinusStep ==
  ASSUME NEW K \in SUBSET Kinds, AccountInv(K), NEW p \in Callers, NEW d \in Counters,
         \A k \in Kinds : d[k] <= rc[p][k], d["fd"] <= d["connsOut"],
         rc' = [s \in Scopes |-> IF s \in Chain(p) THEN Minus(rc[s], d) ELSE rc[s]],
         pc[p] = "reserved", pc' = pc, st' = st, stopped' = stopped
  PROVE  SpanStep(p, K)
<1>1. Owner[p] \in Services /\ {p, Owner[p], SYS} \subseteq Scopes /\ Chain(p) = {p, Owner[p], SYS}
  BY ChainOfThree, Zenon DEF Chain
<1>2. /\ rc'[p] = Minus(rc[p], d) /\ rc'[Owner[p]] = Minus(rc[Owner[p]], d)
      /\ rc'[SYS] = Minus(rc[SYS], d)
  BY <1>1, Zenon
<1>3. /\ \A q \in Callers \ {p} : rc'[q] = rc[q]
      /\ \A s \in Services \ {Owner[p]} : rc'[s] = rc[s]
  BY <1>1, NamesAssumption, Zenon DEF Scopes
<1>4. rc[p] \in Counters /\ rc[Owner[p]] \in Counters /\ rc[SYS] \in Counters
  BY <1>1, Zenon DEF AccountInv, RefInv, LimitInv
<1>5. ASSUME NEW k \in Kinds
      PROVE  rc[p][k] \in Nat /\ d[k] \in Nat /\ rc'[p][k] = rc[p][k] - d[k]
  <2>1. rc[p][k] \in Nat /\ d[k] \in Nat /\ d[k] <= rc[p][k]
        /\ rc'[p][k] = IF rc[p][k] < d[k] THEN 0 ELSE rc[p][k] - d[k]
    BY <1>2, <1>4, Arithmetic
  <2> QED BY <2>1
<1>6. ASSUME NEW k \in Kinds, NEW s \in {Owner[p], SYS}
      PROVE  Shift(rc[s][k], rc'[s][k], rc[p][k], rc'[p][k])
  <2>1. rc[s][k] \in Nat /\ rc'[s][k] = IF rc[s][k] < d[k] THEN 0 ELSE rc[s][k] - d[k]
    BY <1>2, <1>4, Arithmetic
  <2>2. rc[p][k] \in Nat /\ d[k] \in Nat /\ rc'[p][k] = rc[p][k] - d[k] BY <1>5, Zenon
  <2> QED BY <2>1, <2>2 DEF Shift
<1>7. rc'[p]["connsOut"] <= rc'[p]["fd"]
  <2>1. "connsOut" \in Kinds /\ "fd" \in Kinds BY Zenon DEF Kinds, Dirs
  <2>2. /\ rc[p]["connsOut"] \in Nat /\ d["connsOut"] \in Nat
        /\ rc'[p]["connsOut"] = rc[p]["connsOut"] - d["connsOut"]
    BY <1>5, <2>1, Zenon
  <2>3. /\ rc[p]["fd"] \in Nat /\ d["fd"] \in Nat
        /\ rc'[p]["fd"] = rc[p]["fd"] - d["fd"]
    BY <1>5, <2>1, Zenon
  <2>4. rc[p]["connsOut"] <= rc[p]["fd"] BY Zenon DEF AccountInv
  <2> QED BY <2>2, <2>3, <2>4
<1>8. st[p]["connsOut"] <= st[p]["fd"] BY Zenon DEF AccountInv
<1>9. "reserved" \notin Quiet \cup Hung /\ "reserved" # "hungInSpan" BY Zenon DEF Quiet, Hung
<1> QED BY <1>3, <1>6, <1>7, <1>8, <1>9, Zenon DEF SpanStep

\* A caller whose span counts nothing, before and after the step.
LEMMA QuietStep ==
  ASSUME NEW K \in SUBSET Kinds, AccountInv(K), NEW p \in Callers,
         pc[p] \in Quiet, pc'[p] \in Quiet, stopped' = stopped,
         \A s \in Scopes : rc'[s] = rc[s] \/ (s = p /\ rc'[s] = Zero),
         st'[p]["connsOut"] <= st'[p]["fd"],
         \A q \in Callers \ {p} : pc'[q] = pc[q] /\ st'[q] = st[q]
  PROVE  SpanStep(p, K)
<1>1. Owner[p] \in Services /\ {p, Owner[p], SYS} \subseteq Scopes /\ p # Owner[p] /\ p # SYS
  BY ChainOfThree, Zenon
<1>2. rc[p] = Zero BY Zenon DEF AccountInv
<1>3. \A s \in Scopes : rc'[s] = rc[s] BY <1>2, Zenon
<1>4. /\ \A q \in Callers : rc'[q] = rc[q]
      /\ \A s \in Services : rc'[s] = rc[s]
      /\ rc'[SYS] = rc[SYS]
  BY <1>3, Zenon DEF Scopes
<1>5. ASSUME NEW k \in Kinds, NEW s \in {Owner[p], SYS}
      PROVE  Shift(rc[s][k], rc'[s][k], rc[p][k], rc'[p][k])
  <2>1. rc[s][k] \in Nat /\ rc[p][k] \in Nat BY <1>1, CounterValues, Zenon DEF AccountInv
  <2>2. rc'[s][k] = rc[s][k] /\ rc'[p][k] = rc[p][k] BY <1>1, <1>4, Zenon
  <2> QED BY <2>1, <2>2 DEF Shift
<1>6. Zero["connsOut"] <= Zero["fd"] BY DEF Zero, Kinds, Dirs
<1>7. Quiet \cap Hung = {} /\ "hungInSpan" \notin Quiet BY Zenon DEF Quiet, Hung
<1> QED BY <1>2, <1>4, <1>5, <1>6, <1>7, Zenon DEF SpanStep

\* No reservation under way would be refused for want of the low level alone.
LevelsTogether ==
  \A p \in Callers : pc[p] = "begun" =>
    \A s \in Chain(p) : ReserveUpToMedium(rc[s], Limit(s), st[p])
                          => ReserveLow(rc[s], Limit(s), st[p])

\* A scope that refuses a reservation counts what it counted; only of the medium level
\* may a refusal at the low level leave a rest.
LEMMA RefusedKeeps ==
  ASSUME NEW a \in Counters, NEW lim, NEW e \in Counters, ~Reserves(a, lim, e),
         NEW k \in Kinds,
         k = "medium" => (ReserveUpToMedium(a, lim, e) => ReserveLow(a, lim, e))
  PROVE  AfterReserve(a, lim, e)[k] = a[k]
<1>1. CASE ~ReserveUpToMedium(a, lim, e)
  BY <1>1, Zenon DEF AfterReserve
<1>2. CASE ReserveUpToMedium(a, lim, e)
  <2> DEFINE u == Units("medium", e["high"])
             v == Units("medium", e["medium"])
  <2>1. k # "medium" BY <1>2, Zenon DEF Reserves
  <2>2. "high" \in Kinds /\ "medium" \in Kinds BY Zenon DEF Kinds, Levels
  <2>3. u \in Counters /\ v \in Counters
    BY <2>2, CountersClosed, Zenon DEF Counters
  <2>4. u[k] = 0 /\ v[k] = 0 BY <2>1, Zenon DEF Units
  <2>5. AfterReserve(a, lim, e) = Minus(Plus(a, u), v)
    BY <1>2, Zenon DEF AfterReserve
  <2> HIDE DEF u, v
  <2>6. Plus(a, u) \in Counters /\ Plus(a, u)[k] = a[k] + 0 /\ a[k] \in Nat
    <3>1. Plus(a, u) \in Counters BY <2>3, CountersClosed, Zenon
    <3>2. Plus(a, u)[k] = a[k] + u[k] /\ a[k] \in Nat BY <2>3, Arithmetic, Zenon
    <3> QED BY <2>4, <3>1, <3>2, Zenon
  <2>7. Minus(Plus(a, u), v)[k] = IF a[k] + 0 < 0 THEN 0 ELSE a[k] + 0 - 0
    BY <2>3, <2>4, <2>6, Arithmetic
  <2> QED BY <2>5, <2>6, <2>7
<1> QED BY <1>1, <1>2, Zenon

\* A reservation that is made.
LEMMA ReservedIsCharged ==
  ASSUME NEW a, NEW lim, NEW e, Reserves(a, lim, e)
  PROVE  AfterReserve(a, lim, e) = Plus(a, Charge(e))
BY Zenon DEF AfterReserve

\* The charge of an estimate has a descriptor for every outbound connection.
LEMMA ChargeOK ==
  ASSUME NEW K \in SUBSET Kinds, AccountInv(K), NEW p \in Callers
  PROVE  /\ st[p] \in Counters /\ Charge(st[p]) \in Counters
         /\ Charge(st[p])["connsOut"] <= Charge(st[p])["fd"]
<1>1. st[p] \in Counters /\ st[p]["connsOut"] <= st[p]["fd"]
  BY Zenon DEF AccountInv, RefInv, LimitInv
<1>2. Charge(st[p])["connsOut"] = st[p]["connsOut"] /\ Charge(st[p])["fd"] = st[p]["fd"]
  BY Zenon DEF Charge, Kinds, Levels, Dirs
<1> QED BY <1>1, <1>2, CountersClosed, Zenon

\* What a reservation that is let through by a scope adds to it and to the span.
LEMMA BothCharged ==
  ASSUME NEW a \in Counters, NEW c \in Counters, NEW d \in Counters, NEW k \in Kinds
  PROVE  Shift(a[k], Plus(a, d)[k], c[k], Plus(c, d)[k])
<1>1. a[k] \in Nat /\ d[k] \in Nat /\ Plus(a, d)[k] = a[k] + d[k] BY Arithmetic, Zenon
<1>2. c[k] \in Nat /\ Plus(c, d)[k] = c[k] + d[k] BY Arithmetic, Zenon
<1> QED BY <1>1, <1>2 DEF Shift

\* A refusal by the service or the system leaves the caller hanging.
LEMMA HangStep ==
  ASSUME NEW K \in SUBSET Kinds, AccountInv(K), NEW p \in Callers,
         "medium" \in K => LevelsTogether, pc[p] = "begun", stopped' = stopped,
         ReserveFailsInService(p) \/ ReserveFailsInSystem(p)
  PROVE  SpanStep(p, K)
<1> DEFINE o == Owner[p]
           e == st[p]
<1>1. o \in Services /\ {p, o, SYS} \subseteq Scopes /\ p # o /\ p # SYS /\ o # SYS
      /\ Chain(p) = {p, o, SYS}
  BY ChainOfThree, Zenon DEF Chain
<1>2. /\ rc \in [Scopes -> Counters] /\ pc \in [Callers -> Labels]
      /\ rc[p] \in Counters /\ rc[o] \in Counters /\ rc[SYS] \in Counters
  BY <1>1, Zenon DEF AccountInv, RefInv, LimitInv
<1>3. e \in Counters /\ Charge(e) \in Counters /\ Charge(e)["connsOut"] <= Charge(e)["fd"]
  BY ChargeOK, Zenon
<1>4. rc[p] = Zero /\ st' = st /\ st[p]["connsOut"] <= st[p]["fd"]
  BY Zenon DEF AccountInv, Quiet, ReserveFailsInService, ReserveFailsInSystem
<1>5. Reserves(rc[p], Limit(p), e)
  BY Zenon DEF ReserveFailsInService, ReserveFailsInSystem
<1>6. rc'[p] = Plus(rc[p], Charge(e))
  <2>1. rc'[p] = AfterReserve(rc[p], Limit(p), e)
    BY <1>1, <1>2, Zenon DEF ReserveFailsInService, ReserveFailsInSystem
  <2> QED BY <1>5, <2>1, ReservedIsCharged, Zenon
<1>7. /\ \A q \in Callers \ {p} : rc'[q] = rc[q]
      /\ \A s \in Services \ {o} : rc'[s] = rc[s]
      /\ \A q \in Callers \ {p} : pc'[q] = pc[q]
  <2>1. /\ \A s \in Scopes \ {p, o, SYS} : rc'[s] = rc[s]
        /\ \A q \in Callers \ {p} : pc'[q] = pc[q]
    BY <1>1, <1>2, Zenon DEF ReserveFailsInService, ReserveFailsInSystem, Goto
  <2>2. /\ Callers \ {p} \subseteq Scopes \ {p, o, SYS}
        /\ Services \ {o} \subseteq Scopes \ {p, o, SYS}
    BY <1>1, NamesAssumption, Zenon DEF Scopes
  <2> QED BY <2>1, <2>2, Zenon
<1>8. rc'[p]["connsOut"] <= rc'[p]["fd"]
  <2>1. "connsOut" \in Kinds /\ "fd" \in Kinds BY Zenon DEF Kinds, Dirs
  <2>2. /\ Charge(e)["connsOut"] \in Nat /\ Charge(e)["fd"] \in Nat
        /\ rc'[p]["connsOut"] = rc[p]["connsOut"] + Charge(e)["connsOut"]
        /\ rc'[p]["fd"] = rc[p]["fd"] + Charge(e)["fd"]
    <3> HIDE DEF e
    <3> QED BY <1>2, <1>3, <1>6, <2>1, Arithmetic
  <2>3. rc[p]["connsOut"] = 0 /\ rc[p]["fd"] = 0 BY <1>4, <2>1, Zenon DEF Zero
  <2> QED BY <1>3, <2>2, <2>3
<1>9. ASSUME NEW s \in {o, SYS}, ~Reserves(rc[s], Limit(s), e), NEW k \in K
      PROVE  AfterReserve(rc[s], Limit(s), e)[k] = rc[s][k] /\ rc[p][k] = 0
  <2>1. k = "medium" => (ReserveUpToMedium(rc[s], Limit(s), e) => ReserveLow(rc[s], Limit(s), e))
    BY <1>1, Zenon DEF LevelsTogether
  <2>2. rc[p][k] = 0 BY <1>4, Zenon DEF Zero
  <2> QED BY <1>2, <1>3, <1>9, <2>1, <2>2, RefusedKeeps
<1>10. CASE ReserveFailsInService(p)
  <2>1. pc'[p] = "hungInSpan" BY <1>2, <1>10, Zenon DEF ReserveFailsInService, Goto
  <2>2. rc'[o] = AfterReserve(rc[o], Limit(o), e) /\ rc'[SYS] = rc[SYS]
        /\ ~Reserves(rc[o], Limit(o), e)
    BY <1>1, <1>2, <1>10, Zenon DEF ReserveFailsInService
  <2> HIDE DEF o, e
  <2>3. \A k \in K : rc[p][k] = 0 /\ rc'[o][k] = rc[o][k] /\ rc'[SYS][k] = rc[SYS][k]
    BY <1>9, <2>2, Zenon
  <2>4. pc[p] \notin Hung /\ "hungInSpan" \notin Quiet /\ "hungInSpan" \in Hung BY Zenon DEF Hung, Quiet
  <2> QED BY <1>4, <1>7, <1>8, <2>1, <2>3, <2>4, Zenon DEF SpanStep, o
<1>11. CASE ReserveFailsInSystem(p)
  <2>1. pc'[p] = "hungInService" BY <1>2, <1>11, Zenon DEF ReserveFailsInSystem, Goto
  <2>2. /\ rc'[SYS] = AfterReserve(rc[SYS], Limit(SYS), e)
        /\ ~Reserves(rc[SYS], Limit(SYS), e)
        /\ rc'[o] = AfterReserve(rc[o], Limit(o), e)
        /\ Reserves(rc[o], Limit(o), e)
    BY <1>1, <1>2, <1>11, Zenon DEF ReserveFailsInSystem
  <2> HIDE DEF o, e
  <2>3. \A k \in K : rc[p][k] = 0 /\ rc'[SYS][k] = rc[SYS][k]
    BY <1>9, <2>2, Zenon
  <2>4. rc'[o] = Plus(rc[o], Charge(e)) BY <2>2, ReservedIsCharged, Zenon
  <2>5. \A k \in K : Shift(rc[o][k], rc'[o][k], rc[p][k], rc'[p][k])
    BY <1>2, <1>3, <1>6, <2>4, BothCharged, Zenon
  <2>6. /\ pc[p] \notin Hung /\ "hungInService" \notin Quiet /\ "hungInService" \in Hung
        /\ "hungInService" # "hungInSpan"
    BY Zenon DEF Hung, Quiet
  <2> QED BY <1>4, <1>7, <1>8, <2>1, <2>3, <2>5, <2>6, Zenon DEF SpanStep, o
<1> QED BY <1>10, <1>11, Zenon

\* ReserveResources, in each of its four outcomes.
LEMMA ReserveStep ==
  ASSUME NEW K \in SUBSET Kinds, AccountInv(K), NEW p \in Callers,
         "medium" \in K => LevelsTogether, ReserveResources(p), stopped' = stopped
  PROVE  SpanStep(p, K)
<1>1. pc[p] = "begun" /\ pc[p] \in Quiet /\ pc[p] \notin Hung /\ pc \in [Callers -> Labels]
      /\ rc \in [Scopes -> Counters] /\ st \in [Callers -> Counters]
  BY Zenon DEF ReserveResources, Quiet, Hung, AccountInv, RefInv, LimitInv
<1>2. CASE ReserveFailsInSpan(p)
  <2>1. /\ rc' = [rc EXCEPT ![p] = Zero] /\ st' = [st EXCEPT ![p] = Zero]
        /\ pc' = [pc EXCEPT ![p] = "idle"]
    BY <1>2, Zenon DEF ReserveFailsInSpan, Goto
  <2>2. \A s \in Scopes : rc'[s] = rc[s] \/ (s = p /\ rc'[s] = Zero)
    BY <1>1, <2>1, Zenon
  <2>3. pc'[p] \in Quiet /\ \A q \in Callers \ {p} : pc'[q] = pc[q] /\ st'[q] = st[q]
    BY <1>1, <2>1, Zenon DEF Quiet
  <2>4. st'[p]["connsOut"] <= st'[p]["fd"]
    <3>1. st'[p] = Zero BY <1>1, <2>1, Zenon
    <3> QED BY <3>1 DEF Zero, Kinds, Dirs
  <2> QED BY <1>1, <2>2, <2>3, <2>4, QuietStep, Zenon
<1>3. CASE ReserveFailsInService(p) \/ ReserveFailsInSystem(p)
  BY <1>1, <1>3, HangStep, Zenon
<1>4. CASE ReserveSucceeds(p)
  <2> DEFINE d == Charge(st[p])
  <2>1. /\ \A s \in Chain(p) : Reserves(rc[s], Limit(s), st[p])
        /\ rc' = [s \in Scopes |-> IF s \in Chain(p) THEN AfterReserve(rc[s], Limit(s), st[p])
                                                     ELSE rc[s]]
        /\ pc' = [pc EXCEPT ![p] = "reserved"] /\ st' = st
    BY <1>4, Zenon DEF ReserveSucceeds, Goto
  <2>2. \A s \in Chain(p) : AfterReserve(rc[s], Limit(s), st[p]) = Plus(rc[s], d)
    BY <2>1, ReservedIsCharged, Zenon
  <2>3. rc' = [s \in Scopes |-> IF s \in Chain(p) THEN Plus(rc[s], d) ELSE rc[s]]
    BY <2>1, <2>2, Zenon
  <2>4. pc'[p] = "reserved" /\ \A q \in Callers \ {p} : pc'[q] = pc[q]
    BY <1>1, <2>1, Zenon
  <2>5. d \in Counters /\ d["connsOut"] <= d["fd"] BY ChargeOK, Zenon
  <2> HIDE DEF d
  <2> QED BY <1>1, <2>1, <2>3, <2>4, <2>5, ChainPlusStep, Zenon
<1> QED BY <1>2, <1>3, <1>4, Zenon DEF ReserveResources

\* Done gives back what the span counts, at the service and at the system.
LEMMA DoneStep ==
  ASSUME NEW K \in SUBSET Kinds, AccountInv(K), NEW p \in Callers, Done(p), stopped' = stopped
  PROVE  SpanStep(p, K)
<1> DEFINE o == Owner[p]
<1>1. o \in Services /\ {p, o, SYS} \subseteq Scopes /\ p # o /\ p # SYS /\ o # SYS
  BY ChainOfThree, Zenon
<1>2. /\ rc \in [Scopes -> Counters] /\ pc \in [Callers -> Labels] /\ st \in [Callers -> Counters]
      /\ rc[p] \in Counters /\ rc[o] \in Counters /\ rc[SYS] \in Counters
  BY <1>1, Zenon DEF AccountInv, RefInv, LimitInv
<1>3. /\ rc' = [rc EXCEPT ![o] = Minus(@, rc[p]), ![SYS] = Minus(@, rc[p]), ![p] = Zero]
      /\ st' = [st EXCEPT ![p] = Zero] /\ pc' = [pc EXCEPT ![p] = "ending"]
      /\ pc[p] = "reserved"
  BY Zenon DEF Done, Goto
<1>4. rc'[p] = Zero /\ rc'[o] = Minus(rc[o], rc[p]) /\ rc'[SYS] = Minus(rc[SYS], rc[p])
  BY <1>1, <1>2, <1>3, Zenon
<1>5. /\ \A q \in Callers \ {p} : rc'[q] = rc[q] /\ pc'[q] = pc[q] /\ st'[q] = st[q]
      /\ \A s \in Services \ {o} : rc'[s] = rc[s]
      /\ pc'[p] = "ending" /\ st'[p] = Zero
  BY <1>1, <1>2, <1>3, NamesAssumption, Zenon DEF Scopes
<1>6. ASSUME NEW k \in K, NEW s \in {o, SYS}
      PROVE  Shift(rc[s][k], rc'[s][k], rc[p][k], rc'[p][k])
  <2>1. /\ rc[s][k] \in Nat /\ rc[p][k] \in Nat
        /\ rc'[s][k] = IF rc[s][k] < rc[p][k] THEN 0 ELSE rc[s][k] - rc[p][k]
    <3>1. rc[s] \in Counters /\ rc[p] \in Counters /\ rc'[s] = Minus(rc[s], rc[p])
      BY <1>2, <1>4, Zenon
    <3> QED BY <3>1, Arithmetic
  <2>2. rc'[p][k] = 0 BY <1>4, Zenon DEF Zero
  <2> QED BY <2>1, <2>2 DEF Shift
<1>7. Zero["connsOut"] <= Zero["fd"] BY DEF Zero, Kinds, Dirs
<1>8. "reserved" \notin Hung /\ "ending" \notin Hung /\ "ending" # "hungInSpan" BY Zenon DEF Hung
<1> HIDE DEF o
<1> QED BY <1>3, <1>4, <1>5, <1>6, <1>7, <1>8, Zenon DEF SpanStep, o

\* An outbound connection that is counted, or counted and taken back.
LEMMA OutboundUndone ==
  ASSUME NEW a \in Counters
  PROVE  removeConn(Plus(a, ConnOf("connsOut")), "connsOut") = a
<1> DEFINE d == ConnOf("connsOut")
           b == Minus(Plus(a, d), d)
<1>1. d \in Counters BY CountersClosed, Zenon DEF Dirs
<1>2. removeConn(Plus(a, d), "connsOut") = b BY Zenon DEF removeConn
<1>3. Plus(a, d) \in Counters /\ b \in Counters BY <1>1, CountersClosed, Zenon
<1> HIDE DEF d
<1>4. ASSUME NEW k \in Kinds PROVE b[k] = a[k]
  <2>1. a[k] \in Nat /\ d[k] \in Nat /\ Plus(a, d)[k] = a[k] + d[k]
    BY <1>1, Arithmetic, Zenon
  <2>2. b[k] = IF Plus(a, d)[k] < d[k] THEN 0 ELSE Plus(a, d)[k] - d[k]
    BY <1>1, <1>3, Arithmetic, Zenon
  <2> QED BY <2>1, <2>2
<1> HIDE DEF b
<1>5. a = b BY <1>3, <1>4 DEF Counters
<1> QED BY <1>2, <1>5, Zenon DEF d

LEMMA OutboundStep ==
  ASSUME NEW K \in SUBSET Kinds, AccountInv(K), NEW p \in Callers, stopped' = stopped,
         AddConn(p, "connsOut") \/ RemoveConn(p, "connsOut")
  PROVE  SpanStep(p, K) \/ UNCHANGED vars
<1> DEFINE d == ConnOf("connsOut")
           o == Owner[p]
<1>1. o \in Services /\ {p, o, SYS} \subseteq Scopes /\ Chain(p) = {p, o, SYS}
  BY ChainOfThree, Zenon DEF Chain
<1>2. /\ rc \in [Scopes -> Counters]
      /\ rc[p] \in Counters /\ rc[o] \in Counters /\ rc[SYS] \in Counters
  BY <1>1, Zenon DEF AccountInv, RefInv, LimitInv
<1>3. pc[p] = "reserved" /\ pc[p] \notin Hung /\ UNCHANGED <<refCnt, pc, hint, st, held>>
  BY Zenon DEF AddConn, RemoveConn, InSpan, Hung
<1>4. d \in Counters /\ d["connsOut"] = 1 /\ d["fd"] = 1
      /\ \A k \in Kinds \ {"connsOut", "fd"} : d[k] = 0
  BY CountersClosed, Zenon DEF Dirs, ConnOf, Kinds
<1>5. CASE AddConn(p, "connsOut")
  <2>1. \/ rc' = rc
        \/ rc' = [rc EXCEPT ![p] = removeConn(Plus(rc[p], d), "connsOut")]
        \/ rc' = [rc EXCEPT ![p] = removeConn(Plus(rc[p], d), "connsOut"),
                            ![o] = removeConn(Plus(rc[o], d), "connsOut")]
        \/ rc' = [x \in Scopes |-> IF x \in Chain(p) THEN Plus(rc[x], d) ELSE rc[x]]
    BY <1>5, Zenon DEF AddConn
  <2>2. /\ removeConn(Plus(rc[p], d), "connsOut") = rc[p]
        /\ removeConn(Plus(rc[o], d), "connsOut") = rc[o]
    BY <1>2, OutboundUndone, Zenon
  <2> HIDE DEF d
  <2>3. rc' = rc \/ rc' = [x \in Scopes |-> IF x \in Chain(p) THEN Plus(rc[x], d) ELSE rc[x]]
    BY <1>1, <1>2, <2>1, <2>2
  <2>4. d["connsOut"] <= d["fd"] BY <1>4
  <2> QED BY <1>3, <1>4, <2>3, <2>4, ChainPlusStep, Zenon DEF vars
<1>6. CASE RemoveConn(p, "connsOut")
  <2>1. rc[p]["connsOut"] > 0
        /\ rc' = [s \in Scopes |-> IF s \in Chain(p) THEN removeConn(rc[s], "connsOut") ELSE rc[s]]
    BY <1>6, Zenon DEF RemoveConn
  <2>2. \A s \in Scopes : removeConn(rc[s], "connsOut") = Minus(rc[s], d)
    BY Zenon DEF removeConn
  <2> HIDE DEF d
  <2>3. rc' = [s \in Scopes |-> IF s \in Chain(p) THEN Minus(rc[s], d) ELSE rc[s]]
    BY <2>1, <2>2, Zenon
  <2>4. \A k \in Kinds : d[k] <= rc[p][k]
    <3>1. "connsOut" \in Kinds /\ "fd" \in Kinds BY Zenon DEF Kinds, Dirs
    <3>2. \A k \in Kinds : rc[p][k] \in Nat BY <1>2, Zenon DEF Counters
    <3>3. rc[p]["connsOut"] <= rc[p]["fd"] BY Zenon DEF AccountInv
    <3>4. rc[p]["connsOut"] >= 1 /\ rc[p]["fd"] >= 1 BY <2>1, <3>1, <3>2, <3>3
    <3> QED BY <1>4, <3>2, <3>4
  <2>5. d["fd"] <= d["connsOut"] BY <1>4
  <2> QED BY <1>3, <1>4, <2>3, <2>4, <2>5, ChainMinusStep, Zenon
<1> QED BY <1>5, <1>6, Zenon

\* A single kind of resource, taken or given back within the span.
LEMMA UnitsStep ==
  ASSUME NEW K \in SUBSET Kinds, AccountInv(K), NEW p \in Callers, stopped' = stopped,
         NEW kind \in Kinds \ Dirs, kind # "fd", NEW n \in Nat, InSpan(p),
         \/ \E ok \in BOOLEAN : AllOrNone(p, ok, Units(kind, n))
         \/ n <= rc[p][kind] /\ GiveBack(p, Units(kind, n))
  PROVE  SpanStep(p, K) \/ UNCHANGED vars
<1> DEFINE d == Units(kind, n)
<1>1. pc[p] = "reserved" /\ pc[p] \notin Hung /\ UNCHANGED <<refCnt, pc, hint, st, held>>
  BY Zenon DEF InSpan, Hung
<1>2. d \in Counters BY CountersClosed, Zenon
<1>3. \A k \in Kinds : d[k] = IF k = kind THEN n ELSE 0 BY UnitsAt, Zenon
<1>4. "connsOut" \in Kinds /\ "fd" \in Kinds /\ kind # "connsOut" BY Zenon DEF Kinds, Dirs
<1>5. d["connsOut"] = 0 /\ d["fd"] = 0 BY <1>3, <1>4, Zenon
<1>6. d["connsOut"] <= d["fd"] /\ d["fd"] <= d["connsOut"] BY <1>5
<1> HIDE DEF d
<1>7. CASE \E ok \in BOOLEAN : AllOrNone(p, ok, d)
  <2>1. \/ rc' = rc
        \/ rc' = [s \in Scopes |-> IF s \in Chain(p) THEN Plus(rc[s], d) ELSE rc[s]]
    BY <1>7, Zenon DEF AllOrNone
  <2> QED BY <1>1, <1>2, <1>6, <2>1, ChainPlusStep, Zenon DEF vars
<1>8. CASE n <= rc[p][kind] /\ GiveBack(p, d)
  <2>1. rc' = [s \in Scopes |-> IF s \in Chain(p) THEN Minus(rc[s], d) ELSE rc[s]]
    BY <1>8, Zenon DEF GiveBack
  <2>2. \A k \in Kinds : rc[p][k] \in Nat
    <3>1. p \in Scopes /\ RefInv BY ChainOfThree, Zenon DEF AccountInv
    <3> QED BY <3>1, CounterValues, Zenon
  <2>3. \A k \in Kinds : d[k] <= rc[p][k] BY <1>3, <1>8, <2>2
  <2> QED BY <1>1, <1>2, <1>6, <2>1, <2>3, ChainMinusStep, Zenon
<1> QED BY <1>7, <1>8, Zenon DEF d

\* A step of a caller outside its span.
LEMMA OutsideStep ==
  ASSUME NEW K \in SUBSET Kinds, AccountInv(K), NEW p \in Callers, stopped' = stopped,
         \A e \in Stats : e["connsOut"] <= e["fd"],
         \/ RemainingResource(p) \/ NoTask(p) \/ DecRef(p)
         \/ \E e \in Stats : BeginSpan(p, e)
  PROVE  SpanStep(p, K)
<1>1. /\ pc \in [Callers -> Labels] /\ rc \in [Scopes -> Counters] /\ st \in [Callers -> Counters]
      /\ p \in Scopes
  BY ChainOfThree, Zenon DEF AccountInv, RefInv, LimitInv
<1>2. CASE RemainingResource(p) \/ NoTask(p) \/ DecRef(p)
  <2>1. /\ rc' = rc /\ st' = st /\ pc[p] \in Quiet
        /\ \E l \in Quiet : pc' = [pc EXCEPT ![p] = l]
    BY <1>2, Zenon DEF RemainingResource, NoTask, DecRef, Goto, Quiet
  <2>2. pc'[p] \in Quiet /\ \A q \in Callers \ {p} : pc'[q] = pc[q] /\ st'[q] = st[q]
    BY <1>1, <2>1, Zenon
  <2>3. st'[p]["connsOut"] <= st'[p]["fd"] BY <2>1, Zenon DEF AccountInv
  <2> QED BY <2>1, <2>2, <2>3, QuietStep, Zenon
<1>3. CASE \E e \in Stats : BeginSpan(p, e)
  <2>1. PICK e \in Stats : BeginSpan(p, e) BY <1>3, Zenon
  <2>2. /\ rc' = [rc EXCEPT ![p] = Zero] /\ st' = [st EXCEPT ![p] = e]
        /\ pc' = [pc EXCEPT ![p] = "begun"] /\ pc[p] \in Quiet
    BY <2>1, Zenon DEF BeginSpan, Goto, Quiet
  <2>3. \A s \in Scopes : rc'[s] = rc[s] \/ (s = p /\ rc'[s] = Zero) BY <1>1, <2>2, Zenon
  <2>4. pc'[p] \in Quiet /\ \A q \in Callers \ {p} : pc'[q] = pc[q] /\ st'[q] = st[q]
    BY <1>1, <2>2, Zenon DEF Quiet
  <2>5. st'[p] = e /\ e["connsOut"] <= e["fd"] BY <1>1, <2>2, Zenon
  <2> QED BY <2>2, <2>3, <2>4, <2>5, QuietStep, Zenon
<1> QED BY <1>2, <1>3, Zenon

\* Release empties a service and takes what it counted from the system.
LEMMA ReleaseAccounts ==
  ASSUME NEW K \in SUBSET Kinds, AccountInv(K), RefInv', NEW x \in Services, Release(x)
  PROVE  AccountInv(K)'
<1>1. /\ rc' = [rc EXCEPT ![x] = Zero, ![SYS] = Minus(@, rc[x])]
      /\ pc' = pc /\ st' = st /\ stopped' = stopped \cup {x}
  BY Zenon DEF Release
<1>2. rc \in [Scopes -> Counters] BY Zenon DEF AccountInv, RefInv, LimitInv
<1>3. /\ Services \subseteq Scopes /\ Callers \subseteq Scopes /\ SYS \in Scopes
      /\ SYS \notin Services /\ Services \cap Callers = {} /\ SYS \notin Callers
  BY NamesAssumption, Zenon DEF Scopes
<1>4. /\ \A q \in Callers : rc'[q] = rc[q]
      /\ \A s \in Services \ {x} : rc'[s] = rc[s]
      /\ rc'[x] = Zero /\ rc'[SYS] = Minus(rc[SYS], rc[x])
  BY <1>1, <1>2, <1>3, Zenon
<1>5. ASSUME NEW k \in K
      PROVE  /\ \A s \in Services :
                  Agrees(rc'[s][k], SumOf(Column(rc', k), InService(pc', s)), s \notin stopped')
             /\ Agrees(rc'[SYS][k], SumOf(Column(rc', k), InSystem(pc')), stopped' = {})
  <2>1. Column(rc', k) = Column(rc, k) BY <1>4, Zenon DEF Column
  <2>2. /\ \A s \in Services :
             Agrees(rc[s][k], SumOf(Column(rc, k), InService(pc, s)), s \notin stopped)
        /\ Agrees(rc[SYS][k], SumOf(Column(rc, k), InSystem(pc)), stopped = {})
    BY Zenon DEF AccountInv
  <2>3. SumOf(Column(rc, k), InService(pc, x)) \in Nat
    <3>1. InService(pc, x) \subseteq Callers /\ IsFiniteSet(InService(pc, x))
      BY NamesAssumption, FS_Subset, Zenon DEF InService, Spans
    <3>2. \A q \in InService(pc, x) : Column(rc, k)[q] \in Nat
      BY <1>2, <1>3, <3>1, Zenon DEF Column, Counters
    <3> QED BY <3>1, <3>2, SumOfSame, Zenon
  <2>4. rc'[x][k] = 0 BY <1>4, Zenon DEF Zero
  <2>5. rc'[SYS][k] <= rc[SYS][k] /\ rc'[SYS][k] \in Nat /\ rc[SYS][k] \in Nat
    <3>1. rc[SYS] \in Counters /\ rc[x] \in Counters BY <1>2, <1>3, Zenon
    <3>2. /\ rc[SYS][k] \in Nat /\ rc[x][k] \in Nat
          /\ Minus(rc[SYS], rc[x])[k] = IF rc[SYS][k] < rc[x][k] THEN 0 ELSE rc[SYS][k] - rc[x][k]
      BY <3>1, Arithmetic, Zenon
    <3> QED BY <1>4, <3>2
  <2>6. SumOf(Column(rc, k), InSystem(pc)) \in Nat
    <3>1. InSystem(pc) \subseteq Callers /\ IsFiniteSet(InSystem(pc))
      BY NamesAssumption, FS_Subset, Zenon DEF InSystem
    <3>2. \A q \in InSystem(pc) : Column(rc, k)[q] \in Nat
      BY <1>2, <1>3, <3>1, Zenon DEF Column, Counters
    <3> QED BY <3>1, <3>2, SumOfSame, Zenon
  <2>7. ASSUME NEW s \in Services
        PROVE  Agrees(rc'[s][k], SumOf(Column(rc, k), InService(pc, s)), s \notin stopped')
    <3>1. CASE s = x BY <1>1, <2>3, <2>4, <3>1 DEF Agrees
    <3>2. CASE s # x
      <4>1. rc'[s] = rc[s] /\ (s \notin stopped' => s \notin stopped) BY <1>1, <1>4, <3>2, Zenon
      <4> QED BY <2>2, <4>1, Zenon DEF Agrees
    <3> QED BY <3>1, <3>2, Zenon
  <2>8. Agrees(rc'[SYS][k], SumOf(Column(rc, k), InSystem(pc)), stopped' = {})
    BY <1>1, <2>2, <2>5, <2>6 DEF Agrees
  <2> QED BY <1>1, <2>1, <2>7, <2>8, Zenon
<1>6. \A q \in Callers : /\ pc'[q] \in Quiet => rc'[q] = Zero
                         /\ rc'[q]["connsOut"] <= rc'[q]["fd"]
                         /\ st'[q]["connsOut"] <= st'[q]["fd"]
  BY <1>1, <1>4, Zenon DEF AccountInv
<1> QED BY <1>5, <1>6, Zenon DEF AccountInv

\* A step keeps the accounts of K.
LEMMA StepKeepsAccounts ==
  ASSUME NEW K \in SUBSET Kinds, AccountInv(K), [Next]_vars, "medium" \in K => LevelsTogether,
         ConnOps \subseteq {"connsOut"}, \A e \in Stats : e["connsOut"] <= e["fd"]
  PROVE  AccountInv(K)'
<1>0. RefInv' BY StepKeepsCounts, Zenon DEF AccountInv
<1>1. ASSUME NEW p \in Callers, SpanStep(p, K) PROVE AccountInv(K)'
  BY <1>0, <1>1, SpanStepKeeps, Zenon
<1>2. ASSUME UNCHANGED vars PROVE AccountInv(K)'
  <2>1. rc' = rc /\ pc' = pc /\ st' = st /\ stopped' = stopped BY <1>2, Zenon DEF vars
  <2>2. \A q \in Callers : /\ pc'[q] \in Quiet => rc'[q] = Zero
                           /\ rc'[q]["connsOut"] <= rc'[q]["fd"]
                           /\ st'[q]["connsOut"] <= st'[q]["fd"]
    BY <2>1, Zenon DEF AccountInv
  <2>3. \A k \in K :
          /\ \A s \in Services :
               Agrees(rc'[s][k], SumOf(Column(rc', k), InService(pc', s)), s \notin stopped')
          /\ Agrees(rc'[SYS][k], SumOf(Column(rc', k), InSystem(pc')), stopped' = {})
    BY <2>1, Zenon DEF AccountInv
  <2> QED BY <1>0, <2>2, <2>3, Zenon DEF AccountInv
<1>3. ASSUME NEW s \in Services, Release(s) PROVE AccountInv(K)'
  BY <1>0, <1>3, ReleaseAccounts, Zenon
<1>4. ASSUME NEW p \in Callers, stopped' = stopped,
             \/ RemainingResource(p) \/ NoTask(p) \/ DecRef(p)
             \/ \E e \in Stats : BeginSpan(p, e)
      PROVE  AccountInv(K)'
  BY <1>1, <1>4, OutsideStep, Zenon
<1>5. ASSUME NEW p \in Callers, stopped' = stopped, ReserveResources(p) PROVE AccountInv(K)'
  BY <1>1, <1>5, ReserveStep, Zenon
<1>6. ASSUME NEW p \in Callers, stopped' = stopped, Done(p) PROVE AccountInv(K)'
  BY <1>1, <1>6, DoneStep, Zenon
<1>7. ASSUME NEW p \in Callers, stopped' = stopped, NEW m \in MemoryOps,
             ReserveMemory(p, m[1], m[2]) \/ ReleaseMemory(p, m[1])
      PROVE  AccountInv(K)'
  <2>1. m[1] \in Nat /\ "memory" \in Kinds \ Dirs BY OpsAssumption, Zenon DEF Kinds, Dirs
  <2>2. /\ InSpan(p)
        /\ \/ \E ok \in BOOLEAN : AllOrNone(p, ok, Units("memory", m[1]))
           \/ m[1] <= rc[p]["memory"] /\ GiveBack(p, Units("memory", m[1]))
    <3>1. CASE ReserveMemory(p, m[1], m[2])
      <4> DEFINE ok == \A s \in Chain(p) : checkMemory(rc[s], Limit(s), m[1], m[2])
      <4>1. InSpan(p) /\ AllOrNone(p, ok, Units("memory", m[1])) BY <3>1, Zenon DEF ReserveMemory
      <4>2. ok \in BOOLEAN BY Zenon
      <4> HIDE DEF ok
      <4> QED BY <4>1, <4>2, Zenon
    <3>2. CASE ReleaseMemory(p, m[1])
      <4>1. p \in Scopes /\ RefInv BY ChainOfThree, Zenon DEF AccountInv
      <4>2. rc[p]["memory"] \in Nat BY <2>1, <4>1, CounterValues, Zenon
      <4> QED BY <2>1, <3>2, <4>2, Zenon DEF ReleaseMemory
    <3> QED BY <1>7, <3>1, <3>2, Zenon
  <2> QED BY <1>1, <1>2, <1>7, <2>1, <2>2, UnitsStep, Zenon
<1>8. ASSUME NEW p \in Callers, stopped' = stopped, NEW l \in TaskOps,
             AddTask(p, l) \/ RemoveTask(p, l)
      PROVE  AccountInv(K)'
  <2>1. l \in Kinds \ Dirs /\ l # "fd" BY OpsAssumption, Zenon DEF Kinds, Dirs, Levels
  <2>2. /\ InSpan(p)
        /\ \/ \E ok \in BOOLEAN : AllOrNone(p, ok, Units(l, 1))
           \/ 1 <= rc[p][l] /\ GiveBack(p, Units(l, 1))
    <3>1. CASE AddTask(p, l)
      <4> DEFINE ok == \A s \in Chain(p) : addTasks(rc[s], Limit(s), 1, l)
      <4>1. InSpan(p) /\ AllOrNone(p, ok, Units(l, 1)) BY <3>1, Zenon DEF AddTask
      <4>2. ok \in BOOLEAN BY Zenon
      <4> HIDE DEF ok
      <4> QED BY <4>1, <4>2, Zenon
    <3>2. CASE RemoveTask(p, l)
      <4>1. p \in Scopes /\ RefInv BY ChainOfThree, Zenon DEF AccountInv
      <4>2. rc[p][l] \in Nat BY <2>1, <4>1, CounterValues, Zenon
      <4> QED BY <3>2, <4>2 DEF RemoveTask
    <3> QED BY <1>8, <3>1, <3>2, Zenon
  <2> QED BY <1>1, <1>2, <1>8, <2>1, <2>2, UnitsStep, Zenon
<1>9. ASSUME NEW p \in Callers, stopped' = stopped, NEW d \in ConnOps,
             AddConn(p, d) \/ RemoveConn(p, d)
      PROVE  AccountInv(K)'
  <2>1. d = "connsOut" BY Zenon
  <2> QED BY <1>1, <1>2, <1>9, <2>1, OutboundStep, Zenon
<1> QED BY <1>2, <1>3, <1>4, <1>5, <1>6, <1>7, <1>8, <1>9, Zenon DEF Next, Operate

\* The sum of nothing but zeros.
LEMMA SumOfZeros ==
  ASSUME NEW S, IsFiniteSet(S), NEW f, \A x \in S : f[x] = 0
  PROVE  SumOf(f, S) = 0
<1> DEFINE N == {n \in Nat : \E T \in SUBSET S : Cardinality(T) = n /\ SumOf(f, T) # 0}
<1>1. ASSUME N # {} PROVE FALSE
  <2>1. N \in SUBSET Nat BY Zenon
  <2>2. \E n \in N : \A i \in N : n <= i BY <1>1, <2>1, LeastNumber, Zenon
  <2>3. PICK n \in N : \A i \in N : n <= i BY <2>2, Zenon
  <2>4. PICK T \in SUBSET S : Cardinality(T) = n /\ SumOf(f, T) # 0 BY <2>3, Zenon
  <2>5. n \in Nat BY <2>3, Zenon
  <2> HIDE DEF N
  <2>6. IsFiniteSet(T) BY FS_Subset, Zenon
  <2>7. T # {} BY <2>4, SumOfNone, Zenon
  <2>8. PICK x \in T : TRUE BY <2>7, Zenon
  <2>9. /\ Cardinality(T \ {x}) = n - 1 /\ Cardinality(T \ {x}) \in Nat
    BY <2>4, <2>6, OneLess, Zenon
  <2>10. SumOf(f, T) = f[x] + SumOf(f, T \ {x}) /\ SumOf(f, T \ {x}) \in Nat
    <3>1. \A y \in T : f[y] \in Nat OBVIOUS
    <3> QED BY <2>6, <3>1, SumOfRemove, Zenon
  <2>11. SumOf(f, T \ {x}) # 0
    <3>1. f[x] = 0 BY Zenon
    <3> QED BY <2>4, <2>10, <3>1
  <2>12. Cardinality(T \ {x}) \in N
    <3>1. T \ {x} \in SUBSET S BY Zenon
    <3> QED BY <2>9, <2>11, <3>1, Zenon DEF N
  <2> QED BY <2>3, <2>5, <2>9, <2>12
<1>2. Cardinality(S) \in Nat BY FS_CardinalityType, Zenon
<1> QED BY <1>1, <1>2, Zenon

LEMMA InitAccounts ==
  ASSUME NEW K \in SUBSET Kinds, NewResourceManager
  PROVE  AccountInv(K)
<1>1. RefInv BY InitCounts, Zenon
<1>2. /\ \A s \in Scopes : rc[s] = Zero
      /\ \A q \in Callers : st[q] = Zero
      /\ stopped = {}
  BY Zenon DEF NewResourceManager
<1>3. Services \subseteq Scopes /\ Callers \subseteq Scopes /\ SYS \in Scopes BY Zenon DEF Scopes
<1>4. Zero["connsOut"] <= Zero["fd"] BY DEF Zero, Kinds, Dirs
<1>5. ASSUME NEW k \in K, NEW S \in SUBSET Callers PROVE SumOf(Column(rc, k), S) = 0
  <2>1. IsFiniteSet(S) BY NamesAssumption, FS_Subset, Zenon
  <2>2. \A q \in S : Column(rc, k)[q] = 0 BY <1>2, <1>3, Zenon DEF Column, Zero
  <2> QED BY <2>1, <2>2, SumOfZeros, Zenon
<1>6. InSystem(pc) \in SUBSET Callers /\ \A s : InService(pc, s) \in SUBSET Callers
  BY Zenon DEF InSystem, InService, Spans
<1>7. \A k \in K : \A s \in Scopes : rc[s][k] = 0 BY <1>2, Zenon DEF Zero
<1>8. \A k \in K :
        /\ \A s \in Services :
             Agrees(rc[s][k], SumOf(Column(rc, k), InService(pc, s)), s \notin stopped)
        /\ Agrees(rc[SYS][k], SumOf(Column(rc, k), InSystem(pc)), stopped = {})
  BY <1>3, <1>5, <1>6, <1>7 DEF Agrees
<1> QED BY <1>1, <1>2, <1>3, <1>4, <1>8, Zenon DEF AccountInv

\* The sum that Conservation speaks of is the running sum of the column.
LEMMA SumIsRunning ==
  ASSUME NEW k \in Kinds, rc \in [Scopes -> Counters], NEW S \in SUBSET Callers
  PROVE  Sum(S, k) = SumOf(Column(rc, k), S)
<1> DEFINE F(g) == [T \in SUBSET S |-> IF T = {} THEN 0 ELSE rc[Pick(T)][k] + g[T \ {Pick(T)}]]
           h == CHOOSE g : g = F(g)
           f == [x \in S |-> rc[x][k]]
<1>1. Sum(S, k) = h[S] BY Zenon DEF Sum, MapThenSumSet, MapThenFoldSet, Pick
<1>2. IsFiniteSet(S) BY NamesAssumption, FS_Subset, Zenon
<1>3. f \in [S -> Nat] /\ \A x \in S : f[x] = Column(rc, k)[x] /\ f[x] \in Nat
  BY Zenon DEF Column, Counters, Scopes
<1>4. PICK g \in [SUBSET S -> Nat] : IsRunning(f, g, S) /\ SumOf(f, S) = g[S]
  BY <1>2, <1>3, SumsExist, Zenon
<1>5. \A T \in SUBSET S : T # {} => Pick(T) \in S /\ f[Pick(T)] = rc[Pick(T)][k]
  BY PickIn, Zenon
<1>6. g = F(g)
  BY <1>4, <1>5, Zenon DEF IsRunning, RunningSum
<1>7. h = F(h) BY <1>6, Zenon
<1> HIDE DEF h
<1>8. IsRunning(f, h, S) BY <1>5, <1>7, Zenon DEF IsRunning, RunningSum
<1>9. h[S] = g[S]
  <2>1. \A x \in S : f[x] = f[x] BY Zenon
  <2>2. S \in SUBSET S BY Zenon
  <2> HIDE DEF f
  <2> QED BY <1>2, <1>4, <1>8, <2>1, <2>2, SumsAgree
<1>10. SumOf(f, S) = SumOf(Column(rc, k), S) BY <1>2, <1>3, SumOfSame, Zenon
<1> QED BY <1>1, <1>4, <1>9, <1>10, Zenon

\* The accounts of the invariant are those of the property.
LEMMA AccountsGive ==
  ASSUME NEW K \in SUBSET Kinds, AccountInv(K), NEW k \in K
  PROVE  AccountsAgree(k)
<1>1. rc \in [Scopes -> Counters] BY Zenon DEF AccountInv, RefInv, LimitInv
<1>2. InSystem(pc) \in SUBSET Callers /\ \A s : InService(pc, s) \in SUBSET Callers
  BY Zenon DEF InSystem, InService, Spans
<1>3. /\ Sum(InSystem(pc), k) = SumOf(Column(rc, k), InSystem(pc))
      /\ \A s \in Services : Sum(InService(pc, s), k) = SumOf(Column(rc, k), InService(pc, s))
  BY <1>1, <1>2, SumIsRunning, Zenon
<1>4. ASSUME NEW s \in Services
      PROVE  rc[s][k] <= Sum(InService(pc, s), k)
             /\ (s \notin stopped => rc[s][k] = Sum(InService(pc, s), k))
  BY <1>3, Zenon DEF AccountInv, Agrees
<1>5. rc[SYS][k] <= Sum(InSystem(pc), k) /\ (stopped = {} => rc[SYS][k] = Sum(InSystem(pc), k))
  BY <1>3, Zenon DEF AccountInv, Agrees
<1> QED BY <1>4, <1>5, Zenon DEF AccountsAgree, InSystem, InService

\* Whatever is refused, undone and given back, and in whatever order: every service counts
\* exactly what its spans have reserved of a kind, and the system what all spans have, but
\* for the tasks of the medium level.  The connections are outbound ones, and a task that
\* asks for connections asks for their descriptors too.
THEOREM AllButMediumConserved ==
  ASSUME ConnOps \subseteq {"connsOut"}, \A e \in Stats : e["connsOut"] <= e["fd"]
  PROVE  Spec => [](\A k \in Kinds \ {"medium"} : AccountsAgree(k))
<1> DEFINE K == Kinds \ {"medium"}
<1>1. NewResourceManager => AccountInv(K) BY InitAccounts, Zenon
<1>2. AccountInv(K) /\ [Next]_vars => AccountInv(K)' BY StepKeepsAccounts, Zenon
<1>3. AccountInv(K) => \A k \in K : AccountsAgree(k) BY AccountsGive, Zenon
<1> QED BY <1>1, <1>2, <1>3, PTL DEF Spec

\* The same of every kind, as long as no reservation is refused for want of the low level
\* alone: reserveResources then takes the medium level back by the count of another level
\* than the one it had added.
THEOREM Conserved ==
  ASSUME ConnOps \subseteq {"connsOut"}, \A e \in Stats : e["connsOut"] <= e["fd"]
  PROVE  Spec /\ []LevelsTogether => []Conservation
<1>1. NewResourceManager => AccountInv(Kinds) BY InitAccounts, Zenon
<1>2. AccountInv(Kinds) /\ LevelsTogether /\ [Next]_vars => AccountInv(Kinds)'
  BY StepKeepsAccounts, Zenon
<1>3. AccountInv(Kinds) => Conservation BY AccountsGive, Zenon DEF Conservation
<1> QED BY <1>1, <1>2, <1>3, PTL DEF Spec
=============================================================================
