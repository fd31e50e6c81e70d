---------------------------- MODULE NirPlan_proofs ----------------------------
(* Proofs about NirPlan, for any finite topology, pools and number of steps.    *)
EXTENDS NirPlan, FiniteSetTheorems, FunctionTheorems, TLAPS

(***************************************************************************)
(* Sums.  Total counts the pairs <<x, i>> with i up to f[x]; what is added *)
(* up in parts is added up as a whole.                                     *)
(***************************************************************************)
Pairs(f) == UNION {{x} \X (1..f[x]) : x \in DOMAIN f}

LEMMA PairsMembers ==
  ASSUME NEW f
  PROVE  \A p : p \in Pairs(f) <=> \E x \in DOMAIN f : \E i \in 1..f[x] : p = <<x, i>>
  BY DEF Pairs

LEMMA FiniteRange ==
  ASSUME NEW S, IsFiniteSet(S), NEW F
  PROVE  IsFiniteSet({F[x] : x \in S})
<1> DEFINE T == {F[x] : x \in S}
           G == [x \in S |-> F[x]]
<1>1. G \in [S -> T] /\ \A t \in T : \E x \in S : G[x] = t
  OBVIOUS
<1>2. G \in Surjection(S, T)
  BY <1>1, Fun_IsSurj
<1>3. QED
  BY <1>2, FS_Surjection

LEMMA FiniteUnion ==
  ASSUME NEW S, IsFiniteSet(S), NEW X, \A x \in S : IsFiniteSet(X[x])
  PROVE  IsFiniteSet(UNION {X[x] : x \in S})
<1> DEFINE F == {X[x] : x \in S}
<1>1. IsFiniteSet(F)
  BY FiniteRange
<1>2. \A T \in F : IsFiniteSet(T)
  OBVIOUS
<1> HIDE DEF F
<1>3. IsFiniteSet(UNION F)
  BY <1>1, <1>2, FS_UNION
<1>4. QED
  BY <1>3 DEF F

LEMMA PairsFinite ==
  ASSUME NEW S, IsFiniteSet(S), NEW f \in [S -> Nat]
  PROVE  IsFiniteSet(Pairs(f))
<1> DEFINE X == [x \in S |-> {x} \X (1..f[x])]
<1>1. ASSUME NEW x \in S PROVE IsFiniteSet(X[x])
  <2>1. IsFiniteSet({x})
    BY FS_Singleton
  <2>2. IsFiniteSet(1..f[x])
    BY FS_Interval
  <2>3. QED
    BY <2>1, <2>2, FS_Product
<1>2. IsFiniteSet(UNION {X[x] : x \in S})
  <2> HIDE DEF X
  <2>1. QED
    BY <1>1, FiniteUnion
<1>3. Pairs(f) = UNION {X[x] : x \in S}
  BY DEF Pairs
<1>4. QED
  BY <1>2, <1>3

LEMMA TotalType ==
  ASSUME NEW S, IsFiniteSet(S), NEW f \in [S -> Nat]
  PROVE  Total(f) \in Nat /\ Total(f) = Cardinality(Pairs(f))
  BY PairsFinite, FS_CardinalityType DEF Total, Pairs

\* Finite sets X[x] that have no element in common, their sizes and their union.
Sizes(S, X, f, U) ==
  /\ IsFiniteSet(S)
  /\ \A x \in S : IsFiniteSet(X[x])
  /\ \A x, y \in S : x # y => X[x] \cap X[y] = {}
  /\ f = [x \in S |-> Cardinality(X[x])]
  /\ U = UNION {X[x] : x \in S}

LEMMA TotalOfSizes ==
  ASSUME NEW S, NEW X, NEW f, NEW U, Sizes(S, X, f, U)
  PROVE  Total(f) = Cardinality(U)
<1> DEFINE b == [x \in S |-> CHOOSE g : g \in Bijection(1..f[x], X[x])]
           h == [p \in Pairs(f) |-> b[p[1]][p[2]]]
<1>1. f \in [S -> Nat] /\ \A x \in S : f[x] = Cardinality(X[x]) /\ IsFiniteSet(X[x])
  BY FS_CardinalityType DEF Sizes
<1>2. ASSUME NEW x \in S
      PROVE  /\ \A i \in 1..f[x] : b[x][i] \in X[x]
             /\ \A i, j \in 1..f[x] : b[x][i] = b[x][j] => i = j
             /\ \A u \in X[x] : \E i \in 1..f[x] : b[x][i] = u
  <2>1. ExistsBijection(1..f[x], X[x])
    BY <1>1, FS_CardinalityType
  <2>2. b[x] \in Bijection(1..f[x], X[x])
    BY <2>1 DEF ExistsBijection
  <2> DEFINE D == 1..f[x]
             Y == X[x]
             c == b[x]
  <2> HIDE DEF b, D, Y, c
  <2>3. c \in Bijection(D, Y)
    BY <2>2 DEF D, Y, c
  <2>4. /\ c \in [D -> Y]
        /\ \A i, j \in D : c[i] = c[j] => i = j
        /\ \A u \in Y : \E i \in D : c[i] = u
    BY <2>3, Fun_BijectionProperties
  <2>5. /\ b[x] \in [1..f[x] -> X[x]]
        /\ \A i, j \in 1..f[x] : b[x][i] = b[x][j] => i = j
        /\ \A u \in X[x] : \E i \in 1..f[x] : b[x][i] = u
    BY <2>4 DEF D, Y, c
  <2>6. QED
    BY <2>5
<1> HIDE DEF b
<1>3. \A p \in Pairs(f) : p[1] \in S /\ p[2] \in 1..f[p[1]] /\ p = <<p[1], p[2]>>
  BY <1>1, PairsMembers
<1>4. \A x \in S : \A i \in 1..f[x] : <<x, i>> \in Pairs(f)
  BY <1>1, PairsMembers
<1>5. ASSUME NEW p \in Pairs(f) PROVE h[p] = b[p[1]][p[2]] /\ h[p] \in X[p[1]]
  BY <1>2, <1>3
<1>6. \A u : u \in U <=> \E x \in S : u \in X[x]
  BY DEF Sizes
<1>7. h \in [Pairs(f) -> U]
  BY <1>3, <1>5, <1>6
<1>8. ASSUME NEW p \in Pairs(f), NEW q \in Pairs(f), h[p] = h[q] PROVE p = q
  <2>1. p[1] = q[1]
    BY <1>3, <1>5, <1>8 DEF Sizes
  <2>2. p[2] = q[2]
    BY <1>2, <1>3, <1>5, <1>8, <2>1
  <2>3. QED
    BY <1>3, <2>1, <2>2
<1>9. ASSUME NEW u \in U PROVE \E p \in Pairs(f) : h[p] = u
  <2>1. PICK x \in S : u \in X[x]
    BY <1>6
  <2>2. PICK i \in 1..f[x] : b[x][i] = u
    BY <1>2, <2>1
  <2>3. <<x, i>> \in Pairs(f) /\ h[<<x, i>>] = u
    BY <1>4, <2>2
  <2>4. QED
    BY <2>3
<1> HIDE DEF h
<1>10. h \in Bijection(Pairs(f), U)
  BY <1>7, <1>8, <1>9, Fun_IsBij
<1>11. IsFiniteSet(Pairs(f)) /\ Total(f) = Cardinality(Pairs(f))
  BY <1>1, PairsFinite, TotalType DEF Sizes
<1>12. QED
  BY <1>10, <1>11, FS_Bijection DEF ExistsBijection

\* Sums over finite sets A[x] that have no element in common, and their sum.
Parts(S, A, T, f, g) ==
  /\ IsFiniteSet(S)
  /\ \A x \in S : IsFiniteSet(A[x])
  /\ \A x, y \in S : x # y => A[x] \cap A[y] = {}
  /\ T = UNION {A[x] : x \in S}
  /\ f \in [T -> Nat]
  /\ g = [x \in S |-> Total([o \in A[x] |-> f[o]])]

LEMMA TotalOfTotals ==
  ASSUME NEW S, NEW A, NEW T, NEW f, NEW g, Parts(S, A, T, f, g)
  PROVE  Total(g) = Total(f) /\ IsFiniteSet(T)
<1> DEFINE P == [x \in S |-> Pairs([o \in A[x] |-> f[o]])]
<1> USE DEF Parts
<1>1. ASSUME NEW x \in S
      PROVE  /\ IsFiniteSet(P[x])
             /\ g[x] = Cardinality(P[x])
             /\ \A p : p \in P[x] <=> \E o \in A[x] : \E i \in 1..f[o] : p = <<o, i>>
  <2> DEFINE fx == [o \in A[x] |-> f[o]]
  <2>1. fx \in [A[x] -> Nat] /\ IsFiniteSet(A[x]) /\ g[x] = Total(fx)
    OBVIOUS
  <2>2. P[x] = Pairs(fx)
    OBVIOUS
  <2>3. \A p : p \in Pairs(fx) <=> \E o \in DOMAIN fx : \E i \in 1..fx[o] : p = <<o, i>>
    <3> HIDE DEF fx
    <3>1. QED
      BY PairsMembers
  <2>4. IsFiniteSet(Pairs(fx)) /\ Total(fx) = Cardinality(Pairs(fx))
    <3> HIDE DEF fx
    <3>1. QED
      BY <2>1, PairsFinite, TotalType
  <2>5. QED
    BY <2>1, <2>2, <2>3, <2>4
<1> HIDE DEF P
<1>2. ASSUME NEW x \in S, NEW y \in S, x # y PROVE P[x] \cap P[y] = {}
  <2> SUFFICES ASSUME NEW p \in P[x], p \in P[y] PROVE FALSE
    OBVIOUS
  <2> HIDE DEF Parts
  <2>1. PICK o \in A[x] : \E i \in 1..f[o] : p = <<o, i>>
    BY <1>1
  <2>2. PICK w \in A[y] : \E j \in 1..f[w] : p = <<w, j>>
    BY <1>1
  <2>3. o = w
    BY <2>1, <2>2
  <2>4. QED
    BY <1>2, <2>3 DEF Parts
<1>3. \A p : p \in Pairs(f) <=> \E x \in S : p \in P[x]
  <2>1. DOMAIN f = T /\ \A o : o \in T <=> \E x \in S : o \in A[x]
    OBVIOUS
  <2>2. \A p : p \in Pairs(f) <=> \E o \in T : \E i \in 1..f[o] : p = <<o, i>>
    BY <2>1, PairsMembers
  <2> HIDE DEF Parts
  <2>3. ASSUME NEW p \in Pairs(f) PROVE \E x \in S : p \in P[x]
    <3>1. PICK o \in T : \E i \in 1..f[o] : p = <<o, i>>
      BY <2>2
    <3>2. PICK x \in S : o \in A[x]
      BY <2>1
    <3>3. QED
      BY <1>1, <3>1, <3>2
  <2>4. ASSUME NEW x \in S, NEW p \in P[x] PROVE p \in Pairs(f)
    <3>1. PICK o \in A[x] : \E i \in 1..f[o] : p = <<o, i>>
      BY <1>1
    <3>2. o \in T
      BY <2>1
    <3>3. QED
      BY <2>2, <3>1, <3>2
  <2>5. QED
    BY <2>3, <2>4
<1>4. Sizes(S, P, g, Pairs(f))
  <2>1. Pairs(f) = UNION {P[x] : x \in S}
    BY <1>3
  <2>2. g = [x \in S |-> Cardinality(P[x])]
    BY <1>1
  <2>3. QED
    BY <1>1, <1>2, <2>1, <2>2 DEF Sizes
<1>5. IsFiniteSet(T)
  BY FiniteUnion
<1>6. Total(f) = Cardinality(Pairs(f))
  BY <1>5, TotalType
<1>7. QED
  BY <1>4, <1>5, <1>6, TotalOfSizes

LEMMA TotalOfOne ==
  ASSUME NEW x, NEW v \in Nat
  PROVE  Total([y \in {x} |-> v]) = v
<1> DEFINE X == [y \in {x} |-> 1..v]
           f == [y \in {x} |-> v]
<1>1. IsFiniteSet({x})
  BY FS_Singleton
<1>2. IsFiniteSet(1..v) /\ Cardinality(1..v) = v
  BY FS_Interval
<1>3. Sizes({x}, X, f, 1..v)
  BY <1>1, <1>2 DEF Sizes
<1> HIDE DEF X
<1>4. QED
  BY <1>2, <1>3, TotalOfSizes

\* The same terms under other names.
Renames(S, h, T, f, g) ==
  /\ IsFiniteSet(S)
  /\ T = {h[x] : x \in S}
  /\ \A x, y \in S : h[x] = h[y] => x = y
  /\ f \in [T -> Nat]
  /\ g = [x \in S |-> f[h[x]]]

LEMMA TotalRenamed ==
  ASSUME NEW S, NEW h, NEW T, NEW f, NEW g, Renames(S, h, T, f, g)
  PROVE  Total(g) = Total(f)
<1> DEFINE A == [x \in S |-> {h[x]}]
<1> USE DEF Renames
<1>1. T = UNION {A[x] : x \in S}
  OBVIOUS
<1>2. \A x \in S : IsFiniteSet(A[x])
  BY FS_Singleton
<1>3. \A x, y \in S : x # y => A[x] \cap A[y] = {}
  OBVIOUS
<1>4. ASSUME NEW x \in S PROVE Total([o \in A[x] |-> f[o]]) = f[h[x]]
  <2>1. f[h[x]] \in Nat /\ [o \in A[x] |-> f[o]] = [o \in {h[x]} |-> f[h[x]]]
    OBVIOUS
  <2>2. QED
    BY <2>1, TotalOfOne
<1>5. g = [x \in S |-> Total([o \in A[x] |-> f[o]])]
  BY <1>4
<1> HIDE DEF A
<1>6. Parts(S, A, T, f, g)
  BY <1>1, <1>2, <1>3, <1>5 DEF Parts
<1>7. QED
  BY <1>6, TotalOfTotals

\* One more term.
Inserts(S, x, f, g) ==
  /\ IsFiniteSet(S) /\ x \notin S
  /\ f \in [S \cup {x} -> Nat]
  /\ g = [y \in S |-> f[y]]

LEMMA TotalInsert ==
  ASSUME NEW S, NEW x, NEW f, NEW rest, Inserts(S, x, f, rest)
  PROVE  Total(f) = f[x] + Total(rest)
<1> USE DEF Inserts
<1> DEFINE g == [y \in S |-> f[y]]
           one == {x} \X (1..f[x])
<1>1. g \in [S -> Nat]
  OBVIOUS
<1>2. \A p : p \in Pairs(g) <=> \E y \in S : \E i \in 1..f[y] : p = <<y, i>>
  <2>1. \A p : p \in Pairs(g) <=> \E y \in DOMAIN g : \E i \in 1..g[y] : p = <<y, i>>
    <3> HIDE DEF g
    <3>1. QED
      BY PairsMembers
  <2>2. QED
    BY <2>1
<1>3. \A p : p \in Pairs(f) <=> \E y \in S \cup {x} : \E i \in 1..f[y] : p = <<y, i>>
  BY PairsMembers
<1>4. Pairs(f) = Pairs(g) \cup one /\ Pairs(g) \cap one = {}
  BY <1>2, <1>3
<1>5. IsFiniteSet(one) /\ Cardinality(one) = f[x]
  <2>1. IsFiniteSet({x}) /\ Cardinality({x}) = 1
    BY FS_Singleton
  <2>2. f[x] \in Nat
    OBVIOUS
  <2>3. IsFiniteSet(1..f[x]) /\ Cardinality(1..f[x]) = f[x]
    BY <2>2, FS_Interval
  <2>4. IsFiniteSet(one) /\ Cardinality(one) = Cardinality({x}) * Cardinality(1..f[x])
    BY <2>1, <2>3, FS_Product
  <2>5. QED
    BY <2>1, <2>2, <2>3, <2>4
<1> HIDE DEF g, one
<1>6. IsFiniteSet(Pairs(g)) /\ Total(g) = Cardinality(Pairs(g)) /\ Total(g) \in Nat
  BY <1>1, PairsFinite, TotalType
<1>7. Cardinality(Pairs(g) \cup one) = Cardinality(Pairs(g)) + Cardinality(one)
                                         - Cardinality(Pairs(g) \cap one)
  BY <1>5, <1>6, FS_Union
<1>8. Cardinality(Pairs(g) \cap one) = 0
  BY <1>4, FS_EmptySet
<1>9. IsFiniteSet(S \cup {x})
  BY FS_AddElement
<1>10. Total(f) = Cardinality(Pairs(f))
  BY <1>9, TotalType
<1>11. Total(f) = f[x] + Total(g)
  BY <1>4, <1>5, <1>6, <1>7, <1>8, <1>10
<1>12. QED
  BY <1>11 DEF g
-----------------------------------------------------------------------------
(***************************************************************************)
(* Recursion along the edges of an acyclic graph: where G[n][f] depends on *)
(* f at the predecessors of n alone, some f gives every node its value.    *)
(***************************************************************************)
Local(N, E, V, G) ==
  /\ IsFiniteSet(N) /\ Acyclic(N, E) /\ V # {}
  /\ \A n \in N, f \in [N -> V] : G[n][f] \in V
  /\ \A n \in N : \A f, g \in [N -> V] :
       (\A e \in Inbound(E, n) : f[e.source] = g[e.source]) => G[n][f] = G[n][g]
  /\ \A e \in E : e.target \in N => e.source \in N

LEMMA Recursion ==
  ASSUME NEW N, NEW E, NEW V, NEW G, Local(N, E, V, G)
  PROVE  \E f \in [N -> V] : \A n \in N : f[n] = G[n][f]
<1> DEFINE Solves(f, U) ==
             /\ \A n \in N \ U : f[n] = G[n][f]
             /\ \A n \in N \ U : \A e \in Inbound(E, n) : e.source \in N \ U
           Left == {U \in SUBSET N : \E f \in [N -> V] : Solves(f, U)}
<1>1. N \in Left
  <2>1. PICK v \in V : TRUE
    BY DEF Local
  <2>2. [n \in N |-> v] \in [N -> V] /\ Solves([n \in N |-> v], N)
    OBVIOUS
  <2>3. QED
    BY <2>2
<1>2. PICK U \in Left : \A W \in Left : <<W, U>> \notin StrictSubsetOrdering(N)
  <2>1. IsWellFoundedOn(StrictSubsetOrdering(N), FiniteSubsetsOf(N))
    BY FS_StrictSubsetOrderingWellFounded
  <2>2. Left \subseteq FiniteSubsetsOf(N) /\ Left # {}
    BY <1>1, FS_FiniteSubsetsOfFinite DEF Local
  <2> HIDE DEF Left
  <2>3. QED
    BY <2>1, <2>2, WFMin
<1>3. PICK f \in [N -> V] : Solves(f, U)
  OBVIOUS
<1>4. CASE U = {}
  BY <1>3, <1>4
<1>5. CASE U # {}
  <2>1. PICK n \in U : \A e \in Inbound(E, n) : e.source \notin U
    BY <1>5 DEF Local, Acyclic
  <2> DEFINE g == [f EXCEPT ![n] = G[n][f]]
             W == U \ {n}
  <2>2. n \in N /\ G[n][f] \in V /\ g \in [N -> V]
    BY DEF Local
  <2>3. ASSUME NEW m \in N \ W
        PROVE  \A e \in Inbound(E, m) : e.source \in N \ U /\ g[e.source] = f[e.source]
    <3>1. CASE m = n
      BY <2>1, <2>2, <3>1 DEF Local, Inbound
    <3>2. CASE m \in N \ U
      BY <1>3, <2>2, <3>2
    <3>3. QED
      BY <3>1, <3>2
  <2>4. ASSUME NEW m \in N \ W PROVE g[m] = G[m][g]
    <3>1. G[m][g] = G[m][f]
      <4>1. m \in N /\ \A e \in Inbound(E, m) : g[e.source] = f[e.source]
        BY <2>2, <2>3
      <4>2. \A h, k \in [N -> V] :
              (\A e \in Inbound(E, m) : h[e.source] = k[e.source]) => G[m][h] = G[m][k]
        BY <4>1 DEF Local
      <4> HIDE DEF g
      <4>3. QED
        BY <2>2, <4>1, <4>2
    <3>2. CASE m = n
      BY <2>2, <3>1, <3>2
    <3>3. CASE m \in N \ U
      BY <1>3, <2>2, <3>1, <3>3
    <3>4. QED
      BY <3>2, <3>3
  <2>5. W \in Left
    BY <2>2, <2>3, <2>4
  <2>6. <<W, U>> \in StrictSubsetOrdering(N)
    BY DEF StrictSubsetOrdering
  <2>7. QED
    BY <1>2, <2>5, <2>6
<1>6. QED
  BY <1>4, <1>5

(***************************************************************************)
(* The values of a step are the ones its equations say.                    *)
(***************************************************************************)
SumInto(E, n, first, late, val) ==
  (IF n = first THEN Impulse ELSE 0) +
  Total([e \in Inbound(E, n) |-> IF e.delayed THEN late[e] ELSE val[e.source]])

Settles(val, N, E, first, late, P) ==
  val = [n \in N |-> NodeValue(n, SumInto(E, n, first, late, val), P)]

\* A graph that can be run.
Runs(N, E, late) ==
  /\ IsFiniteSet(N) /\ IsFiniteSet(E)
  /\ \A e \in E : e.delayed \in BOOLEAN /\ e.source \in N
  /\ \A e \in Late(E) : late[e] \in Nat
  /\ Acyclic(N, Now(E))

LEMMA NodeValueType ==
  ASSUME NEW n, NEW sum \in Nat, NEW P
  PROVE  NodeValue(n, sum, P) \in Nat
<1>1. 2 * sum \in Nat /\ sum \div 2 \in Nat
  OBVIOUS
<1>2. QED
  BY <1>1 DEF NodeValue

LEMMA SumIntoType ==
  ASSUME NEW N, NEW E, NEW first, NEW late, NEW val, NEW n, Runs(N, E, late),
         \A e \in Inbound(Now(E), n) : val[e.source] \in Nat
  PROVE  SumInto(E, n, first, late, val) \in Nat
<1> DEFINE f == [e \in Inbound(E, n) |-> IF e.delayed THEN late[e] ELSE val[e.source]]
<1>1. f \in [Inbound(E, n) -> Nat]
  BY DEF Runs, Inbound, Now, Late
<1>2. IsFiniteSet(Inbound(E, n))
  BY FS_Subset DEF Runs, Inbound
<1> HIDE DEF f
<1>3. Total(f) \in Nat
  BY <1>1, <1>2, TotalType
<1>4. Impulse \in Nat
  BY DEF Impulse
<1>5. QED
  BY <1>3, <1>4 DEF SumInto, f

LEMMA SettledEquation ==
  ASSUME NEW N, NEW E, NEW first, NEW late, NEW P, Runs(N, E, late)
  PROVE  LET val == Settled(N, E, first, late, P)
         IN  val \in [N -> Nat] /\ Settles(val, N, E, first, late, P)
<1> DEFINE Value(n, f) == NodeValue(n, SumInto(E, n, first, late, f), P)
           G == [n \in N |-> [f \in [N -> Nat] |-> Value(n, f)]]
<1>1. ASSUME NEW n \in N, NEW f \in [N -> Nat] PROVE Value(n, f) \in Nat
  <2>1. \A e \in Inbound(Now(E), n) : f[e.source] \in Nat
    BY DEF Runs, Inbound, Now
  <2>2. SumInto(E, n, first, late, f) \in Nat
    BY <2>1, SumIntoType
  <2>3. QED
    BY <2>2, NodeValueType
<1>2. ASSUME NEW n \in N, NEW f \in [N -> Nat], NEW g \in [N -> Nat],
             \A e \in Inbound(Now(E), n) : f[e.source] = g[e.source]
      PROVE  Value(n, f) = Value(n, g)
  <2>1. [e \in Inbound(E, n) |-> IF e.delayed THEN late[e] ELSE f[e.source]]
          = [e \in Inbound(E, n) |-> IF e.delayed THEN late[e] ELSE g[e.source]]
    BY <1>2 DEF Inbound, Now
  <2>2. SumInto(E, n, first, late, f) = SumInto(E, n, first, late, g)
    BY <2>1 DEF SumInto
  <2>3. QED
    BY <2>2
<1> HIDE DEF Value
<1>3. Local(N, Now(E), Nat, G)
  <2>1. \A n \in N : \A f \in [N -> Nat] : G[n][f] = Value(n, f)
    OBVIOUS
  <2>2. \A e \in Now(E) : e.target \in N => e.source \in N
    BY DEF Runs, Now
  <2> HIDE DEF G
  <2>3. QED
    BY <1>1, <1>2, <2>1, <2>2 DEF Local, Runs
<1>4. PICK f \in [N -> Nat] : \A n \in N : f[n] = Value(n, f)
  <2>1. \A n \in N : \A f \in [N -> Nat] : G[n][f] = Value(n, f)
    OBVIOUS
  <2> HIDE DEF G
  <2>2. \E f \in [N -> Nat] : \A n \in N : f[n] = G[n][f]
    BY <1>3, Recursion
  <2>3. QED
    BY <2>1, <2>2
<1>5. f = [n \in N |-> Value(n, f)]
  BY <1>4
<1> DEFINE val == Settled(N, E, first, late, P)
<1>6. Settles(val, N, E, first, late, P)
  <2>1. Settles(f, N, E, first, late, P)
    BY <1>5 DEF Settles, Value
  <2>2. val = CHOOSE w : Settles(w, N, E, first, late, P)
    BY DEF Settled, Settles, SumInto
  <2>3. QED
    BY <2>1, <2>2
<1> HIDE DEF val
<1>7. val \in [N -> Nat]
  <2> DEFINE Bad == {n \in N : val[n] \notin Nat}
  <2>1. val = [n \in N |-> Value(n, val)]
    BY <1>6 DEF Settles, Value
  <2>2. SUFFICES ASSUME Bad # {} PROVE FALSE
    BY <2>1
  <2>3. PICK n \in Bad : \A e \in Inbound(Now(E), n) : e.source \notin Bad
    BY <2>2 DEF Runs, Acyclic
  <2>4. \A e \in Inbound(Now(E), n) : val[e.source] \in Nat
    BY <2>3 DEF Runs, Inbound, Now
  <2>5. SumInto(E, n, first, late, val) \in Nat
    BY <2>4, SumIntoType
  <2>6. Value(n, val) \in Nat
    BY <2>5, NodeValueType DEF Value
  <2>7. QED
    BY <2>1, <2>6
<1>8. QED
  BY <1>6, <1>7 DEF val
-----------------------------------------------------------------------------
(***************************************************************************)
(* The plan.  What is said here holds of every topology that is planned.   *)
(***************************************************************************)
Formed == spec \in [edges : SUBSET NirEdge(Stages), merges : SUBSET Stages, output : Stages]

Planned == Formed /\ ValidTopology /\ ~Raises

Carriers == ((Stages \ spec.merges) \cup {Input}) \X BOOLEAN

LEMMA FiniteEdges ==
  ASSUME NEW N, IsFiniteSet(N)
  PROVE  IsFiniteSet(NirEdge(N))
<1> DEFINE D == N \X (N \X BOOLEAN)
           F == [p \in D |-> [source |-> p[1], target |-> p[2][1], delayed |-> p[2][2]]]
<1>1. IsFiniteSet(BOOLEAN)
  <2>1. BOOLEAN = {TRUE} \cup {FALSE}
    OBVIOUS
  <2>2. IsFiniteSet({TRUE}) /\ IsFiniteSet({FALSE})
    BY FS_Singleton
  <2>3. QED
    BY <2>1, <2>2, FS_Union
<1>2. IsFiniteSet(N \X BOOLEAN)
  BY <1>1, FS_Product
<1>3. IsFiniteSet(D)
  BY <1>2, FS_Product
<1>4. ASSUME NEW e \in NirEdge(N) PROVE e \in {F[p] : p \in D}
  <2> DEFINE p == <<e.source, <<e.target, e.delayed>>>>
  <2>1. p \in D
    BY DEF NirEdge
  <2>2. F[p] = [source |-> e.source, target |-> e.target, delayed |-> e.delayed]
    BY <2>1
  <2>3. e = [source |-> e.source, target |-> e.target, delayed |-> e.delayed]
    BY DEF NirEdge
  <2>4. QED
    BY <2>1, <2>2, <2>3
<1> HIDE DEF F, D
<1>5. IsFiniteSet({F[p] : p \in D})
  BY <1>3, FiniteRange
<1>6. QED
  BY <1>4, <1>5, FS_Subset

LEMMA ResolvedClosed ==
  ASSUME Formed
  PROVE  /\ Resolved \subseteq Stages /\ spec.output \in Resolved
         /\ \A e \in spec.edges : e.target \in Resolved \/ e.target \notin spec.merges
                                    => e.source \in Resolved
  BY DEF Formed, Resolved, NirEdge

OutputOf(n, out) ==
  IF n \notin spec.merges THEN {<<n, FALSE>>}
  ELSE (IF n = Entry THEN {<<Input, FALSE>>} ELSE {}) \cup
       UNION {Through(e, out[e.source]) : e \in Inbound(spec.edges, n)}

LEMMA ThroughType ==
  ASSUME NEW e, NEW A
  PROVE  Through(e, A \X BOOLEAN) \subseteq A \X BOOLEAN
<1>1. ASSUME NEW o \in A \X BOOLEAN PROVE <<o[1], o[2] \/ e.delayed>> \in A \X BOOLEAN
  <2>1. (o[2] \/ e.delayed) \in BOOLEAN
    BY Zenon
  <2>2. o[1] \in A
    OBVIOUS
  <2>3. QED
    BY <2>1, <2>2
<1>2. QED
  BY <1>1 DEF Through

LEMMA ThroughMonotone ==
  ASSUME NEW e, NEW A, NEW B \in SUBSET A
  PROVE  Through(e, B) \subseteq Through(e, A)
  BY DEF Through

\* The pairs that carry a stage's output are the ones the planner's recursion
\* says: it ends, since merge stages that are resolved do not lead round.
LEMMA OutputsEquation ==
  ASSUME Formed, ~Raises
  PROVE  \A n \in Resolved : /\ Outputs[n] = OutputOf(n, Outputs)
                             /\ Outputs[n] \subseteq Carriers
<1> DEFINE N == Resolved
           M == {e \in spec.edges : e.target \in spec.merges}
           V == SUBSET Carriers
           G == [n \in N |-> [f \in [N -> V] |-> OutputOf(n, f)]]
<1>1. Acyclic(N, M)
  <2> SUFFICES ASSUME NEW S \in SUBSET N, S # {}
               PROVE  \E n \in S : \A e \in Inbound(M, n) : e.source \notin S
    BY DEF Acyclic
  <2>1. CASE \E n \in S : n \notin spec.merges
    BY <2>1 DEF Inbound
  <2>2. CASE S \subseteq Resolved \cap spec.merges
    BY <2>2 DEF Raises, Acyclic, Inbound
  <2>3. QED
    BY <2>1, <2>2
<1>2. \A n \in N : \A e \in Inbound(M, n) : e.source \in N
  BY ResolvedClosed DEF Inbound
<1>3. ASSUME NEW n \in N, NEW out, \A e \in Inbound(M, n) : out[e.source] \in V
      PROVE  OutputOf(n, out) \in V
  <2>1. CASE n \notin spec.merges
    <3>1. <<n, FALSE>> \in Carriers
      BY <2>1, ResolvedClosed DEF Carriers
    <3>2. OutputOf(n, out) = {<<n, FALSE>>}
      BY <2>1 DEF OutputOf
    <3>3. QED
      BY <3>1, <3>2
  <2>2. CASE n \in spec.merges
    <3>1. ASSUME NEW e \in Inbound(spec.edges, n)
          PROVE  Through(e, out[e.source]) \subseteq Carriers
      <4>1. out[e.source] \subseteq Carriers
        BY <1>3, <2>2, <3>1 DEF Inbound
      <4>2. QED
        BY <4>1, ThroughType, ThroughMonotone DEF Carriers
    <3>2. <<Input, FALSE>> \in Carriers
      BY DEF Carriers
    <3>3. QED
      BY <2>2, <3>1, <3>2 DEF OutputOf
  <2>3. QED
    BY <2>1, <2>2
<1>4. ASSUME NEW n \in N, NEW f, NEW g, \A e \in Inbound(M, n) : f[e.source] = g[e.source]
      PROVE  OutputOf(n, f) = OutputOf(n, g)
  <2>1. CASE n \in spec.merges
    <3>1. \A e \in Inbound(spec.edges, n) : Through(e, f[e.source]) = Through(e, g[e.source])
      BY <1>4, <2>1 DEF Inbound
    <3>2. QED
      BY <2>1, <3>1 DEF OutputOf
  <2>2. QED
    BY <2>1 DEF OutputOf
<1>5. Local(N, M, V, G)
  <2>1. \A n \in N : \A f \in [N -> V] : G[n][f] = OutputOf(n, f)
    OBVIOUS
  <2>2. IsFiniteSet(N)
    BY NirAssumption, ResolvedClosed, FS_Subset
  <2>3. \A e \in M : e.target \in N => e.source \in N
    BY <1>2 DEF Inbound
  <2>4. V # {}
    OBVIOUS
  <2>5. ASSUME NEW n \in N, NEW f \in [N -> V] PROVE G[n][f] \in V
    <3>1. \A e \in Inbound(M, n) : f[e.source] \in V
      BY <1>2
    <3>2. QED
      BY <1>3, <2>1, <3>1
  <2> HIDE DEF N, M, V, G
  <2>6. QED
    BY <1>1, <1>4, <2>1, <2>2, <2>3, <2>4, <2>5 DEF Local
<1>6. PICK f \in [N -> V] : \A n \in N : f[n] = OutputOf(n, f)
  <2>1. \A n \in N : \A f \in [N -> V] : G[n][f] = OutputOf(n, f)
    OBVIOUS
  <2> HIDE DEF N, M, V, G
  <2>2. \E f \in [N -> V] : \A n \in N : f[n] = G[n][f]
    BY <1>5, Recursion
  <2>3. QED
    BY <2>1, <2>2
<1>7. Outputs = [n \in N |-> OutputOf(n, Outputs)]
  <2> DEFINE Is(out) == out = [n \in N |-> OutputOf(n, out)]
  <2>1. Is(f)
    BY <1>6
  <2>2. Outputs = CHOOSE out : Is(out)
    BY DEF Outputs, OutputOf
  <2> HIDE DEF Is
  <2>3. Is(Outputs)
    BY <2>1, <2>2
  <2>4. QED
    BY <2>3 DEF Is
<1>8. \A n \in N : Outputs[n] = OutputOf(n, Outputs)
  BY <1>7
<1>9. \A n \in N : Outputs[n] \in V
  <2> DEFINE Bad == {n \in N : Outputs[n] \notin V}
  <2>1. SUFFICES ASSUME Bad # {} PROVE FALSE
    OBVIOUS
  <2>2. PICK n \in Bad : \A e \in Inbound(M, n) : e.source \notin Bad
    BY <1>1, <2>1 DEF Acyclic
  <2>3. \A e \in Inbound(M, n) : Outputs[e.source] \in V
    BY <1>2, <2>2
  <2>4. OutputOf(n, Outputs) \in V
    <3> HIDE DEF N, M, V
    <3>1. QED
      BY <1>3, <2>3
  <2>5. QED
    BY <1>8, <2>4
<1>10. QED
  BY <1>8, <1>9

\* What arrives at a stage, by the pairs that carry it.
Arriving(n) ==
  (IF n = Entry THEN {<<Input, FALSE>>} ELSE {}) \cup
  UNION {Arrivals(e) : e \in Inbound(spec.edges, n)}

\* The stages that are fed by resolved ones alone.
Fed == Resolved \cup (Stages \ spec.merges)

LEMMA FedByResolved ==
  ASSUME Formed
  PROVE  /\ Fed \subseteq Stages
         /\ \A n \in Fed : \A e \in Inbound(spec.edges, n) :
              e.source \in Resolved /\ e.delayed \in BOOLEAN /\ e \in spec.edges
<1>1. \A e \in spec.edges : e.delayed \in BOOLEAN
  BY DEF Formed, NirEdge
<1>2. QED
  BY <1>1, ResolvedClosed DEF Fed, Inbound

LEMMA OutputsOf ==
  ASSUME Formed, ~Raises, NEW n \in Resolved
  PROVE  Outputs[n] = IF n \in spec.merges THEN Arriving(n) ELSE {<<n, FALSE>>}
  BY OutputsEquation DEF OutputOf, Arriving, Arrivals

LEMMA ArrivalsMembers ==
  ASSUME Formed, ~Raises, NEW n \in Fed, NEW e \in Inbound(spec.edges, n)
  PROVE  /\ Arrivals(e) \subseteq Carriers
         /\ ~e.delayed => Arrivals(e) = Outputs[e.source]
         /\ e.delayed => Arrivals(e) = {<<o[1], TRUE>> : o \in Outputs[e.source]}
<1>1. e.source \in Resolved /\ e.delayed \in BOOLEAN
  BY FedByResolved
<1>2. Outputs[e.source] \subseteq Carriers
  BY <1>1, OutputsEquation
<1>3. Arrivals(e) \subseteq Carriers
  BY <1>2, ThroughType, ThroughMonotone DEF Carriers, Arrivals
<1>4. ASSUME ~e.delayed, NEW o \in Outputs[e.source]
      PROVE  <<o[1], o[2] \/ e.delayed>> = o
  BY <1>2, <1>4 DEF Carriers
<1>5. ~e.delayed => Arrivals(e) = Outputs[e.source]
  BY <1>4 DEF Arrivals, Through
<1>6. ASSUME e.delayed, NEW o \in Outputs[e.source]
      PROVE  <<o[1], o[2] \/ e.delayed>> = <<o[1], TRUE>>
  BY <1>6
<1>7. e.delayed => Arrivals(e) = {<<o[1], TRUE>> : o \in Outputs[e.source]}
  BY <1>6 DEF Arrivals, Through
<1>8. QED
  BY <1>3, <1>5, <1>7

LEMMA FullType ==
  ASSUME Formed, ~Raises, NEW n \in Fed
  PROVE  Arriving(n) \subseteq Carriers
<1>1. <<Input, FALSE>> \in Carriers
  BY DEF Carriers
<1>2. QED
  BY <1>1, ArrivalsMembers DEF Arriving

\* A stage is the entry or is fed by a forward edge, and so something arrives.
LEMMA FedForward ==
  ASSUME Planned, NEW n \in Stages, n # Entry
  PROVE  \E e \in Inbound(spec.edges, n) : ~e.delayed
<1>1. Formed /\ Entry \in Stages \ {n} /\ Stages \ {n} # Stages
  BY NirAssumption DEF Planned
<1>2. PICK e \in Now(spec.edges) : e.source \in Stages \ {n} /\ e.target \notin Stages \ {n}
  BY <1>1 DEF Planned, ValidTopology
<1>3. e \in spec.edges /\ e.target \in Stages /\ ~e.delayed
  BY <1>1, <1>2 DEF Formed, NirEdge, Now
<1>4. QED
  BY <1>2, <1>3 DEF Inbound

LEMMA OutputsNonempty ==
  ASSUME Planned
  PROVE  /\ \A n \in Resolved : Outputs[n] # {}
         /\ \A n \in Fed : Arriving(n) # {}
<1> DEFINE Bad == {n \in Resolved : Outputs[n] = {}}
<1>1. Formed /\ ~Raises /\ Acyclic(Stages, Now(spec.edges))
  BY DEF Planned, ValidTopology
<1>2. ASSUME NEW n \in Fed, \A e \in Inbound(Now(spec.edges), n) : e.source \notin Bad
      PROVE  Arriving(n) # {}
  <2>1. CASE n = Entry
    BY <2>1 DEF Arriving
  <2>2. CASE n # Entry
    <3>1. n \in Stages
      BY <1>1, FedByResolved
    <3>2. PICK e \in Inbound(spec.edges, n) : ~e.delayed
      BY <2>2, <3>1, FedForward
    <3>3. e.source \in Resolved /\ e.source \notin Bad
      BY <1>1, <1>2, <3>2, FedByResolved DEF Inbound, Now
    <3>4. Arrivals(e) # {}
      BY <1>1, <3>2, <3>3, ArrivalsMembers
    <3>5. QED
      BY <3>4 DEF Arriving
  <2>3. QED
    BY <2>1, <2>2
<1>3. Bad = {}
  <2> SUFFICES ASSUME Bad # {} PROVE FALSE
    OBVIOUS
  <2>1. PICK n \in Bad : \A e \in Inbound(Now(spec.edges), n) : e.source \notin Bad
    BY <1>1, ResolvedClosed DEF Acyclic
  <2>2. Arriving(n) # {}
    BY <1>2, <2>1 DEF Fed
  <2>3. QED
    BY <1>1, <2>2, OutputsOf
<1>4. QED
  BY <1>2, <1>3

\* The planned edges into a node are links from the pairs that arrive there.
LEMMA PlanInbound ==
  ASSUME Planned
  PROVE  /\ \A n \in Stages \ spec.merges : Inbound(Plan, n) = Links(Arriving(n), n)
         /\ Inbound(Plan, Output) = Links(Outputs[spec.output], Output)
         /\ Inbound(Plan, Input) = {}
         /\ Plan \subseteq NirEdge(NirNodes)
<1>1. Formed /\ ~Raises
  BY DEF Planned
<1>2. \A A, n : \A l : l \in Links(A, n) <=>
         \E o \in A : l = [source |-> o[1], target |-> n, delayed |-> o[2]]
  BY DEF Links
<1>3. \A l : l \in InputLink <=>
         Entry \notin spec.merges /\ l \in Links({<<Input, FALSE>>}, Entry)
  BY DEF InputLink
<1>4. \A l : l \in Plan <=>
         \/ Entry \notin spec.merges /\ l \in Links({<<Input, FALSE>>}, Entry)
         \/ \E e \in NodeEdges : l \in Links(Arrivals(e), e.target)
         \/ l \in Links(Outputs[spec.output], Output)
  <2> DEFINE U == {Links(Arrivals(e), e.target) : e \in NodeEdges}
             O == Links(Outputs[spec.output], Output)
  <2>1. \A l : l \in UNION U <=> \E e \in NodeEdges : l \in Links(Arrivals(e), e.target)
    OBVIOUS
  <2>2. Plan = InputLink \cup (UNION U) \cup O
    BY DEF Plan
  <2> HIDE DEF U, O
  <2>3. \A l : l \in Plan <=> l \in InputLink \/ l \in UNION U \/ l \in O
    BY <2>2
  <2>4. QED
    BY <1>3, <2>1, <2>3 DEF O
<1>5. \A A, n : \A l \in Links(A, n) : l.target = n
  BY <1>2
<1>6. \A e \in NodeEdges : e.target \in Stages \ spec.merges /\ e \in spec.edges
  BY <1>1 DEF NodeEdges, Formed, NirEdge
<1>7. Entry \in Stages /\ Input \notin Stages /\ Output \notin Stages /\ Input # Output
  BY NirAssumption DEF Input, Output
<1>8. ASSUME NEW n \in Stages \ spec.merges
      PROVE  Inbound(Plan, n) = Links(Arriving(n), n)
  <2>1. \A o : o \in Arriving(n) <=>
          \/ n = Entry /\ o = <<Input, FALSE>>
          \/ \E e \in Inbound(spec.edges, n) : o \in Arrivals(e)
    BY DEF Arriving
  <2>2. ASSUME NEW l \in Links(Arriving(n), n) PROVE l \in Inbound(Plan, n)
    <3>1. PICK o \in Arriving(n) : l = [source |-> o[1], target |-> n, delayed |-> o[2]]
      BY <1>2
    <3>2. CASE n = Entry /\ o = <<Input, FALSE>>
      BY <1>2, <1>4, <3>1, <3>2 DEF Inbound
    <3>3. CASE \E e \in Inbound(spec.edges, n) : o \in Arrivals(e)
      <4>1. PICK e \in Inbound(spec.edges, n) : o \in Arrivals(e)
        BY <3>3
      <4>2. e \in NodeEdges /\ e.target = n
        BY <4>1 DEF Inbound, NodeEdges
      <4>3. QED
        BY <1>2, <1>4, <3>1, <4>1, <4>2 DEF Inbound
    <3>4. QED
      BY <2>1, <3>2, <3>3
  <2>3. ASSUME NEW l \in Inbound(Plan, n) PROVE l \in Links(Arriving(n), n)
    <3>1. l \in Plan /\ l.target = n
      BY DEF Inbound
    <3>2. CASE Entry \notin spec.merges /\ l \in Links({<<Input, FALSE>>}, Entry)
      <4>1. n = Entry
        BY <1>5, <3>1, <3>2
      <4>2. <<Input, FALSE>> \in Arriving(n)
        BY <2>1, <4>1
      <4>3. l = [source |-> <<Input, FALSE>>[1], target |-> n, delayed |-> <<Input, FALSE>>[2]]
        <5>1. l \in Links({<<Input, FALSE>>}, n)
          BY <3>2, <4>1
        <5>2. \E o \in {<<Input, FALSE>>} :
                l = [source |-> o[1], target |-> n, delayed |-> o[2]]
          BY <5>1 DEF Links
        <5>3. QED
          BY <5>2
      <4>4. QED
        BY <1>2, <4>2, <4>3
    <3>3. CASE \E e \in NodeEdges : l \in Links(Arrivals(e), e.target)
      <4>1. PICK e \in NodeEdges : l \in Links(Arrivals(e), e.target)
        BY <3>3
      <4>2. e.target = n /\ e \in Inbound(spec.edges, n)
        BY <1>5, <1>6, <3>1, <4>1 DEF Inbound
      <4>3. PICK o \in Arrivals(e) :
                   l = [source |-> o[1], target |-> n, delayed |-> o[2]]
        BY <1>2, <4>1, <4>2
      <4>4. o \in Arriving(n)
        BY <2>1, <4>2
      <4>5. QED
        BY <1>2, <4>3, <4>4
    <3>4. l \notin Links(Outputs[spec.output], Output)
      BY <1>5, <1>7, <3>1
    <3>5. QED
      BY <1>4, <3>1, <3>2, <3>3, <3>4
  <2>4. QED
    BY <2>2, <2>3
<1>9. Inbound(Plan, Output) = Links(Outputs[spec.output], Output)
  BY <1>4, <1>5, <1>6, <1>7 DEF Inbound
<1>10. Inbound(Plan, Input) = {}
  BY <1>4, <1>5, <1>6, <1>7 DEF Inbound
<1>11. ASSUME NEW A \in SUBSET Carriers, NEW n \in NirNodes
       PROVE  Links(A, n) \subseteq NirEdge(NirNodes)
  BY DEF Links, Carriers, NirEdge, NirNodes
<1>12. Plan \subseteq NirEdge(NirNodes)
  <2>1. <<Input, FALSE>> \in Carriers /\ Output \in NirNodes
    BY DEF Carriers, NirNodes
  <2>2. Entry \notin spec.merges => Links({<<Input, FALSE>>}, Entry) \subseteq NirEdge(NirNodes)
    BY <1>7, <1>11, <2>1 DEF NirNodes
  <2>3. ASSUME NEW e \in NodeEdges PROVE Links(Arrivals(e), e.target) \subseteq NirEdge(NirNodes)
    <3>1. e.target \in Fed /\ e \in Inbound(spec.edges, e.target) /\ e.target \in NirNodes
      BY <1>6 DEF Fed, Inbound, NirNodes
    <3>2. QED
      BY <1>1, <1>11, <3>1, ArrivalsMembers
  <2>4. Links(Outputs[spec.output], Output) \subseteq NirEdge(NirNodes)
    BY <1>1, <1>11, <2>1, ResolvedClosed, OutputsEquation
  <2>5. QED
    BY <1>4, <2>2, <2>3, <2>4
<1>13. QED
  BY <1>8, <1>9, <1>10, <1>12

\* What arrives undelayed, but not straight from the input, came by a forward edge.
LEMMA ArrivesForward ==
  ASSUME Planned, NEW n \in Fed, NEW o \in Arriving(n), ~o[2], o[1] # Input
  PROVE  \E e \in Inbound(Now(spec.edges), n) : e.source \in Resolved /\ o \in Outputs[e.source]
<1>1. Formed /\ ~Raises
  BY DEF Planned
<1>2. PICK e \in Inbound(spec.edges, n) : o \in Arrivals(e)
  <2>1. o # <<Input, FALSE>>
    <3>1. <<Input, FALSE>>[1] = Input
      OBVIOUS
    <3>2. QED
      BY <3>1, Zenon
  <2>2. QED
    BY <2>1 DEF Arriving
<1>3. ~e.delayed
  <2>1. SUFFICES ASSUME e.delayed PROVE FALSE
    OBVIOUS
  <2>2. o \in {<<p[1], TRUE>> : p \in Outputs[e.source]}
    BY <1>1, <1>2, <2>1, ArrivalsMembers
  <2>3. o[2] = TRUE
    <3>1. PICK p \in Outputs[e.source] : o = <<p[1], TRUE>>
      BY <2>2
    <3>2. <<p[1], TRUE>>[2] = TRUE
      OBVIOUS
    <3>3. QED
      BY <3>1, <3>2, Zenon
  <2>4. QED
    BY <2>3
<1>4. e.source \in Resolved /\ o \in Outputs[e.source]
  BY <1>1, <1>2, <1>3, ArrivalsMembers, FedByResolved
<1>5. QED
  BY <1>2, <1>3, <1>4 DEF Inbound, Now

\* A cycle of the plan without a Delay would be one of the topology without a
\* delayed edge: from the nodes on it and the stages whose output they carry.
LEMMA PlanAcyclic ==
  ASSUME Planned
  PROVE  Acyclic(NirNodes, Now(Plan))
<1> SUFFICES ASSUME NEW S \in SUBSET NirNodes, S # {},
                    \A n \in S : \E l \in Inbound(Now(Plan), n) : l.source \in S
             PROVE  FALSE
  BY DEF Acyclic
<1>1. Formed /\ ~Raises /\ Acyclic(Stages, Now(spec.edges))
  BY DEF Planned, ValidTopology
<1>2. Input \notin Stages /\ Output \notin Stages /\ Resolved \subseteq Stages
  BY <1>1, NirAssumption, ResolvedClosed
<1>3. ASSUME NEW n \in S, NEW A, Inbound(Plan, n) = Links(A, n)
      PROVE  \E o \in A : ~o[2] /\ o[1] \in S
  <2>1. PICK l \in Inbound(Now(Plan), n) : l.source \in S
    OBVIOUS
  <2>2. l \in Links(A, n) /\ ~l.delayed
    BY <1>3, <2>1 DEF Inbound, Now
  <2>3. QED
    BY <2>1, <2>2 DEF Links
<1>4. Input \notin S
  BY PlanInbound DEF Inbound, Now
<1> DEFINE Carried == {n \in Resolved : \E o \in Outputs[n] : ~o[2] /\ o[1] \in S}
           T == (S \cap Stages) \cup Carried
<1>5. T # {}
  <2>1. CASE Output \in S
    <3>1. spec.output \in Carried
      BY <1>1, <1>3, <2>1, PlanInbound, ResolvedClosed
    <3>2. QED
      BY <3>1
  <2>2. CASE Output \notin S
    BY <1>4, <2>2 DEF NirNodes
  <2>3. QED
    BY <2>1, <2>2
<1>6. PICK n \in T : \A e \in Inbound(Now(spec.edges), n) : e.source \notin T
  BY <1>1, <1>2, <1>5 DEF Acyclic
<1>7. \E o \in Arriving(n) : n \in Fed /\ ~o[2] /\ o[1] \in S
  <2>1. CASE n \in S \cap Stages
    <3>1. n \in Stages \ spec.merges /\ n \in Fed
      BY <1>2, <2>1 DEF NirNodes, Fed
    <3>2. QED
      BY <1>3, <2>1, <3>1, PlanInbound
  <2>2. CASE n \in Carried /\ n \notin S
    <3>1. n \in Resolved /\ n \in Fed
      BY <2>2 DEF Fed
    <3>2. PICK o \in Outputs[n] : ~o[2] /\ o[1] \in S
      BY <2>2
    <3>3. n \in spec.merges
      <4>1. SUFFICES ASSUME n \notin spec.merges PROVE FALSE
        OBVIOUS
      <4>2. Outputs[n] = {<<n, FALSE>>}
        BY <1>1, <3>1, <4>1, OutputsOf
      <4>3. QED
        BY <2>2, <3>2, <4>2
    <3>4. o \in Arriving(n)
      BY <1>1, <3>1, <3>2, <3>3, OutputsOf
    <3>5. QED
      BY <3>1, <3>2, <3>4
  <2>3. QED
    BY <1>2, <2>1, <2>2
<1>8. PICK o \in Arriving(n) : n \in Fed /\ ~o[2] /\ o[1] \in S
  BY <1>7
<1>9. PICK e \in Inbound(Now(spec.edges), n) : e.source \in Resolved /\ o \in Outputs[e.source]
  BY <1>4, <1>8, ArrivesForward
<1>10. e.source \in Carried
  BY <1>8, <1>9
<1>11. QED
  BY <1>6, <1>9, <1>10

\* Every node of the plan but its input is fed, by nodes of the plan.
LEMMA PlanFeeds ==
  ASSUME Planned, NEW n \in NirNodes, n # Input
  PROVE  Inbound(Plan, n) # {}
<1>1. Formed
  BY DEF Planned
<1>2. ASSUME NEW A, A # {} PROVE Links(A, n) # {}
  BY <1>2 DEF Links
<1>3. CASE n = Output
  BY <1>1, <1>2, <1>3, PlanInbound, OutputsNonempty, ResolvedClosed
<1>4. CASE n \in Stages \ spec.merges
  BY <1>2, <1>4, PlanInbound, OutputsNonempty DEF Fed
<1>5. QED
  BY <1>3, <1>4 DEF NirNodes

(***************************************************************************)
(* The rewriting, of any plan.                                             *)
(***************************************************************************)
Moved(e) == [e EXCEPT !.source = Out(@)]
ScaleEdge(n) == [source |-> n, target |-> Scale(n), delayed |-> FALSE]

LEMMA RewriteNames ==
  ASSUME Formed
  PROVE  /\ Pooled \subseteq NirNodes \ {Input, Output}
         /\ \A n \in Pooled : Scale(n) \notin NirNodes
         /\ \A m, n \in NirNodes : Out(m) = Out(n) => m = n
         /\ \A n \in NirNodes : Out(n) \in RewrittenNodes
         /\ NirNodes \subseteq RewrittenNodes /\ Input # Output
<1>1. Pooled \subseteq NirNodes \ {Input, Output}
  BY NirAssumption DEF Pooled, NirNodes
<1>2. \A n \in Pooled : Scale(n) \notin NirNodes
  BY NirAssumption DEF Pooled, NirNodes
<1>3. \A m, n \in Pooled : Scale(m) = Scale(n) => m = n
  BY NirAssumption DEF Pooled
<1>4. \A m, n \in NirNodes : Out(m) = Out(n) => m = n
  BY <1>2, <1>3 DEF Out
<1>5. \A n \in NirNodes : Out(n) \in RewrittenNodes
  BY DEF Out, RewrittenNodes
<1>6. QED
  BY <1>1, <1>2, <1>4, <1>5 DEF RewrittenNodes, Input, Output

LEMMA MovedFields ==
  ASSUME NEW e \in NirEdge(NirNodes)
  PROVE  /\ Moved(e).source = Out(e.source)
         /\ Moved(e).target = e.target
         /\ Moved(e).delayed = e.delayed
         /\ e = [source |-> e.source, target |-> e.target, delayed |-> e.delayed]
  BY DEF Moved, NirEdge

\* The edges into a node of the plan are the planned ones, moved; the only edge
\* into a Scale comes from its pool.
LEMMA RewireInbound ==
  ASSUME Formed, NEW plan \in SUBSET NirEdge(NirNodes)
  PROVE  /\ \A n \in NirNodes : Inbound(Rewire(plan), n) = {Moved(e) : e \in Inbound(plan, n)}
         /\ \A n \in Pooled : Inbound(Rewire(plan), Scale(n)) = {ScaleEdge(n)}
         /\ Late(Rewire(plan)) = {Moved(e) : e \in Late(plan)}
         /\ \A l \in Rewire(plan) : l.delayed \in BOOLEAN /\ l.source \in RewrittenNodes
<1>1. \A l : l \in Rewire(plan) <=> \/ \E e \in plan : l = Moved(e)
                                    \/ \E n \in Pooled : l = ScaleEdge(n)
  BY DEF Rewire, Moved, ScaleEdge
<1>2. \A e \in plan : /\ Moved(e).source = Out(e.source)
                      /\ Moved(e).target = e.target /\ Moved(e).delayed = e.delayed
                      /\ e.target \in NirNodes /\ e.source \in NirNodes
                      /\ e.delayed \in BOOLEAN
  BY MovedFields DEF NirEdge
<1>3. \A n : /\ ScaleEdge(n).source = n
             /\ ScaleEdge(n).target = Scale(n) /\ ScaleEdge(n).delayed = FALSE
  BY DEF ScaleEdge
<1>4. ASSUME NEW n \in NirNodes
      PROVE  Inbound(Rewire(plan), n) = {Moved(e) : e \in Inbound(plan, n)}
  BY <1>1, <1>2, <1>3, RewriteNames DEF Inbound
<1>5. ASSUME NEW n \in Pooled PROVE Inbound(Rewire(plan), Scale(n)) = {ScaleEdge(n)}
  <2>1. \A m \in Pooled : Scale(m) = Scale(n) => m = n
    BY NirAssumption DEF Pooled
  <2>2. QED
    BY <1>1, <1>2, <1>3, <2>1, RewriteNames DEF Inbound
<1>6. Late(Rewire(plan)) = {Moved(e) : e \in Late(plan)}
  BY <1>1, <1>2, <1>3 DEF Late, Now
<1>7. \A l \in Rewire(plan) : l.delayed \in BOOLEAN /\ l.source \in RewrittenNodes
  <2>1. \A e \in plan : Out(e.source) \in RewrittenNodes
    BY <1>2, RewriteNames
  <2>2. \A n \in Pooled : n \in RewrittenNodes
    BY RewriteNames
  <2>3. ASSUME NEW e \in plan, NEW l, l = Moved(e)
        PROVE  l.delayed \in BOOLEAN /\ l.source \in RewrittenNodes
    BY <1>2, <2>1, <2>3
  <2>4. ASSUME NEW n \in Pooled, NEW l, l = ScaleEdge(n)
        PROVE  l.delayed \in BOOLEAN /\ l.source \in RewrittenNodes
    BY <1>3, <2>2, <2>4
  <2>5. QED
    BY <1>1, <2>3, <2>4
<1>8. QED
  BY <1>4, <1>5, <1>6, <1>7

\* A cycle of the rewritten graph would be one of the plan, past the Scales.
LEMMA RewireAcyclic ==
  ASSUME Formed, NEW plan \in SUBSET NirEdge(NirNodes), Acyclic(NirNodes, Now(plan))
  PROVE  Acyclic(RewrittenNodes, Now(Rewire(plan)))
<1> SUFFICES ASSUME NEW S \in SUBSET RewrittenNodes, S # {},
                    \A n \in S : \E l \in Inbound(Now(Rewire(plan)), n) : l.source \in S
             PROVE  FALSE
  BY DEF Acyclic
<1>1. \A n \in S : \E l \in Inbound(Rewire(plan), n) : ~l.delayed /\ l.source \in S
  BY DEF Inbound, Now
<1> DEFINE T == {n \in NirNodes : n \in S \/ Out(n) \in S}
<1>2. T # {}
  BY RewriteNames DEF RewrittenNodes, Out
<1>3. PICK n \in T : \A e \in Inbound(Now(plan), n) : e.source \notin T
  BY <1>2 DEF Acyclic
<1>4. n \in S
  <2>1. CASE n \in Pooled /\ Out(n) \in S
    <3>1. Scale(n) \in S
      BY <2>1 DEF Out
    <3>2. PICK l \in Inbound(Rewire(plan), Scale(n)) : l.source \in S
      BY <1>1, <3>1
    <3>3. l = ScaleEdge(n)
      BY <2>1, <3>2, RewireInbound
    <3>4. QED
      BY <3>2, <3>3 DEF ScaleEdge
  <2>2. QED
    BY <2>1 DEF Out
<1>5. PICK l \in Inbound(Rewire(plan), n) : ~l.delayed /\ l.source \in S
  BY <1>1, <1>4
<1>6. PICK e \in Inbound(plan, n) : l = Moved(e)
  BY <1>5, RewireInbound
<1>7. e \in NirEdge(NirNodes) /\ Out(e.source) \in S /\ ~e.delayed
  BY <1>5, <1>6, MovedFields DEF Inbound
<1>8. e.source \in T /\ e \in Inbound(Now(plan), n)
  BY <1>6, <1>7 DEF Inbound, Now, NirEdge
<1>9. QED
  BY <1>3, <1>8
-----------------------------------------------------------------------------
(***************************************************************************)
(* The topology does not change, and so neither does what is made of it.   *)
(***************************************************************************)
LEMMA SameTopology ==
  ASSUME spec' = spec
  PROVE  /\ Resolved' = Resolved /\ Outputs' = Outputs /\ Plan' = Plan
         /\ NirNodes' = NirNodes /\ RewrittenNodes' = RewrittenNodes /\ Pooled' = Pooled
         /\ (ValidTopology' <=> ValidTopology) /\ (Raises' <=> Raises)
         /\ (Formed' <=> Formed)
<1>1. Resolved' = Resolved
  BY DEF Resolved
<1>2. Outputs' = Outputs
  BY <1>1 DEF Outputs, Through, Inbound
<1>3. NodeEdges' = NodeEdges /\ InputLink' = InputLink
  BY DEF NodeEdges, InputLink, Links
<1>4. Plan' = Plan
  BY <1>2, <1>3 DEF Plan, Arrivals, Through, Links
<1>5. NirNodes' = NirNodes /\ Pooled' = Pooled
  BY DEF NirNodes, Pooled
<1>6. RewrittenNodes' = RewrittenNodes
  BY <1>5 DEF RewrittenNodes, Scale
<1>7. ValidTopology' <=> ValidTopology
  BY DEF ValidTopology, Acyclic, Inbound, Now
<1>8. Raises' <=> Raises
  BY <1>1 DEF Raises, Acyclic, Inbound
<1>9. Formed' <=> Formed
  BY DEF Formed, NirEdge
<1>10. QED
  BY <1>1, <1>2, <1>4, <1>5, <1>6, <1>7, <1>8, <1>9

\* A graph that the interpreter runs: its edges and values by node and by Delay.
Running(N, E) == [edges : {E}, nodes : [N -> Nat], held : [Late(E) -> Nat]]

\* What holds while a topology is planned and run, whatever its values are.
RunInv ==
  /\ Formed
  /\ planned \in {"build", "refused", "run"} /\ step \in 0..Steps
  /\ planned = "run" => /\ ValidTopology /\ ~Raises
                        /\ stages \in [Stages -> Nat]
                        /\ reference \in Running(NirNodes, Plan)
                        /\ target \in Running(RewrittenNodes, Rewire(Plan))

LEMMA PlannedGraphs ==
  ASSUME Planned
  PROVE  /\ IsFiniteSet(NirNodes) /\ IsFiniteSet(RewrittenNodes)
         /\ Plan \subseteq NirEdge(NirNodes) /\ IsFiniteSet(Plan)
         /\ IsFiniteSet(Rewire(Plan))
         /\ Acyclic(NirNodes, Now(Plan))
         /\ Acyclic(RewrittenNodes, Now(Rewire(Plan)))
<1>1. Formed /\ Plan \subseteq NirEdge(NirNodes) /\ Acyclic(NirNodes, Now(Plan))
  BY PlanInbound, PlanAcyclic DEF Planned
<1>2. IsFiniteSet(NirNodes)
  <2>1. IsFiniteSet({Input}) /\ IsFiniteSet({Output})
    BY FS_Singleton
  <2>2. IsFiniteSet({Input} \cup {Output})
    BY <2>1, FS_Union
  <2>3. IsFiniteSet(Stages \ spec.merges)
    BY NirAssumption, FS_Subset
  <2>4. IsFiniteSet((Stages \ spec.merges) \cup ({Input} \cup {Output}))
    BY <2>2, <2>3, FS_Union
  <2>5. NirNodes = (Stages \ spec.merges) \cup ({Input} \cup {Output})
    BY DEF NirNodes
  <2>6. QED
    BY <2>4, <2>5
<1>3. IsFiniteSet(Pooled)
  BY <1>1, <1>2, RewriteNames, FS_Subset
<1>4. IsFiniteSet(RewrittenNodes)
  <2> DEFINE F == [n \in Pooled |-> Scale(n)]
  <2>1. RewrittenNodes = NirNodes \cup {F[n] : n \in Pooled}
    BY DEF RewrittenNodes
  <2> HIDE DEF F
  <2>2. IsFiniteSet({F[n] : n \in Pooled})
    BY <1>3, FiniteRange
  <2>3. QED
    BY <1>2, <2>1, <2>2, FS_Union
<1>5. IsFiniteSet(Plan)
  BY <1>1, <1>2, FiniteEdges, FS_Subset
<1>6. IsFiniteSet(Rewire(Plan))
  <2> DEFINE F == [e \in Plan |-> Moved(e)]
             K == [n \in Pooled |-> ScaleEdge(n)]
  <2>1. Rewire(Plan) = {F[e] : e \in Plan} \cup {K[n] : n \in Pooled}
    BY DEF Rewire, Moved, ScaleEdge
  <2> HIDE DEF F, K
  <2>2. IsFiniteSet({F[e] : e \in Plan}) /\ IsFiniteSet({K[n] : n \in Pooled})
    BY <1>3, <1>5, FiniteRange
  <2>3. QED
    BY <2>1, <2>2, FS_Union
<1>7. QED
  BY <1>1, <1>2, <1>4, <1>5, <1>6, RewireAcyclic

\* What an interpreter or a sweep can run, at rest and after a step.
LEMMA AtRestRuns ==
  ASSUME NEW N, NEW E
  PROVE  AtRest(N, E) \in Running(N, E)
  BY DEF AtRest, Running

Run(E, v, h) == [edges |-> E, nodes |-> v, held |-> h]
Updated(r, w, k) == [r EXCEPT !.nodes = w, !.held = k]

LEMMA RunUpdated ==
  ASSUME NEW E, NEW v, NEW h, NEW w, NEW k
  PROVE  Updated(Run(E, v, h), w, k) = Run(E, w, k)
<1> DEFINE r == Run(E, v, h)
<1>1. [r EXCEPT !.nodes = w, !.held = k] = [[r EXCEPT !.nodes = w] EXCEPT !.held = k]
  OBVIOUS
<1>2. [[edges |-> E, nodes |-> v, held |-> h] EXCEPT !.nodes = w]
        = [edges |-> E, nodes |-> w, held |-> h]
  OBVIOUS
<1>3. [[edges |-> E, nodes |-> w, held |-> h] EXCEPT !.held = k]
        = [edges |-> E, nodes |-> w, held |-> k]
  OBVIOUS
<1>4. QED
  BY <1>1, <1>2, <1>3 DEF Run, Updated

LEMMA AfterRuns ==
  ASSUME NEW N, NEW E, NEW run \in Running(N, E), NEW P,
         IsFiniteSet(N), IsFiniteSet(E), Acyclic(N, Now(E)),
         \A e \in E : e.delayed \in BOOLEAN /\ e.source \in N
  PROVE  /\ After(run, P) \in Running(N, E)
         /\ Settles(After(run, P).nodes, N, E, Input, run.held, P)
         /\ \A e \in Late(E) : After(run, P).held[e] = After(run, P).nodes[e.source]
<1> DEFINE val == Settled(N, E, Input, run.held, P)
<1>1. /\ run.edges = E /\ DOMAIN run.nodes = N /\ run.held \in [Late(E) -> Nat]
      /\ run = [edges |-> E, nodes |-> run.nodes, held |-> run.held]
  BY DEF Running
<1>2. Runs(N, E, run.held)
  BY <1>1 DEF Runs
<1>3. val \in [N -> Nat] /\ Settles(val, N, E, Input, run.held, P)
  BY <1>2, SettledEquation
<1> HIDE DEF val
<1>4. After(run, P) = [edges |-> E, nodes |-> val,
                       held |-> [e \in Late(E) |-> val[e.source]]]
  <2> DEFINE kept == [e \in Late(E) |-> val[e.source]]
  <2>1. DOMAIN run.held = Late(E) /\ val = Settled(DOMAIN run.nodes, run.edges, Input, run.held, P)
    BY <1>1 DEF val
  <2>2. After(run, P) = [run EXCEPT !.nodes = val, !.held = kept]
    BY <2>1 DEF After
  <2> HIDE DEF kept
  <2>3. Updated(run, val, kept) = Run(E, val, kept)
    <3>1. run = Run(E, run.nodes, run.held)
      BY <1>1 DEF Run
    <3>2. Updated(Run(E, run.nodes, run.held), val, kept) = Run(E, val, kept)
      BY RunUpdated
    <3>3. QED
      BY <3>1, <3>2
  <2>4. QED
    BY <2>2, <2>3 DEF kept, Run, Updated
<1>5. \A e \in Late(E) : val[e.source] \in Nat
  BY <1>3 DEF Late
<1>6. QED
  BY <1>3, <1>4, <1>5 DEF Running

LEMMA SweepRuns ==
  ASSUME Planned, stages \in [Stages -> Nat]
  PROVE  /\ Sweep \in [Stages -> Nat]
         /\ Settles(Sweep, Stages, spec.edges, Entry,
                    [e \in Late(spec.edges) |-> stages[e.source]], {})
<1> DEFINE late == [e \in Late(spec.edges) |-> stages[e.source]]
<1>1. \A e \in spec.edges : e.delayed \in BOOLEAN /\ e.source \in Stages
  BY DEF Planned, Formed, NirEdge
<1>2. IsFiniteSet(spec.edges)
  BY NirAssumption, FiniteEdges, FS_Subset DEF Planned, Formed
<1>3. Runs(Stages, spec.edges, late)
  BY <1>1, <1>2, NirAssumption DEF Runs, Planned, ValidTopology, Late
<1>4. Sweep = Settled(Stages, spec.edges, Entry, late, {})
  BY DEF Sweep
<1> HIDE DEF late
<1>5. Sweep \in [Stages -> Nat] /\ Settles(Sweep, Stages, spec.edges, Entry, late, {})
  BY <1>3, <1>4, SettledEquation
<1>6. QED
  BY <1>5 DEF late

LEMMA RunInvInit == NirInit => RunInv
  BY NirAssumption DEF NirInit, RunInv, Formed

LEMMA RunInvNext == RunInv /\ [NirNext]_nirVars => RunInv'
<1> SUFFICES ASSUME RunInv, [NirNext]_nirVars PROVE RunInv'
  OBVIOUS
<1>1. spec' = spec
  BY DEF NirNext, Refused, Build, RunStep, nirVars
<1>2. /\ Plan' = Plan /\ NirNodes' = NirNodes /\ RewrittenNodes' = RewrittenNodes
      /\ (ValidTopology' <=> ValidTopology) /\ (Raises' <=> Raises) /\ Formed'
  BY <1>1, SameTopology DEF RunInv
<1>3. Rewire(Plan)' = Rewire(Plan)
  BY <1>1, <1>2 DEF Rewire, Out, Pooled, Scale
<1>4. CASE Refused
  BY <1>2, <1>4 DEF Refused, RunInv
<1>5. CASE Build
  <2>1. /\ ValidTopology /\ ~Raises /\ planned' = "run" /\ step' = step
        /\ stages' = [s \in Stages |-> 0]
        /\ reference' = AtRest(NirNodes, Plan)
        /\ target' = AtRest(RewrittenNodes, Rewire(Plan))
    BY <1>5 DEF Build, AtRest
  <2>2. stages' \in [Stages -> Nat]
    BY <2>1
  <2>3. reference' \in Running(NirNodes, Plan) /\ target' \in Running(RewrittenNodes, Rewire(Plan))
    BY <2>1, AtRestRuns
  <2>4. Running(NirNodes, Plan)' = Running(NirNodes, Plan)
    BY <1>2 DEF Running, Late, Now
  <2>5. Running(RewrittenNodes, Rewire(Plan))' = Running(RewrittenNodes, Rewire(Plan))
    BY <1>2, <1>3 DEF Running, Late, Now
  <2>6. QED
    BY <1>2, <2>1, <2>2, <2>3, <2>4, <2>5 DEF RunInv
<1>6. CASE RunStep
  <2>1. /\ Planned /\ planned' = "run" /\ step' \in 0..Steps
        /\ stages \in [Stages -> Nat] /\ stages' = Sweep
        /\ reference \in Running(NirNodes, Plan) /\ reference' = After(reference, {})
        /\ target \in Running(RewrittenNodes, Rewire(Plan)) /\ target' = After(target, Pooled)
    BY <1>6, NirAssumption DEF RunStep, RunInv, Planned
  <2>2. stages' \in [Stages -> Nat]
    BY <2>1, SweepRuns
  <2>3. \A e \in Plan : e.delayed \in BOOLEAN /\ e.source \in NirNodes
    BY <2>1, PlannedGraphs DEF NirEdge
  <2>4. \A e \in Rewire(Plan) : e.delayed \in BOOLEAN /\ e.source \in RewrittenNodes
    BY <2>1, PlannedGraphs, RewireInbound DEF Planned
  <2>5. reference' \in Running(NirNodes, Plan)
    BY <2>1, <2>3, PlannedGraphs, AfterRuns
  <2>6. target' \in Running(RewrittenNodes, Rewire(Plan))
    BY <2>1, <2>4, PlannedGraphs, AfterRuns
  <2>7. Running(NirNodes, Plan)' = Running(NirNodes, Plan)
    BY <1>2 DEF Running, Late, Now
  <2>8. Running(RewrittenNodes, Rewire(Plan))' = Running(RewrittenNodes, Rewire(Plan))
    BY <1>2, <1>3 DEF Running, Late, Now
  <2>9. QED
    BY <1>2, <2>1, <2>2, <2>5, <2>6, <2>7, <2>8 DEF RunInv, Planned
<1>7. CASE UNCHANGED nirVars
  <2>1. Running(NirNodes, Plan)' = Running(NirNodes, Plan)
    BY <1>2 DEF Running, Late, Now
  <2>2. Running(RewrittenNodes, Rewire(Plan))' = Running(RewrittenNodes, Rewire(Plan))
    BY <1>2, <1>3 DEF Running, Late, Now
  <2>3. QED
    BY <1>2, <1>7, <2>1, <2>2 DEF nirVars, RunInv
<1>8. QED
  BY <1>4, <1>5, <1>6, <1>7 DEF NirNext

LEMMA RunInvHolds == NirSpec => []RunInv
<1>1. QED
  BY RunInvInit, RunInvNext, PTL DEF NirSpec

\* NirTypeOK: a planned topology and both of its graphs have a natural number
\* for a value at each of their nodes, at every step, however they recur.
THEOREM NirTypesHold == NirSpec => []NirTypeOK
<1>1. RunInv => NirTypeOK
  BY DEF RunInv, NirTypeOK, Running
<1>2. QED
  BY <1>1, RunInvHolds, PTL

\* PlanIsExecutable: what the planner and the rewriter make is a graph that the
\* interpreter can order and the C runtime loads, for every topology they take.
THEOREM ExecutableHolds == NirSpec => []PlanIsExecutable
<1>1. RunInv => PlanIsExecutable
  <2> SUFFICES ASSUME RunInv, planned = "run"
               PROVE  CRuntimeLoads(reference) /\ CRuntimeLoads(target)
    BY DEF PlanIsExecutable
  <2>1. Planned /\ Formed
    BY DEF RunInv, Planned
  <2>2. /\ reference.edges = Plan /\ DOMAIN reference.nodes = NirNodes
        /\ target.edges = Rewire(Plan) /\ DOMAIN target.nodes = RewrittenNodes
    BY DEF RunInv, Running
  <2>3. \A e \in Plan : e.source \in NirNodes /\ e.target \in NirNodes
    BY <2>1, PlannedGraphs DEF NirEdge
  <2>4. CRuntimeLoads(reference)
    BY <2>1, <2>2, <2>3, PlannedGraphs, PlanFeeds DEF CRuntimeLoads
  <2>5. \A l \in Rewire(Plan) : l.source \in RewrittenNodes /\ l.target \in RewrittenNodes
    <3>1. \A n \in Pooled : Scale(n) \in RewrittenNodes
      BY DEF RewrittenNodes
    <3>2. \A e \in Plan : Moved(e).target \in RewrittenNodes
      BY <2>1, <2>3, PlannedGraphs, MovedFields, RewriteNames
    <3>3. \A l \in Rewire(Plan) : \/ \E e \in Plan : l = Moved(e)
                                  \/ \E n \in Pooled : l = ScaleEdge(n)
      BY DEF Rewire, Moved, ScaleEdge
    <3>4. \A n \in Pooled : ScaleEdge(n).target = Scale(n)
      BY DEF ScaleEdge
    <3>5. \A l \in Rewire(Plan) : l.target \in RewrittenNodes
      BY <3>1, <3>2, <3>3, <3>4
    <3>6. QED
      BY <2>1, <3>5, PlannedGraphs, RewireInbound
  <2>6. ASSUME NEW n \in RewrittenNodes \ {Input} PROVE Inbound(Rewire(Plan), n) # {}
    <3>1. CASE n \in NirNodes
      <4>1. Inbound(Plan, n) # {}
        BY <2>1, <3>1, PlanFeeds
      <4>2. QED
        BY <2>1, <3>1, <4>1, PlannedGraphs, RewireInbound
    <3>2. CASE \E m \in Pooled : n = Scale(m)
      BY <2>1, <3>2, PlannedGraphs, RewireInbound
    <3>3. QED
      BY <3>1, <3>2 DEF RewrittenNodes
  <2>7. CRuntimeLoads(target)
    BY <2>1, <2>2, <2>5, <2>6, PlannedGraphs DEF CRuntimeLoads
  <2>8. QED
    BY <2>4, <2>7
<1>2. QED
  BY <1>1, RunInvHolds, PTL
-----------------------------------------------------------------------------
(***************************************************************************)
(* The rewritten graph gives what the plan gives.                          *)
(***************************************************************************)
\* What is added up at a node.
Terms(E, n, late, val) ==
  [e \in Inbound(E, n) |-> IF e.delayed THEN late[e] ELSE val[e.source]]

LEMMA SumOfTerms ==
  ASSUME NEW E, NEW n, NEW first, NEW late, NEW val
  PROVE  SumInto(E, n, first, late, val)
           = (IF n = first THEN Impulse ELSE 0) + Total(Terms(E, n, late, val))
  BY DEF SumInto, Terms

\* Values of the nodes and Delays of a graph that are one step of it.
Stepped(N, E, late, val, P) ==
  /\ late \in [Late(E) -> Nat] /\ val \in [N -> Nat]
  /\ Settles(val, N, E, Input, late, P)
  /\ IsFiniteSet(E) /\ \A e \in E : e.delayed \in BOOLEAN /\ e.source \in N

LEMMA TermsType ==
  ASSUME NEW N, NEW E, NEW late, NEW val, NEW P, NEW n, Stepped(N, E, late, val, P)
  PROVE  /\ Terms(E, n, late, val) \in [Inbound(E, n) -> Nat]
         /\ IsFiniteSet(Inbound(E, n))
         /\ Total(Terms(E, n, late, val)) \in Nat
<1>1. Terms(E, n, late, val) \in [Inbound(E, n) -> Nat]
  BY DEF Terms, Stepped, Inbound, Late, Now
<1>2. IsFiniteSet(Inbound(E, n))
  BY FS_Subset DEF Stepped, Inbound
<1>3. QED
  BY <1>1, <1>2, TotalType

BothStepped(held, nodes, theld, tnodes) ==
  /\ Planned
  /\ Stepped(NirNodes, Plan, held, nodes, {})
  /\ Stepped(RewrittenNodes, Rewire(Plan), theld, tnodes, Pooled)
  /\ \A e \in Late(Plan) : held[e] = theld[Moved(e)]

\* A node of the plan adds up the same values in both graphs.
LEMMA SameSums ==
  ASSUME NEW held, NEW nodes, NEW theld, NEW tnodes,
         BothStepped(held, nodes, theld, tnodes), NEW n \in NirNodes,
         \A e \in Inbound(Now(Plan), n) : nodes[e.source] = tnodes[Out(e.source)]
  PROVE  Total(Terms(Plan, n, held, nodes)) = Total(Terms(Rewire(Plan), n, theld, tnodes))
<1> DEFINE S == Inbound(Plan, n)
           T == Inbound(Rewire(Plan), n)
           h == [e \in S |-> Moved(e)]
           f == Terms(Rewire(Plan), n, theld, tnodes)
           g == Terms(Plan, n, held, nodes)
<1>1. Formed /\ Plan \in SUBSET NirEdge(NirNodes)
  BY PlannedGraphs DEF BothStepped, Planned
<1>2. T = {Moved(e) : e \in S}
  BY <1>1, RewireInbound
<1>3. \A e \in S : e \in NirEdge(NirNodes) /\ e \in Plan
  BY <1>1 DEF Inbound
<1>4. ASSUME NEW d \in S, NEW e \in S, Moved(d) = Moved(e) PROVE d = e
  <2>1. d.source \in NirNodes /\ e.source \in NirNodes
    BY <1>3 DEF NirEdge
  <2>2. Out(d.source) = Out(e.source) /\ d.target = e.target /\ d.delayed = e.delayed
    BY <1>3, <1>4, MovedFields
  <2>3. d.source = e.source
    BY <1>1, <2>1, <2>2, RewriteNames
  <2>4. QED
    BY <1>3, <2>2, <2>3, MovedFields
<1>5. ASSUME NEW e \in S PROVE g[e] = f[Moved(e)]
  <2>1. Moved(e) \in T /\ Moved(e).delayed = e.delayed /\ Moved(e).source = Out(e.source)
    BY <1>2, <1>3, MovedFields
  <2>2. CASE e.delayed
    <3>1. held[e] = theld[Moved(e)]
      BY <1>3, <2>2 DEF BothStepped, Late, Now
    <3>2. QED
      BY <2>1, <2>2, <3>1 DEF Terms
  <2>3. CASE ~e.delayed
    <3>1. nodes[e.source] = tnodes[Out(e.source)]
      BY <2>3 DEF Inbound, Now
    <3>2. QED
      BY <2>1, <2>3, <3>1 DEF Terms
  <2>4. QED
    BY <2>2, <2>3
<1>6. f \in [T -> Nat] /\ IsFiniteSet(S) /\ g \in [S -> Nat]
  BY TermsType DEF BothStepped
<1> HIDE DEF S, T, f, g
<1>7. Renames(S, h, T, f, g)
  <2>1. T = {h[e] : e \in S} /\ \A d, e \in S : h[d] = h[e] => d = e
    BY <1>2, <1>4
  <2>2. g = [e \in S |-> f[h[e]]]
    BY <1>5, <1>6
  <2> HIDE DEF h
  <2>3. QED
    BY <1>6, <2>1, <2>2 DEF Renames
<1>8. QED
  BY <1>7, TotalRenamed DEF f, g

LEMMA StepRewritten ==
  ASSUME NEW held, NEW nodes, NEW theld, NEW tnodes,
         BothStepped(held, nodes, theld, tnodes)
  PROVE  \A n \in NirNodes : nodes[n] = tnodes[Out(n)]
<1> DEFINE Bad == {n \in NirNodes : nodes[n] # tnodes[Out(n)]}
<1> SUFFICES ASSUME Bad # {} PROVE FALSE
  OBVIOUS
<1>1. Planned /\ Formed /\ Plan \in SUBSET NirEdge(NirNodes) /\ Acyclic(NirNodes, Now(Plan))
  BY PlannedGraphs DEF BothStepped, Planned
<1>2. PICK n \in Bad : \A e \in Inbound(Now(Plan), n) : e.source \notin Bad
  BY <1>1 DEF Acyclic
<1>3. \A e \in Inbound(Now(Plan), n) : nodes[e.source] = tnodes[Out(e.source)]
  BY <1>1, <1>2 DEF Inbound, Now, NirEdge
<1> DEFINE first == IF n = Input THEN Impulse ELSE 0
           sum == first + Total(Terms(Plan, n, held, nodes))
<1>4. sum = first + Total(Terms(Rewire(Plan), n, theld, tnodes))
  BY <1>2, <1>3, SameSums
<1>5. sum \in Nat
  <2>1. first \in Nat
    BY DEF Impulse
  <2>2. Total(Terms(Plan, n, held, nodes)) \in Nat
    BY TermsType DEF BothStepped
  <2>3. QED
    BY <2>1, <2>2
<1>6. nodes[n] = sum
  <2>1. nodes[n] = NodeValue(n, SumInto(Plan, n, Input, held, nodes), {})
    BY <1>2 DEF BothStepped, Stepped, Settles
  <2>2. \A m \in {} : FALSE
    OBVIOUS
  <2>3. QED
    BY <2>1, SumOfTerms DEF NodeValue
<1>7. \A m \in RewrittenNodes :
        tnodes[m] = NodeValue(m, SumInto(Rewire(Plan), m, Input, theld, tnodes), Pooled)
  BY DEF BothStepped, Stepped, Settles
<1>8. tnodes[n] = NodeValue(n, sum, Pooled)
  BY <1>1, <1>2, <1>4, <1>7, SumOfTerms, RewriteNames
<1> HIDE DEF sum, first
<1>9. CASE n \notin Pooled
  <2>1. n \notin {Scale(m) : m \in Pooled}
    BY <1>1, <1>2, RewriteNames
  <2>2. tnodes[Out(n)] = sum
    BY <1>8, <1>9, <2>1 DEF NodeValue, Out
  <2>3. QED
    BY <1>2, <1>6, <2>2
<1>10. CASE n \in Pooled
  <2>1. tnodes[n] = 2 * sum
    <3>1. n \notin {Scale(m) : m \in Pooled}
      BY <1>1, <1>2, RewriteNames
    <3>2. QED
      BY <1>8, <1>10, <3>1 DEF NodeValue
  <2>2. Scale(n) \in RewrittenNodes /\ Scale(n) # Input /\ Out(n) = Scale(n)
        /\ Scale(n) \notin Pooled /\ Scale(n) \in {Scale(m) : m \in Pooled}
    <3>1. Input \in NirNodes /\ Scale(n) \notin NirNodes
      BY <1>1, <1>10, RewriteNames DEF NirNodes
    <3>2. QED
      BY <1>1, <1>10, <3>1, RewriteNames DEF RewrittenNodes, Out
  <2>3. Terms(Rewire(Plan), Scale(n), theld, tnodes) = [y \in {ScaleEdge(n)} |-> tnodes[n]]
    <3>1. Inbound(Rewire(Plan), Scale(n)) = {ScaleEdge(n)}
      BY <1>1, <1>10, RewireInbound
    <3>2. ScaleEdge(n).delayed = FALSE /\ ScaleEdge(n).source = n
      BY DEF ScaleEdge
    <3>3. QED
      BY <3>1, <3>2 DEF Terms
  <2>4. 2 * sum \in Nat
    BY <1>5
  <2>5. Total(Terms(Rewire(Plan), Scale(n), theld, tnodes)) = 2 * sum
    BY <2>1, <2>3, <2>4, TotalOfOne
  <2>6. SumInto(Rewire(Plan), Scale(n), Input, theld, tnodes) = 2 * sum
    BY <1>5, <2>2, <2>5, SumOfTerms
  <2>7. tnodes[Scale(n)] = (2 * sum) \div 2
    BY <1>7, <2>2, <2>6 DEF NodeValue
  <2>8. (2 * sum) \div 2 = sum
    BY <1>5
  <2>9. QED
    BY <1>2, <1>6, <2>2, <2>7, <2>8
<1>11. QED
  BY <1>9, <1>10

RewriteInv ==
  planned = "run" =>
    /\ \A n \in NirNodes : reference.nodes[n] = target.nodes[Out(n)]
    /\ \A e \in Late(Plan) : reference.held[e] = target.held[Moved(e)]

LEMMA RewriteInvNext ==
  RunInv /\ RewriteInv /\ [NirNext]_nirVars => RewriteInv'
<1> SUFFICES ASSUME RunInv, RewriteInv, [NirNext]_nirVars, planned' = "run"
             PROVE  /\ \A n \in NirNodes' : reference'.nodes[n] = target'.nodes[Out(n)']
                    /\ \A e \in Late(Plan)' : reference'.held[e] = target'.held[Moved(e)']
  BY DEF RewriteInv
<1>1. spec' = spec
  BY DEF NirNext, Refused, Build, RunStep, nirVars
<1>2. /\ NirNodes' = NirNodes /\ Late(Plan)' = Late(Plan)
      /\ \A n : Out(n)' = Out(n)
      /\ \A e : Moved(e)' = Moved(e)
  BY <1>1, SameTopology DEF Late, Now, Out, Moved
<1>3. Formed
  BY DEF RunInv
<1>4. CASE Refused
  BY <1>4 DEF Refused
<1>5. CASE Build
  <2>1. Planned /\ reference' = AtRest(NirNodes, Plan) /\ target' = AtRest(RewrittenNodes, Rewire(Plan))
    BY <1>3, <1>5 DEF Build, AtRest, Planned
  <2>2. Late(Rewire(Plan)) = {Moved(e) : e \in Late(Plan)}
    BY <2>1, <1>3, PlannedGraphs, RewireInbound
  <2>3. \A n \in NirNodes : Out(n) \in RewrittenNodes
    BY <1>3, RewriteNames
  <2>4. QED
    BY <1>2, <2>1, <2>2, <2>3 DEF AtRest
<1>6. CASE RunStep
  <2>1. /\ Planned /\ planned = "run"
        /\ reference \in Running(NirNodes, Plan) /\ reference' = After(reference, {})
        /\ target \in Running(RewrittenNodes, Rewire(Plan)) /\ target' = After(target, Pooled)
    BY <1>6 DEF RunStep, RunInv, Planned
  <2>2. \A e \in Plan : e.delayed \in BOOLEAN /\ e.source \in NirNodes
    BY <2>1, PlannedGraphs DEF NirEdge
  <2>3. \A e \in Rewire(Plan) : e.delayed \in BOOLEAN /\ e.source \in RewrittenNodes
    BY <1>3, <2>1, PlannedGraphs, RewireInbound
  <2>4. /\ reference' \in Running(NirNodes, Plan)
        /\ Settles(reference'.nodes, NirNodes, Plan, Input, reference.held, {})
        /\ \A e \in Late(Plan) : reference'.held[e] = reference'.nodes[e.source]
    BY <2>1, <2>2, PlannedGraphs, AfterRuns
  <2>5. /\ target' \in Running(RewrittenNodes, Rewire(Plan))
        /\ Settles(target'.nodes, RewrittenNodes, Rewire(Plan), Input, target.held, Pooled)
        /\ \A e \in Late(Rewire(Plan)) : target'.held[e] = target'.nodes[e.source]
    BY <2>1, <2>3, PlannedGraphs, AfterRuns
  <2>6. BothStepped(reference.held, reference'.nodes, target.held, target'.nodes)
    <3>1. Stepped(NirNodes, Plan, reference.held, reference'.nodes, {})
      BY <2>1, <2>2, <2>4, PlannedGraphs DEF Stepped, Running
    <3>2. Stepped(RewrittenNodes, Rewire(Plan), target.held, target'.nodes, Pooled)
      BY <2>1, <2>3, <2>5, PlannedGraphs DEF Stepped, Running
    <3>3. QED
      BY <2>1, <3>1, <3>2 DEF BothStepped, RewriteInv
  <2>7. \A n \in NirNodes : reference'.nodes[n] = target'.nodes[Out(n)]
    BY <2>6, StepRewritten
  <2>8. ASSUME NEW e \in Late(Plan) PROVE reference'.held[e] = target'.held[Moved(e)]
    <3>1. e \in NirEdge(NirNodes) /\ e.source \in NirNodes
      BY <2>1, PlannedGraphs DEF Late, NirEdge
    <3>2. Moved(e) \in Late(Rewire(Plan)) /\ Moved(e).source = Out(e.source)
      BY <1>3, <2>1, <3>1, PlannedGraphs, RewireInbound, MovedFields
    <3>3. QED
      BY <2>4, <2>5, <2>7, <3>1, <3>2
  <2>9. QED
    BY <1>2, <2>7, <2>8
<1>7. CASE UNCHANGED nirVars
  BY <1>2, <1>7 DEF nirVars, RewriteInv
<1>8. QED
  BY <1>4, <1>5, <1>6, <1>7 DEF NirNext

\* RewriteAgrees: the graph rewritten for a target without average pooling gives
\* at every step what the plan gives, whatever pools there are and wherever.
THEOREM RewriteHolds == NirSpec => []RewriteAgrees
<1>1. NirInit => RewriteInv
  BY DEF NirInit, RewriteInv
<1>2. RewriteInv => RewriteAgrees
  BY DEF RewriteInv, RewriteAgrees
<1>3. QED
  BY <1>1, <1>2, RewriteInvNext, RunInvHolds, PTL DEF NirSpec
-----------------------------------------------------------------------------
(***************************************************************************)
(* The plan gives what the topology gives.                                 *)
(***************************************************************************)
\* What holds between the stages and the nodes of the plan after every step.  A
\* merge stage has no node: its value is the sum of the nodes that carry it,
\* where no delay lies between, and that is what a delayed edge out of it reads.
Agree(stage, node) ==
  /\ \A s \in Stages \ spec.merges : node[s] = stage[s]
  /\ node[Output] = stage[spec.output]
  /\ \A n \in Resolved : (\A o \in Outputs[n] : ~o[2]) =>
       stage[n] = Total([o \in Outputs[n] |-> node[o[1]]])

\* One step of both.
StepOfBoth(stage, held, node, stage2, node2) ==
  /\ Planned /\ WaysAreDistinct
  /\ stage \in [Stages -> Nat] /\ node \in [NirNodes -> Nat]
  /\ stage2 \in [Stages -> Nat]
  /\ Stepped(NirNodes, Plan, held, node2, {})
  /\ Settles(stage2, Stages, spec.edges, Entry, [e \in Late(spec.edges) |-> stage[e.source]], {})
  /\ \A e \in Late(Plan) : held[e] = node[e.source]
  /\ Agree(stage, node)

\* What a pair brings: its node's value, of this step or of the last one.
Brings(node, node2) ==
  [o \in Carriers |-> IF o[2] THEN node[o[1]] ELSE node2[o[1]]]

On(f, A) == [o \in A |-> f[o]]

LEMMA CarriersFinite ==
  ASSUME Planned
  PROVE  IsFiniteSet(Carriers) /\ \A o \in Carriers : o[1] \in NirNodes /\ o[2] \in BOOLEAN
<1>1. IsFiniteSet(BOOLEAN)
  <2>1. BOOLEAN = {TRUE} \cup {FALSE}
    OBVIOUS
  <2>2. IsFiniteSet({TRUE}) /\ IsFiniteSet({FALSE})
    BY FS_Singleton
  <2>3. QED
    BY <2>1, <2>2, FS_Union
<1>2. (Stages \ spec.merges) \cup {Input} \subseteq NirNodes
  BY DEF NirNodes
<1>3. IsFiniteSet((Stages \ spec.merges) \cup {Input})
  BY <1>2, PlannedGraphs, FS_Subset
<1>4. IsFiniteSet(Carriers)
  BY <1>1, <1>3, FS_Product DEF Carriers
<1>5. QED
  BY <1>2, <1>4 DEF Carriers

LEMMA BringsType ==
  ASSUME NEW node, NEW node2, Planned,
         node \in [NirNodes -> Nat], node2 \in [NirNodes -> Nat]
  PROVE  Brings(node, node2) \in [Carriers -> Nat]
  BY CarriersFinite DEF Brings

\* A node of the plan adds up what is brought by the pairs its edges link.
LEMMA LinkedSum ==
  ASSUME NEW stage, NEW held, NEW node, NEW stage2, NEW node2,
         StepOfBoth(stage, held, node, stage2, node2),
         NEW n \in NirNodes, NEW A \in SUBSET Carriers, Inbound(Plan, n) = Links(A, n)
  PROVE  Total(Terms(Plan, n, held, node2)) = Total(On(Brings(node, node2), A))
<1> DEFINE link(o) == [source |-> o[1], target |-> n, delayed |-> o[2]]
           h == [o \in A |-> link(o)]
           T == Inbound(Plan, n)
           f == Terms(Plan, n, held, node2)
           g == On(Brings(node, node2), A)
<1>1. Planned /\ IsFiniteSet(A)
  BY CarriersFinite, FS_Subset DEF StepOfBoth
<1>2. T = {link(o) : o \in A}
  BY DEF Links
<1>3. ASSUME NEW o \in A, NEW p \in A, link(o) = link(p) PROVE o = p
  <2>1. link(o).source = o[1] /\ link(p).source = p[1]
        /\ link(o).delayed = o[2] /\ link(p).delayed = p[2]
    OBVIOUS
  <2>2. o[1] = p[1] /\ o[2] = p[2]
    BY <1>3, <2>1
  <2>3. QED
    BY <2>2 DEF Carriers
<1>4. ASSUME NEW o \in A PROVE g[o] = f[link(o)]
  <2>1. link(o) \in T /\ link(o).source = o[1] /\ link(o).delayed = o[2]
    BY <1>2
  <2>2. o \in Carriers /\ o[2] \in BOOLEAN /\ link(o) \in Plan
    BY <1>1, <2>1, CarriersFinite DEF Inbound
  <2>3. o[2] => held[link(o)] = node[o[1]]
    BY <2>1, <2>2 DEF StepOfBoth, Late, Now
  <2>4. f[link(o)] = IF o[2] THEN held[link(o)] ELSE node2[o[1]]
    BY <2>1 DEF Terms
  <2>5. g[o] = IF o[2] THEN node[o[1]] ELSE node2[o[1]]
    BY <2>2 DEF On, Brings
  <2>6. QED
    BY <2>3, <2>4, <2>5
<1>5. f \in [T -> Nat]
  BY TermsType DEF StepOfBoth
<1>6. Renames(A, h, T, f, g)
  <2>1. T = {h[o] : o \in A} /\ \A o, p \in A : h[o] = h[p] => o = p
    BY <1>2, <1>3
  <2>2. g = [o \in A |-> f[h[o]]]
    BY <1>4 DEF On
  <2> HIDE DEF h, f, g, T
  <2>3. QED
    BY <1>1, <1>5, <2>1, <2>2 DEF Renames
<1> HIDE DEF h, T, f, g
<1>7. Total(g) = Total(f)
  BY <1>6, TotalRenamed
<1>8. QED
  BY <1>7 DEF f, g

\* What an edge of the topology brings is what the pairs it makes of them bring:
\* a delayed edge reads the last value, and the sum of the nodes it stands for.
LEMMA ArrivalSum ==
  ASSUME NEW stage, NEW held, NEW node, NEW stage2, NEW node2,
         StepOfBoth(stage, held, node, stage2, node2),
         NEW n \in Fed, NEW e \in Inbound(spec.edges, n),
         ~e.delayed => stage2[e.source] = Total(On(Brings(node, node2), Outputs[e.source]))
  PROVE  (IF e.delayed THEN stage[e.source] ELSE stage2[e.source])
           = Total(On(Brings(node, node2), Arrivals(e)))
<1>1. Planned /\ Formed /\ ~Raises /\ e.source \in Resolved /\ e.delayed \in BOOLEAN
  BY FedByResolved DEF StepOfBoth, Planned
<1>2. CASE ~e.delayed
  BY <1>1, <1>2, ArrivalsMembers
<1>3. CASE e.delayed
  <2> DEFINE A == Outputs[e.source]
             late(o) == <<o[1], TRUE>>
             h == [o \in A |-> late(o)]
             T == Arrivals(e)
             f == On(Brings(node, node2), T)
             g == [o \in A |-> node[o[1]]]
  <2>1. A \subseteq Carriers /\ T \subseteq Carriers /\ T = {late(o) : o \in A}
    BY <1>1, <1>3, ArrivalsMembers, OutputsEquation
  <2>2. \A o \in A : ~o[2]
    BY <1>3 DEF StepOfBoth, WaysAreDistinct, Fed
  <2>3. stage[e.source] = Total(g)
    BY <1>1, <2>2 DEF StepOfBoth, Agree
  <2>4. ASSUME NEW o \in A, NEW p \in A, late(o) = late(p) PROVE o = p
    <3>1. late(o)[1] = o[1] /\ late(p)[1] = p[1]
      OBVIOUS
    <3>2. o[1] = p[1]
      BY <2>4, <3>1
    <3>3. o[2] = FALSE /\ p[2] = FALSE
      BY <2>1, <2>2 DEF Carriers
    <3>4. QED
      BY <2>1, <3>2, <3>3 DEF Carriers
  <2>5. ASSUME NEW o \in A PROVE g[o] = f[late(o)]
    <3>1. late(o) \in T /\ late(o) \in Carriers /\ late(o)[1] = o[1] /\ late(o)[2] = TRUE
      BY <2>1
    <3>2. f[late(o)] = Brings(node, node2)[late(o)]
      BY <3>1 DEF On
    <3>3. Brings(node, node2)[late(o)] = node[o[1]]
      BY <3>1 DEF Brings
    <3>4. QED
      BY <3>2, <3>3
  <2>6. IsFiniteSet(A) /\ IsFiniteSet(T)
    BY <1>1, <2>1, CarriersFinite, FS_Subset
  <2>7. f \in [T -> Nat]
    <3>1. Brings(node, node2) \in [Carriers -> Nat]
      BY BringsType DEF StepOfBoth, Stepped
    <3>2. QED
      BY <2>1, <3>1 DEF On
  <2>8. Renames(A, h, T, f, g)
    <3>1. T = {h[o] : o \in A} /\ \A o, p \in A : h[o] = h[p] => o = p
      BY <2>1, <2>4
    <3>2. g = [o \in A |-> f[h[o]]]
      BY <2>5
    <3> HIDE DEF A, h, f, g, T
    <3>3. QED
      BY <2>6, <2>7, <3>1, <3>2 DEF Renames
  <2> HIDE DEF A, h, T, f, g
  <2>9. Total(g) = Total(f)
    BY <2>8, TotalRenamed
  <2>10. QED
    BY <1>3, <2>3, <2>9 DEF f, T
<1>4. QED
  BY <1>1, <1>2, <1>3

\* A stage that is fed by resolved ones has the value of what arrives there.
LEMMA StageSum ==
  ASSUME NEW stage, NEW held, NEW node, NEW stage2, NEW node2,
         StepOfBoth(stage, held, node, stage2, node2), NEW n \in Fed,
         \A e \in Inbound(Now(spec.edges), n) :
           stage2[e.source] = Total(On(Brings(node, node2), Outputs[e.source]))
  PROVE  stage2[n] = Total(On(Brings(node, node2), Arriving(n)))
<1> DEFINE B == Brings(node, node2)
           late == [e \in Late(spec.edges) |-> stage[e.source]]
           S == Inbound(spec.edges, n)
           A == [e \in S |-> Arrivals(e)]
           T == UNION {Arrivals(e) : e \in S}
           g == Terms(spec.edges, n, late, stage2)
           f == On(B, T)
<1>1. Planned /\ Formed /\ ~Raises /\ n \in Stages
  BY FedByResolved DEF StepOfBoth, Planned
<1>2. B \in [Carriers -> Nat]
  BY BringsType DEF StepOfBoth, Stepped
<1>3. \A e \in S : Arrivals(e) \subseteq Carriers /\ IsFiniteSet(Arrivals(e))
  BY <1>1, ArrivalsMembers, CarriersFinite, FS_Subset
<1>4. IsFiniteSet(S)
  <2>1. IsFiniteSet(spec.edges)
    BY <1>1, NirAssumption, FiniteEdges, FS_Subset DEF Formed
  <2>2. QED
    BY <2>1, FS_Subset DEF Inbound
<1>5. ASSUME NEW e \in S PROVE g[e] = Total(On(f, Arrivals(e)))
  <2>1. e \in spec.edges /\ e.delayed \in BOOLEAN
    BY <1>1, FedByResolved
  <2>2. ~e.delayed => stage2[e.source] = Total(On(B, Outputs[e.source]))
    BY <2>1 DEF Inbound, Now
  <2>3. (IF e.delayed THEN stage[e.source] ELSE stage2[e.source]) = Total(On(B, Arrivals(e)))
    BY <2>2, ArrivalSum
  <2>4. g[e] = IF e.delayed THEN stage[e.source] ELSE stage2[e.source]
    BY <2>1 DEF Terms, Late, Now
  <2>5. On(f, Arrivals(e)) = On(B, Arrivals(e))
    BY DEF On
  <2>6. QED
    BY <2>3, <2>4, <2>5
<1>6. T \subseteq Carriers /\ f \in [T -> Nat]
  <2>1. T \subseteq Carriers
    BY <1>3
  <2> HIDE DEF T, B
  <2>2. QED
    BY <1>2, <2>1 DEF On
<1>7. Parts(S, A, T, f, g)
  <2>1. \A e \in S : A[e] = Arrivals(e) /\ IsFiniteSet(A[e])
    BY <1>3
  <2>2. \A d, e \in S : d # e => A[d] \cap A[e] = {}
    BY DEF StepOfBoth, WaysAreDistinct, Fed
  <2>3. T = UNION {A[e] : e \in S}
    OBVIOUS
  <2>4. g = [e \in S |-> Total([o \in A[e] |-> f[o]])]
    <3>1. DOMAIN g = S /\ g = [e \in S |-> g[e]]
      BY DEF Terms
    <3>2. \A e \in S : g[e] = Total([o \in A[e] |-> f[o]])
      BY <1>5, <2>1 DEF On
    <3> HIDE DEF g, A, f, S, T
    <3>3. QED
      BY <3>1, <3>2
  <2> HIDE DEF S, A, T, f, g
  <2>5. QED
    BY <1>4, <1>6, <2>1, <2>2, <2>3, <2>4 DEF Parts
<1>8. Total(g) = Total(f) /\ IsFiniteSet(T)
  <2> HIDE DEF S, A, T, f, g
  <2>1. QED
    BY <1>7, TotalOfTotals
<1>9. stage2[n] = (IF n = Entry THEN Impulse ELSE 0) + Total(g)
  <2>1. stage2[n] = NodeValue(n, SumInto(spec.edges, n, Entry, late, stage2), {})
    BY <1>1 DEF StepOfBoth, Settles
  <2>2. QED
    BY <2>1, SumOfTerms DEF NodeValue
<1>10. Total(f) \in Nat
  BY <1>6, <1>8, TotalType
<1>11. CASE n # Entry
  <2>1. Arriving(n) = T
    BY <1>11 DEF Arriving
  <2>2. QED
    BY <1>8, <1>9, <1>10, <1>11, <2>1
<1>12. CASE n = Entry
  <2> DEFINE x == <<Input, FALSE>>
  <2>1. Arriving(n) = T \cup {x}
    BY <1>12 DEF Arriving
  <2>2. x \notin T
    BY <1>12 DEF StepOfBoth, WaysAreDistinct, Fed
  <2>3. x \in Carriers /\ x[1] = Input /\ x[2] = FALSE
    BY DEF Carriers
  <2>4. B[x] = Impulse
    <3>1. B[x] = node2[Input]
      BY <2>3 DEF Brings
    <3>2. Inbound(Plan, Input) = {} /\ Input \in NirNodes
      BY <1>1, PlanInbound DEF NirNodes
    <3>3. node2[Input] = NodeValue(Input, SumInto(Plan, Input, Input, held, node2), {})
      BY <3>2 DEF StepOfBoth, Stepped, Settles
    <3>4. node2[Input] = Impulse + Total(Terms(Plan, Input, held, node2))
      BY <3>3, SumOfTerms DEF NodeValue
    <3>5. Total(Terms(Plan, Input, held, node2)) = 0
      <4>1. Pairs(Terms(Plan, Input, held, node2)) = {}
        BY <3>2 DEF Pairs, Terms
      <4>2. QED
        BY <4>1, FS_EmptySet DEF Total, Pairs
    <3>6. Impulse \in Nat
      BY DEF Impulse
    <3>7. QED
      BY <3>1, <3>4, <3>5, <3>6
  <2> DEFINE k == On(B, T \cup {x})
  <2>5. k \in [T \cup {x} -> Nat] /\ k[x] = B[x] /\ [y \in T |-> k[y]] = f
    <3>1. T \cup {x} \subseteq Carriers
      BY <1>6, <2>3
    <3> HIDE DEF T, B, x
    <3>2. QED
      BY <1>2, <3>1 DEF On
  <2> HIDE DEF k, T, x, f, B, g
  <2>6. Total(k) = k[x] + Total(f)
    <3>1. Inserts(T, x, k, f)
      BY <1>8, <2>2, <2>5 DEF Inserts
    <3>2. QED
      BY <3>1, TotalInsert
  <2>7. Total(k) = Impulse + Total(f)
    BY <2>4, <2>5, <2>6
  <2>8. Impulse + Total(g) = Total(k)
    BY <1>8, <2>7
  <2>9. QED
    BY <1>9, <1>12, <2>1, <2>8 DEF k, B
<1>13. QED
  BY <1>11, <1>12

LEMMA StepAgree ==
  ASSUME NEW stage, NEW held, NEW node, NEW stage2, NEW node2,
         StepOfBoth(stage, held, node, stage2, node2)
  PROVE  Agree(stage2, node2)
<1> DEFINE B == Brings(node, node2)
           Good(n) == stage2[n] = Total(On(B, Outputs[n]))
           Bad == {n \in Resolved : ~Good(n)}
<1>1. Planned /\ Formed /\ ~Raises /\ Acyclic(Stages, Now(spec.edges))
  BY DEF StepOfBoth, Planned, ValidTopology
<1>2. ASSUME NEW s \in Stages \ spec.merges
      PROVE  node2[s] = Total(On(B, Arriving(s))) /\ node2[s] \in Nat
  <2>1. s \in NirNodes /\ s \in Fed /\ s # Input
    BY NirAssumption DEF NirNodes, Fed
  <2>2. Arriving(s) \subseteq Carriers /\ Inbound(Plan, s) = Links(Arriving(s), s)
    BY <1>1, <2>1, FullType, PlanInbound
  <2>3. Total(Terms(Plan, s, held, node2)) = Total(On(B, Arriving(s)))
    BY <2>1, <2>2, LinkedSum
  <2>4. node2[s] = NodeValue(s, SumInto(Plan, s, Input, held, node2), {})
    BY <2>1 DEF StepOfBoth, Stepped, Settles
  <2>5. Total(Terms(Plan, s, held, node2)) \in Nat /\ node2[s] \in Nat
    BY <2>1, TermsType DEF StepOfBoth, Stepped
  <2>6. QED
    BY <2>1, <2>3, <2>4, <2>5, SumOfTerms DEF NodeValue
<1>3. ASSUME NEW n \in Resolved, stage2[n] = Total(On(B, Arriving(n))) PROVE Good(n)
  <2>1. CASE n \in spec.merges
    BY <1>1, <1>3, <2>1, OutputsOf
  <2>2. CASE n \notin spec.merges
    <3> DEFINE x == <<n, FALSE>>
    <3>1. n \in Stages \ spec.merges
      BY <1>1, <2>2, ResolvedClosed
    <3>2. Outputs[n] = {x}
      BY <1>1, <2>2, OutputsOf
    <3>3. x \in Carriers /\ x[1] = n /\ x[2] = FALSE
      BY <3>1 DEF Carriers
    <3>4. B[x] = node2[n]
      BY <3>3 DEF Brings
    <3>5. On(B, {x}) = [y \in {x} |-> node2[n]]
      BY <3>4 DEF On
    <3>6. Total(On(B, {x})) = node2[n]
      BY <1>2, <3>1, <3>5, TotalOfOne
    <3>7. QED
      BY <1>2, <1>3, <3>1, <3>2, <3>6
  <2>3. QED
    BY <2>1, <2>2
<1>4. Bad = {}
  <2> SUFFICES ASSUME Bad # {} PROVE FALSE
    OBVIOUS
  <2>1. PICK n \in Bad : \A e \in Inbound(Now(spec.edges), n) : e.source \notin Bad
    BY <1>1, ResolvedClosed DEF Acyclic
  <2>2. n \in Fed /\ n \in Resolved
    BY <2>1 DEF Fed
  <2>3. \A e \in Inbound(Now(spec.edges), n) : e.source \in Resolved
    BY <1>1, <2>2, FedByResolved DEF Inbound, Now
  <2>4. \A e \in Inbound(Now(spec.edges), n) : Good(e.source)
    BY <2>1, <2>3
  <2>5. stage2[n] = Total(On(B, Arriving(n)))
    BY <2>2, <2>4, StageSum
  <2>6. QED
    BY <1>3, <2>1, <2>2, <2>5
<1>5. \A n \in Resolved : Good(n)
  BY <1>4
<1>6. ASSUME NEW s \in Stages \ spec.merges PROVE node2[s] = stage2[s]
  <2>1. s \in Fed
    BY DEF Fed
  <2>2. \A e \in Inbound(Now(spec.edges), s) : e.source \in Resolved
    BY <1>1, <2>1, FedByResolved DEF Inbound, Now
  <2>3. \A e \in Inbound(Now(spec.edges), s) : Good(e.source)
    BY <1>5, <2>2
  <2>4. stage2[s] = Total(On(B, Arriving(s)))
    BY <2>1, <2>3, StageSum
  <2>5. QED
    BY <1>2, <2>4
<1>7. node2[Output] = stage2[spec.output]
  <2>1. spec.output \in Resolved /\ Output \in NirNodes /\ Output # Input
    BY <1>1, ResolvedClosed DEF NirNodes, Output, Input
  <2>2. Outputs[spec.output] \subseteq Carriers
        /\ Inbound(Plan, Output) = Links(Outputs[spec.output], Output)
    BY <1>1, <2>1, OutputsEquation, PlanInbound
  <2>3. Total(Terms(Plan, Output, held, node2)) = Total(On(B, Outputs[spec.output]))
    BY <2>1, <2>2, LinkedSum
  <2>4. node2[Output] = NodeValue(Output, SumInto(Plan, Output, Input, held, node2), {})
    BY <2>1 DEF StepOfBoth, Stepped, Settles
  <2>5. Total(Terms(Plan, Output, held, node2)) \in Nat
    BY TermsType DEF StepOfBoth
  <2>6. node2[Output] = Total(On(B, Outputs[spec.output]))
    BY <2>1, <2>3, <2>4, <2>5, SumOfTerms DEF NodeValue
  <2>7. QED
    BY <1>5, <2>1, <2>6
<1>8. ASSUME NEW n \in Resolved, \A o \in Outputs[n] : ~o[2]
      PROVE  stage2[n] = Total([o \in Outputs[n] |-> node2[o[1]]])
  <2>1. Outputs[n] \subseteq Carriers
    BY <1>1, OutputsEquation
  <2>2. ASSUME NEW o \in Outputs[n] PROVE B[o] = node2[o[1]]
    <3>1. o \in Carriers /\ ~o[2]
      BY <1>8, <2>1
    <3>2. QED
      BY <3>1 DEF Brings
  <2>3. On(B, Outputs[n]) = [o \in Outputs[n] |-> node2[o[1]]]
    BY <2>2 DEF On
  <2>4. QED
    BY <1>5, <2>3
<1>9. QED
  BY <1>6, <1>7, <1>8 DEF Agree

LEMMA TotalOfZeros ==
  ASSUME NEW S
  PROVE  Total([x \in S |-> 0]) = 0
<1>1. Pairs([x \in S |-> 0]) = {}
  BY DEF Pairs
<1>2. QED
  BY <1>1, FS_EmptySet DEF Total, Pairs

AgreeInv ==
  planned = "run" =>
    /\ \A e \in Late(Plan) : reference.held[e] = reference.nodes[e.source]
    /\ WaysAreDistinct => Agree(stages, reference.nodes)

LEMMA AgreeInvNext ==
  RunInv /\ AgreeInv /\ [NirNext]_nirVars => AgreeInv'
<1> SUFFICES ASSUME RunInv, AgreeInv, [NirNext]_nirVars, planned' = "run"
             PROVE  /\ \A e \in Late(Plan)' : reference'.held[e] = reference'.nodes[e.source]
                    /\ WaysAreDistinct' => Agree(stages, reference.nodes)'
  BY DEF AgreeInv
<1>1. spec' = spec
  BY DEF NirNext, Refused, Build, RunStep, nirVars
<1>2. /\ NirNodes' = NirNodes /\ Late(Plan)' = Late(Plan)
      /\ Resolved' = Resolved /\ Outputs' = Outputs
  BY <1>1, SameTopology DEF Late, Now
<1>3. WaysAreDistinct' <=> WaysAreDistinct
  BY <1>1, <1>2 DEF WaysAreDistinct, Arrivals, Through, Inbound
<1>4. Agree(stages, reference.nodes)' <=> Agree(stages', reference'.nodes)
  BY <1>1, <1>2 DEF Agree, Total
<1>5. CASE Refused
  BY <1>5 DEF Refused
<1>6. CASE Build
  <2>1. /\ Planned /\ stages' = [s \in Stages |-> 0]
        /\ reference' = AtRest(NirNodes, Plan)
    BY <1>6 DEF Build, AtRest, Planned, RunInv
  <2>2. \A e \in Late(Plan) : e.source \in NirNodes
    BY <2>1, PlannedGraphs DEF Late, NirEdge
  <2>3. reference'.nodes = [n \in NirNodes |-> 0] /\ reference'.held = [e \in Late(Plan) |-> 0]
    BY <2>1 DEF AtRest
  <2>4. Formed /\ ~Raises /\ spec.output \in Stages /\ Resolved \subseteq Stages
    BY <2>1, ResolvedClosed DEF Planned
  <2>5. ASSUME NEW n \in Resolved
        PROVE  stages'[n] = Total([o \in Outputs[n] |-> reference'.nodes[o[1]]])
    <3>1. \A o \in Outputs[n] : o[1] \in NirNodes
      BY <2>1, <2>4, OutputsEquation, CarriersFinite
    <3>2. [o \in Outputs[n] |-> reference'.nodes[o[1]]] = [o \in Outputs[n] |-> 0]
      BY <2>3, <3>1
    <3>3. QED
      BY <2>1, <2>4, <3>2, TotalOfZeros
  <2>6. Agree(stages', reference'.nodes)
    BY <2>1, <2>3, <2>4, <2>5 DEF Agree, NirNodes
  <2>7. QED
    BY <1>2, <1>4, <2>2, <2>3, <2>6
<1>7. CASE RunStep
  <2>1. /\ Planned /\ planned = "run"
        /\ stages \in [Stages -> Nat] /\ stages' = Sweep
        /\ reference \in Running(NirNodes, Plan) /\ reference' = After(reference, {})
    BY <1>7 DEF RunStep, RunInv, Planned
  <2>2. \A e \in Plan : e.delayed \in BOOLEAN /\ e.source \in NirNodes
    BY <2>1, PlannedGraphs DEF NirEdge
  <2>3. /\ reference' \in Running(NirNodes, Plan)
        /\ Settles(reference'.nodes, NirNodes, Plan, Input, reference.held, {})
        /\ \A e \in Late(Plan) : reference'.held[e] = reference'.nodes[e.source]
    BY <2>1, <2>2, PlannedGraphs, AfterRuns
  <2>4. /\ stages' \in [Stages -> Nat]
        /\ Settles(stages', Stages, spec.edges, Entry,
                   [e \in Late(spec.edges) |-> stages[e.source]], {})
    BY <2>1, SweepRuns
  <2>5. ASSUME WaysAreDistinct PROVE Agree(stages', reference'.nodes)
    <3>1. Stepped(NirNodes, Plan, reference.held, reference'.nodes, {})
      BY <2>1, <2>2, <2>3, PlannedGraphs DEF Stepped, Running
    <3>2. StepOfBoth(stages, reference.held, reference.nodes, stages', reference'.nodes)
      BY <2>1, <2>4, <2>5, <3>1 DEF StepOfBoth, AgreeInv, Running
    <3>3. QED
      BY <3>2, StepAgree
  <2>6. QED
    BY <1>2, <1>3, <1>4, <2>3, <2>5
<1>8. CASE UNCHANGED nirVars
  BY <1>2, <1>3, <1>4, <1>8 DEF nirVars, AgreeInv
<1>9. QED
  BY <1>5, <1>6, <1>7, <1>8 DEF NirNext

\* PlanAgrees: the NIR graph that the planner makes gives at every step what the
\* topology gives, on every stage that has a node and on the output, for every
\* topology in which merge stages make no two ways alike.
THEOREM AgreesHold == NirSpec => []PlanAgrees
<1>1. NirInit => AgreeInv
  BY DEF NirInit, AgreeInv
<1>2. AgreeInv => PlanAgrees
  BY DEF AgreeInv, PlanAgrees, Agree
<1>3. QED
  BY <1>1, <1>2, AgreeInvNext, RunInvHolds, PTL DEF NirSpec
=============================================================================
