----------------------------- MODULE SumTheorems ------------------------------
(***************************************************************************)
(* Sums of a function over a finite set, SumFunctionOnSet of the community *)
(* modules: what every account of money in this project is written with.   *)
(*                                                                         *)
(* Nothing here is induction in the usual form, which the provers cannot   *)
(* instantiate.  A property of all subsets of a finite set is shown by its *)
(* smallest counterexample: strict inclusion is well-founded on them.      *)
(***************************************************************************)
EXTENDS FiniteSetsExt, FiniteSetTheorems, WellFoundedInduction, TLAPS

\* Among the subsets of a finite set that are bad, one has no bad part.
LEMMA SmallestBad ==
  ASSUME NEW S, IsFiniteSet(S), NEW Bad, Bad \subseteq SUBSET S, Bad # {}
  PROVE  \E T \in Bad : \A U \in SUBSET T : U # T => U \notin Bad
<1>1. IsWellFoundedOn(StrictSubsetOrdering(S), SUBSET S)
  BY FS_StrictSubsetOrderingWellFounded, FS_FiniteSubsetsOfFinite
<1>2. PICK T \in Bad : \A U \in Bad : ~(<<U, T>> \in StrictSubsetOrdering(S))
  BY <1>1, WFMin
<1>3. ASSUME NEW U \in SUBSET T, U # T, U \in Bad PROVE FALSE
  BY <1>2, <1>3 DEF StrictSubsetOrdering
<1> QED BY <1>3
-----------------------------------------------------------------------------
(* SumFunctionOnSet is what its recursion says.                             *)

Pick(T) == CHOOSE x \in T : TRUE

\* g tabulates the sums of f over the subsets of S.
Tabulates(g, f, S) ==
  g = [T \in SUBSET S |-> IF T = {} THEN 0 ELSE f[Pick(T)] + g[T \ {Pick(T)}]]

LEMMA PickIn == \A T : T # {} => Pick(T) \in T
BY DEF Pick

LEMMA SumDef ==
  ASSUME NEW f, NEW S
  PROVE  SumFunctionOnSet(f, S) = (CHOOSE g : Tabulates(g, f, S))[S]
BY DEF SumFunctionOnSet, FoldFunctionOnSet, MapThenFoldSet, Tabulates, Pick

\* Two tables agree on the sets they share.
LEMMA TablesAgree ==
  ASSUME NEW f, NEW S, IsFiniteSet(S), NEW A, NEW B, S \subseteq A, S \subseteq B,
         NEW g, Tabulates(g, f, A), NEW h, Tabulates(h, f, B)
  PROVE  g[S] = h[S]
<1> DEFINE Bad == { T \in SUBSET S : g[T] # h[T] }
<1> SUFFICES ASSUME Bad # {} PROVE FALSE
  OBVIOUS
<1>1. PICK T \in Bad : \A U \in SUBSET T : U # T => U \notin Bad
  <2>1. Bad \subseteq SUBSET S
    OBVIOUS
  <2> HIDE DEF Bad
  <2> QED BY <2>1, SmallestBad
<1>2. /\ g[T] = IF T = {} THEN 0 ELSE f[Pick(T)] + g[T \ {Pick(T)}]
      /\ h[T] = IF T = {} THEN 0 ELSE f[Pick(T)] + h[T \ {Pick(T)}]
  <2>1. T \in SUBSET A /\ T \in SUBSET B
    OBVIOUS
  <2> QED BY <2>1 DEF Tabulates
<1>3. T # {}
  BY <1>2
<1>4. T \ {Pick(T)} \in SUBSET T /\ T \ {Pick(T)} # T
  BY <1>3, PickIn
<1>5. g[T \ {Pick(T)}] = h[T \ {Pick(T)}]
  BY <1>1, <1>4
<1> QED BY <1>2, <1>3, <1>5

LEMMA TableExists ==
  ASSUME NEW f, NEW S, IsFiniteSet(S)
  PROVE  \E g : Tabulates(g, f, S)
<1> DEFINE Bad == { T \in SUBSET S : ~ \E g : Tabulates(g, f, T) }
<1> SUFFICES ASSUME Bad # {} PROVE FALSE
  OBVIOUS
<1>1. PICK T \in Bad : \A U \in SUBSET T : U # T => U \notin Bad
  <2>1. Bad \subseteq SUBSET S
    OBVIOUS
  <2> HIDE DEF Bad
  <2> QED BY <2>1, SmallestBad
<1> DEFINE Table(U) == CHOOSE g : Tabulates(g, f, U)
           sum == [U \in SUBSET T |-> IF U = {} THEN 0
                                      ELSE f[Pick(U)] + Table(U \ {Pick(U)})[U \ {Pick(U)}]]
<1>2. ASSUME NEW U \in SUBSET T, U # T
      PROVE  Tabulates(Table(U), f, U) /\ IsFiniteSet(U)
  <2>1. U \in SUBSET S /\ \E g : Tabulates(g, f, U)
    BY <1>1, <1>2
  <2> QED BY <2>1, FS_Subset
<1>3. ASSUME NEW U \in SUBSET T, U # T
      PROVE  Table(U)[U] = sum[U]
  <2>1. Table(U)[U] = IF U = {} THEN 0 ELSE f[Pick(U)] + Table(U)[U \ {Pick(U)}]
    <3>1. Tabulates(Table(U), f, U) /\ U \in SUBSET U
      BY <1>2, <1>3
    <3> HIDE DEF Table
    <3> QED BY <3>1 DEF Tabulates
  <2>2. CASE U = {}
    BY <2>1, <2>2
  <2>3. CASE U # {}
    <3> DEFINE V == U \ {Pick(U)}
    <3>1. V \in SUBSET T /\ V # T /\ V \subseteq U
      BY <2>3, PickIn
    <3>2. Tabulates(Table(V), f, V) /\ IsFiniteSet(V) /\ Tabulates(Table(U), f, U)
      BY <1>2, <1>3, <3>1
    <3> HIDE DEF V, Table
    <3>3. Table(U)[V] = Table(V)[V]
      BY <3>1, <3>2, TablesAgree
    <3> QED BY <2>1, <2>3, <3>3 DEF V
  <2> QED BY <2>2, <2>3
<1> HIDE DEF Table
<1>4. ASSUME NEW U \in SUBSET T, U # {}
      PROVE  Table(U \ {Pick(U)})[U \ {Pick(U)}] = sum[U \ {Pick(U)}]
  <2>1. U \ {Pick(U)} \in SUBSET T /\ U \ {Pick(U)} # T
    BY <1>4, PickIn
  <2> HIDE DEF sum
  <2> QED BY <1>3, <2>1
<1>5. Tabulates(sum, f, T)
  BY <1>4 DEF Tabulates
<1> QED BY <1>5

LEMMA SumIsTabulated ==
  ASSUME NEW f, NEW S, IsFiniteSet(S), NEW T \in SUBSET S, NEW g, Tabulates(g, f, S)
  PROVE  SumFunctionOnSet(f, T) = g[T]
<1> DEFINE h == CHOOSE k : Tabulates(k, f, T)
<1>1. IsFiniteSet(T)
  BY FS_Subset
<1>2. Tabulates(h, f, T)
  BY <1>1, TableExists
<1>3. SumFunctionOnSet(f, T) = h[T]
  BY SumDef
<1> HIDE DEF h
<1>4. h[T] = g[T]
  BY <1>1, <1>2, TablesAgree
<1> QED BY <1>3, <1>4

LEMMA SumPicks ==
  ASSUME NEW f, NEW S, IsFiniteSet(S)
  PROVE  SumFunctionOnSet(f, S) =
           IF S = {} THEN 0 ELSE f[Pick(S)] + SumFunctionOnSet(f, S \ {Pick(S)})
<1>1. PICK g : Tabulates(g, f, S)
  BY TableExists
<1>2. g[S] = IF S = {} THEN 0 ELSE f[Pick(S)] + g[S \ {Pick(S)}]
  BY <1>1 DEF Tabulates
<1> QED BY <1>1, <1>2, SumIsTabulated
-----------------------------------------------------------------------------
(* What the other proofs use.                                               *)

LEMMA SumEmpty == \A f : SumFunctionOnSet(f, {}) = 0
BY SumPicks, FS_EmptySet

LEMMA SumInt ==
  ASSUME NEW f, NEW S, IsFiniteSet(S), \A x \in S : f[x] \in Int
  PROVE  SumFunctionOnSet(f, S) \in Int
<1> DEFINE Bad == { T \in SUBSET S : SumFunctionOnSet(f, T) \notin Int }
<1> SUFFICES ASSUME Bad # {} PROVE FALSE
  OBVIOUS
<1>1. PICK T \in Bad : \A U \in SUBSET T : U # T => U \notin Bad
  <2>1. Bad \subseteq SUBSET S
    OBVIOUS
  <2> HIDE DEF Bad
  <2> QED BY <2>1, SmallestBad
<1>2. IsFiniteSet(T)
  BY FS_Subset
<1>3. T # {} => f[Pick(T)] \in Int /\ SumFunctionOnSet(f, T \ {Pick(T)}) \in Int
  BY <1>1, PickIn
<1>4. SumFunctionOnSet(f, T) \in Int
  <2>1. CASE T = {}
    BY <2>1, SumEmpty
  <2>2. CASE T # {}
    <3>1. SumFunctionOnSet(f, T) = f[Pick(T)] + SumFunctionOnSet(f, T \ {Pick(T)})
      BY <1>2, <2>2, SumPicks
    <3> HIDE DEF Bad
    <3> QED BY <1>3, <2>2, <3>1
  <2> QED BY <2>1, <2>2
<1> QED BY <1>4

\* Any element may be taken out of the sum first.
LEMMA SumRemove ==
  ASSUME NEW f, NEW S, IsFiniteSet(S), \A x \in S : f[x] \in Int, NEW x \in S
  PROVE  SumFunctionOnSet(f, S) = f[x] + SumFunctionOnSet(f, S \ {x})
<1> DEFINE Ok(T) == \A y \in T : SumFunctionOnSet(f, T) = f[y] + SumFunctionOnSet(f, T \ {y})
           Bad == { T \in SUBSET S : ~Ok(T) }
<1> SUFFICES ASSUME Bad # {} PROVE FALSE
  OBVIOUS
<1>1. PICK T \in Bad : \A U \in SUBSET T : U # T => U \notin Bad
  <2>1. Bad \subseteq SUBSET S
    OBVIOUS
  <2> HIDE DEF Bad
  <2> QED BY <2>1, SmallestBad
<1>2. T \in SUBSET S /\ \A U \in SUBSET T : U # T => Ok(U)
  BY <1>1
<1>3. PICK y \in T : SumFunctionOnSet(f, T) # f[y] + SumFunctionOnSet(f, T \ {y})
  OBVIOUS
<1> HIDE DEF Bad
<1>4. ASSUME NEW U \in SUBSET S PROVE IsFiniteSet(U) /\ SumFunctionOnSet(f, U) \in Int
  BY FS_Subset, SumInt
<1> DEFINE p == Pick(T)
           rest == (T \ {p}) \ {y}
           sum == SumFunctionOnSet(f, rest)
<1>5. p \in T /\ SumFunctionOnSet(f, T) = f[p] + SumFunctionOnSet(f, T \ {p})
  BY <1>2, <1>3, <1>4, PickIn, SumPicks
<1> HIDE DEF p
<1>6. p # y
  BY <1>3, <1>5
<1>7. SumFunctionOnSet(f, T \ {p}) = f[y] + sum
  <2>1. T \ {p} \in SUBSET T /\ T \ {p} # T /\ y \in T \ {p}
    BY <1>3, <1>5, <1>6
  <2> QED BY <1>2, <2>1
<1>8. SumFunctionOnSet(f, T \ {y}) = f[p] + sum
  <2>1. T \ {y} \in SUBSET T /\ T \ {y} # T /\ p \in T \ {y} /\ (T \ {y}) \ {p} = rest
    BY <1>3, <1>5, <1>6
  <2> QED BY <1>2, <2>1
<1>9. sum \in Int /\ f[p] \in Int /\ f[y] \in Int
  BY <1>2, <1>4, <1>5
<1> HIDE DEF rest, sum
<1>10. f[p] + (f[y] + sum) = f[y] + (f[p] + sum)
  BY <1>9
<1> QED BY <1>3, <1>5, <1>7, <1>8, <1>10

\* Only the values on the set count.
LEMMA SumEqual ==
  ASSUME NEW f, NEW g, NEW S, IsFiniteSet(S), \A x \in S : f[x] = g[x]
  PROVE  SumFunctionOnSet(f, S) = SumFunctionOnSet(g, S)
<1> DEFINE Bad == { T \in SUBSET S : SumFunctionOnSet(f, T) # SumFunctionOnSet(g, T) }
<1> SUFFICES ASSUME Bad # {} PROVE FALSE
  OBVIOUS
<1>1. PICK T \in Bad : \A U \in SUBSET T : U # T => U \notin Bad
  <2>1. Bad \subseteq SUBSET S
    OBVIOUS
  <2> HIDE DEF Bad
  <2> QED BY <2>1, SmallestBad
<1>2. IsFiniteSet(T)
  BY FS_Subset
<1>3. T # {} => /\ Pick(T) \in S
                /\ SumFunctionOnSet(f, T \ {Pick(T)}) = SumFunctionOnSet(g, T \ {Pick(T)})
  BY <1>1, PickIn
<1>4. SumFunctionOnSet(f, T) = SumFunctionOnSet(g, T)
  BY <1>2, <1>3, SumPicks
<1> QED BY <1>4

\* A value changed at one place changes the sum by as much.
LEMMA SumChange ==
  ASSUME NEW f, NEW g, NEW S, IsFiniteSet(S), NEW x \in S,
         \A y \in S : f[y] \in Int /\ g[y] \in Int,
         \A y \in S \ {x} : f[y] = g[y]
  PROVE  SumFunctionOnSet(g, S) = SumFunctionOnSet(f, S) + (g[x] - f[x])
<1>1. /\ SumFunctionOnSet(f, S) = f[x] + SumFunctionOnSet(f, S \ {x})
      /\ SumFunctionOnSet(g, S) = g[x] + SumFunctionOnSet(g, S \ {x})
  BY SumRemove
<1>2. IsFiniteSet(S \ {x})
  BY FS_RemoveElement
<1>3. SumFunctionOnSet(f, S \ {x}) = SumFunctionOnSet(g, S \ {x})
  BY <1>2, SumEqual
<1>4. SumFunctionOnSet(f, S \ {x}) \in Int
  BY <1>2, SumInt
<1> QED BY <1>1, <1>3, <1>4

\* A sum of zeros is zero.
LEMMA SumZero ==
  ASSUME NEW f, NEW S, IsFiniteSet(S), \A x \in S : f[x] = 0
  PROVE  SumFunctionOnSet(f, S) = 0
<1> DEFINE Bad == { T \in SUBSET S : SumFunctionOnSet(f, T) # 0 }
<1> SUFFICES ASSUME Bad # {} PROVE FALSE
  OBVIOUS
<1>1. PICK T \in Bad : \A U \in SUBSET T : U # T => U \notin Bad
  <2>1. Bad \subseteq SUBSET S
    OBVIOUS
  <2> HIDE DEF Bad
  <2> QED BY <2>1, SmallestBad
<1>2. IsFiniteSet(T)
  BY FS_Subset
<1>3. T # {} => Pick(T) \in S /\ SumFunctionOnSet(f, T \ {Pick(T)}) = 0
  BY <1>1, PickIn
<1>4. SumFunctionOnSet(f, T) = 0
  BY <1>2, <1>3, SumPicks
<1> QED BY <1>4

\* A sum over an interval grows by its last term.
LEMMA SumNext ==
  ASSUME NEW f, NEW n \in Nat, \A i \in 1 .. n + 1 : f[i] \in Int
  PROVE  SumFunctionOnSet(f, 1 .. n + 1) = SumFunctionOnSet(f, 1 .. n) + f[n + 1]
<1>1. IsFiniteSet(1 .. n) /\ IsFiniteSet(1 .. n + 1)
  BY FS_Interval
<1>2. n + 1 \in 1 .. n + 1 /\ (1 .. n + 1) \ {n + 1} = 1 .. n
  OBVIOUS
<1>3. SumFunctionOnSet(f, 1 .. n + 1) = f[n + 1] + SumFunctionOnSet(f, 1 .. n)
  BY <1>1, <1>2, SumRemove
<1>4. SumFunctionOnSet(f, 1 .. n) \in Int
  BY <1>1, SumInt
<1> QED BY <1>3, <1>4

\* Where g adds d to f, its sum does.
LEMMA SumAdd ==
  ASSUME NEW f, NEW g, NEW d, NEW S, IsFiniteSet(S), NEW W \in SUBSET S,
         \A x \in S : f[x] \in Int, \A x \in W : d[x] \in Int,
         \A x \in W : g[x] = f[x] + d[x], \A x \in S \ W : g[x] = f[x]
  PROVE  SumFunctionOnSet(g, S) = SumFunctionOnSet(f, S) + SumFunctionOnSet(d, W)
<1> DEFINE Ok(T) == SumFunctionOnSet(g, T) = SumFunctionOnSet(f, T) + SumFunctionOnSet(d, T \cap W)
           Bad == { T \in SUBSET S : ~Ok(T) }
<1> SUFFICES ASSUME Bad # {} PROVE FALSE
  OBVIOUS
<1>1. PICK T \in Bad : \A U \in SUBSET T : U # T => U \notin Bad
  <2>1. Bad \subseteq SUBSET S
    OBVIOUS
  <2> HIDE DEF Bad
  <2> QED BY <2>1, SmallestBad
<1>2. T \in SUBSET S /\ ~Ok(T) /\ \A U \in SUBSET T : U # T => Ok(U)
  BY <1>1
<1> HIDE DEF Bad
<1>3. \A U \in SUBSET S : IsFiniteSet(U)
  BY FS_Subset
<1>4. T # {}
  <2> SUFFICES ASSUME T = {} PROVE FALSE
    OBVIOUS
  <2>1. T \cap W = {}
    OBVIOUS
  <2>2. 0 = 0 + 0
    OBVIOUS
  <2> QED BY <1>2, <2>1, <2>2, SumEmpty
<1> DEFINE x == Pick(T)
           U == T \ {x}
           sumf == SumFunctionOnSet(f, U)
           sumd == SumFunctionOnSet(d, U \cap W)
<1>5. x \in T /\ x \in S /\ U \in SUBSET T /\ U # T /\ U \in SUBSET S
  BY <1>2, <1>4, PickIn
<1>6. /\ SumFunctionOnSet(g, T) = g[x] + SumFunctionOnSet(g, U)
      /\ SumFunctionOnSet(f, T) = f[x] + sumf
  BY <1>2, <1>3, <1>4, SumPicks
<1>7. SumFunctionOnSet(g, U) = sumf + sumd
  BY <1>2, <1>5
<1>8. sumf \in Int /\ sumd \in Int /\ f[x] \in Int
  <2>1. IsFiniteSet(U) /\ IsFiniteSet(U \cap W)
    BY <1>3, <1>5
  <2>2. (\A y \in U : f[y] \in Int) /\ (\A y \in U \cap W : d[y] \in Int)
    BY <1>5
  <2> HIDE DEF U
  <2> QED BY <1>5, <2>1, <2>2, SumInt
<1>9. SumFunctionOnSet(d, T \cap W) = IF x \in W THEN d[x] + sumd ELSE sumd
  <2>1. CASE x \in W
    <3>1. (T \cap W) \ {x} = U \cap W /\ x \in T \cap W
      BY <1>5, <2>1
    <3>2. IsFiniteSet(T \cap W) /\ \A y \in T \cap W : d[y] \in Int
      BY <1>2, <1>3
    <3> HIDE DEF x, U
    <3>3. SumFunctionOnSet(d, T \cap W) = d[x] + SumFunctionOnSet(d, (T \cap W) \ {x})
      BY <3>1, <3>2, SumRemove
    <3> QED BY <2>1, <3>1, <3>3
  <2>2. CASE x \notin W
    <3>1. T \cap W = U \cap W
      BY <2>2
    <3> QED BY <2>2, <3>1
  <2> QED BY <2>1, <2>2
<1>10. IF x \in W THEN g[x] = f[x] + d[x] /\ d[x] \in Int ELSE g[x] = f[x]
  BY <1>5
<1> HIDE DEF x, U, sumf, sumd
<1>11. SumFunctionOnSet(g, T) = SumFunctionOnSet(f, T) + SumFunctionOnSet(d, T \cap W)
  <2>1. CASE x \in W
    BY <1>6, <1>7, <1>8, <1>9, <1>10, <2>1
  <2>2. CASE x \notin W
    BY <1>6, <1>7, <1>8, <1>9, <1>10, <2>2
  <2> QED BY <2>1, <2>2
<1> QED BY <1>2, <1>11

\* The sum over a set is the sum over a part and over the rest.
LEMMA SumSplit ==
  ASSUME NEW f, NEW S, IsFiniteSet(S), \A x \in S : f[x] \in Int, NEW A \in SUBSET S
  PROVE  SumFunctionOnSet(f, S) = SumFunctionOnSet(f, A) + SumFunctionOnSet(f, S \ A)
<1> DEFINE g == [x \in S |-> IF x \in A THEN 0 ELSE f[x]]
           sumA == SumFunctionOnSet(f, A)
           rest == SumFunctionOnSet(f, S \ A)
           sumg == SumFunctionOnSet(g, S)
           none == [x \in S |-> 0]
<1>1. IsFiniteSet(A) /\ IsFiniteSet(S \ A)
  BY FS_Subset
<1>2. \A x \in S : g[x] \in Int
  OBVIOUS
<1>3. /\ \A x \in A : f[x] \in Int /\ f[x] = g[x] + f[x]
      /\ \A x \in S \ A : f[x] = g[x]
  OBVIOUS
<1>4. /\ \A x \in S \ A : f[x] \in Int /\ g[x] = none[x] + f[x]
      /\ \A x \in S \ (S \ A) : g[x] = none[x]
  OBVIOUS
<1>5. \A x \in S : none[x] = 0
  OBVIOUS
<1> HIDE DEF g, none
<1>6. SumFunctionOnSet(f, S) = sumg + sumA
  BY <1>2, <1>3, SumAdd
<1>7. sumg = SumFunctionOnSet(none, S) + rest
  <2>1. S \ A \in SUBSET S
    OBVIOUS
  <2>2. \A x \in S : none[x] \in Int
    BY <1>5
  <2> QED BY <1>4, <2>1, <2>2, SumAdd
<1>8. SumFunctionOnSet(none, S) = 0
  BY <1>5, SumZero
<1>9. sumA \in Int /\ rest \in Int
  BY <1>1, SumInt
<1> QED BY <1>6, <1>7, <1>8, <1>9

\* A sum of naturals is no less than that over a part.
LEMMA SumNat ==
  ASSUME NEW f, NEW S, IsFiniteSet(S), \A x \in S : f[x] \in Nat
  PROVE  SumFunctionOnSet(f, S) \in Nat
<1> DEFINE Bad == { T \in SUBSET S : SumFunctionOnSet(f, T) \notin Nat }
<1> SUFFICES ASSUME Bad # {} PROVE FALSE
  OBVIOUS
<1>1. PICK T \in Bad : \A U \in SUBSET T : U # T => U \notin Bad
  <2>1. Bad \subseteq SUBSET S
    OBVIOUS
  <2> HIDE DEF Bad
  <2> QED BY <2>1, SmallestBad
<1>2. IsFiniteSet(T)
  BY FS_Subset
<1>3. T # {} => Pick(T) \in S /\ SumFunctionOnSet(f, T \ {Pick(T)}) \in Nat
  BY <1>1, PickIn
<1>4. SumFunctionOnSet(f, T) \in Nat
  BY <1>2, <1>3, SumPicks
<1> QED BY <1>4

LEMMA SumSmaller ==
  ASSUME NEW f, NEW S, IsFiniteSet(S), \A x \in S : f[x] \in Nat, NEW A \in SUBSET S
  PROVE  SumFunctionOnSet(f, A) <= SumFunctionOnSet(f, S)
<1>1. IsFiniteSet(A) /\ IsFiniteSet(S \ A)
  BY FS_Subset
<1>2. SumFunctionOnSet(f, A) \in Nat /\ SumFunctionOnSet(f, S \ A) \in Nat
  BY <1>1, SumNat
<1>3. \A x \in S : f[x] \in Int
  OBVIOUS
<1>4. SumFunctionOnSet(f, S) = SumFunctionOnSet(f, A) + SumFunctionOnSet(f, S \ A)
  BY <1>3, SumSplit
<1> QED BY <1>2, <1>4

\* A finite set of numbers has a greatest.
LEMMA GreatestExists ==
  ASSUME NEW S, IsFiniteSet(S), S \subseteq Nat, S # {}
  PROVE  \E m \in S : \A n \in S : n <= m
<1> DEFINE Ok(T) == T # {} => \E m \in T : \A n \in T : n <= m
           Bad == { T \in SUBSET S : ~Ok(T) }
<1> SUFFICES ASSUME Bad # {} PROVE FALSE
  OBVIOUS
<1>1. PICK T \in Bad : \A U \in SUBSET T : U # T => U \notin Bad
  <2>1. Bad \subseteq SUBSET S
    OBVIOUS
  <2> HIDE DEF Bad
  <2> QED BY <2>1, SmallestBad
<1>2. T \in SUBSET S /\ ~Ok(T) /\ \A U \in SUBSET T : U # T => Ok(U)
  BY <1>1
<1> HIDE DEF Bad
<1>3. PICK x \in T : TRUE
  BY <1>2
<1>4. Ok(T \ {x})
  BY <1>2, <1>3
<1>5. CASE T \ {x} = {}
  <2>1. \A n \in T : n = x
    BY <1>5
  <2>2. x \in Nat /\ x <= x
    BY <1>2, <1>3
  <2> QED BY <1>2, <1>3, <2>1, <2>2
<1>6. CASE T \ {x} # {}
  <2>1. PICK m \in T \ {x} : \A n \in T \ {x} : n <= m
    BY <1>4, <1>6
  <2>2. \A n \in T : n \in Nat
    BY <1>2
  <2>3. CASE x <= m
    BY <1>2, <2>1, <2>3
  <2>4. CASE ~(x <= m)
    <3>1. \A n \in T : n <= x
      BY <1>3, <2>1, <2>2, <2>4
    <3> QED BY <1>2, <1>3, <3>1
  <2> QED BY <2>3, <2>4
<1> QED BY <1>5, <1>6
=============================================================================
