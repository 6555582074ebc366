------------------------- MODULE AgentObjectsProofs -------------------------
(***************************************************************************)
(* Theorems about AgentObjects and NamespaceDrop, for every set of         *)
(* requests, ids, namespaces and keys, every plan limit and every choice   *)
(* of operations; a theorem that needs less than every operation, or that  *)
(* statements do not fail, says so in its hypotheses.                      *)
(***************************************************************************)
EXTENDS NamespaceDrop, FiniteSetTheorems, TLAPS

-----------------------------------------------------------------------------
(* Sums over finite sets. *)

\* The sum of the values f[x] for the x of a set.
Total(f, S) == MapThenSumSet(LAMBDA x : f[x], S)

\* g tabulates the sums over all subsets of S.
IsTable(g, f, S) ==
  g = [T \in SUBSET S |-> IF T = {} THEN 0
                          ELSE f[CHOOSE x \in T : TRUE]
                                 + g[T \ {CHOOSE x \in T : TRUE}]]

\* A nonempty set of finite sets has an element none of whose proper subsets
\* is one.
LEMMA Smallest ==
  ASSUME NEW U, U # {}, \A S \in U : IsFiniteSet(S)
  PROVE  \E S \in U : \A T \in U : T \subseteq S => T = S
<1> DEFINE A == UNION U
           R == StrictSubsetOrdering(A)
<1>1. U \subseteq FiniteSubsetsOf(A)
  BY DEF FiniteSubsetsOf
<1>2. IsWellFoundedOn(R, FiniteSubsetsOf(A))
  BY FS_StrictSubsetOrderingWellFounded
<1>3. PICK S \in U : \A T \in U : <<T, S>> \notin R
  BY <1>1, <1>2, WFMin
<1>4. ASSUME NEW T \in U, T \subseteq S, T # S PROVE FALSE
  BY <1>3, <1>4 DEF StrictSubsetOrdering
<1>5. QED
  BY <1>3, <1>4

\* A sum is what a table gives for its set.
LEMMA TotalTable == \A f, S : Total(f, S) = (CHOOSE g : IsTable(g, f, S))[S]
  BY DEF Total, IsTable, MapThenSumSet, MapThenFoldSet

\* Two tables agree wherever both are defined.
LEMMA TablesAgree ==
  ASSUME NEW f, NEW S, NEW T, NEW g, NEW h,
         IsTable(g, f, S), IsTable(h, f, T),
         NEW V, V \subseteq S, V \subseteq T, IsFiniteSet(V)
  PROVE  g[V] = h[V]
<1> DEFINE Bad == {W \in SUBSET V : g[W] # h[W]}
<1>1. SUFFICES ASSUME Bad # {} PROVE FALSE
  OBVIOUS
<1>2. \A W \in Bad : IsFiniteSet(W)
  BY FS_Subset
<1>3. PICK W \in Bad : \A X \in Bad : X \subseteq W => X = W
  <2> HIDE DEF Bad
  <2> QED
    BY <1>1, <1>2, Smallest
<1> DEFINE x == CHOOSE x \in W : TRUE
<1>4. W # {}
  BY <1>3 DEF IsTable
<1>5. x \in W
  BY <1>4
<1>6. W \ {x} \notin Bad
  BY <1>3, <1>5
<1>7. g[W \ {x}] = h[W \ {x}]
  BY <1>6
<1>8. g[W] = f[x] + g[W \ {x}] /\ h[W] = f[x] + h[W \ {x}]
  BY <1>4 DEF IsTable
<1>9. QED
  BY <1>7, <1>8

\* A finite set has a table of the sums over its subsets: by induction on
\* its size, which FS_Induction cannot be used for; the smallest set without a
\* table is taken instead.
LEMMA TableExists ==
  ASSUME NEW f, NEW S, IsFiniteSet(S)
  PROVE  \E g : IsTable(g, f, S)
<1> DEFINE Bad == {T \in SUBSET S : ~\E g : IsTable(g, f, T)}
<1>1. SUFFICES ASSUME Bad # {} PROVE FALSE
  OBVIOUS
<1>2. \A T \in Bad : IsFiniteSet(T)
  BY FS_Subset
<1>3. PICK U \in Bad : \A T \in Bad : T \subseteq U => T = U
  <2> HIDE DEF Bad
  <2> QED
    BY <1>1, <1>2, Smallest
<1> DEFINE tab(T) == CHOOSE g : IsTable(g, f, T)
           x(T) == CHOOSE x \in T : TRUE
           G == [T \in SUBSET U |->
                   IF T = {} THEN 0
                   ELSE f[x(T)] + tab(T \ {x(T)})[T \ {x(T)}]]
<1>4. ASSUME NEW T \in SUBSET U, T # U PROVE IsTable(tab(T), f, T)
  <2>1. \E g : IsTable(g, f, T)
    BY <1>3, <1>4
  <2>2. QED
    BY <2>1
<1>5. ASSUME NEW T \in SUBSET U, T # U PROVE tab(T)[T] = G[T]
  <2>1. CASE T = {}
    <3>1. IsTable(tab(T), f, T)
      BY <1>4, <1>5
    <3>2. G[T] = 0
      BY <2>1
    <3> HIDE DEF tab, G
    <3>3. tab(T)[T] = 0
      BY <2>1, <3>1 DEF IsTable
    <3>4. QED
      BY <3>2, <3>3
  <2>2. CASE T # {}
    <3>1. x(T) \in T /\ T \ {x(T)} \in SUBSET U /\ T \ {x(T)} # U
      BY <2>2
    <3>2. IsTable(tab(T), f, T) /\ IsTable(tab(T \ {x(T)}), f, T \ {x(T)})
      BY <1>4, <1>5, <3>1
    <3>3. IsFiniteSet(T \ {x(T)})
      BY <1>2, <1>3, FS_Subset
    <3>4. tab(T)[T \ {x(T)}] = tab(T \ {x(T)})[T \ {x(T)}]
      <4> HIDE DEF tab, x
      <4> QED
      BY <3>2, <3>3, TablesAgree
    <3>5. tab(T)[T] = f[x(T)] + tab(T)[T \ {x(T)}]
      <4> HIDE DEF tab
      <4> QED
      BY <2>2, <3>2 DEF IsTable
    <3>6. QED
      BY <2>2, <3>4, <3>5
  <2>3. QED
    BY <2>1, <2>2
<1>6. IsTable(G, f, U)
  <2>1. ASSUME NEW T \in SUBSET U, T # {}
        PROVE  tab(T \ {x(T)})[T \ {x(T)}] = G[T \ {x(T)}]
    <3>1. x(T) \in T
      BY <2>1
    <3>2. T \ {x(T)} \in SUBSET U /\ T \ {x(T)} # U
      BY <3>1
    <3>3. QED
      <4> HIDE DEF tab, x, G
      <4> QED
      BY <1>5, <3>2
  <2>2. G = [T \in SUBSET U |-> IF T = {} THEN 0
                                ELSE f[x(T)] + G[T \ {x(T)}]]
    <3> HIDE DEF tab, x
    <3> QED
    BY <2>1
  <2>3. QED
    BY <2>2 DEF IsTable
<1>7. QED
  BY <1>3, <1>6

\* Total is the sum of a table.
LEMMA TotalOf ==
  ASSUME NEW f, NEW S, NEW g, IsTable(g, f, S),
         NEW T \in SUBSET S, IsFiniteSet(T)
  PROVE  Total(f, T) = g[T]
<1> DEFINE h == CHOOSE h : IsTable(h, f, T)
<1>1. IsTable(h, f, T)
  BY TableExists
<1>2. h[T] = g[T]
  <2> HIDE DEF h
  <2> QED
    BY <1>1, TablesAgree
<1>3. QED
  BY <1>2, TotalTable

\* The sum over nothing.
LEMMA TotalEmpty == \A f : Total(f, {}) = 0
<1> TAKE f
<1>1. PICK g : IsTable(g, f, {})
  BY FS_EmptySet, TableExists
<1>2. Total(f, {}) = g[{}]
  BY <1>1, FS_EmptySet, TotalOf
<1>3. g[{}] = 0
  BY <1>1 DEF IsTable
<1>4. QED
  BY <1>2, <1>3

\* A sum is one summand and the sum of the others.
LEMMA TotalNonempty ==
  ASSUME NEW f, NEW S, S # {}, IsFiniteSet(S)
  PROVE  \E x \in S : Total(f, S) = f[x] + Total(f, S \ {x})
<1> DEFINE x == CHOOSE x \in S : TRUE
<1>1. PICK g : IsTable(g, f, S)
  BY TableExists
<1>2. x \in S
  OBVIOUS
<1>3. g[S] = f[x] + g[S \ {x}]
  BY <1>1 DEF IsTable
<1>4. Total(f, S) = g[S]
  BY <1>1, TotalOf
<1>5. Total(f, S \ {x}) = g[S \ {x}]
  <2>1. S \ {x} \in SUBSET S /\ IsFiniteSet(S \ {x})
    BY FS_RemoveElement
  <2> HIDE DEF x
  <2> QED
    BY <1>1, <2>1, TotalOf
<1> HIDE DEF x
<1>6. QED
  BY <1>2, <1>3, <1>4, <1>5

\* A sum of integers is one.
LEMMA TotalType ==
  ASSUME NEW f, NEW S, IsFiniteSet(S), \A x \in S : f[x] \in Int
  PROVE  Total(f, S) \in Int
<1> DEFINE Bad == {T \in SUBSET S : Total(f, T) \notin Int}
<1>1. SUFFICES ASSUME Bad # {} PROVE FALSE
  OBVIOUS
<1>2. \A T \in Bad : IsFiniteSet(T)
  BY FS_Subset
<1>3. PICK T \in Bad : \A U \in Bad : U \subseteq T => U = T
  <2> HIDE DEF Bad
  <2> QED
    BY <1>1, <1>2, Smallest
<1>4. T # {}
  BY TotalEmpty
<1>5. PICK x \in T : Total(f, T) = f[x] + Total(f, T \ {x})
  BY <1>2, <1>4, TotalNonempty
<1>6. Total(f, T \ {x}) \in Int
  BY <1>3
<1>7. QED
  BY <1>5, <1>6

\* Any summand can be taken out.
LEMMA TotalRemove ==
  ASSUME NEW f, NEW S, IsFiniteSet(S), \A x \in S : f[x] \in Int,
         NEW x \in S
  PROVE  Total(f, S) = f[x] + Total(f, S \ {x})
<1> DEFINE Bad == {T \in SUBSET S : \E y \in T :
                                     Total(f, T) # f[y] + Total(f, T \ {y})}
<1>1. SUFFICES ASSUME Bad # {} PROVE FALSE
  OBVIOUS
<1>2. \A T \in Bad : IsFiniteSet(T)
  BY FS_Subset
<1>3. PICK T \in Bad : \A U \in Bad : U \subseteq T => U = T
  <2> HIDE DEF Bad
  <2> QED
    BY <1>1, <1>2, Smallest
<1>4. PICK y \in T : Total(f, T) # f[y] + Total(f, T \ {y})
  OBVIOUS
<1>5. PICK z \in T : Total(f, T) = f[z] + Total(f, T \ {z})
  BY <1>2, <1>4, TotalNonempty
<1>6. y # z
  BY <1>4, <1>5
<1>a. T \in SUBSET S
  OBVIOUS
<1>b. ASSUME NEW a \in T, NEW b \in T, a # b
      PROVE  Total(f, T \ {a}) = f[b] + Total(f, (T \ {a}) \ {b})
  <2>1. T \ {a} # T /\ T \ {a} \subseteq T /\ b \in T \ {a}
    BY <1>b
  <2>2. T \ {a} \notin Bad
    <3> HIDE DEF Bad
    <3> QED
      BY <1>3, <2>1
  <2>3. T \ {a} \in SUBSET S
    BY <1>a
  <2>4. QED
    BY <2>1, <2>2, <2>3
<1>7. Total(f, T \ {z}) = f[y] + Total(f, (T \ {z}) \ {y})
  BY <1>b, <1>6
<1>8. Total(f, T \ {y}) = f[z] + Total(f, (T \ {y}) \ {z})
  BY <1>b, <1>6
<1>9. Total(f, (T \ {y}) \ {z}) = Total(f, (T \ {z}) \ {y})
  <2>1. (T \ {y}) \ {z} = (T \ {z}) \ {y}
    OBVIOUS
  <2>2. QED
    BY <2>1, Zenon
<1>10. f[y] \in Int /\ f[z] \in Int
  OBVIOUS
<1>11. Total(f, (T \ {z}) \ {y}) \in Int
  <2>1. (T \ {z}) \ {y} \in SUBSET S /\ IsFiniteSet((T \ {z}) \ {y})
    BY FS_Subset
  <2>2. QED
    BY <2>1, TotalType
<1> HIDE DEF Bad
<1>12. QED
  BY <1>4, <1>5, <1>7, <1>8, <1>9, <1>10, <1>11

\* One more summand.
LEMMA TotalAdd ==
  ASSUME NEW f, NEW S, IsFiniteSet(S), NEW x, x \notin S,
         \A y \in S \cup {x} : f[y] \in Int
  PROVE  Total(f, S \cup {x}) = f[x] + Total(f, S)
<1>1. IsFiniteSet(S \cup {x})
  BY FS_AddElement
<1>2. (S \cup {x}) \ {x} = S
  OBVIOUS
<1>3. QED
  BY <1>1, <1>2, TotalRemove

\* The sum depends on the values over its set only.
LEMMA TotalSame ==
  ASSUME NEW f, NEW g, NEW S, IsFiniteSet(S), \A x \in S : f[x] = g[x]
  PROVE  Total(f, S) = Total(g, S)
<1>1. PICK h : IsTable(h, f, S)
  BY TableExists
<1>2. \A T \in SUBSET S : T # {} =>
        f[CHOOSE x \in T : TRUE] = g[CHOOSE x \in T : TRUE]
  OBVIOUS
<1>3. IsTable(h, g, S)
  BY <1>1, <1>2 DEF IsTable
<1>4. Total(f, S) = h[S] /\ Total(g, S) = h[S]
  BY <1>1, <1>3, TotalOf
<1>5. QED
  BY <1>4

\* Summands between bounds.
LEMMA TotalMonotone ==
  ASSUME NEW f, NEW g, NEW S, IsFiniteSet(S),
         \A x \in S : f[x] \in Int /\ g[x] \in Int /\ f[x] <= g[x]
  PROVE  Total(f, S) <= Total(g, S)
<1> DEFINE Bad == {T \in SUBSET S : ~(Total(f, T) <= Total(g, T))}
<1>1. SUFFICES ASSUME Bad # {} PROVE FALSE
  OBVIOUS
<1>2. \A T \in Bad : IsFiniteSet(T)
  BY FS_Subset
<1>3. PICK T \in Bad : \A U \in Bad : U \subseteq T => U = T
  <2> HIDE DEF Bad
  <2> QED
    BY <1>1, <1>2, Smallest
<1>4. T # {}
  BY TotalEmpty
<1>5. PICK x \in T : Total(f, T) = f[x] + Total(f, T \ {x})
  BY <1>2, <1>4, TotalNonempty
<1>6. IsFiniteSet(T) /\ T \in SUBSET S
  BY <1>2
<1>7. Total(g, T) = g[x] + Total(g, T \ {x})
  BY <1>6, TotalRemove
<1>8. Total(f, T \ {x}) <= Total(g, T \ {x})
  BY <1>3
<1>9. Total(f, T \ {x}) \in Int /\ Total(g, T \ {x}) \in Int
  <2>1. T \ {x} \in SUBSET S /\ IsFiniteSet(T \ {x})
    BY <1>6, FS_Subset
  <2>2. QED
    BY <2>1, TotalType
<1>10. f[x] \in Int /\ g[x] \in Int /\ f[x] <= g[x]
  OBVIOUS
<1> HIDE DEF Bad
<1>11. Total(f, T) <= Total(g, T)
  BY <1>5, <1>7, <1>8, <1>9, <1>10
<1>12. QED
  BY <1>3, <1>11 DEF Bad

\* A sum of at most c each.
LEMMA TotalBound ==
  ASSUME NEW f, NEW S, IsFiniteSet(S), NEW c \in Int,
         \A x \in S : f[x] \in Int /\ f[x] <= c
  PROVE  Total(f, S) <= Cardinality(S) * c
<1> DEFINE Bad == {T \in SUBSET S : ~(Total(f, T) <= Cardinality(T) * c)}
<1>1. SUFFICES ASSUME Bad # {} PROVE FALSE
  OBVIOUS
<1>2. \A T \in Bad : IsFiniteSet(T)
  BY FS_Subset
<1>3. PICK T \in Bad : \A U \in Bad : U \subseteq T => U = T
  <2> HIDE DEF Bad
  <2> QED
    BY <1>1, <1>2, Smallest
<1>4. T # {}
  BY TotalEmpty, FS_EmptySet
<1>5. PICK x \in T : Total(f, T) = f[x] + Total(f, T \ {x})
  BY <1>2, <1>4, TotalNonempty
<1>6. /\ IsFiniteSet(T) /\ T \in SUBSET S /\ T \ {x} \in SUBSET S
      /\ IsFiniteSet(T \ {x})
  BY <1>2, FS_RemoveElement
<1>7. Total(f, T \ {x}) \in Int
  BY <1>6, TotalType
<1>8. Total(f, T \ {x}) <= Cardinality(T \ {x}) * c
  BY <1>3, <1>6
<1>9. Cardinality(T \ {x}) = Cardinality(T) - 1 /\ Cardinality(T) \in Nat
  BY <1>6, FS_RemoveElement, FS_CardinalityType
<1>10. f[x] \in Int /\ f[x] <= c
  OBVIOUS
<1>11. \A k \in Int : (k - 1) * c = k * c - c /\ k * c \in Int
  OBVIOUS
<1> HIDE DEF Bad
<1>12. Total(f, T) <= Cardinality(T) * c
  BY <1>5, <1>7, <1>8, <1>9, <1>10, <1>11
<1>13. QED
  BY <1>3, <1>12 DEF Bad

\* A set that is split in two.
LEMMA TotalSplit ==
  ASSUME NEW f, NEW S, IsFiniteSet(S), \A x \in S : f[x] \in Int,
         NEW T \in SUBSET S
  PROVE  Total(f, S) = Total(f, T) + Total(f, S \ T)
<1> DEFINE Bad == {U \in SUBSET T :
                     Total(f, U \cup (S \ T)) # Total(f, U) + Total(f, S \ T)}
<1>1. SUFFICES ASSUME Bad # {} PROVE FALSE
  <2>1. T \cup (S \ T) = S
    OBVIOUS
  <2>2. QED
    BY <2>1
<1>2. \A U \in Bad : IsFiniteSet(U)
  BY FS_Subset
<1>3. PICK U \in Bad : \A V \in Bad : V \subseteq U => V = U
  <2> HIDE DEF Bad
  <2> QED
    BY <1>1, <1>2, Smallest
<1> DEFINE rest == S \ T
<1>4. rest \in SUBSET S /\ IsFiniteSet(rest) /\ Total(f, rest) \in Int
  <2>1. rest \in SUBSET S /\ IsFiniteSet(rest)
    BY FS_Subset
  <2>2. QED
    BY <2>1, TotalType
<1>5. U # {}
  <2>1. {} \cup rest = rest
    OBVIOUS
  <2>2. QED
    BY <1>4, <2>1, TotalEmpty
<1>6. PICK x \in U : TRUE
  BY <1>5
<1>7. /\ U \ {x} \in SUBSET T /\ U \in SUBSET T /\ x \in S
      /\ U \subseteq S /\ IsFiniteSet(U) /\ IsFiniteSet(U \ {x})
      /\ IsFiniteSet(U \cup rest) /\ U \cup rest \subseteq S
  BY <1>2, FS_Subset
<1>8. Total(f, U) = f[x] + Total(f, U \ {x}) /\ Total(f, U \ {x}) \in Int
  <2> HIDE DEF Bad
  <2> QED
    BY <1>7, TotalRemove, TotalType
<1>9. Total(f, U \cup rest) = f[x] + Total(f, (U \cup rest) \ {x})
  <2> HIDE DEF Bad, rest
  <2> QED
    BY <1>7, TotalRemove
<1>10. Total(f, (U \cup rest) \ {x}) = Total(f, (U \ {x}) \cup rest)
  <2>1. (U \cup rest) \ {x} = (U \ {x}) \cup rest
    BY <1>7
  <2>2. QED
    BY <2>1, Zenon
<1>11. Total(f, (U \ {x}) \cup rest) = Total(f, U \ {x}) + Total(f, rest)
  <2>1. U \ {x} \notin Bad
    BY <1>3, <1>6
  <2>2. QED
    BY <1>7, <2>1
<1>12. f[x] \in Int
  BY <1>7
<1> HIDE DEF rest
<1>13. Total(f, U \cup rest) = Total(f, U) + Total(f, rest)
  <2> HIDE DEF Bad
  <2> QED
    BY <1>4, <1>8, <1>9, <1>10, <1>11, <1>12
<1>14. QED
  BY <1>3, <1>13 DEF rest

\* A sum of zeros.
LEMMA TotalZero ==
  ASSUME NEW f, NEW S, IsFiniteSet(S), \A x \in S : f[x] = 0
  PROVE  Total(f, S) = 0
<1> DEFINE Bad == {T \in SUBSET S : Total(f, T) # 0}
<1>1. SUFFICES ASSUME Bad # {} PROVE FALSE
  OBVIOUS
<1>2. \A T \in Bad : IsFiniteSet(T)
  BY FS_Subset
<1>3. PICK T \in Bad : \A U \in Bad : U \subseteq T => U = T
  <2> HIDE DEF Bad
  <2> QED
    BY <1>1, <1>2, Smallest
<1>4. T # {}
  BY TotalEmpty
<1>5. PICK x \in T : Total(f, T) = f[x] + Total(f, T \ {x})
  BY <1>2, <1>4, TotalNonempty
<1>6. Total(f, T \ {x}) = 0
  BY <1>3
<1>7. f[x] = 0
  OBVIOUS
<1>8. QED
  BY <1>5, <1>6, <1>7

\* A sum of naturals is one.
LEMMA TotalNatural ==
  ASSUME NEW f, NEW S, IsFiniteSet(S), \A x \in S : f[x] \in Nat
  PROVE  Total(f, S) \in Nat
<1> DEFINE zero == [x \in S |-> 0]
<1>1. Total(zero, S) = 0
  BY TotalZero
<1>2. \A x \in S : zero[x] \in Int /\ f[x] \in Int /\ zero[x] <= f[x]
  OBVIOUS
<1> HIDE DEF zero
<1>3. Total(zero, S) <= Total(f, S)
  BY <1>2, TotalMonotone
<1>4. Total(f, S) \in Int
  BY TotalType
<1>5. QED
  BY <1>1, <1>3, <1>4

\* One value changes.
LEMMA TotalUpdate ==
  ASSUME NEW f, NEW g, NEW S, IsFiniteSet(S), NEW x \in S,
         \A y \in S : f[y] \in Int /\ g[y] \in Int,
         \A y \in S \ {x} : g[y] = f[y]
  PROVE  Total(g, S) = Total(f, S) - f[x] + g[x]
<1>1. Total(f, S) = f[x] + Total(f, S \ {x})
  BY TotalRemove
<1>2. Total(g, S) = g[x] + Total(g, S \ {x})
  BY TotalRemove
<1>3. IsFiniteSet(S \ {x})
  BY FS_RemoveElement
<1>4. Total(g, S \ {x}) = Total(f, S \ {x})
  BY <1>3, TotalSame
<1>5. Total(f, S \ {x}) \in Int
  BY <1>3, TotalType
<1>6. f[x] \in Int /\ g[x] \in Int
  OBVIOUS
<1>7. QED
  BY <1>1, <1>2, <1>4, <1>5, <1>6

\* A sum over a set as one over a larger set, of values that are zero outside.
LEMMA TotalOver ==
  ASSUME NEW f, NEW g, NEW S, IsFiniteSet(S), NEW T \in SUBSET S,
         \A x \in S : g[x] \in Int,
         \A x \in T : f[x] = g[x], \A x \in S \ T : g[x] = 0
  PROVE  Total(f, T) = Total(g, S)
<1>1. IsFiniteSet(T) /\ IsFiniteSet(S \ T)
  BY FS_Subset, FS_Difference
<1>2. Total(g, S) = Total(g, T) + Total(g, S \ T)
  BY TotalSplit
<1>3. Total(g, S \ T) = 0
  BY <1>1, TotalZero
<1>4. Total(g, T) \in Int
  BY <1>1, TotalType
<1>5. Total(f, T) = Total(g, T)
  BY <1>1, TotalSame
<1>6. QED
  BY <1>2, <1>3, <1>4, <1>5

\* The sizes of the rows in S added up, as BytesOf does.
SizesOf(rows, S) == MapThenSumSet(LAMBDA id : rows[id].size, S)

\* It is the total of any function that gives the sizes.
LEMMA SizesTotal ==
  ASSUME NEW rows, NEW f, NEW S, IsFiniteSet(S), \A id \in S : f[id] = rows[id].size
  PROVE  SizesOf(rows, S) = Total(f, S)
<1>1. PICK g : IsTable(g, f, S)
  BY TableExists
<1> DEFINE Eq(h) == h = [T \in SUBSET S |-> IF T = {} THEN 0
                          ELSE rows[CHOOSE x \in T : TRUE].size
                                 + h[T \ {CHOOSE x \in T : TRUE}]]
<1>2. \A T \in SUBSET S : T # {} =>
        f[CHOOSE x \in T : TRUE] = rows[CHOOSE x \in T : TRUE].size
  OBVIOUS
<1>3. ASSUME NEW h PROVE Eq(h) <=> IsTable(h, f, S)
  BY <1>2 DEF IsTable
<1>4. SizesOf(rows, S) = (CHOOSE h : Eq(h))[S]
  BY DEF SizesOf, MapThenSumSet, MapThenFoldSet
<1>5. Eq(CHOOSE h : Eq(h))
  <2>1. Eq(g)
    BY <1>1, <1>3
  <2> HIDE DEF Eq
  <2> QED
    BY <2>1
<1> HIDE DEF Eq
<1>6. IsTable(CHOOSE h : Eq(h), f, S)
  BY <1>3, <1>5
<1>7. QED
  BY <1>4, <1>6, TotalOf

-----------------------------------------------------------------------------
(* Typing. *)

\* Labels at which a request works on a row that is there.
HasRow == {"update", "nsAdd", "vaultAdd", "nsDiff", "vaultDiff", "confirm",
           "nsSub", "vaultSub", "get", "audit"}

\* A running request has its arguments; it has an id from the point where it
\* generates or finds one, and what it has found is a row.
LocalsOK ==
  \A r \in Requests :
    /\ pc[r] # "idle" => call[r] \in Call
    /\ pc[r] \in {"idle", "quota", "lookup"} => target[r] = Null
    /\ pc[r] = "put" /\ target[r] # Null => Exists(target[r])
    /\ pc[r] = "insert" => target[r] \in ObjectIds
    /\ pc[r] \in HasRow => target[r] \in ObjectIds /\ Exists(target[r])

TypeInv == TypeOK /\ LocalsOK

LEMMA TypeInit == Init => TypeInv
  BY ConstantsAssumption
  DEF Init, TypeInv, TypeOK, LocalsOK, Labels, HasRow

LEMMA NewRowTyped ==
  ASSUME TypeInv, NEW r \in Requests, pc[r] # "idle",
         NEW s \in {"pending", "confirmed"}, NEW t \in Ttls
  PROVE  NewRow(r, s, t) \in Row
  BY ConstantsAssumption DEF TypeInv, LocalsOK, NewRow, Row, Call

\* Assigning columns of a row leaves a row.
LEMMA RowUpdated ==
  ASSUME NEW row \in Row, NEW s \in Nat, NEW t \in {"none", "running", "expired"}
  PROVE  /\ [row EXCEPT !.size = s] \in Row
         /\ [row EXCEPT !.ttl = t] \in Row
         /\ [row EXCEPT !.size = s, !.ttl = t] \in Row
         /\ [row EXCEPT !.deleted = TRUE] \in Row
         /\ [row EXCEPT !.status = "confirmed"] \in Row
         /\ [row EXCEPT !.status = "confirmed", !.size = s] \in Row
  BY DEF Row

\* Returning is type-correct from every label, provided no row vanishes.
RowsKept == \A id \in ObjectIds : Exists(id) => Exists(id)'

LEMMA ReplyTyped ==
  ASSUME TypeInv, NEW r \in Requests, Reply(r, pc[r]), RowsKept
  PROVE  /\ pc' \in [Requests -> Labels]
         /\ call' \in [Requests -> Call \cup {Null}]
         /\ target' \in [Requests -> ObjectIds \cup {Null}]
         /\ delta' \in [Requests -> Int]
         /\ LocalsOK'
<1>1. /\ pc' \in [Requests -> Labels]
      /\ call' \in [Requests -> Call \cup {Null}]
      /\ target' \in [Requests -> ObjectIds \cup {Null}]
      /\ delta' \in [Requests -> Int]
  BY DEF TypeInv, TypeOK, Reply, Labels
<1>2. LocalsOK'
  BY DEF TypeInv, TypeOK, LocalsOK, Reply, RowsKept, HasRow
<1>3. QED
  BY <1>1, <1>2

\* The table stays a table of rows, and no statement makes a row vanish.
LEMMA ObjectStep ==
  TypeInv /\ [Next]_vars =>
    object' \in [ObjectIds -> Row \cup {Null}] /\ RowsKept
<1> SUFFICES ASSUME TypeInv, [Next]_vars
             PROVE  object' \in [ObjectIds -> Row \cup {Null}] /\ RowsKept
  OBVIOUS
<1> DEFINE Good == object' \in [ObjectIds -> Row \cup {Null}] /\ RowsKept
<1> USE ConstantsAssumption
<1>1. CASE UNCHANGED object
  BY <1>1 DEF RowsKept, Exists, TypeInv, TypeOK
<1>2. ASSUME NEW i, NEW row \in Row, object' = [object EXCEPT ![i] = row]
      PROVE  Good
  BY <1>2 DEF RowsKept, Exists, TypeInv, TypeOK
<1>3. ASSUME NEW r \in Requests, InsertConfirmed(r) PROVE Good
  BY <1>1, <1>2, <1>3, NewRowTyped DEF InsertConfirmed
<1>4. ASSUME NEW r \in Requests, InsertPending(r) PROVE Good
  BY <1>1, <1>2, <1>4, NewRowTyped DEF InsertPending, Reply
<1>5. ASSUME NEW r \in Requests, UpdateRow(r) PROVE Good
  <2>1. call[r].size \in Nat /\ object[target[r]] \in Row
    BY <1>5 DEF UpdateRow, Goto, TypeInv, TypeOK, LocalsOK, HasRow, Call, Exists
  <2>2. PICK t \in Ttls : object' = [object EXCEPT
                                       ![target[r]].size = call[r].size,
                                       ![target[r]].ttl = t]
    BY <1>5 DEF UpdateRow
  <2>3. object' = [object EXCEPT ![target[r]] =
                     [object[target[r]] EXCEPT !.size = call[r].size, !.ttl = t]]
    BY <2>1, <2>2 DEF TypeInv, TypeOK
  <2>4. QED
    BY <1>2, <2>1, <2>3, RowUpdated
<1>6. ASSUME NEW r \in Requests, ConfirmUpload(r) PROVE Good
  <2>1. object[target[r]] \in Row
    BY <1>6 DEF ConfirmUpload, TypeInv, TypeOK, LocalsOK, HasRow, Exists
  <2>2. CASE UNCHANGED object
    BY <1>1, <2>2
  <2>3. CASE ~UNCHANGED object
    <3>1. PICK s \in Sizes \cup {object[target[r]].size} :
            object' = [object EXCEPT ![target[r]].status = "confirmed",
                                     ![target[r]].size = s]
      BY <1>6, <2>3 DEF ConfirmUpload
    <3>2. s \in Nat
      BY <2>1 DEF Row
    <3>3. object' = [object EXCEPT ![target[r]] =
                       [object[target[r]] EXCEPT !.status = "confirmed", !.size = s]]
      BY <2>1, <3>1 DEF TypeInv, TypeOK
    <3>4. QED
      BY <1>2, <2>1, <3>2, <3>3, RowUpdated
  <2>4. QED
    BY <2>2, <2>3
<1>7. ASSUME NEW r \in Requests, MarkDeleted(r) PROVE Good
  <2>1. CASE UNCHANGED object
    BY <1>1, <2>1
  <2>2. CASE ~UNCHANGED object
    <3>1. PICK id \in LiveAt(call[r].ns, call[r].key) :
            object' = [object EXCEPT ![id].deleted = TRUE]
      BY <1>7, <2>2 DEF MarkDeleted, Deletable
    <3>2. id \in ObjectIds /\ object[id] \in Row
      BY <3>1 DEF LiveAt, Live, Exists, TypeInv, TypeOK
    <3>3. QED
      BY <1>2, <3>1, <3>2, RowUpdated
  <2>3. QED
    BY <2>1, <2>2
<1>8. ASSUME NEW i \in ObjectIds, Expire(i) PROVE Good
  BY <1>2, <1>8, RowUpdated DEF Expire, Exists, TypeInv, TypeOK
<1>9. QED
  BY <1>1, <1>3, <1>4, <1>5, <1>6, <1>7, <1>8
  DEF Next, Statement, vars, tables, StartStore, StartKeyed, StartConfirm,
      CheckQuota, LookupExisting, PutNewBlob, OverwriteBlob, AddToNamespace,
      AddToVault, AdjustNamespace, AdjustVault, SubtractFromNamespace,
      SubtractFromVault, FindObject, GetBlob, Audit, Stop, ClientUpload

LEMMA TypeStep == TypeInv /\ [Next]_vars => TypeInv'
<1> SUFFICES ASSUME TypeInv, [Next]_vars PROVE TypeInv'
  OBVIOUS
<1> USE ConstantsAssumption
<1>0. object' \in [ObjectIds -> Row \cup {Null}] /\ RowsKept
  BY ObjectStep
<1>a. ASSUME NEW r \in Requests, Reply(r, pc[r]),
             blob' \in [ObjectIds -> Nat \cup {Null}],
             audit' \subseteq {"store", "retrieve", "delete"} \X Namespaces,
             UNCHANGED <<vaultBytes, vaultCount, nsBytes, nsCount>>
      PROVE  TypeInv'
  BY <1>0, <1>a, ReplyTyped DEF TypeInv, TypeOK
<1>1. ASSUME NEW r \in Requests, StartStore(r) PROVE TypeInv'
  <2>1. PICK c \in Call : call' = [call EXCEPT ![r] = c]
    BY <1>1 DEF StartStore, Call
  <2>2. QED
    BY <1>0, <1>1, <2>1 DEF StartStore, Goto, tables, TypeInv, TypeOK, LocalsOK,
                      Labels, HasRow, RowsKept, Exists
<1>2. ASSUME NEW r \in Requests, StartKeyed(r) PROVE TypeInv'
  <2>1. PICK c \in Call : call' = [call EXCEPT ![r] = c]
    BY <1>2 DEF StartKeyed, Call, AllOperations
  <2>2. PICK l \in {"mark", "find"} : Goto(r, "idle", l)
    BY <1>2 DEF StartKeyed
  <2>3. QED
    BY <1>0, <1>2, <2>1, <2>2 DEF StartKeyed, Goto, tables, TypeInv, TypeOK,
                            LocalsOK, Labels, HasRow, RowsKept, Exists
<1>3. ASSUME NEW r \in Requests, StartConfirm(r) PROVE TypeInv'
  <2>1. PICK id \in ObjectIds :
          /\ object[id] \in Row
          /\ target' = [target EXCEPT ![r] = id]
          /\ call' = [call EXCEPT ![r] =
                        [op |-> "confirm", ns |-> object[id].ns,
                         key |-> object[id].key, size |-> 0]]
    BY <1>3 DEF StartConfirm, Exists, TypeInv, TypeOK
  <2>2. [op |-> "confirm", ns |-> object[id].ns,
         key |-> object[id].key, size |-> 0] \in Call
    BY <2>1 DEF Row, Call, AllOperations
  <2>3. QED
    BY <1>0, <1>3, <2>1, <2>2 DEF StartConfirm, Goto, tables, TypeInv, TypeOK,
                            LocalsOK, Labels, HasRow, RowsKept, Exists
<1>4. ASSUME NEW r \in Requests, CheckQuota(r) PROVE TypeInv'
  <2>1. CASE Reply(r, "quota")
    BY <1>4, <1>a, <2>1 DEF CheckQuota, tables, TypeInv, TypeOK
  <2>2. CASE Goto(r, "quota", AfterQuota(call[r].op))
              /\ UNCHANGED <<call, target, delta>>
    <3>1. AfterQuota(call[r].op) \in {"put", "insertPending", "lookup"}
      BY DEF AfterQuota
    <3>2. QED
      BY <1>0, <1>4, <2>2, <3>1 DEF CheckQuota, Goto, tables, TypeInv, TypeOK,
                              LocalsOK, Labels, HasRow, RowsKept, Exists
  <2>3. QED
    BY <1>4, <2>1, <2>2 DEF CheckQuota
<1>5. ASSUME NEW r \in Requests, LookupExisting(r) PROVE TypeInv'
  <2>1. CASE UNCHANGED <<target, delta>>
    BY <1>0, <1>5, <2>1 DEF LookupExisting, Goto, tables, TypeInv, TypeOK,
                      LocalsOK, Labels, HasRow, RowsKept, Exists
  <2>2. CASE \E id \in LiveAt(call[r].ns, call[r].key) :
               /\ target' = [target EXCEPT ![r] = id]
               /\ delta' = [delta EXCEPT ![r] = call[r].size - object[id].size]
    <3>1. PICK id \in LiveAt(call[r].ns, call[r].key) :
            /\ target' = [target EXCEPT ![r] = id]
            /\ delta' = [delta EXCEPT ![r] = call[r].size - object[id].size]
      BY <2>2
    <3>2. object[id] \in Row /\ id \in ObjectIds /\ call[r] \in Call
      BY <1>5, <3>1 DEF LiveAt, Live, Exists, TypeInv, TypeOK, LocalsOK,
                        LookupExisting, Goto
    <3>3. call[r].size - object[id].size \in Int
      BY <3>2 DEF Row, Call
    <3>4. QED
      BY <1>0, <1>5, <3>1, <3>2, <3>3
      DEF LookupExisting, Goto, tables, TypeInv, TypeOK, LocalsOK, Labels,
          HasRow, RowsKept, Exists
  <2>3. QED
    BY <1>5, <2>1, <2>2 DEF LookupExisting
<1>6. ASSUME NEW r \in Requests, PutNewBlob(r) PROVE TypeInv'
  BY <1>0, <1>6 DEF PutNewBlob, Goto, tables, TypeInv, TypeOK, LocalsOK, Labels,
              HasRow, Call, RowsKept, Exists
<1>7. ASSUME NEW r \in Requests, OverwriteBlob(r) PROVE TypeInv'
  BY <1>0, <1>7 DEF OverwriteBlob, Goto, tables, TypeInv, TypeOK, LocalsOK,
                    Labels, HasRow, Call, RowsKept, Exists
<1>8. ASSUME NEW r \in Requests, InsertConfirmed(r) PROVE TypeInv'
  <2>1. CASE Reply(r, "insert")
    BY <1>8, <1>a, <2>1 DEF InsertConfirmed, TypeInv, TypeOK
  <2>2. CASE ~Reply(r, "insert")
    <3>1. Exists(target[r])'
      <4>1. PICK t \in Ttls : object' = [object EXCEPT ![target[r]] =
                                           NewRow(r, "confirmed", t)]
        BY <1>8, <2>2 DEF InsertConfirmed
      <4>2. NewRow(r, "confirmed", t) \in Row
        BY <1>8, NewRowTyped DEF InsertConfirmed
      <4>3. QED
        BY <1>8, <2>2, <4>1, <4>2 DEF InsertConfirmed, TypeInv, TypeOK, LocalsOK,
                                 Exists
    <3>2. call[r].size \in Nat
      BY <1>8 DEF InsertConfirmed, TypeInv, LocalsOK, Call
    <3>3. QED
      BY <1>0, <1>8, <2>2, <3>1, <3>2
      DEF InsertConfirmed, Goto, TypeInv, TypeOK, LocalsOK, Labels, HasRow,
          RowsKept, Exists
  <2>3. QED
    BY <2>1, <2>2
<1>9. ASSUME NEW r \in Requests, InsertPending(r) PROVE TypeInv'
  BY <1>9, <1>a DEF InsertPending, Reply, TypeInv, TypeOK
<1>10. ASSUME NEW r \in Requests, UpdateRow(r) PROVE TypeInv'
  BY <1>0, <1>10 DEF UpdateRow, Goto, TypeInv, TypeOK, LocalsOK, Labels,
                     HasRow, RowsKept, Exists
<1>11. ASSUME NEW r \in Requests, ConfirmUpload(r) PROVE TypeInv'
  <2>1. CASE Reply(r, "confirm")
    BY <1>11, <1>a, <2>1 DEF ConfirmUpload, TypeInv, TypeOK
  <2>2. CASE ~Reply(r, "confirm")
    <3>1. object[target[r]].size \in Nat
      BY <1>11 DEF ConfirmUpload, TypeInv, TypeOK, LocalsOK, HasRow, Exists, Row
    <3>2. PICK s \in Nat : delta' = [delta EXCEPT ![r] = s]
      BY <1>11, <2>2, <3>1 DEF ConfirmUpload
    <3>3. QED
      BY <1>0, <1>11, <2>2, <3>2
      DEF ConfirmUpload, Goto, TypeInv, TypeOK, LocalsOK, Labels, HasRow,
          RowsKept, Exists
  <2>3. QED
    BY <2>1, <2>2
<1>12. ASSUME NEW r \in Requests, MarkDeleted(r) PROVE TypeInv'
  <2>1. CASE Reply(r, "mark")
    BY <1>12, <1>a, <2>1 DEF MarkDeleted, TypeInv, TypeOK
  <2>2. CASE ~Reply(r, "mark")
    <3>1. PICK id \in LiveAt(call[r].ns, call[r].key) :
            /\ Goto(r, "mark", "nsSub")
            /\ target' = [target EXCEPT ![r] = id]
            /\ delta' = [delta EXCEPT ![r] = object[id].size]
            /\ UNCHANGED call
      BY <1>12, <2>2 DEF MarkDeleted, Deletable
    <3>2. id \in ObjectIds /\ Exists(id) /\ object[id].size \in Nat
      BY <3>1 DEF LiveAt, Live, Exists, TypeInv, TypeOK, Row
    <3>3. QED
      BY <1>0, <1>12, <3>1, <3>2
      DEF MarkDeleted, Goto, TypeInv, TypeOK, LocalsOK, Labels, HasRow,
          RowsKept, Exists
  <2>3. QED
    BY <2>1, <2>2
<1>13. ASSUME NEW r \in Requests, FindObject(r) PROVE TypeInv'
  <2>1. CASE Reply(r, "find")
    BY <1>13, <1>a, <2>1 DEF FindObject, tables, TypeInv, TypeOK
  <2>2. CASE ~Reply(r, "find")
    <3>1. PICK id \in LiveAt(call[r].ns, call[r].key), l \in {"audit", "get"} :
            /\ Goto(r, "find", l)
            /\ target' = [target EXCEPT ![r] = id]
            /\ UNCHANGED <<call, delta>>
      BY <1>13, <2>2 DEF FindObject, VisibleAt
    <3>2. id \in ObjectIds /\ Exists(id)
      BY <3>1 DEF LiveAt, Live
    <3>3. QED
      BY <1>0, <1>13, <3>1, <3>2
      DEF FindObject, Goto, tables, TypeInv, TypeOK, LocalsOK, Labels, HasRow,
          RowsKept, Exists
  <2>3. QED
    BY <2>1, <2>2
<1>14. ASSUME NEW r \in Requests, GetBlob(r) PROVE TypeInv'
  <2>1. CASE Reply(r, "get")
    BY <1>14, <1>a, <2>1 DEF GetBlob, tables, TypeInv, TypeOK
  <2>2. CASE ~Reply(r, "get")
    BY <1>0, <1>14, <2>2
    DEF GetBlob, Goto, tables, TypeInv, TypeOK, LocalsOK, Labels, HasRow,
        RowsKept, Exists
  <2>3. QED
    BY <2>1, <2>2
<1>15. ASSUME NEW r \in Requests, Audit(r) PROVE TypeInv'
  <2>1. call[r].ns \in Namespaces
    BY <1>15 DEF Audit, Reply, TypeInv, LocalsOK, Call
  <2>2. Logged(call[r].op) \in {"store", "retrieve", "delete"}
    BY DEF Logged
  <2>3. <<Logged(call[r].op), call[r].ns>> \in
          {"store", "retrieve", "delete"} \X Namespaces
    BY <2>1, <2>2
  <2>4. audit' \subseteq {"store", "retrieve", "delete"} \X Namespaces
    BY <1>15, <2>3 DEF Audit, TypeInv, TypeOK
  <2>5. QED
    BY <1>15, <1>a, <2>4 DEF Audit, Reply, TypeInv, TypeOK
<1>16. ASSUME NEW r \in Requests, Stop(r) PROVE TypeInv'
  BY <1>16, <1>a DEF Stop, tables, TypeInv, TypeOK
<1>17. ASSUME NEW r \in Requests,
              \/ AddToNamespace(r) \/ AddToVault(r) \/ AdjustNamespace(r)
              \/ AdjustVault(r) \/ SubtractFromNamespace(r)
              \/ SubtractFromVault(r)
       PROVE  TypeInv'
  <2>1. /\ vaultBytes' \in Int /\ vaultCount' \in Int
        /\ nsBytes' \in [Namespaces -> Int] /\ nsCount' \in [Namespaces -> Int]
    BY <1>17 DEF AddToNamespace, AddToVault, AdjustNamespace, AdjustVault,
                 SubtractFromNamespace, SubtractFromVault, Less, TypeInv, TypeOK
  <2>2. PICK l \in {"vaultAdd", "vaultDiff", "vaultSub", "audit"} :
          /\ pc[r] \in HasRow /\ pc' = [pc EXCEPT ![r] = l]
          /\ UNCHANGED <<object, blob, audit, call, target, delta>>
    BY <1>17 DEF AddToNamespace, AddToVault, AdjustNamespace, AdjustVault,
                 SubtractFromNamespace, SubtractFromVault, Goto, HasRow
  <2>3. QED
    BY <2>1, <2>2 DEF TypeInv, TypeOK, LocalsOK, Labels, HasRow, Exists
<1>18. ASSUME NEW i \in ObjectIds, ClientUpload(i) \/ Expire(i) PROVE TypeInv'
  BY <1>0, <1>18 DEF ClientUpload, Expire, tables, locals, TypeInv, TypeOK,
                     LocalsOK, RowsKept, Exists
<1>19. CASE UNCHANGED vars
  BY <1>19 DEF vars, TypeInv, TypeOK, LocalsOK, Exists
<1>20. QED
  BY <1>1, <1>2, <1>3, <1>4, <1>5, <1>6, <1>7, <1>8, <1>9, <1>10, <1>11,
     <1>12, <1>13, <1>14, <1>15, <1>16, <1>17, <1>18, <1>19 DEF Next, Statement

\* Every variable of the object store keeps its type: agent-objects.ts and
\* the serac_store, serac_retrieve and serac_delete tools of mcp-server.ts.
THEOREM TypeCorrect == Spec => []TypeOK
<1>1. Spec => []TypeInv
  BY TypeInit, TypeStep, PTL DEF Spec
<1>2. TypeInv => TypeOK
  BY DEF TypeInv
<1>3. QED
  BY <1>1, <1>2, PTL

-----------------------------------------------------------------------------
(* One winner for each row. *)

\* An id under which a blob has been put and whose row is still to come
\* belongs to one request.
FreshOK ==
  \A r \in Requests : pc[r] = "insert" =>
    /\ object[target[r]] = Null /\ blob[target[r]] # Null
    /\ \A q \in Requests : pc[q] = "insert" /\ target[q] = target[r] => q = r

\* No two requests credit the same row at the same time, and the row they
\* credit is confirmed.
NoDoubleCredit ==
  \A r \in Adding :
    /\ Confirmed(target[r])
    /\ \A q \in Adding : target[q] = target[r] => q = r

WinnerInv == FreshOK /\ NoDoubleCredit /\ NoDoubleRelease /\ LiveKeyUnique

LEMMA WinnerInit == Init => WinnerInv
  BY DEF Init, WinnerInv, FreshOK, NoDoubleCredit, NoDoubleRelease,
         LiveKeyUnique, Adding, Subtracting, Live, Exists

\* A step that leaves the rows alone, takes no request into a label that the
\* invariant speaks of, and keeps the targets of those that are there.
LEMMA WinnerQuiet ==
  ASSUME TypeInv, WinnerInv, UNCHANGED object,
         \A id \in ObjectIds : blob[id] # Null => blob'[id] # Null,
         \A r \in Requests :
           \/ pc'[r] = pc[r] /\ target'[r] = target[r]
           \/ pc'[r] \notin {"insert", "nsAdd", "vaultAdd", "nsSub", "vaultSub"}
           \/ /\ pc[r] = "nsAdd" /\ pc'[r] = "vaultAdd"
              /\ target'[r] = target[r]
           \/ /\ pc[r] = "nsSub" /\ pc'[r] = "vaultSub"
              /\ target'[r] = target[r]
  PROVE  WinnerInv'
<1>1. FreshOK'
  BY DEF WinnerInv, FreshOK, TypeInv, TypeOK, LocalsOK
<1>2. NoDoubleCredit'
  BY DEF WinnerInv, NoDoubleCredit, Adding, Confirmed, Exists, TypeInv, TypeOK
<1>3. NoDoubleRelease'
  BY DEF WinnerInv, NoDoubleRelease, Subtracting, Exists, TypeInv, TypeOK
<1>4. LiveKeyUnique'
  BY DEF WinnerInv, LiveKeyUnique, Live, Exists, At
<1>5. QED
  BY <1>1, <1>2, <1>3, <1>4 DEF WinnerInv

LEMMA WinnerStep == TypeInv /\ TypeInv' /\ WinnerInv /\ [Next]_vars => WinnerInv'
<1> SUFFICES ASSUME TypeInv, TypeInv', WinnerInv, [Next]_vars PROVE WinnerInv'
  OBVIOUS
<1> USE ConstantsAssumption
<1>1. ASSUME NEW r \in Requests, Reply(r, pc[r]), UNCHANGED <<object, blob>>
      PROVE  WinnerInv'
  BY <1>1, WinnerQuiet DEF Reply, TypeInv, TypeOK
<1>2. ASSUME NEW r \in Requests,
             \/ StartStore(r) \/ StartKeyed(r) \/ StartConfirm(r)
             \/ CheckQuota(r) \/ LookupExisting(r) \/ OverwriteBlob(r)
             \/ AddToNamespace(r) \/ AddToVault(r) \/ AdjustNamespace(r)
             \/ AdjustVault(r) \/ SubtractFromNamespace(r)
             \/ SubtractFromVault(r) \/ FindObject(r) \/ GetBlob(r)
             \/ Audit(r) \/ Stop(r)
      PROVE  WinnerInv'
  <2>1. UNCHANGED object
    BY <1>2 DEF StartStore, StartKeyed, StartConfirm, CheckQuota,
      LookupExisting, OverwriteBlob, AddToNamespace, AddToVault,
      AdjustNamespace, AdjustVault, SubtractFromNamespace, SubtractFromVault,
      FindObject, GetBlob, Audit, Stop, tables
  <2>2. \A id \in ObjectIds : blob[id] # Null => blob'[id] # Null
    BY <1>2 DEF StartStore, StartKeyed, StartConfirm, CheckQuota,
      LookupExisting, OverwriteBlob, AddToNamespace, AddToVault,
      AdjustNamespace, AdjustVault, SubtractFromNamespace, SubtractFromVault,
      FindObject, GetBlob, Audit, Stop, TypeInv, TypeOK, LocalsOK, Goto, Call
  <2>3. \A q \in Requests \ {r} : pc'[q] = pc[q] /\ target'[q] = target[q]
    BY <1>2 DEF StartStore, StartKeyed, StartConfirm, CheckQuota,
      LookupExisting, OverwriteBlob, AddToNamespace, AddToVault,
      AdjustNamespace, AdjustVault, SubtractFromNamespace, SubtractFromVault,
      FindObject, GetBlob, Audit, Stop, TypeInv, TypeOK, Goto, Reply
  <2>4. \/ pc'[r] \notin {"insert", "nsAdd", "vaultAdd", "nsSub", "vaultSub"}
        \/ pc[r] = "nsAdd" /\ pc'[r] = "vaultAdd" /\ target'[r] = target[r]
        \/ pc[r] = "nsSub" /\ pc'[r] = "vaultSub" /\ target'[r] = target[r]
    <3>1. AfterQuota(call[r].op) \in {"put", "insertPending", "lookup"}
      BY DEF AfterQuota
    <3>2. QED
      BY <1>2, <3>1 DEF StartStore, StartKeyed, StartConfirm, CheckQuota,
        LookupExisting, OverwriteBlob, AddToNamespace, AddToVault,
        AdjustNamespace, AdjustVault, SubtractFromNamespace,
        SubtractFromVault, FindObject, GetBlob, Audit, Stop, TypeInv, TypeOK,
        Goto, Reply
  <2>5. QED
    BY <2>1, <2>2, <2>3, <2>4, WinnerQuiet
<1>3. ASSUME NEW r \in Requests, PutNewBlob(r) PROVE WinnerInv'
  <2>1. PICK id \in ObjectIds :
          /\ Unused(id)
          /\ target' = [target EXCEPT ![r] = id]
          /\ blob' = [blob EXCEPT ![id] = call[r].size]
          /\ call[r].size \in Nat
    BY <1>3 DEF PutNewBlob, Goto, TypeInv, LocalsOK, Call
  <2>2. FreshOK'
    BY <1>3, <2>1 DEF PutNewBlob, Goto, Unused, tables, WinnerInv, FreshOK,
                      TypeInv, TypeOK, LocalsOK
  <2>3. NoDoubleCredit' /\ NoDoubleRelease' /\ LiveKeyUnique'
    BY <1>3, <2>1 DEF PutNewBlob, Goto, tables, WinnerInv, NoDoubleCredit,
      NoDoubleRelease, LiveKeyUnique, Adding, Subtracting, Confirmed, Live, At,
      Exists, TypeInv, TypeOK
  <2>4. QED
    BY <2>2, <2>3 DEF WinnerInv
\* A row that comes into being: its key had no live row.
<1>4. ASSUME NEW r \in Requests, NEW id \in ObjectIds, NEW row \in Row,
             object[id] = Null, object' = [object EXCEPT ![id] = row],
             LiveAt(row.ns, row.key) = {}
      PROVE  LiveKeyUnique'
  <2>1. \A i \in ObjectIds : Live(i) => ~At(i, row.ns, row.key)
    BY <1>4 DEF LiveAt
  <2>2. QED
    BY <1>4, <2>1 DEF WinnerInv, LiveKeyUnique, Live, Exists, At, TypeInv, TypeOK
<1>5. ASSUME NEW r \in Requests, InsertConfirmed(r) PROVE WinnerInv'
  <2>1. CASE Reply(r, "insert") /\ UNCHANGED object
    BY <1>1, <1>5, <2>1 DEF InsertConfirmed, Goto, Reply
  <2>2. CASE ~(Reply(r, "insert") /\ UNCHANGED object)
    <3>1. PICK t \in Ttls : object' = [object EXCEPT ![target[r]] =
                                         NewRow(r, "confirmed", t)]
      BY <1>5, <2>2 DEF InsertConfirmed
    <3>2. NewRow(r, "confirmed", t) \in Row
      BY <1>5, NewRowTyped DEF InsertConfirmed
    <3>3. /\ pc[r] = "insert" /\ pc' = [pc EXCEPT ![r] = "nsAdd"]
          /\ UNCHANGED <<target, blob>> /\ target[r] \in ObjectIds
          /\ LiveAt(call[r].ns, call[r].key) = {}
      BY <1>5, <2>2 DEF InsertConfirmed, Goto, TypeInv, LocalsOK
    <3>4. object[target[r]] = Null
      BY <3>3 DEF WinnerInv, FreshOK
    <3>5. FreshOK'
      BY <3>1, <3>3 DEF WinnerInv, FreshOK, TypeInv, TypeOK
    <3>6. NewRow(r, "confirmed", t).status = "confirmed"
      BY DEF NewRow
    <3>7. NoDoubleCredit'
      BY <3>1, <3>2, <3>3, <3>4, <3>6 DEF WinnerInv, NoDoubleCredit, Adding,
         Confirmed, Exists, TypeInv, TypeOK
    <3>8. NoDoubleRelease'
      BY <3>1, <3>2, <3>3, <3>4 DEF WinnerInv, NoDoubleRelease, Subtracting,
         Exists, TypeInv, TypeOK
    <3>9. LiveKeyUnique'
      BY <1>4, <3>1, <3>2, <3>3, <3>4 DEF NewRow
    <3>10. QED
      BY <3>5, <3>7, <3>8, <3>9 DEF WinnerInv
  <2>3. QED
    BY <2>1, <2>2
<1>6. ASSUME NEW r \in Requests, InsertPending(r) PROVE WinnerInv'
  <2>1. CASE UNCHANGED object
    BY <1>1, <1>6, <2>1 DEF InsertPending, Reply
  <2>2. CASE ~UNCHANGED object
    <3>1. PICK id \in ObjectIds, t \in Ttls :
            /\ Unused(id)
            /\ object' = [object EXCEPT ![id] = NewRow(r, "pending", t)]
      BY <1>6, <2>2 DEF InsertPending
    <3>2. NewRow(r, "pending", t) \in Row
      BY <1>6, NewRowTyped DEF InsertPending, Reply
    <3>3. /\ pc[r] = "insertPending" /\ pc' = [pc EXCEPT ![r] = "idle"]
          /\ target' = [target EXCEPT ![r] = Null] /\ UNCHANGED blob
          /\ LiveAt(call[r].ns, call[r].key) = {}
      BY <1>6, <2>2 DEF InsertPending, Reply
    <3>4. FreshOK'
      BY <3>1, <3>3 DEF Unused, WinnerInv, FreshOK, TypeInv, TypeOK
    <3>5. NoDoubleCredit'
      BY <3>1, <3>2, <3>3 DEF Unused, WinnerInv, NoDoubleCredit, Adding,
         Confirmed, Exists, TypeInv, TypeOK
    <3>6. NoDoubleRelease'
      BY <3>1, <3>2, <3>3 DEF Unused, WinnerInv, NoDoubleRelease, Subtracting,
         Exists, TypeInv, TypeOK
    <3>7. LiveKeyUnique'
      BY <1>4, <3>1, <3>2, <3>3 DEF NewRow, Unused
    <3>8. QED
      BY <3>4, <3>5, <3>6, <3>7 DEF WinnerInv
  <2>3. QED
    BY <2>1, <2>2
\* A row that is updated in place.
<1>7. ASSUME NEW id \in ObjectIds, NEW row \in Row, object[id] \in Row,
             object' = [object EXCEPT ![id] = row],
             row.ns = object[id].ns, row.key = object[id].key,
             object[id].deleted => row.deleted
      PROVE  LiveKeyUnique'
  BY <1>7 DEF WinnerInv, LiveKeyUnique, Live, Exists, At, TypeInv, TypeOK
<1>8. ASSUME NEW id \in ObjectIds, NEW row \in Row, object[id] \in Row,
             object' = [object EXCEPT ![id] = row],
             row.ns = object[id].ns, row.key = object[id].key,
             row.deleted = object[id].deleted, row.status = object[id].status,
             UNCHANGED <<target, blob>>,
             \/ UNCHANGED pc
             \/ \E r \in Requests : /\ pc[r] = "update"
                                    /\ pc' = [pc EXCEPT ![r] = "nsDiff"]
      PROVE  WinnerInv'
  <2>1. FreshOK'
    BY <1>8 DEF WinnerInv, FreshOK, TypeInv, TypeOK
  <2>2. NoDoubleCredit'
    BY <1>8 DEF WinnerInv, NoDoubleCredit, Adding, Confirmed, Exists,
                TypeInv, TypeOK
  <2>3. NoDoubleRelease'
    BY <1>8 DEF WinnerInv, NoDoubleRelease, Subtracting, Exists, TypeInv, TypeOK
  <2>4. QED
    BY <1>7, <1>8, <2>1, <2>2, <2>3 DEF WinnerInv
<1>9. ASSUME NEW r \in Requests, UpdateRow(r) PROVE WinnerInv'
  <2>1. /\ call[r].size \in Nat /\ target[r] \in ObjectIds
        /\ object[target[r]] \in Row
    BY <1>9 DEF UpdateRow, Goto, TypeInv, TypeOK, LocalsOK, HasRow, Call, Exists
  <2>2. PICK t \in Ttls : object' = [object EXCEPT
                                       ![target[r]].size = call[r].size,
                                       ![target[r]].ttl = t]
    BY <1>9 DEF UpdateRow
  <2> DEFINE row == [object[target[r]] EXCEPT !.size = call[r].size, !.ttl = t]
  <2>3. object' = [object EXCEPT ![target[r]] = row]
    BY <2>1, <2>2 DEF TypeInv, TypeOK
  <2>4. /\ row \in Row
        /\ row.ns = object[target[r]].ns /\ row.key = object[target[r]].key
        /\ row.deleted = object[target[r]].deleted
        /\ row.status = object[target[r]].status
    BY <2>1 DEF Row
  <2>5. QED
    BY <1>8, <1>9, <2>1, <2>3, <2>4 DEF UpdateRow, Goto
<1>10. ASSUME NEW id \in ObjectIds, Expire(id) PROVE WinnerInv'
  <2>1. object[id] \in Row
    BY <1>10 DEF Expire, Exists, TypeInv, TypeOK
  <2> DEFINE row == [object[id] EXCEPT !.ttl = "expired"]
  <2>2. object' = [object EXCEPT ![id] = row]
    BY <1>10, <2>1 DEF Expire, TypeInv, TypeOK
  <2>3. /\ row \in Row /\ row.ns = object[id].ns /\ row.key = object[id].key
        /\ row.deleted = object[id].deleted /\ row.status = object[id].status
    BY <2>1 DEF Row
  <2>4. QED
    BY <1>8, <1>10, <2>1, <2>2, <2>3 DEF Expire, locals
<1>11. ASSUME NEW r \in Requests, ConfirmUpload(r) PROVE WinnerInv'
  <2>1. CASE Reply(r, "confirm") /\ UNCHANGED object
    BY <1>1, <1>11, <2>1 DEF ConfirmUpload, Goto, Reply
  <2>2. CASE ~(Reply(r, "confirm") /\ UNCHANGED object)
    <3>1. /\ target[r] \in ObjectIds /\ object[target[r]] \in Row
          /\ object[target[r]].status = "pending"
      BY <1>11, <2>2 DEF ConfirmUpload, ConfirmMatches, TypeInv, TypeOK,
                         LocalsOK, HasRow, Exists
    <3>2. PICK s \in Sizes \cup {object[target[r]].size} :
            object' = [object EXCEPT ![target[r]].status = "confirmed",
                                     ![target[r]].size = s]
      BY <1>11, <2>2 DEF ConfirmUpload
    <3>3. s \in Nat
      BY <3>1 DEF Row
    <3> DEFINE row == [object[target[r]] EXCEPT !.status = "confirmed",
                                                !.size = s]
    <3>4. object' = [object EXCEPT ![target[r]] = row]
      BY <3>1, <3>2 DEF TypeInv, TypeOK
    <3>5. /\ row \in Row /\ row.status = "confirmed"
          /\ row.ns = object[target[r]].ns /\ row.key = object[target[r]].key
          /\ row.deleted = object[target[r]].deleted
      BY <3>1, <3>3 DEF Row
    <3>6. /\ pc[r] = "confirm" /\ pc' = [pc EXCEPT ![r] = "nsAdd"]
          /\ UNCHANGED <<target, blob>>
      BY <1>11, <2>2 DEF ConfirmUpload, Goto
    <3> HIDE DEF row
    <3>7. FreshOK'
      BY <3>1, <3>4, <3>6 DEF WinnerInv, FreshOK, TypeInv, TypeOK
    <3>8. NoDoubleCredit'
      BY <3>1, <3>4, <3>5, <3>6 DEF WinnerInv, NoDoubleCredit, Adding,
                                    Confirmed, Exists, TypeInv, TypeOK
    <3>9. NoDoubleRelease'
      BY <3>1, <3>4, <3>5, <3>6 DEF WinnerInv, NoDoubleRelease, Subtracting,
                                    Exists, TypeInv, TypeOK
    <3>10. LiveKeyUnique'
      BY <1>7, <3>1, <3>4, <3>5
    <3>11. QED
      BY <3>7, <3>8, <3>9, <3>10 DEF WinnerInv
  <2>3. QED
    BY <2>1, <2>2
<1>12. ASSUME NEW r \in Requests, MarkDeleted(r) PROVE WinnerInv'
  <2>1. CASE Reply(r, "mark") /\ UNCHANGED object
    BY <1>1, <1>12, <2>1 DEF MarkDeleted, Goto, Reply
  <2>2. CASE ~(Reply(r, "mark") /\ UNCHANGED object)
    <3>1. PICK id \in LiveAt(call[r].ns, call[r].key) :
            /\ pc[r] = "mark" /\ pc' = [pc EXCEPT ![r] = "nsSub"]
            /\ object' = [object EXCEPT ![id].deleted = TRUE]
            /\ target' = [target EXCEPT ![r] = id]
            /\ UNCHANGED blob
      BY <1>12, <2>2 DEF MarkDeleted, Deletable, Goto
    <3>2. /\ id \in ObjectIds /\ object[id] \in Row /\ ~object[id].deleted
      BY <3>1 DEF LiveAt, Live, Exists, TypeInv, TypeOK
    <3> DEFINE row == [object[id] EXCEPT !.deleted = TRUE]
    <3>3. object' = [object EXCEPT ![id] = row]
      BY <3>1
    <3>4. /\ row \in Row /\ row.deleted /\ row.status = object[id].status
          /\ row.ns = object[id].ns /\ row.key = object[id].key
      BY <3>2 DEF Row
    <3> HIDE DEF row
    <3>5. FreshOK'
      BY <3>1, <3>2, <3>3 DEF WinnerInv, FreshOK, TypeInv, TypeOK
    <3>6. \A q \in Adding \cup Subtracting : target[q] \in ObjectIds
      BY DEF Adding, Subtracting, TypeInv, LocalsOK, HasRow
    <3>7. /\ Adding' = Adding
          /\ Subtracting' = Subtracting \cup {r} /\ r \notin Adding
          /\ r \notin Subtracting
          /\ \A q \in Requests \ {r} : target'[q] = target[q]
          /\ target'[r] = id
      BY <3>1 DEF Adding, Subtracting, TypeInv, TypeOK
    <3>8. /\ object'[id] = row
          /\ \A i \in ObjectIds \ {id} : object'[i] = object[i]
      BY <3>2, <3>3 DEF TypeInv, TypeOK
    <3>9. NoDoubleCredit'
      BY <3>2, <3>4, <3>6, <3>7, <3>8
      DEF WinnerInv, NoDoubleCredit, Adding, Confirmed, Exists
    <3>10. NoDoubleRelease'
      BY <3>2, <3>4, <3>6, <3>7, <3>8
      DEF WinnerInv, NoDoubleRelease, Subtracting, Exists
    <3>11. LiveKeyUnique'
      BY <1>7, <3>2, <3>3, <3>4
    <3>12. QED
      BY <3>5, <3>9, <3>10, <3>11 DEF WinnerInv
  <2>3. QED
    BY <2>1, <2>2
<1>13. ASSUME NEW id \in ObjectIds, ClientUpload(id) PROVE WinnerInv'
  <2>1. UNCHANGED <<object, pc, target>>
    BY <1>13 DEF ClientUpload, tables, locals
  <2>2. \A i \in ObjectIds : blob[i] # Null => blob'[i] # Null
    BY <1>13 DEF ClientUpload, TypeInv, TypeOK
  <2>3. QED
    BY <2>1, <2>2, WinnerQuiet
<1>14. CASE UNCHANGED vars
  <2>1. UNCHANGED <<object, blob, pc, target>>
    BY <1>14 DEF vars
  <2>2. QED
    BY <2>1, WinnerQuiet
<1>15. QED
  BY <1>2, <1>3, <1>5, <1>6, <1>9, <1>10, <1>11, <1>12, <1>13, <1>14
  DEF Next, Statement

LEMMA WinnerInvariant == Spec => [](TypeInv /\ WinnerInv)
<1>1. TypeInv /\ WinnerInv /\ [Next]_vars => (TypeInv /\ WinnerInv)'
  BY TypeStep, WinnerStep
<1>2. QED
  BY TypeInit, WinnerInit, <1>1, PTL DEF Spec

\* Two deletes of one key never release the storage of the same row, however
\* their statements interleave with those of any other request and wherever
\* requests stop: the UPDATE ... deleted_at IS NULL RETURNING of
\* agent-objects.ts and mcp-server.ts picks one winner.
THEOREM DeleteHasOneWinner == Spec => []NoDoubleRelease
<1>1. WinnerInv => NoDoubleRelease
  BY DEF WinnerInv
<1>2. QED
  BY WinnerInvariant, <1>1, PTL

\* A key has at most one live row, upserts, confirms and stops included.
THEOREM OneLiveRowPerKey == Spec => []LiveKeyUnique
<1>1. WinnerInv => LiveKeyUnique
  BY DEF WinnerInv
<1>2. QED
  BY WinnerInvariant, <1>1, PTL

-----------------------------------------------------------------------------
(* An object is credited once. *)

\* A row and what a step may do to it: it stays, with its URL; a confirmed row
\* stays confirmed; a new row is a confirmed one whose blob has been put, or a
\* pending one with a URL; and a pending row becomes confirmed only where
\* tokens are issued.
RowKept(id) ==
  /\ Exists(id) => Exists(id)' /\ object'[id].url = object[id].url
  /\ Confirmed(id) => Confirmed(id)'
  /\ Confirmed(id)' =>
       Confirmed(id) \/ blob[id] # Null \/ (TokenIssued /\ Exists(id))
  /\ Exists(id)' /\ ~Confirmed(id)' /\ ~Exists(id) => object'[id].url

LEMMA ConfirmedStays ==
  ASSUME TypeInv, WinnerInv, [Next]_vars
  PROVE  \A id \in ObjectIds : RowKept(id)
<1> USE ConstantsAssumption
<1> DEFINE Good == \A id \in ObjectIds : RowKept(id)
<1>1. CASE UNCHANGED object
  BY <1>1 DEF RowKept, Confirmed, Exists
\* A row that is updated in place and keeps its URL.
<1>2. ASSUME NEW id \in ObjectIds, NEW row \in Row, object[id] \in Row,
             object' = [object EXCEPT ![id] = row],
             row.url = object[id].url,
             \/ row.status = object[id].status
             \/ row.status = "confirmed" /\ TokenIssued
      PROVE  Good
  BY <1>2 DEF RowKept, Confirmed, Exists, TypeInv, TypeOK
<1>3. ASSUME NEW r \in Requests, InsertConfirmed(r) PROVE Good
  <2>1. CASE UNCHANGED object
    BY <1>1, <2>1
  <2>2. CASE ~UNCHANGED object
    <3>1. PICK t \in Ttls : object' = [object EXCEPT ![target[r]] =
                                         NewRow(r, "confirmed", t)]
      BY <1>3, <2>2 DEF InsertConfirmed
    <3>2. object[target[r]] = Null /\ blob[target[r]] # Null
      BY <1>3 DEF InsertConfirmed, WinnerInv, FreshOK
    <3>3. NewRow(r, "confirmed", t).status = "confirmed"
      BY DEF NewRow
    <3>4. QED
      BY <3>1, <3>2, <3>3 DEF RowKept, Confirmed, Exists, TypeInv, TypeOK
  <2>3. QED
    BY <2>1, <2>2
<1>4. ASSUME NEW r \in Requests, InsertPending(r) PROVE Good
  <2>1. CASE UNCHANGED object
    BY <1>1, <2>1
  <2>2. CASE ~UNCHANGED object
    <3>1. PICK id \in ObjectIds, t \in Ttls :
            /\ Unused(id)
            /\ object' = [object EXCEPT ![id] = NewRow(r, "pending", t)]
      BY <1>4, <2>2 DEF InsertPending
    <3>2. /\ NewRow(r, "pending", t).status = "pending"
          /\ NewRow(r, "pending", t).url
      BY DEF NewRow
    <3>3. QED
      BY <3>1, <3>2 DEF RowKept, Unused, Confirmed, Exists, TypeInv, TypeOK
  <2>3. QED
    BY <2>1, <2>2
<1>5. ASSUME NEW r \in Requests, UpdateRow(r) PROVE Good
  <2>1. /\ call[r].size \in Nat /\ target[r] \in ObjectIds
        /\ object[target[r]] \in Row
    BY <1>5 DEF UpdateRow, Goto, TypeInv, TypeOK, LocalsOK, HasRow, Call, Exists
  <2>2. PICK t \in Ttls : object' = [object EXCEPT
                                       ![target[r]].size = call[r].size,
                                       ![target[r]].ttl = t]
    BY <1>5 DEF UpdateRow
  <2> DEFINE row == [object[target[r]] EXCEPT !.size = call[r].size, !.ttl = t]
  <2>3. object' = [object EXCEPT ![target[r]] = row]
    BY <2>1, <2>2 DEF TypeInv, TypeOK
  <2>4. /\ row \in Row /\ row.status = object[target[r]].status
        /\ row.url = object[target[r]].url
    BY <2>1 DEF Row
  <2>5. QED
    BY <1>2, <2>1, <2>3, <2>4
<1>6. ASSUME NEW r \in Requests, ConfirmUpload(r) PROVE Good
  <2>1. CASE UNCHANGED object
    BY <1>1, <2>1
  <2>2. CASE ~UNCHANGED object
    <3>1. /\ target[r] \in ObjectIds /\ object[target[r]] \in Row
          /\ TokenIssued
      BY <1>6, <2>2 DEF ConfirmUpload, ConfirmMatches, TypeInv, TypeOK,
                        LocalsOK, HasRow, Exists
    <3>2. PICK s \in Sizes \cup {object[target[r]].size} :
            object' = [object EXCEPT ![target[r]].status = "confirmed",
                                     ![target[r]].size = s]
      BY <1>6, <2>2 DEF ConfirmUpload
    <3>3. s \in Nat
      BY <3>1 DEF Row
    <3> DEFINE row == [object[target[r]] EXCEPT !.status = "confirmed",
                                                !.size = s]
    <3>4. object' = [object EXCEPT ![target[r]] = row]
      BY <3>1, <3>2 DEF TypeInv, TypeOK
    <3>5. /\ row \in Row /\ row.status = "confirmed"
          /\ row.url = object[target[r]].url
      BY <3>1, <3>3 DEF Row
    <3>6. QED
      BY <1>2, <3>1, <3>4, <3>5
  <2>3. QED
    BY <2>1, <2>2
<1>7. ASSUME NEW r \in Requests, MarkDeleted(r) PROVE Good
  <2>1. CASE UNCHANGED object
    BY <1>1, <2>1
  <2>2. CASE ~UNCHANGED object
    <3>1. PICK id \in LiveAt(call[r].ns, call[r].key) :
            object' = [object EXCEPT ![id].deleted = TRUE]
      BY <1>7, <2>2 DEF MarkDeleted, Deletable
    <3>2. id \in ObjectIds /\ object[id] \in Row
      BY <3>1 DEF LiveAt, Live, Exists, TypeInv, TypeOK
    <3> DEFINE row == [object[id] EXCEPT !.deleted = TRUE]
    <3>3. /\ row \in Row /\ row.status = object[id].status
          /\ row.url = object[id].url
      BY <3>2 DEF Row
    <3>4. object' = [object EXCEPT ![id] = row]
      BY <3>1
    <3>5. QED
      BY <1>2, <3>2, <3>3, <3>4
  <2>3. QED
    BY <2>1, <2>2
<1>8. ASSUME NEW id \in ObjectIds, Expire(id) PROVE Good
  <2>1. object[id] \in Row
    BY <1>8 DEF Expire, Exists, TypeInv, TypeOK
  <2> DEFINE row == [object[id] EXCEPT !.ttl = "expired"]
  <2>2. /\ row \in Row /\ row.status = object[id].status
        /\ row.url = object[id].url
    BY <2>1 DEF Row
  <2>3. object' = [object EXCEPT ![id] = row]
    BY <1>8 DEF Expire
  <2>4. QED
    BY <1>2, <2>1, <2>2, <2>3
<1>9. CASE ~UNCHANGED object
  <2>1. \/ \E r \in Requests : \/ InsertConfirmed(r) \/ InsertPending(r)
                               \/ UpdateRow(r) \/ ConfirmUpload(r)
                               \/ MarkDeleted(r)
        \/ \E id \in ObjectIds : Expire(id)
    BY <1>9 DEF Next, Statement, StartStore, StartKeyed, StartConfirm,
      CheckQuota, LookupExisting, PutNewBlob, OverwriteBlob, AddToNamespace,
      AddToVault, AdjustNamespace, AdjustVault, SubtractFromNamespace,
      SubtractFromVault, FindObject, GetBlob, Audit, Stop, ClientUpload,
      tables, vars
  <2>2. QED
    BY <1>3, <1>4, <1>5, <1>6, <1>7, <1>8, <2>1
<1>10. QED
  BY <1>1, <1>9

\* A request begins to credit a row only in the step that confirms it.
LEMMA CreditsBegin ==
  ASSUME TypeInv, WinnerInv, [Next]_vars, NEW id \in ObjectIds, Confirmed(id),
         NEW r \in Requests, pc'[r] \in {"nsAdd", "vaultAdd"}, target'[r] = id
  PROVE  pc[r] \in {"nsAdd", "vaultAdd"} /\ target[r] = id
<1> USE ConstantsAssumption
<1>1. CASE pc'[r] = pc[r] /\ target'[r] = target[r]
  BY <1>1
<1>2. ASSUME NEW q \in Requests \ {r},
             StartStore(q) \/ StartKeyed(q) \/ StartConfirm(q)
             \/ Statement(q) \/ Stop(q)
      PROVE  pc'[r] = pc[r] /\ target'[r] = target[r]
  BY <1>2 DEF Statement, StartStore, StartKeyed, StartConfirm, CheckQuota,
    LookupExisting, PutNewBlob, OverwriteBlob, InsertConfirmed,
    InsertPending, UpdateRow, ConfirmUpload, MarkDeleted, AddToNamespace,
    AddToVault, AdjustNamespace, AdjustVault, SubtractFromNamespace,
    SubtractFromVault, FindObject, GetBlob, Audit, Stop, Goto, Reply,
    TypeInv, TypeOK
<1>3. ASSUME Reply(r, pc[r]) PROVE FALSE
  BY <1>3 DEF Reply, TypeInv, TypeOK
<1>4. ASSUME NEW from, NEW to \in Labels \ {"nsAdd", "vaultAdd"},
             Goto(r, from, to)
      PROVE  FALSE
  BY <1>4 DEF Goto, TypeInv, TypeOK
<1>5. CASE AddToNamespace(r)
  BY <1>5 DEF AddToNamespace, Goto
<1>6. ~InsertConfirmed(r)
  <2>1. SUFFICES ASSUME InsertConfirmed(r) PROVE FALSE
    OBVIOUS
  <2>2. pc[r] = "insert" /\ UNCHANGED target
    BY <1>3, <2>1 DEF InsertConfirmed, Reply
  <2>3. QED
    BY <2>2 DEF WinnerInv, FreshOK, Confirmed, Exists
<1>7. ~ConfirmUpload(r)
  <2>1. SUFFICES ASSUME ConfirmUpload(r) PROVE FALSE
    OBVIOUS
  <2>2. ConfirmMatches(target[r]) /\ UNCHANGED target
    BY <1>3, <2>1 DEF ConfirmUpload, Reply
  <2>3. QED
    BY <2>2 DEF ConfirmMatches, Confirmed
<1>8. ASSUME \/ StartStore(r) \/ StartKeyed(r) \/ StartConfirm(r) \/ Stop(r)
             \/ CheckQuota(r) \/ LookupExisting(r) \/ PutNewBlob(r)
             \/ OverwriteBlob(r) \/ InsertPending(r) \/ UpdateRow(r)
             \/ MarkDeleted(r) \/ AddToVault(r) \/ AdjustNamespace(r)
             \/ AdjustVault(r) \/ SubtractFromNamespace(r)
             \/ SubtractFromVault(r) \/ FindObject(r) \/ GetBlob(r) \/ Audit(r)
      PROVE  FALSE
  <2>1. AfterQuota(call[r].op) \in Labels \ {"nsAdd", "vaultAdd"}
    BY DEF AfterQuota, Labels
  <2>2. QED
    BY <1>3, <1>4, <1>8, <2>1 DEF StartStore, StartKeyed, StartConfirm, Stop,
      CheckQuota, LookupExisting, PutNewBlob, OverwriteBlob, InsertPending,
      UpdateRow, MarkDeleted, AddToVault, AdjustNamespace, AdjustVault,
      SubtractFromNamespace, SubtractFromVault, FindObject, GetBlob, Audit,
      Labels, Reply
<1>9. CASE UNCHANGED vars \/ \E i \in ObjectIds : ClientUpload(i) \/ Expire(i)
  BY <1>1, <1>9 DEF vars, locals, ClientUpload, Expire
<1>10. QED
  BY <1>1, <1>2, <1>5, <1>6, <1>7, <1>8, <1>9 DEF Next, Statement

\* What a step may do to the credit of one object.
CreditStep(id) ==
  IF Confirmed(id)
  THEN Confirmed(id)' /\ Crediting(id)' \subseteq Crediting(id)
  ELSE Cardinality(Crediting(id)') <= 1

LEMMA CreditSteps ==
  ASSUME TypeInv, WinnerInv, WinnerInv', [Next]_vars, NEW id \in ObjectIds
  PROVE  CreditStep(id)
<1>1. CASE Confirmed(id)
  <2>1. Confirmed(id)'
    BY <1>1, ConfirmedStays DEF RowKept
  <2>2. ASSUME NEW r \in Crediting(id)' PROVE r \in Crediting(id)
    <3>1. /\ r \in Requests /\ pc'[r] \in {"nsAdd", "vaultAdd"}
          /\ target'[r] = id
      BY <2>2 DEF Crediting, Adding
    <3>2. QED
      BY <1>1, <3>1, CreditsBegin DEF Crediting, Adding
  <2>3. QED
    BY <1>1, <2>1, <2>2 DEF CreditStep
<1>2. CASE ~Confirmed(id)
  <2>1. \A q, r \in Crediting(id)' : q = r
    BY DEF WinnerInv, NoDoubleCredit, Crediting
  <2>2. CASE Crediting(id)' = {}
    <3>1. Cardinality(Crediting(id)') = 0
      BY <2>2, FS_EmptySet
    <3>2. QED
      BY <1>2, <3>1 DEF CreditStep
  <2>3. CASE Crediting(id)' # {}
    <3>1. PICK r : Crediting(id)' = {r}
      BY <2>1, <2>3
    <3>2. Cardinality(Crediting(id)') = 1
      BY <3>1, FS_Singleton
    <3>3. QED
      BY <1>2, <3>2 DEF CreditStep
  <2>4. QED
    BY <2>2, <2>3
<1>3. QED
  BY <1>1, <1>2

\* Over its whole life an object is added to the counters by at most one
\* request: an insert works under an id of its own, and UPDATE ...
\* upload_status = 'pending' (agent-objects.ts:178) picks one winner of the
\* confirms that run together and refuses those that come later.
THEOREM CreditHasOneWinner == Spec => CreditedOnce
<1>1. /\ TypeInv /\ WinnerInv /\ WinnerInv' /\ [Next]_vars
      => [\A id \in ObjectIds : CreditStep(id)]_vars
  BY CreditSteps
<1>2. QED
  BY WinnerInvariant, <1>1, PTL DEF Spec, CreditedOnce, CreditStep

-----------------------------------------------------------------------------
(* The object counter never falls below the objects. *)

\* Without presigned stores no row is pending.
NoPending == /\ \A id \in ObjectIds : Exists(id) => Confirmed(id)
             /\ \A r \in Requests : pc[r] # "insertPending"
             /\ \A r \in Requests : pc[r] # "idle" => call[r].op # "presign"

CountInv == NoPending /\ VaultCountNeverLow

LEMMA CountInit == Init => CountInv
<1> SUFFICES ASSUME Init PROVE CountInv
  OBVIOUS
<1>1. /\ \A id \in ObjectIds : ~Exists(id)
      /\ \A r \in Requests : pc[r] = "idle"
      /\ vaultCount = 0
  BY DEF Init, Exists
<1>2. Adding = {} /\ Subtracting = {} /\ Counted = {}
  BY <1>1 DEF Adding, Subtracting, Counted, Live
<1>3. VaultCountNeverLow
  BY <1>1, <1>2, FS_EmptySet DEF VaultCountNeverLow
<1>4. QED
  BY <1>1, <1>3 DEF CountInv, NoPending

LEMMA CountsFinite ==
  /\ IsFiniteSet(Adding) /\ IsFiniteSet(Subtracting) /\ IsFiniteSet(Counted)
  /\ Cardinality(Adding) \in Nat /\ Cardinality(Subtracting) \in Nat
  /\ Cardinality(Counted) \in Nat
<1>1. /\ Adding \subseteq Requests /\ Subtracting \subseteq Requests
      /\ Counted \subseteq ObjectIds
  BY DEF Adding, Subtracting, Counted
<1>2. IsFiniteSet(Adding) /\ IsFiniteSet(Subtracting) /\ IsFiniteSet(Counted)
  BY <1>1, ConstantsAssumption, FS_Subset DEF ConstantsAssumption
<1>3. QED
  BY <1>2, FS_CardinalityType

\* What the statements do to the counter and to the three sets, and why each
\* of these changes is safe.
LEMMA CountKept ==
  ASSUME TypeInv, VaultCountNeverLow, vaultCount' \in Int,
         NEW r \in Requests, NEW id \in ObjectIds,
         \/ /\ Counted' \subseteq Counted /\ UNCHANGED vaultCount
            /\ Adding' = Adding /\ Subtracting' = Subtracting
         \/ /\ Counted' \subseteq Counted \cup {id} /\ UNCHANGED vaultCount
            /\ Adding' = Adding \cup {r} /\ r \notin Adding
            /\ Subtracting' = Subtracting
         \/ /\ Counted' = Counted \ {id} /\ id \in Counted
            /\ Subtracting' = Subtracting \cup {r} /\ r \notin Subtracting
            /\ Adding' = Adding /\ UNCHANGED vaultCount
         \/ /\ Counted' = Counted /\ vaultCount' = vaultCount + 1
            /\ Adding' = Adding \ {r} /\ r \in Adding
            /\ Subtracting' = Subtracting
         \/ /\ Counted' = Counted /\ vaultCount' = Less(vaultCount, 1)
            /\ Subtracting' = Subtracting \ {r} /\ r \in Subtracting
            /\ Adding' = Adding
  PROVE  VaultCountNeverLow'
<1> USE CountsFinite DEF VaultCountNeverLow, TypeInv, TypeOK
<1>1. CASE /\ Counted' \subseteq Counted /\ UNCHANGED vaultCount
           /\ Adding' = Adding /\ Subtracting' = Subtracting
  <2>1. /\ Cardinality(Counted') \in Nat
        /\ Cardinality(Counted') <= Cardinality(Counted)
    BY <1>1, FS_Subset, FS_CardinalityType
  <2>2. QED
    BY <1>1, <2>1
<1>2. CASE /\ Counted' \subseteq Counted \cup {id} /\ UNCHANGED vaultCount
           /\ Adding' = Adding \cup {r} /\ r \notin Adding
           /\ Subtracting' = Subtracting
  <2>1. Cardinality(Adding') = Cardinality(Adding) + 1
    BY <1>2, FS_AddElement
  <2>2. /\ IsFiniteSet(Counted \cup {id})
        /\ Cardinality(Counted \cup {id}) \in Nat
        /\ Cardinality(Counted \cup {id}) <= Cardinality(Counted) + 1
    <3>1. /\ IsFiniteSet(Counted \cup {id})
          /\ Cardinality(Counted \cup {id}) =
               IF id \in Counted THEN Cardinality(Counted)
                                 ELSE Cardinality(Counted) + 1
      BY FS_AddElement
    <3>2. QED
      BY <3>1
  <2>3. /\ Cardinality(Counted') \in Nat
        /\ Cardinality(Counted') <= Cardinality(Counted \cup {id})
    BY <1>2, <2>2, FS_Subset, FS_CardinalityType
  <2>4. QED
    BY <1>2, <2>1, <2>2, <2>3
<1>3. CASE /\ Counted' = Counted \ {id} /\ id \in Counted
           /\ Subtracting' = Subtracting \cup {r} /\ r \notin Subtracting
           /\ Adding' = Adding /\ UNCHANGED vaultCount
  <2>1. /\ Cardinality(Counted') = Cardinality(Counted) - 1
        /\ Cardinality(Subtracting') = Cardinality(Subtracting) + 1
    BY <1>3, FS_AddElement, FS_RemoveElement
  <2>2. QED
    BY <1>3, <2>1
<1>4. CASE /\ Counted' = Counted /\ vaultCount' = vaultCount + 1
           /\ Adding' = Adding \ {r} /\ r \in Adding
           /\ Subtracting' = Subtracting
  <2>1. Cardinality(Adding') = Cardinality(Adding) - 1
    BY <1>4, FS_RemoveElement
  <2>2. QED
    BY <1>4, <2>1
<1>5. CASE /\ Counted' = Counted /\ vaultCount' = Less(vaultCount, 1)
           /\ Subtracting' = Subtracting \ {r} /\ r \in Subtracting
           /\ Adding' = Adding
  <2>1. Cardinality(Subtracting') = Cardinality(Subtracting) - 1
    BY <1>5, FS_RemoveElement
  <2>2. vaultCount' >= vaultCount - 1
    BY <1>5 DEF Less
  <2>3. QED
    BY <1>5, <2>1, <2>2
<1>6. QED
  BY <1>1, <1>2, <1>3, <1>4, <1>5

LEMMA NoPendingStep ==
  ASSUME "presign" \notin Operations, TypeInv, NoPending, [Next]_vars
  PROVE  NoPending'
<1> USE ConstantsAssumption
<1> DEFINE Kept == \A id \in ObjectIds : Exists(id)' => Confirmed(id)'
<1> DEFINE Calls == /\ \A r \in Requests : pc'[r] # "insertPending"
                    /\ \A r \in Requests : pc'[r] # "idle" =>
                                             call'[r].op # "presign"
<1>1. ASSUME UNCHANGED object PROVE Kept
  BY <1>1 DEF NoPending, Confirmed, Exists
<1>2. ASSUME NEW r \in Requests, Reply(r, pc[r]) PROVE Calls
  BY <1>2 DEF Reply, NoPending, TypeInv, TypeOK
<1>3. ASSUME NEW r \in Requests, NEW from, NEW to, Goto(r, from, to),
             to # "insertPending", from # "idle", UNCHANGED call
      PROVE  Calls
  BY <1>3 DEF Goto, NoPending, TypeInv, TypeOK
<1>4. ASSUME NEW r \in Requests, StartStore(r) PROVE NoPending'
  <2>1. PICK op \in Operations \cap Stores, n \in Namespaces, k \in Keys,
             s \in Sizes :
          call' = [call EXCEPT ![r] =
                     [op |-> op, ns |-> n, key |-> k, size |-> s]]
    BY <1>4 DEF StartStore
  <2>2. UNCHANGED object /\ pc' = [pc EXCEPT ![r] = "quota"] /\ op # "presign"
    BY <1>4 DEF StartStore, Goto, tables
  <2>3. Calls
    BY <2>1, <2>2 DEF NoPending, TypeInv, TypeOK
  <2>4. QED
    BY <2>2, <2>3, <1>1 DEF NoPending, Confirmed, Exists
<1>5. ASSUME NEW r \in Requests, StartKeyed(r) PROVE NoPending'
  <2>1. PICK op \in Operations \cap (Reads \cup {"delete"}),
             n \in Namespaces, k \in Keys :
          /\ Goto(r, "idle", IF op = "delete" THEN "mark" ELSE "find")
          /\ call' = [call EXCEPT ![r] =
                        [op |-> op, ns |-> n, key |-> k, size |-> 0]]
    BY <1>5 DEF StartKeyed
  <2>2. UNCHANGED object /\ op # "presign"
    BY <1>5, <2>1 DEF StartKeyed, tables, Reads
  <2>3. Calls
    BY <2>1, <2>2 DEF Goto, NoPending, TypeInv, TypeOK
  <2>4. QED
    BY <2>2, <2>3, <1>1 DEF NoPending, Confirmed, Exists
<1>6. ASSUME NEW r \in Requests, StartConfirm(r) PROVE NoPending'
  <2>1. PICK id \in ObjectIds :
          call' = [call EXCEPT ![r] =
                     [op |-> "confirm", ns |-> object[id].ns,
                      key |-> object[id].key, size |-> 0]]
    BY <1>6 DEF StartConfirm
  <2>2. UNCHANGED object /\ pc' = [pc EXCEPT ![r] = "confirm"]
    BY <1>6 DEF StartConfirm, Goto, tables
  <2>3. Calls
    BY <2>1, <2>2 DEF NoPending, TypeInv, TypeOK
  <2>4. QED
    BY <2>2, <2>3, <1>1 DEF NoPending, Confirmed, Exists
<1>7. ASSUME NEW r \in Requests, InsertConfirmed(r) PROVE NoPending'
  <2>1. Calls
    BY <1>2, <1>3, <1>7 DEF InsertConfirmed
  <2>2. CASE UNCHANGED object
    BY <1>1, <2>1, <2>2 DEF NoPending, Confirmed, Exists
  <2>3. CASE ~UNCHANGED object
    <3>1. PICK t \in Ttls : object' = [object EXCEPT ![target[r]] =
                                         NewRow(r, "confirmed", t)]
      BY <1>7, <2>3 DEF InsertConfirmed
    <3>2. NewRow(r, "confirmed", t).status = "confirmed"
      BY DEF NewRow
    <3>3. Kept
      BY <3>1, <3>2 DEF NoPending, Confirmed, Exists, TypeInv, TypeOK
    <3>4. QED
      BY <2>1, <3>3 DEF NoPending
  <2>4. QED
    BY <2>2, <2>3
\* A row that is updated in place keeps its status.
<1>8. ASSUME NEW id \in ObjectIds, NEW row \in Row, object[id] \in Row,
             object' = [object EXCEPT ![id] = row],
             row.status \in {"confirmed", object[id].status}
      PROVE  Kept
  BY <1>8 DEF NoPending, Confirmed, Exists, TypeInv, TypeOK
<1>9. ASSUME NEW r \in Requests, UpdateRow(r) PROVE NoPending'
  <2>1. /\ call[r].size \in Nat /\ target[r] \in ObjectIds
        /\ object[target[r]] \in Row
    BY <1>9 DEF UpdateRow, Goto, TypeInv, TypeOK, LocalsOK, HasRow, Call, Exists
  <2>2. PICK t \in Ttls : object' = [object EXCEPT
                                       ![target[r]].size = call[r].size,
                                       ![target[r]].ttl = t]
    BY <1>9 DEF UpdateRow
  <2> DEFINE row == [object[target[r]] EXCEPT !.size = call[r].size, !.ttl = t]
  <2>3. object' = [object EXCEPT ![target[r]] = row]
    BY <2>1, <2>2 DEF TypeInv, TypeOK
  <2>4. row \in Row /\ row.status = object[target[r]].status
    BY <2>1 DEF Row
  <2>5. Kept
    BY <1>8, <2>1, <2>3, <2>4
  <2>6. Calls
    BY <1>3, <1>9 DEF UpdateRow
  <2>7. QED
    BY <2>5, <2>6 DEF NoPending
<1>10. ASSUME NEW r \in Requests, ConfirmUpload(r) PROVE NoPending'
  <2>1. /\ target[r] \in ObjectIds /\ object[target[r]].status # "pending"
    BY <1>10 DEF ConfirmUpload, NoPending, Confirmed, TypeInv, LocalsOK, HasRow
  <2>2. Reply(r, "confirm") /\ UNCHANGED object
    BY <1>10, <2>1 DEF ConfirmUpload, ConfirmMatches
  <2>3. pc[r] = "confirm"
    BY <2>2 DEF Reply
  <2>4. Calls
    BY <1>2, <2>2, <2>3
  <2>5. QED
    BY <1>1, <2>2, <2>4 DEF NoPending, Confirmed, Exists
<1>11. ASSUME NEW r \in Requests, MarkDeleted(r) PROVE NoPending'
  <2>1. Calls
    BY <1>2, <1>3, <1>11 DEF MarkDeleted
  <2>2. CASE UNCHANGED object
    BY <1>1, <2>1, <2>2 DEF NoPending, Confirmed, Exists
  <2>3. CASE ~UNCHANGED object
    <3>1. PICK id \in LiveAt(call[r].ns, call[r].key) :
            object' = [object EXCEPT ![id].deleted = TRUE]
      BY <1>11, <2>3 DEF MarkDeleted, Deletable
    <3>2. id \in ObjectIds /\ object[id] \in Row
      BY <3>1 DEF LiveAt, Live, Exists, TypeInv, TypeOK
    <3> DEFINE row == [object[id] EXCEPT !.deleted = TRUE]
    <3>3. row \in Row /\ row.status = object[id].status
      BY <3>2 DEF Row
    <3>4. object' = [object EXCEPT ![id] = row]
      BY <3>1
    <3>5. Kept
      BY <1>8, <3>2, <3>3, <3>4
    <3>6. QED
      BY <2>1, <3>5 DEF NoPending
  <2>4. QED
    BY <2>2, <2>3
<1>12. ASSUME NEW id \in ObjectIds, Expire(id) PROVE NoPending'
  <2>1. object[id] \in Row
    BY <1>12 DEF Expire, Exists, TypeInv, TypeOK
  <2> DEFINE row == [object[id] EXCEPT !.ttl = "expired"]
  <2>2. object' = [object EXCEPT ![id] = row] /\ UNCHANGED <<pc, call>>
    BY <1>12, <2>1 DEF Expire, locals
  <2>3. row \in Row /\ row.status = object[id].status
    BY <2>1 DEF Row
  <2>4. Kept
    BY <1>8, <2>1, <2>2, <2>3
  <2>5. QED
    BY <2>2, <2>4 DEF NoPending
<1>13. ASSUME NEW r \in Requests, InsertPending(r) PROVE NoPending'
  BY <1>13 DEF InsertPending, Reply, NoPending
\* The statements that leave the rows alone.
<1>14. ASSUME NEW r \in Requests,
              \/ CheckQuota(r) \/ LookupExisting(r) \/ PutNewBlob(r)
              \/ OverwriteBlob(r) \/ AddToNamespace(r) \/ AddToVault(r)
              \/ AdjustNamespace(r) \/ AdjustVault(r)
              \/ SubtractFromNamespace(r) \/ SubtractFromVault(r)
              \/ FindObject(r) \/ GetBlob(r) \/ Audit(r) \/ Stop(r)
       PROVE  NoPending'
  <2>1. UNCHANGED object
    BY <1>14 DEF CheckQuota, LookupExisting, PutNewBlob, OverwriteBlob,
      AddToNamespace, AddToVault, AdjustNamespace, AdjustVault,
      SubtractFromNamespace, SubtractFromVault, FindObject, GetBlob, Audit,
      Stop, tables
  <2>2. Reply(r, pc[r]) \/ /\ \E to \in Labels : pc' = [pc EXCEPT ![r] = to]
                              /\ pc[r] # "idle" /\ UNCHANGED call
    BY <1>14 DEF CheckQuota, LookupExisting, PutNewBlob, OverwriteBlob,
      AddToNamespace, AddToVault, AdjustNamespace, AdjustVault,
      SubtractFromNamespace, SubtractFromVault, FindObject, GetBlob, Audit,
      Stop, AfterQuota, Goto, Reply, Labels
  <2>3. pc[r] # "idle" => pc'[r] # "insertPending"
    <3>1. pc[r] # "idle" => AfterQuota(call[r].op) # "insertPending"
      BY DEF AfterQuota, NoPending
    <3>2. QED
      BY <1>14, <3>1 DEF CheckQuota, LookupExisting, PutNewBlob,
        OverwriteBlob, AddToNamespace, AddToVault, AdjustNamespace,
        AdjustVault, SubtractFromNamespace, SubtractFromVault, FindObject,
        GetBlob, Audit, Stop, Goto, Reply, TypeInv, TypeOK
  <2>4. Calls
    BY <1>2, <2>2, <2>3 DEF NoPending, TypeInv, TypeOK
  <2>5. QED
    BY <1>1, <2>1, <2>4 DEF NoPending, Confirmed, Exists
<1>15. ASSUME NEW id \in ObjectIds, ClientUpload(id) PROVE NoPending'
  BY <1>15 DEF ClientUpload, tables, locals, NoPending, Confirmed, Exists
<1>16. CASE UNCHANGED vars
  BY <1>16 DEF vars, NoPending, Confirmed, Exists
<1>17. QED
  BY <1>4, <1>5, <1>6, <1>7, <1>9, <1>10, <1>11, <1>12, <1>13, <1>14, <1>15,
     <1>16 DEF Next, Statement

LEMMA CountStep ==
  ASSUME ~Faulty, "presign" \notin Operations,
         TypeInv, TypeInv', CountInv, [Next]_vars
  PROVE  CountInv'
<1> USE ConstantsAssumption
<1>1. NoPending /\ VaultCountNeverLow /\ NoPending' /\ vaultCount' \in Int
  BY NoPendingStep DEF CountInv, TypeInv, TypeOK
<1> DEFINE Quiet == /\ Adding' = Adding /\ Subtracting' = Subtracting
                    /\ UNCHANGED vaultCount
<1>2. ASSUME NEW r \in Requests, NEW from, NEW to,
             from \notin {"nsAdd", "vaultAdd", "nsSub", "vaultSub"},
             to \notin {"nsAdd", "vaultAdd", "nsSub", "vaultSub"},
             pc[r] = from, pc' = [pc EXCEPT ![r] = to], UNCHANGED vaultCount
      PROVE  Quiet
  BY <1>2 DEF Adding, Subtracting, TypeInv, TypeOK
<1>3. ASSUME Quiet, Counted' \subseteq Counted, Requests # {}, ObjectIds # {}
      PROVE  VaultCountNeverLow'
  <2>1. PICK r \in Requests, id \in ObjectIds : TRUE
    BY <1>3
  <2>2. QED
    BY <1>1, <1>3, <2>1, CountKept
<1>4. ASSUME UNCHANGED object PROVE Counted' = Counted
  BY <1>4 DEF Counted, Live, Confirmed, Exists
\* A row that is updated in place stays counted, or uncounted.
<1>5. ASSUME NEW id \in ObjectIds, NEW row \in Row, object[id] \in Row,
             object' = [object EXCEPT ![id] = row],
             row.status = object[id].status, row.deleted = object[id].deleted
      PROVE  Counted' = Counted
  BY <1>5 DEF Counted, Live, Confirmed, Exists, TypeInv, TypeOK
<1>6. ASSUME NEW r \in Requests,
             \/ StartStore(r) \/ StartKeyed(r) \/ StartConfirm(r)
             \/ CheckQuota(r) \/ LookupExisting(r) \/ PutNewBlob(r)
             \/ OverwriteBlob(r) \/ AddToNamespace(r) \/ AdjustNamespace(r)
             \/ AdjustVault(r) \/ SubtractFromNamespace(r) \/ FindObject(r)
             \/ GetBlob(r) \/ Audit(r)
      PROVE  VaultCountNeverLow'
  <2>1. UNCHANGED <<object, vaultCount>>
    BY <1>6 DEF StartStore, StartKeyed, StartConfirm, CheckQuota,
      LookupExisting, PutNewBlob, OverwriteBlob, AddToNamespace,
      AdjustNamespace, AdjustVault, SubtractFromNamespace, FindObject,
      GetBlob, Audit, tables
  <2>2. Quiet
    <3>1. AfterQuota(call[r].op) \in {"put", "insertPending", "lookup"}
      BY DEF AfterQuota
    <3>2. CASE AddToNamespace(r) \/ SubtractFromNamespace(r)
      BY <2>1, <3>2 DEF AddToNamespace, SubtractFromNamespace, Goto, Adding,
                        Subtracting, TypeInv, TypeOK
    <3>3. CASE ~(AddToNamespace(r) \/ SubtractFromNamespace(r))
      BY <1>2, <1>6, <2>1, <3>1, <3>3 DEF StartStore, StartKeyed,
        StartConfirm, CheckQuota, LookupExisting, PutNewBlob, OverwriteBlob,
        AdjustNamespace, AdjustVault, FindObject, GetBlob, Audit, Goto, Reply
    <3>4. QED
      BY <3>2, <3>3
  <2>3. QED
    <3>1. Counted' = Counted
      BY <1>4, <2>1
    <3>2. CASE ObjectIds = {}
      BY <1>1, <2>1, <2>2, <3>1 DEF VaultCountNeverLow
    <3>3. QED
      BY <1>3, <2>2, <3>1, <3>2
<1>7. ASSUME NEW r \in Requests, UpdateRow(r) PROVE VaultCountNeverLow'
  <2>1. /\ call[r].size \in Nat /\ target[r] \in ObjectIds
        /\ object[target[r]] \in Row
    BY <1>7 DEF UpdateRow, Goto, TypeInv, TypeOK, LocalsOK, HasRow, Call, Exists
  <2>2. PICK t \in Ttls : object' = [object EXCEPT
                                       ![target[r]].size = call[r].size,
                                       ![target[r]].ttl = t]
    BY <1>7 DEF UpdateRow
  <2> DEFINE row == [object[target[r]] EXCEPT !.size = call[r].size, !.ttl = t]
  <2>3. object' = [object EXCEPT ![target[r]] = row]
    BY <2>1, <2>2 DEF TypeInv, TypeOK
  <2>4. /\ row \in Row /\ row.status = object[target[r]].status
        /\ row.deleted = object[target[r]].deleted
    BY <2>1 DEF Row
  <2>5. Counted' = Counted
    BY <1>5, <2>1, <2>3, <2>4
  <2>6. Quiet
    BY <1>2, <1>7 DEF UpdateRow, Goto
  <2>7. QED
    BY <1>3, <2>1, <2>5, <2>6
<1>8. ASSUME NEW r \in Requests, ConfirmUpload(r) PROVE VaultCountNeverLow'
  <2>1. target[r] \in ObjectIds /\ object[target[r]].status # "pending"
    BY <1>1, <1>8 DEF ConfirmUpload, NoPending, Confirmed, TypeInv, LocalsOK,
                      HasRow
  <2>2. Reply(r, "confirm") /\ UNCHANGED <<object, vaultCount>>
    BY <1>8, <2>1 DEF ConfirmUpload, ConfirmMatches
  <2>3. Quiet
    BY <1>2, <2>2 DEF Reply
  <2>4. QED
    BY <1>3, <1>4, <2>1, <2>2, <2>3
<1>9. ASSUME NEW id \in ObjectIds, Expire(id) PROVE VaultCountNeverLow'
  <2>1. object[id] \in Row
    BY <1>9 DEF Expire, Exists, TypeInv, TypeOK
  <2> DEFINE row == [object[id] EXCEPT !.ttl = "expired"]
  <2>2. object' = [object EXCEPT ![id] = row]
    BY <1>9, <2>1 DEF Expire
  <2>3. /\ row \in Row /\ row.status = object[id].status
        /\ row.deleted = object[id].deleted
    BY <2>1 DEF Row
  <2>4. Counted' = Counted
    BY <1>5, <2>1, <2>2, <2>3
  <2>5. Quiet
    BY <1>9 DEF Expire, locals, Adding, Subtracting
  <2>6. QED
    BY <1>1, <2>4, <2>5 DEF VaultCountNeverLow
<1>10. ASSUME NEW r \in Requests, InsertConfirmed(r) PROVE VaultCountNeverLow'
  <2>1. pc[r] = "insert" /\ UNCHANGED vaultCount /\ target[r] \in ObjectIds
    BY <1>10 DEF InsertConfirmed, TypeInv, LocalsOK
  <2>2. CASE Reply(r, "insert") /\ UNCHANGED object
    <3>1. Quiet
      BY <1>2, <2>1, <2>2 DEF Reply
    <3>2. QED
      BY <1>3, <1>4, <2>1, <2>2, <3>1
  <2>3. CASE ~(Reply(r, "insert") /\ UNCHANGED object)
    <3>1. PICK row : object' = [object EXCEPT ![target[r]] = row]
      BY <1>10, <2>3 DEF InsertConfirmed
    <3>2. Counted' \subseteq Counted \cup {target[r]}
      BY <2>1, <3>1 DEF Counted, Live, Confirmed, Exists, TypeInv, TypeOK
    <3>3. pc' = [pc EXCEPT ![r] = "nsAdd"]
      BY <1>10, <2>3 DEF InsertConfirmed, Goto
    <3>4. /\ Adding' = Adding \cup {r} /\ r \notin Adding
          /\ Subtracting' = Subtracting
      BY <2>1, <3>3 DEF Adding, Subtracting, TypeInv, TypeOK
    <3>5. QED
      BY <1>1, <2>1, <3>2, <3>4, CountKept
  <2>4. QED
    BY <2>2, <2>3
<1>11. ASSUME NEW r \in Requests, MarkDeleted(r) PROVE VaultCountNeverLow'
  <2>1. pc[r] = "mark" /\ UNCHANGED vaultCount
    BY <1>11 DEF MarkDeleted
  <2>2. CASE Reply(r, "mark") /\ UNCHANGED object
    <3>1. Quiet
      BY <1>2, <2>1, <2>2 DEF Reply
    <3>2. CASE ObjectIds = {}
      BY <1>1, <1>4, <2>2, <3>1, <3>2 DEF VaultCountNeverLow
    <3>3. QED
      BY <1>3, <1>4, <2>2, <3>1, <3>2
  <2>3. CASE ~(Reply(r, "mark") /\ UNCHANGED object)
    <3>1. PICK id \in LiveAt(call[r].ns, call[r].key) :
            /\ pc' = [pc EXCEPT ![r] = "nsSub"]
            /\ object' = [object EXCEPT ![id].deleted = TRUE]
      BY <1>11, <2>3 DEF MarkDeleted, Deletable, Goto
    <3>2. /\ id \in ObjectIds /\ object[id] \in Row /\ id \in Counted
      BY <1>1, <3>1 DEF LiveAt, Live, Counted, NoPending, Exists, TypeInv,
                        TypeOK
    <3>3. Counted' = Counted \ {id}
      BY <3>1, <3>2 DEF Counted, Live, Confirmed, Exists, Row, TypeInv, TypeOK
    <3>4. /\ Subtracting' = Subtracting \cup {r} /\ r \notin Subtracting
          /\ Adding' = Adding
      BY <2>1, <3>1 DEF Adding, Subtracting, TypeInv, TypeOK
    <3>5. QED
      BY <1>1, <2>1, <3>2, <3>3, <3>4, CountKept
  <2>4. QED
    BY <2>2, <2>3
<1>12. ASSUME NEW r \in Requests, AddToVault(r) PROVE VaultCountNeverLow'
  <2>1. /\ Adding' = Adding \ {r} /\ r \in Adding /\ Subtracting' = Subtracting
        /\ vaultCount' = vaultCount + 1 /\ Counted' = Counted
    BY <1>4, <1>12 DEF AddToVault, Goto, Adding, Subtracting, TypeInv, TypeOK
  <2>2. target[r] \in ObjectIds
    BY <1>12 DEF AddToVault, Goto, TypeInv, LocalsOK, HasRow
  <2>3. QED
    BY <1>1, <2>1, <2>2, CountKept
<1>13. ASSUME NEW r \in Requests, SubtractFromVault(r)
       PROVE  VaultCountNeverLow'
  <2>1. /\ Subtracting' = Subtracting \ {r} /\ r \in Subtracting
        /\ Adding' = Adding
        /\ vaultCount' = Less(vaultCount, 1) /\ Counted' = Counted
    <3>1. /\ pc[r] = "vaultSub" /\ pc' = [pc EXCEPT ![r] = "audit"]
          /\ vaultCount' = Less(vaultCount, 1) /\ UNCHANGED object
      BY <1>13 DEF SubtractFromVault, Goto
    <3>2. /\ Adding' = Adding
          /\ Subtracting' = Subtracting \ {r} /\ r \in Subtracting
      BY <3>1 DEF Adding, Subtracting, TypeInv, TypeOK
    <3>3. QED
      BY <1>4, <3>1, <3>2
  <2>2. target[r] \in ObjectIds
    BY <1>13 DEF SubtractFromVault, Goto, TypeInv, LocalsOK, HasRow
  <2>3. QED
    BY <1>1, <2>1, <2>2, CountKept
<1>14. CASE UNCHANGED vars \/ \E id \in ObjectIds : ClientUpload(id)
  <2>1. UNCHANGED <<object, vaultCount, pc>>
    BY <1>14 DEF vars, ClientUpload, tables, locals
  <2>2. Counted' = Counted
    BY <1>4, <2>1
  <2>3. Adding' = Adding /\ Subtracting' = Subtracting
    BY <2>1 DEF Adding, Subtracting
  <2>4. QED
    BY <1>1, <2>1, <2>2, <2>3 DEF VaultCountNeverLow, CountInv
<1>15. ASSUME NEW r \in Requests, InsertPending(r) \/ Stop(r) PROVE FALSE
  BY <1>1, <1>15 DEF InsertPending, Stop, Reply, NoPending
<1>16. QED
  BY <1>1, <1>6, <1>7, <1>8, <1>9, <1>10, <1>11, <1>12, <1>13, <1>14, <1>15
  DEF CountInv, Next, Statement

\* Without presigned stores and without failed statements, the object counter
\* of the vault is never below the number of objects it counts, once the
\* requests in flight are accounted for: the clamp GREATEST(0, ...) of a
\* delete that overtakes the store's increment only ever leaves it high.
THEOREM CountNeverLow ==
  ASSUME ~Faulty, "presign" \notin Operations
  PROVE  Spec => []VaultCountNeverLow
<1>1. Init => TypeInv /\ CountInv
  BY TypeInit, CountInit
<1>2. TypeInv /\ CountInv /\ [Next]_vars => (TypeInv /\ CountInv)'
  BY TypeStep, CountStep
<1>3. CountInv => VaultCountNeverLow
  BY DEF CountInv
<1>4. QED
  BY <1>1, <1>2, <1>3, PTL DEF Spec

-----------------------------------------------------------------------------
(* A reader finds its data. *)

Reading(r) == pc[r] = "get" \/ (pc[r] = "audit" /\ call[r].op \in Reads)

\* Labels of the requests that write.
Writing == Labels \ {"idle", "find", "get", "audit"}

\* A confirmed row has its blob unless it was confirmed without one, which
\* takes a URL; every pending row has one.  Readers hold confirmed rows.
BlobInv ==
  /\ \A id \in ObjectIds :
       Confirmed(id) => blob[id] # Null \/ ConfirmedUnasked(id)
  /\ \A id \in ObjectIds : Exists(id) /\ ~Confirmed(id) => object[id].url
  /\ \A r \in Requests : Reading(r) => Confirmed(target[r])
  /\ \A r \in Requests : pc[r] \in Writing => call[r].op \notin Reads

LEMMA BlobInit == Init => BlobInv
  BY DEF Init, BlobInv, Reading, Writing, Confirmed, Exists

\* No statement takes a blob away or makes a confirmed row something else.
LEMMA BlobsStay ==
  ASSUME TypeInv, [Next]_vars
  PROVE  \A id \in ObjectIds : blob[id] # Null => blob'[id] # Null
<1> USE ConstantsAssumption DEF TypeInv, TypeOK
<1>1. CASE UNCHANGED blob
  BY <1>1
<1>2. ASSUME NEW id, NEW size \in Nat, blob' = [blob EXCEPT ![id] = size]
      PROVE  \A i \in ObjectIds : blob[i] # Null => blob'[i] # Null
  BY <1>2
<1>3. ASSUME NEW r \in Requests, PutNewBlob(r) \/ OverwriteBlob(r)
      PROVE  \E id : blob' = [blob EXCEPT ![id] = call[r].size]
  BY <1>3 DEF PutNewBlob, OverwriteBlob
<1>4. ASSUME NEW r \in Requests, PutNewBlob(r) \/ OverwriteBlob(r)
      PROVE  call[r].size \in Nat
  BY <1>4 DEF PutNewBlob, OverwriteBlob, Goto, LocalsOK, Call
<1>5. ASSUME NEW id \in ObjectIds, ClientUpload(id)
      PROVE  \E size \in Nat : blob' = [blob EXCEPT ![id] = size]
  BY <1>5 DEF ClientUpload
<1>6. CASE ~UNCHANGED blob
  <2>1. \/ \E r \in Requests : PutNewBlob(r) \/ OverwriteBlob(r)
        \/ \E id \in ObjectIds : ClientUpload(id)
    BY <1>6 DEF Next, Statement, StartStore, StartKeyed, StartConfirm,
      CheckQuota, LookupExisting, InsertConfirmed, InsertPending, UpdateRow,
      ConfirmUpload, MarkDeleted, AddToNamespace, AddToVault,
      AdjustNamespace, AdjustVault, SubtractFromNamespace,
      SubtractFromVault, FindObject, GetBlob, Audit, Stop, Expire, vars
  <2>2. QED
    BY <1>2, <1>3, <1>4, <1>5, <2>1
<1>7. QED
  BY <1>1, <1>6

\* A request that reads after a step had found a confirmed row before it, or
\* finds one in it.
LEMMA ReadersHoldRows ==
  ASSUME TypeInv, BlobInv, [Next]_vars, NEW r \in Requests, Reading(r)'
  PROVE  target'[r] \in ObjectIds /\ Confirmed(target'[r])
<1> USE ConstantsAssumption
<1>1. CASE Reading(r) /\ target'[r] = target[r]
  BY <1>1 DEF BlobInv, Reading, TypeInv, LocalsOK, HasRow
<1>2. ASSUME NEW q \in Requests \ {r},
             StartStore(q) \/ StartKeyed(q) \/ StartConfirm(q)
             \/ Statement(q) \/ Stop(q)
      PROVE  Reading(r) /\ target'[r] = target[r]
  <2>1. pc'[r] = pc[r] /\ call'[r] = call[r] /\ target'[r] = target[r]
    BY <1>2 DEF Statement, StartStore, StartKeyed, StartConfirm, CheckQuota,
      LookupExisting, PutNewBlob, OverwriteBlob, InsertConfirmed,
      InsertPending, UpdateRow, ConfirmUpload, MarkDeleted, AddToNamespace,
      AddToVault, AdjustNamespace, AdjustVault, SubtractFromNamespace,
      SubtractFromVault, FindObject, GetBlob, Audit, Stop, Goto, Reply,
      TypeInv, TypeOK
  <2>2. QED
    BY <2>1 DEF Reading
<1>3. CASE FindObject(r)
  BY <1>3 DEF FindObject, VisibleAt, LiveAt, Visible, Reply, Reading, TypeInv,
              TypeOK
<1>4. ASSUME StartStore(r) \/ StartKeyed(r) \/ StartConfirm(r) \/ Stop(r)
      PROVE  FALSE
  BY <1>4 DEF StartStore, StartKeyed, StartConfirm, Stop, Goto, Reply,
              Reading, TypeInv, TypeOK
<1>5. ASSUME pc[r] \in Writing, UNCHANGED call PROVE ~Reading(r)' \/ pc'[r] = "get"
  BY <1>5 DEF BlobInv, Reading
<1>6. ASSUME Statement(r), ~FindObject(r), ~GetBlob(r) PROVE FALSE
  <2>1. ASSUME Reply(r, pc[r]) PROVE FALSE
    BY <2>1 DEF Reply, Reading, TypeInv, TypeOK
  <2>2. ASSUME NEW from \in Writing, NEW to \in Labels \ {"get"},
               Goto(r, from, to), UNCHANGED call
        PROVE  FALSE
    BY <1>5, <2>2 DEF Goto, TypeInv, TypeOK
  <2>3. AfterQuota(call[r].op) \in Labels \ {"get"}
    BY DEF AfterQuota, Labels
  <2>4. QED
    BY <1>6, <2>1, <2>2, <2>3 DEF Statement, CheckQuota, LookupExisting,
      PutNewBlob, OverwriteBlob, InsertConfirmed, InsertPending, UpdateRow,
      ConfirmUpload, MarkDeleted, AddToNamespace, AddToVault,
      AdjustNamespace, AdjustVault, SubtractFromNamespace,
      SubtractFromVault, Audit, Writing, Labels, Reply
<1>7. CASE GetBlob(r)
  BY <1>1, <1>7 DEF GetBlob, Goto, Reply, Reading, TypeInv, TypeOK
<1>8. CASE UNCHANGED vars \/ \E id \in ObjectIds : ClientUpload(id) \/ Expire(id)
  BY <1>1, <1>8 DEF vars, locals, ClientUpload, Expire, Reading
<1>9. QED
  BY <1>1, <1>2, <1>3, <1>4, <1>6, <1>7, <1>8 DEF Next

LEMMA WritersDoNotRead ==
  ASSUME TypeInv, BlobInv, [Next]_vars, NEW r \in Requests, pc'[r] \in Writing
  PROVE  call'[r].op \notin Reads
<1> USE ConstantsAssumption
<1>1. CASE pc[r] \in Writing /\ call'[r] = call[r]
  BY <1>1 DEF BlobInv
<1>2. ASSUME NEW q \in Requests \ {r},
             StartStore(q) \/ StartKeyed(q) \/ StartConfirm(q)
             \/ Statement(q) \/ Stop(q)
      PROVE  pc'[r] = pc[r] /\ call'[r] = call[r]
  BY <1>2 DEF Statement, StartStore, StartKeyed, StartConfirm, CheckQuota,
    LookupExisting, PutNewBlob, OverwriteBlob, InsertConfirmed,
    InsertPending, UpdateRow, ConfirmUpload, MarkDeleted, AddToNamespace,
    AddToVault, AdjustNamespace, AdjustVault, SubtractFromNamespace,
    SubtractFromVault, FindObject, GetBlob, Audit, Stop, Goto, Reply,
    TypeInv, TypeOK
<1>3. ASSUME Reply(r, pc[r]) PROVE FALSE
  BY <1>3 DEF Reply, Writing, TypeInv, TypeOK
<1>4. CASE Statement(r)
  <2>1. Reply(r, pc[r]) \/ (pc[r] \in Writing /\ UNCHANGED call)
        \/ FindObject(r) \/ GetBlob(r)
    BY <1>4 DEF Statement, CheckQuota, LookupExisting, PutNewBlob,
      OverwriteBlob, InsertConfirmed, InsertPending, UpdateRow,
      ConfirmUpload, MarkDeleted, AddToNamespace, AddToVault,
      AdjustNamespace, AdjustVault, SubtractFromNamespace,
      SubtractFromVault, Audit, Writing, Labels, Goto, Reply
  <2>2. ~FindObject(r) /\ ~GetBlob(r)
    BY <1>3 DEF FindObject, GetBlob, Goto, Writing, Reply, TypeInv, TypeOK
  <2>3. QED
    BY <1>1, <1>3, <2>1, <2>2
<1>5. CASE StartStore(r)
  BY <1>5 DEF StartStore, Stores, Reads, TypeInv, TypeOK
<1>6. CASE StartKeyed(r)
  BY <1>6 DEF StartKeyed, Goto, Reads, Writing, TypeInv, TypeOK
<1>7. CASE StartConfirm(r)
  BY <1>7 DEF StartConfirm, Reads, TypeInv, TypeOK
<1>8. CASE Stop(r)
  BY <1>3, <1>8 DEF Stop
<1>9. CASE UNCHANGED vars \/ \E id \in ObjectIds : ClientUpload(id) \/ Expire(id)
  BY <1>1, <1>9 DEF vars, locals, ClientUpload, Expire
<1>10. QED
  BY <1>1, <1>2, <1>4, <1>5, <1>6, <1>7, <1>8, <1>9 DEF Next

LEMMA BlobStep ==
  ASSUME TypeInv, WinnerInv, BlobInv, [Next]_vars
  PROVE  BlobInv'
<1>1. \A id \in ObjectIds : RowKept(id)
  BY ConfirmedStays
<1>2. ASSUME NEW id \in ObjectIds, Confirmed(id)'
      PROVE  blob'[id] # Null \/ ConfirmedUnasked(id)'
  <2>1. CASE blob[id] # Null
    BY <2>1, BlobsStay
  <2>2. CASE blob[id] = Null
    <3>1. TokenIssued /\ Exists(id) /\ object[id].url
      BY <1>1, <1>2, <2>2 DEF RowKept, BlobInv, ConfirmedUnasked, Confirmed
    <3>2. object'[id].url = object[id].url
      BY <1>1, <3>1 DEF RowKept
    <3>3. QED
      BY <1>2, <3>1, <3>2 DEF ConfirmedUnasked
  <2>3. QED
    BY <2>1, <2>2
<1>3. ASSUME NEW id \in ObjectIds, Exists(id)', ~Confirmed(id)'
      PROVE  object'[id].url
  BY <1>1, <1>3 DEF RowKept, BlobInv
<1>4. ASSUME NEW r \in Requests, Reading(r)' PROVE Confirmed(target[r])'
  <2>1. target'[r] \in ObjectIds /\ Confirmed(target'[r])
    BY <1>4, ReadersHoldRows
  <2>2. object'[target'[r]] # Null /\ object'[target'[r]].status = "confirmed"
    BY <1>1, <2>1 DEF RowKept, Confirmed, Exists
  <2>3. QED
    BY <2>2 DEF Confirmed, Exists
<1>5. ASSUME NEW r \in Requests, pc'[r] \in Writing
      PROVE  call'[r].op \notin Reads
  BY <1>5, WritersDoNotRead
<1>6. QED
  BY <1>2, <1>3, <1>4, <1>5 DEF BlobInv

\* A request that has been given a row finds its blob: every statement that
\* makes a row visible comes after the PutObject of its data, and nothing
\* takes a blob away.  Confirming does not look at S3, so a client that had a
\* token could confirm what it never uploaded; without tokens, as the code
\* is, no row is excepted.
THEOREM ReadsFindTheirData == Spec => []NoDanglingRead
<1>1. TypeInv /\ WinnerInv /\ BlobInv /\ [Next]_vars => BlobInv'
  BY BlobStep
<1>2. TypeInv /\ BlobInv => NoDanglingRead
  BY DEF BlobInv, NoDanglingRead, Reading, TypeInv, LocalsOK, HasRow
<1>3. QED
  BY BlobInit, WinnerInvariant, <1>1, <1>2, PTL DEF Spec

-----------------------------------------------------------------------------
(* Requests that write whole objects. *)

\* A step of one request leaves the locals of the others alone.
LEMMA OthersWait ==
  ASSUME TypeInv, NEW r \in Requests,
         \/ StartStore(r) \/ StartKeyed(r) \/ StartConfirm(r)
         \/ Statement(r) \/ Stop(r)
  PROVE  \A q \in Requests \ {r} :
           /\ pc'[q] = pc[q] /\ call'[q] = call[q]
           /\ target'[q] = target[q] /\ delta'[q] = delta[q]
  BY DEF Statement, StartStore, StartKeyed, StartConfirm, CheckQuota,
    LookupExisting, PutNewBlob, OverwriteBlob, InsertConfirmed,
    InsertPending, UpdateRow, ConfirmUpload, MarkDeleted, AddToNamespace,
    AddToVault, AdjustNamespace, AdjustVault, SubtractFromNamespace,
    SubtractFromVault, FindObject, GetBlob, Audit, Stop, Goto, Reply,
    TypeInv, TypeOK

\* Whole objects: direct stores, deletes and reads; no presigned uploads and
\* no upserts.
WholeObjects == Operations \subseteq {"direct", "delete"} \cup Reads

StoreLabels == {"quota", "put", "insert", "nsAdd", "vaultAdd"}
DeleteLabels == {"mark", "nsSub", "vaultSub"}

\* What a request that handles whole objects knows at each of its labels.
PlainAt(r) ==
  /\ pc[r] \in {"idle", "find", "get", "audit"} \cup StoreLabels \cup DeleteLabels
  /\ pc[r] \in StoreLabels => call[r].op = "direct" /\ call[r].size \in Sizes
  /\ pc[r] \in DeleteLabels => call[r].op = "delete"
  /\ pc[r] \in {"find", "get"} => call[r].op \in Reads
  /\ pc[r] = "put" => target[r] = Null
  /\ pc[r] = "insert" => blob[target[r]] = call[r].size
  /\ pc[r] \in {"nsAdd", "vaultAdd"} => delta[r] = call[r].size
  /\ pc[r] \in {"nsSub", "vaultSub"} => delta[r] \in Nat

PlainRows == \A id \in ObjectIds : Exists(id) => Confirmed(id) /\ ~object[id].url

PlainInv == PlainRows /\ \A r \in Requests : PlainAt(r)

\* It holds of an empty store.
LEMMA PlainInit == Init => PlainInv
  BY DEF Init, PlainInv, PlainRows, PlainAt, Exists, StoreLabels, DeleteLabels

\* The steps there are among whole objects.
LEMMA PlainSteps ==
  ASSUME ~Faulty, WholeObjects, TypeInv, PlainInv, [Next]_vars
  PROVE  \/ \E r \in Requests :
              \/ StartStore(r) \/ StartKeyed(r)
              \/ CheckQuota(r) \/ PutNewBlob(r) \/ InsertConfirmed(r)
              \/ MarkDeleted(r) \/ AddToNamespace(r) \/ AddToVault(r)
              \/ SubtractFromNamespace(r) \/ SubtractFromVault(r)
              \/ FindObject(r) \/ GetBlob(r) \/ Audit(r)
         \/ \E id \in ObjectIds : Expire(id)
         \/ UNCHANGED vars
<1>1. ASSUME NEW r \in Requests, StartConfirm(r) PROVE FALSE
  BY <1>1 DEF StartConfirm, WholeObjects, Reads
<1>2. ASSUME NEW r \in Requests,
             \/ LookupExisting(r) \/ OverwriteBlob(r) \/ InsertPending(r)
             \/ UpdateRow(r) \/ ConfirmUpload(r) \/ AdjustNamespace(r)
             \/ AdjustVault(r)
      PROVE  FALSE
  <2>1. PlainAt(r)
    BY DEF PlainInv
  <2>2. QED
    BY <1>2, <2>1 DEF LookupExisting, OverwriteBlob, InsertPending, UpdateRow,
      ConfirmUpload, AdjustNamespace, AdjustVault, Goto, Reply, PlainAt,
      StoreLabels, DeleteLabels
<1>3. ASSUME NEW id \in ObjectIds, ClientUpload(id) PROVE FALSE
  BY <1>3 DEF ClientUpload, PlainInv, PlainRows
<1>4. QED
  BY <1>1, <1>2, <1>3 DEF Next, Statement, Stop

\* A blob is put once and stays as it is.
LEMMA PlainBlobs ==
  ASSUME ~Faulty, WholeObjects, TypeInv, PlainInv, [Next]_vars
  PROVE  \A id \in ObjectIds : blob[id] # Null => blob'[id] = blob[id]
<1>1. ASSUME NEW r \in Requests, PutNewBlob(r)
      PROVE  \A id \in ObjectIds : blob[id] # Null => blob'[id] = blob[id]
  BY <1>1 DEF PutNewBlob, Unused, TypeInv, TypeOK
<1>2. ASSUME NEW r \in Requests,
              \/ StartStore(r) \/ StartKeyed(r)
              \/ CheckQuota(r) \/ InsertConfirmed(r)
              \/ MarkDeleted(r) \/ AddToNamespace(r) \/ AddToVault(r)
              \/ SubtractFromNamespace(r) \/ SubtractFromVault(r)
              \/ FindObject(r) \/ GetBlob(r) \/ Audit(r)
      PROVE  UNCHANGED blob
  BY <1>2 DEF StartStore, StartKeyed, CheckQuota, InsertConfirmed,
    MarkDeleted, AddToNamespace, AddToVault, SubtractFromNamespace,
    SubtractFromVault, FindObject, GetBlob, Audit
<1>3. QED
  BY <1>1, <1>2, PlainSteps DEF Expire, vars

\* Rows are inserted confirmed and without an upload URL, and stay so.
LEMMA PlainRowsStep ==
  ASSUME ~Faulty, WholeObjects, TypeInv, PlainInv, [Next]_vars
  PROVE  PlainRows'
<1> USE ConstantsAssumption
<1>1. CASE UNCHANGED object
  BY <1>1 DEF PlainInv, PlainRows, Confirmed, Exists
<1>2. ASSUME NEW id \in ObjectIds, NEW row \in Row,
             object' = [object EXCEPT ![id] = row],
             row.status = "confirmed", ~row.url
      PROVE  PlainRows'
  BY <1>2 DEF PlainInv, PlainRows, Confirmed, Exists, TypeInv, TypeOK
<1>3. ASSUME NEW r \in Requests, InsertConfirmed(r) PROVE PlainRows'
  <2>1. CASE UNCHANGED object
    BY <1>1, <2>1
  <2>2. CASE ~UNCHANGED object
    <3>1. PICK t \in Ttls : object' = [object EXCEPT ![target[r]] =
                                         NewRow(r, "confirmed", t)]
      BY <1>3, <2>2 DEF InsertConfirmed
    <3> DEFINE row == NewRow(r, "confirmed", t)
    <3>2. row \in Row /\ target[r] \in ObjectIds
      BY <1>3, NewRowTyped DEF InsertConfirmed, TypeInv, LocalsOK
    <3>3. row.status = "confirmed" /\ ~row.url
      BY DEF NewRow
    <3> HIDE DEF row
    <3>4. QED
      BY <1>2, <3>1, <3>2, <3>3 DEF row
  <2>3. QED
    BY <2>1, <2>2
<1>4. ASSUME NEW r \in Requests, MarkDeleted(r) PROVE PlainRows'
  <2>1. CASE UNCHANGED object
    BY <1>1, <2>1
  <2>2. CASE ~UNCHANGED object
    <3>1. PICK id \in LiveAt(call[r].ns, call[r].key) :
            object' = [object EXCEPT ![id].deleted = TRUE]
      BY <1>4, <2>2 DEF MarkDeleted, Deletable
    <3>2. /\ id \in ObjectIds /\ object[id] \in Row
          /\ object[id].status = "confirmed" /\ ~object[id].url
      BY <3>1 DEF LiveAt, Live, Exists, TypeInv, TypeOK, PlainInv, PlainRows,
                  Confirmed
    <3> DEFINE row == [object[id] EXCEPT !.deleted = TRUE]
    <3>3. row \in Row /\ row.status = "confirmed" /\ ~row.url
      BY <3>2 DEF Row
    <3>4. object' = [object EXCEPT ![id] = row]
      BY <3>1
    <3>5. QED
      BY <1>2, <3>2, <3>3, <3>4
  <2>3. QED
    BY <2>1, <2>2
<1>5. ASSUME NEW id \in ObjectIds, Expire(id) PROVE PlainRows'
  <2>1. /\ object[id] \in Row
        /\ object[id].status = "confirmed" /\ ~object[id].url
    BY <1>5 DEF Expire, Exists, TypeInv, TypeOK, PlainInv, PlainRows, Confirmed
  <2> DEFINE row == [object[id] EXCEPT !.ttl = "expired"]
  <2>2. row \in Row /\ row.status = "confirmed" /\ ~row.url
    BY <2>1 DEF Row
  <2>3. object' = [object EXCEPT ![id] = row]
    BY <1>5 DEF Expire
  <2>4. QED
    BY <1>2, <2>2, <2>3
<1>6. ASSUME NEW r \in Requests,
             \/ StartStore(r) \/ StartKeyed(r) \/ CheckQuota(r)
             \/ PutNewBlob(r) \/ AddToNamespace(r) \/ AddToVault(r)
             \/ SubtractFromNamespace(r) \/ SubtractFromVault(r)
             \/ FindObject(r) \/ GetBlob(r) \/ Audit(r)
      PROVE  UNCHANGED object
  BY <1>6 DEF StartStore, StartKeyed, CheckQuota, PutNewBlob, AddToNamespace,
    AddToVault, SubtractFromNamespace, SubtractFromVault, FindObject, GetBlob,
    Audit, tables
<1>7. QED
  BY <1>1, <1>3, <1>4, <1>5, <1>6, PlainSteps DEF vars

\* Every step keeps it.
LEMMA PlainStep ==
  ASSUME ~Faulty, WholeObjects, TypeInv, PlainInv, [Next]_vars
  PROVE  PlainInv'
<1> USE ConstantsAssumption DEF StoreLabels, DeleteLabels
<1>1. ASSUME NEW q \in Requests, pc'[q] = pc[q], call'[q] = call[q],
             target'[q] = target[q], delta'[q] = delta[q]
      PROVE  PlainAt(q)'
  <2>1. PlainAt(q)
    BY DEF PlainInv
  <2>2. pc[q] = "insert" =>
          target[q] \in ObjectIds /\ blob[target[q]] # Null
    BY <2>1 DEF PlainAt, TypeInv, LocalsOK
  <2>3. pc[q] = "insert" => blob'[target[q]] = blob[target[q]]
    BY <2>2, PlainBlobs
  <2>4. QED
    BY <1>1, <2>1, <2>3 DEF PlainAt
<1>2. ASSUME NEW r \in Requests, Reply(r, pc[r]) PROVE PlainAt(r)'
  BY <1>2 DEF Reply, PlainAt, TypeInv, TypeOK
<1>3. ASSUME NEW r \in Requests, StartStore(r) PROVE PlainAt(r)'
  BY <1>3 DEF StartStore, Goto, Stores, Reads, WholeObjects, PlainAt, TypeInv,
              TypeOK
<1>4. ASSUME NEW r \in Requests, StartKeyed(r) PROVE PlainAt(r)'
  BY <1>4 DEF StartKeyed, Goto, WholeObjects, PlainAt, TypeInv, TypeOK
<1>5. ASSUME NEW r \in Requests, CheckQuota(r) PROVE PlainAt(r)'
  <2>1. PlainAt(r) /\ pc[r] = "quota"
    BY <1>5 DEF PlainInv, CheckQuota
  <2>2. CASE Reply(r, "quota")
    BY <1>2, <2>1, <2>2
  <2>3. CASE Goto(r, "quota", AfterQuota(call[r].op)) /\ UNCHANGED <<call, target>>
    <3>1. AfterQuota(call[r].op) = "put"
      BY <2>1 DEF PlainAt, AfterQuota
    <3>2. target[r] = Null
      BY <2>1 DEF TypeInv, LocalsOK
    <3>3. QED
      BY <2>1, <2>3, <3>1, <3>2 DEF Goto, PlainAt, TypeInv, TypeOK
  <2>4. QED
    BY <1>5, <2>2, <2>3 DEF CheckQuota
<1>6. ASSUME NEW r \in Requests, PutNewBlob(r) PROVE PlainAt(r)'
  <2>1. PlainAt(r)
    BY DEF PlainInv
  <2>2. QED
    BY <1>6, <2>1 DEF PutNewBlob, Goto, PlainAt, TypeInv, TypeOK
<1>7. ASSUME NEW r \in Requests, InsertConfirmed(r) PROVE PlainAt(r)'
  <2>1. PlainAt(r) /\ pc[r] = "insert"
    BY <1>7 DEF PlainInv, InsertConfirmed
  <2>2. CASE Reply(r, "insert")
    BY <1>2, <2>1, <2>2
  <2>3. CASE ~Reply(r, "insert")
    BY <1>7, <2>1, <2>3 DEF InsertConfirmed, Goto, PlainAt, TypeInv, TypeOK
  <2>4. QED
    BY <2>2, <2>3
<1>8. ASSUME NEW r \in Requests, MarkDeleted(r) PROVE PlainAt(r)'
  <2>1. PlainAt(r) /\ pc[r] = "mark"
    BY <1>8 DEF PlainInv, MarkDeleted
  <2>2. CASE Reply(r, "mark")
    BY <1>2, <2>1, <2>2
  <2>3. CASE ~Reply(r, "mark")
    <3>1. PICK id \in LiveAt(call[r].ns, call[r].key) :
            /\ Goto(r, "mark", "nsSub")
            /\ delta' = [delta EXCEPT ![r] = object[id].size]
            /\ UNCHANGED call
      BY <1>8, <2>3 DEF MarkDeleted, Deletable
    <3>2. object[id].size \in Nat
      BY <3>1 DEF LiveAt, Live, Exists, TypeInv, TypeOK, Row
    <3>3. QED
      BY <2>1, <3>1, <3>2 DEF Goto, PlainAt, TypeInv, TypeOK
  <2>4. QED
    BY <2>2, <2>3
<1>9. ASSUME NEW r \in Requests,
             \/ AddToNamespace(r) \/ AddToVault(r)
             \/ SubtractFromNamespace(r) \/ SubtractFromVault(r)
      PROVE  PlainAt(r)'
  <2>1. PlainAt(r)
    BY DEF PlainInv
  <2>2. QED
    BY <1>9, <2>1 DEF AddToNamespace, AddToVault, SubtractFromNamespace,
                      SubtractFromVault, Goto, PlainAt, TypeInv, TypeOK
<1>10. ASSUME NEW r \in Requests, FindObject(r) \/ GetBlob(r) \/ Audit(r)
       PROVE  PlainAt(r)'
  <2>1. PlainAt(r)
    BY DEF PlainInv
  <2>2. CASE Reply(r, pc[r])
    BY <1>2, <2>2
  <2>3. CASE ~Reply(r, pc[r])
    BY <1>10, <2>1, <2>3 DEF FindObject, GetBlob, Audit, Goto, Reply, PlainAt,
                             TypeInv, TypeOK
  <2>4. QED
    BY <2>2, <2>3
<1>11. ASSUME NEW r \in Requests,
              \/ StartStore(r) \/ StartKeyed(r)
              \/ CheckQuota(r) \/ PutNewBlob(r) \/ InsertConfirmed(r)
              \/ MarkDeleted(r) \/ AddToNamespace(r) \/ AddToVault(r)
              \/ SubtractFromNamespace(r) \/ SubtractFromVault(r)
              \/ FindObject(r) \/ GetBlob(r) \/ Audit(r)
       PROVE  \A q \in Requests : PlainAt(q)'
  <2>1. PlainAt(r)'
    BY <1>3, <1>4, <1>5, <1>6, <1>7, <1>8, <1>9, <1>10, <1>11
  <2>2. \A q \in Requests \ {r} :
           /\ pc'[q] = pc[q] /\ call'[q] = call[q]
           /\ target'[q] = target[q] /\ delta'[q] = delta[q]
    BY <1>11, OthersWait DEF Statement
  <2>3. QED
    BY <1>1, <2>1, <2>2
<1>12. CASE UNCHANGED vars \/ \E id \in ObjectIds : Expire(id)
  <2>1. UNCHANGED <<pc, call, target, delta>>
    BY <1>12 DEF vars, Expire, locals
  <2>2. \A q \in Requests : PlainAt(q)'
    BY <1>1, <2>1
  <2>3. QED
    BY <2>2, PlainRowsStep DEF PlainInv
<1>13. QED
  BY <1>11, <1>12, PlainSteps, PlainRowsStep DEF PlainInv

-----------------------------------------------------------------------------
(* The bytes of the vault are never too low. *)

\* The three sums of VaultBytesNeverLow and what the requests past the quota
\* check are about to add, each as the sum of a function over a fixed set.
CountedSize == [id \in ObjectIds |-> IF id \in Counted THEN object[id].size ELSE 0]
Credit == [r \in Requests |-> IF r \in Adding THEN delta[r] ELSE 0]
Debit == [r \in Requests |-> IF r \in Subtracting THEN delta[r] ELSE 0]

Owing == {r \in Requests : pc[r] \in {"put", "insert", "nsAdd", "vaultAdd"}}
Owed == [r \in Requests |-> IF r \in Owing THEN call[r].size ELSE 0]

\* What BytesOf adds up is the total of a function on all ids.
LEMMA BytesTotal ==
  TypeInv => BytesOf(Counted) = Total(CountedSize, ObjectIds)
<1> SUFFICES ASSUME TypeInv PROVE BytesOf(Counted) = Total(CountedSize, ObjectIds)
  OBVIOUS
<1>1. BytesOf(Counted) = SizesOf(object, Counted)
  BY DEF BytesOf, SizesOf, MapThenSumSet, MapThenFoldSet
<1>2. /\ Counted \in SUBSET ObjectIds /\ IsFiniteSet(ObjectIds)
      /\ IsFiniteSet(Counted)
  BY ConstantsAssumption, CountsFinite DEF ConstantsAssumption, Counted
<1>3. /\ \A id \in ObjectIds : CountedSize[id] \in Int
      /\ \A id \in Counted : CountedSize[id] = object[id].size
      /\ \A id \in ObjectIds \ Counted : CountedSize[id] = 0
  BY DEF CountedSize, Counted, Live, Exists, TypeInv, TypeOK, Row
<1>4. SizesOf(object, Counted) = Total(CountedSize, Counted)
  BY <1>2, <1>3, SizesTotal
<1>5. Total(CountedSize, Counted) = Total(CountedSize, ObjectIds)
  BY <1>2, <1>3, TotalOver
<1>6. QED
  BY <1>1, <1>4, <1>5

\* What DeltaOf adds up are totals of functions on all requests.
LEMMA DeltasTotal ==
  TypeInv => /\ DeltaOf(Adding) = Total(Credit, Requests)
             /\ DeltaOf(Subtracting) = Total(Debit, Requests)
<1> SUFFICES ASSUME TypeInv
             PROVE  /\ DeltaOf(Adding) = Total(Credit, Requests)
                    /\ DeltaOf(Subtracting) = Total(Debit, Requests)
  OBVIOUS
<1>1. /\ DeltaOf(Adding) = Total(delta, Adding)
      /\ DeltaOf(Subtracting) = Total(delta, Subtracting)
  BY DEF DeltaOf, Total, MapThenSumSet, MapThenFoldSet
<1>2. /\ Adding \in SUBSET Requests /\ Subtracting \in SUBSET Requests
      /\ IsFiniteSet(Requests)
  BY ConstantsAssumption DEF ConstantsAssumption, Adding, Subtracting
<1>3. /\ \A r \in Requests : Credit[r] \in Int /\ Debit[r] \in Int
      /\ \A r \in Adding : delta[r] = Credit[r]
      /\ \A r \in Requests \ Adding : Credit[r] = 0
      /\ \A r \in Subtracting : delta[r] = Debit[r]
      /\ \A r \in Requests \ Subtracting : Debit[r] = 0
  BY DEF Credit, Debit, Adding, Subtracting, TypeInv, TypeOK
<1>4. Total(delta, Adding) = Total(Credit, Requests)
  BY <1>2, <1>3, TotalOver
<1>5. Total(delta, Subtracting) = Total(Debit, Requests)
  BY <1>2, <1>3, TotalOver
<1>6. QED
  BY <1>1, <1>4, <1>5

\* The vault's bytes cover what is counted, once the requests in flight are
\* accounted for.
Covered ==
  vaultBytes + Total(Credit, Requests)
    >= Total(CountedSize, ObjectIds) + Total(Debit, Requests)

\* Covered says what the property does.
LEMMA CoveredIsNeverLow == TypeInv => (Covered <=> VaultBytesNeverLow)
  BY BytesTotal, DeltasTotal DEF Covered, VaultBytesNeverLow

\* The summands and the sums are integers, and naturals where they are sizes.
LEMMA SumTypes ==
  ASSUME TypeInv
  PROVE  /\ \A id \in ObjectIds : CountedSize[id] \in Nat
         /\ \A r \in Requests : Credit[r] \in Int /\ Debit[r] \in Int /\ Owed[r] \in Nat
         /\ Total(CountedSize, ObjectIds) \in Nat
         /\ Total(Credit, Requests) \in Int /\ Total(Debit, Requests) \in Int
         /\ Total(Owed, Requests) \in Nat
<1>1. \A id \in ObjectIds : CountedSize[id] \in Nat
  BY DEF CountedSize, Counted, Live, Exists, TypeInv, TypeOK, Row
<1>2. \A r \in Requests : Credit[r] \in Int /\ Debit[r] \in Int
  BY DEF Credit, Debit, TypeInv, TypeOK
<1>3. \A r \in Requests : Owed[r] \in Nat
  BY DEF Owed, Owing, TypeInv, LocalsOK, Call
<1>4. IsFiniteSet(ObjectIds) /\ IsFiniteSet(Requests)
  BY ConstantsAssumption DEF ConstantsAssumption
<1>5. QED
  BY <1>1, <1>2, <1>3, <1>4, TotalNatural, TotalType

\* A step of request r changes the sums over the requests by r's share.
LEMMA RequestShare ==
  ASSUME TypeInv, TypeInv', NEW r \in Requests,
         \A q \in Requests \ {r} :
           pc'[q] = pc[q] /\ call'[q] = call[q] /\ delta'[q] = delta[q]
  PROVE  /\ Total(Credit', Requests)
              = Total(Credit, Requests) - Credit[r] + Credit'[r]
         /\ Total(Debit', Requests)
              = Total(Debit, Requests) - Debit[r] + Debit'[r]
         /\ Total(Owed', Requests)
              = Total(Owed, Requests) - Owed[r] + Owed'[r]
<1>1. /\ \A q \in Requests \ {r} : Credit'[q] = Credit[q]
      /\ \A q \in Requests \ {r} : Debit'[q] = Debit[q]
      /\ \A q \in Requests \ {r} : Owed'[q] = Owed[q]
  BY DEF Credit, Debit, Owed, Adding, Subtracting, Owing
<1>2. \A q \in Requests : Credit[q] \in Int /\ Debit[q] \in Int /\ Owed[q] \in Int
  BY SumTypes
<1>3. \A q \in Requests : Credit'[q] \in Int /\ Debit'[q] \in Int /\ Owed'[q] \in Int
  <2>1. \A q \in Requests : Credit'[q] \in Int /\ Debit'[q] \in Int
    BY DEF Credit, Debit, TypeInv, TypeOK
  <2>2. \A q \in Requests : Owed'[q] \in Int
    BY DEF Owed, Owing, TypeInv, LocalsOK, Call
  <2>3. QED
    BY <2>1, <2>2
<1>4. IsFiniteSet(Requests)
  BY ConstantsAssumption DEF ConstantsAssumption
<1>5. Total(Credit', Requests) = Total(Credit, Requests) - Credit[r] + Credit'[r]
  BY <1>1, <1>2, <1>3, <1>4, TotalUpdate
<1>6. Total(Debit', Requests) = Total(Debit, Requests) - Debit[r] + Debit'[r]
  BY <1>1, <1>2, <1>3, <1>4, TotalUpdate
<1>7. Total(Owed', Requests) = Total(Owed, Requests) - Owed[r] + Owed'[r]
  BY <1>1, <1>2, <1>3, <1>4, TotalUpdate
<1>8. QED
  BY <1>5, <1>6, <1>7

\* A step that changes one row changes the sum over the objects by its share.
LEMMA ObjectShare ==
  ASSUME TypeInv, TypeInv', NEW id \in ObjectIds,
         \A i \in ObjectIds \ {id} : object'[i] = object[i]
  PROVE  Total(CountedSize', ObjectIds)
           = Total(CountedSize, ObjectIds) - CountedSize[id] + CountedSize'[id]
<1>1. \A i \in ObjectIds \ {id} : CountedSize'[i] = CountedSize[i]
  BY DEF CountedSize, Counted, Live, Confirmed, Exists
<1>2. \A i \in ObjectIds : CountedSize[i] \in Int /\ CountedSize'[i] \in Int
  BY DEF CountedSize, Counted, Live, Exists, TypeInv, TypeOK, Row
<1>3. IsFiniteSet(ObjectIds)
  BY ConstantsAssumption DEF ConstantsAssumption
<1>4. QED
  BY <1>1, <1>2, <1>3, TotalUpdate

\* Rows that stay have the sum they had.
LEMMA ObjectsUnchanged ==
  ASSUME UNCHANGED object
  PROVE  Total(CountedSize', ObjectIds) = Total(CountedSize, ObjectIds)
<1>1. CountedSize' = CountedSize
  BY DEF CountedSize, Counted, Live, Confirmed, Exists
<1>2. QED
  BY <1>1

\* Covered after a step, in terms of the sums after it.
LEMMA CoveredNext ==
  Covered' <=> vaultBytes' + Total(Credit', Requests)
                 >= Total(CountedSize', ObjectIds) + Total(Debit', Requests)
  BY DEF Covered, Total, MapThenSumSet, MapThenFoldSet

\* The sums before and after a step.
B == Total(CountedSize, ObjectIds)
C == Total(Credit, Requests)
D == Total(Debit, Requests)
O == Total(Owed, Requests)

\* What a step among whole objects may do to the vault's bytes and the sums:
\* nothing; let a store past the quota check; insert a row; add to the vault;
\* mark a row; subtract from the vault.
Unmoved == /\ vaultBytes' = vaultBytes /\ Total(CountedSize', ObjectIds) = B
           /\ Total(Credit', Requests) = C /\ Total(Debit', Requests) = D
           /\ Total(Owed', Requests) <= O
Admitted(s) == /\ \E r \in Requests : Owed[r] = 0
               /\ PlanLimit > 0 => vaultBytes + s <= PlanLimit
               /\ vaultBytes' = vaultBytes /\ Total(CountedSize', ObjectIds) = B
               /\ Total(Credit', Requests) = C /\ Total(Debit', Requests) = D
               /\ Total(Owed', Requests) = O + s
Inserted(s) == /\ vaultBytes' = vaultBytes /\ Total(CountedSize', ObjectIds) = B + s
               /\ Total(Credit', Requests) = C + s /\ Total(Debit', Requests) = D
               /\ Total(Owed', Requests) = O
Added(s) == /\ vaultBytes' = vaultBytes + s /\ Total(CountedSize', ObjectIds) = B
            /\ Total(Credit', Requests) = C - s /\ Total(Debit', Requests) = D
            /\ Total(Owed', Requests) = O - s
Marked(s) == /\ vaultBytes' = vaultBytes /\ Total(CountedSize', ObjectIds) = B - s
             /\ Total(Credit', Requests) = C /\ Total(Debit', Requests) = D + s
             /\ Total(Owed', Requests) = O
Subtracted(s) == /\ vaultBytes' = Less(vaultBytes, s)
                 /\ Total(CountedSize', ObjectIds) = B
                 /\ Total(Credit', Requests) = C /\ Total(Debit', Requests) = D - s
                 /\ Total(Owed', Requests) = O

Effect(s) == \/ Unmoved \/ Admitted(s) \/ Inserted(s) \/ Added(s) \/ Marked(s)
             \/ Subtracted(s)

\* Every step has one of these effects, for some size.
LEMMA Effects ==
  ASSUME ~Faulty, WholeObjects, TypeInv, TypeInv', WinnerInv, PlainInv, [Next]_vars
  PROVE  \E s \in Nat : Effect(s)
<1> USE ConstantsAssumption
<1>0. /\ B \in Int /\ C \in Int /\ D \in Int /\ O \in Int
      /\ \A r \in Requests : Credit[r] \in Int /\ Debit[r] \in Int /\ Owed[r] \in Nat
      /\ \A id \in ObjectIds : CountedSize[id] \in Int
  BY SumTypes DEF B, C, D, O
<1>1. ASSUME NEW r \in Requests,
             \/ StartStore(r) \/ StartKeyed(r)
             \/ CheckQuota(r) \/ PutNewBlob(r) \/ InsertConfirmed(r)
             \/ MarkDeleted(r) \/ AddToNamespace(r) \/ AddToVault(r)
             \/ SubtractFromNamespace(r) \/ SubtractFromVault(r)
             \/ FindObject(r) \/ GetBlob(r) \/ Audit(r)
      PROVE  /\ Total(Credit', Requests) = C - Credit[r] + Credit'[r]
             /\ Total(Debit', Requests) = D - Debit[r] + Debit'[r]
             /\ Total(Owed', Requests) = O - Owed[r] + Owed'[r]
  <2>1. \A q \in Requests \ {r} :
          pc'[q] = pc[q] /\ call'[q] = call[q] /\ delta'[q] = delta[q]
    BY <1>1, OthersWait DEF Statement
  <2>2. QED
    BY <2>1, RequestShare DEF C, D, O
<1>2. ASSUME UNCHANGED object PROVE Total(CountedSize', ObjectIds) = B
  BY <1>2, ObjectsUnchanged DEF B
\* A step that moves no request into or out of the sums.
<1>3. ASSUME NEW r \in Requests, UNCHANGED <<object, vaultBytes>>,
             Total(Credit', Requests) = C - Credit[r] + Credit'[r],
             Total(Debit', Requests) = D - Debit[r] + Debit'[r],
             Total(Owed', Requests) = O - Owed[r] + Owed'[r],
             r \notin Adding, r \notin Adding',
             r \notin Subtracting, r \notin Subtracting', r \notin Owing'
      PROVE  Unmoved
  <2>1. /\ Credit[r] = 0 /\ Credit'[r] = 0 /\ Debit[r] = 0 /\ Debit'[r] = 0
        /\ Owed'[r] = 0
    BY <1>3 DEF Credit, Debit, Owed
  <2>2. QED
    BY <1>0, <1>2, <1>3, <2>1 DEF Unmoved
<1>4. ASSUME NEW r \in Requests,
             \/ StartStore(r) \/ StartKeyed(r) \/ FindObject(r) \/ GetBlob(r)
             \/ Audit(r)
      PROVE  Unmoved
  <2>1. UNCHANGED <<object, vaultBytes>>
    BY <1>4 DEF StartStore, StartKeyed, FindObject, GetBlob, Audit, tables
  <2>2. /\ pc[r] \in {"idle", "find", "get", "audit"}
        /\ pc'[r] \in {"idle", "quota", "mark", "find", "get", "audit"}
    BY <1>4 DEF StartStore, StartKeyed, FindObject, GetBlob, Audit, Goto, Reply,
                TypeInv, TypeOK
  <2>3. /\ r \notin Adding /\ r \notin Adding'
        /\ r \notin Subtracting /\ r \notin Subtracting' /\ r \notin Owing'
    BY <2>2 DEF Adding, Subtracting, Owing
  <2>4. QED
    BY <1>1, <1>3, <1>4, <2>1, <2>3
<1>5. ASSUME NEW r \in Requests, Reply(r, pc[r]),
             UNCHANGED <<object, vaultBytes>>,
             CheckQuota(r) \/ InsertConfirmed(r) \/ MarkDeleted(r)
      PROVE  Unmoved
  <2>1. pc[r] \in {"quota", "insert", "mark"} /\ pc'[r] = "idle"
    BY <1>5 DEF Reply, CheckQuota, InsertConfirmed, MarkDeleted, TypeInv, TypeOK
  <2>2. /\ r \notin Adding /\ r \notin Adding'
        /\ r \notin Subtracting /\ r \notin Subtracting' /\ r \notin Owing'
    BY <2>1 DEF Adding, Subtracting, Owing
  <2>3. QED
    BY <1>1, <1>3, <1>5, <2>2
<1>6. ASSUME NEW r \in Requests, CheckQuota(r) PROVE \E s \in Nat : Effect(s)
  <2>1. PlainAt(r) /\ pc[r] = "quota" /\ UNCHANGED <<object, vaultBytes>>
    BY <1>6 DEF PlainInv, CheckQuota, tables
  <2>2. CASE Reply(r, "quota")
    BY <1>5, <1>6, <2>1, <2>2 DEF Effect
  <2>3. CASE ~Reply(r, "quota")
    <3>1. ~OverQuota(call[r].size)
      BY <1>6, <2>1, <2>3 DEF CheckQuota, PlainAt, StoreLabels
    <3>2. AfterQuota(call[r].op) = "put"
      BY <2>1 DEF PlainAt, AfterQuota, StoreLabels
    <3>3. pc' = [pc EXCEPT ![r] = "put"] /\ UNCHANGED <<call, delta>>
      BY <1>6, <2>3, <3>2 DEF CheckQuota, Goto
    <3>4. pc'[r] = "put"
      BY <3>3 DEF TypeInv, TypeOK
    <3>5. /\ r \notin Adding /\ r \notin Adding' /\ r \notin Owing
          /\ r \notin Subtracting /\ r \notin Subtracting' /\ r \in Owing'
      BY <2>1, <3>4 DEF Adding, Subtracting, Owing
    <3>6. /\ Credit[r] = 0 /\ Credit'[r] = 0 /\ Debit[r] = 0 /\ Debit'[r] = 0
          /\ Owed[r] = 0 /\ Owed'[r] = call[r].size
      BY <3>3, <3>5 DEF Credit, Debit, Owed
    <3>7. call[r].size \in Nat
      BY <2>1 DEF PlainAt, StoreLabels
    <3>8. PlanLimit > 0 => vaultBytes + call[r].size <= PlanLimit
      BY <3>1, <3>7 DEF OverQuota, TypeInv, TypeOK
    <3>9. Admitted(call[r].size)
      BY <1>0, <1>1, <1>2, <1>6, <2>1, <3>6, <3>7, <3>8 DEF Admitted
    <3>10. QED
      BY <3>7, <3>9 DEF Effect
  <2>4. QED
    BY <2>2, <2>3
\* A step from a label to another of the same sums.
<1>7. ASSUME NEW r \in Requests,
             \/ PutNewBlob(r) \/ AddToNamespace(r) \/ SubtractFromNamespace(r)
      PROVE  Unmoved
  <2>1. UNCHANGED <<object, vaultBytes, call>>
    BY <1>7 DEF PutNewBlob, AddToNamespace, SubtractFromNamespace, tables
  <2>2. /\ delta'[r] = delta[r]
        /\ \/ pc[r] = "put" /\ pc'[r] = "insert"
           \/ pc[r] = "nsAdd" /\ pc'[r] = "vaultAdd"
           \/ pc[r] = "nsSub" /\ pc'[r] = "vaultSub"
    BY <1>7 DEF PutNewBlob, AddToNamespace, SubtractFromNamespace, Goto,
                TypeInv, TypeOK
  <2>3. /\ r \in Adding <=> r \in Adding'
        /\ r \in Subtracting <=> r \in Subtracting'
        /\ r \in Owing <=> r \in Owing'
    BY <2>2 DEF Adding, Subtracting, Owing
  <2>4. Credit'[r] = Credit[r] /\ Debit'[r] = Debit[r] /\ Owed'[r] = Owed[r]
    BY <2>1, <2>2, <2>3 DEF Credit, Debit, Owed
  <2>5. QED
    BY <1>0, <1>1, <1>2, <1>7, <2>1, <2>4 DEF Unmoved
<1>8. ASSUME NEW r \in Requests, InsertConfirmed(r)
      PROVE  \E s \in Nat : Effect(s)
  <2>1. PlainAt(r) /\ pc[r] = "insert" /\ UNCHANGED vaultBytes
    BY <1>8 DEF PlainInv, InsertConfirmed
  <2>2. CASE Reply(r, "insert") /\ UNCHANGED object
    BY <1>5, <1>8, <2>1, <2>2 DEF Effect
  <2>3. CASE ~(Reply(r, "insert") /\ UNCHANGED object)
    <3>1. PICK t \in Ttls : object' = [object EXCEPT ![target[r]] =
                                         NewRow(r, "confirmed", t)]
      BY <1>8, <2>3 DEF InsertConfirmed
    <3> DEFINE row == NewRow(r, "confirmed", t)
    <3>2. /\ row \in Row /\ row.status = "confirmed" /\ ~row.deleted
          /\ row.size = call[r].size
      BY <2>1, NewRowTyped DEF NewRow
    <3> HIDE DEF row
    <3>3. /\ target[r] \in ObjectIds /\ object[target[r]] = Null
          /\ call[r].size \in Nat
      BY <2>1 DEF TypeInv, LocalsOK, WinnerInv, FreshOK, PlainAt, StoreLabels
    <3>4. /\ object'[target[r]] = row
          /\ \A i \in ObjectIds \ {target[r]} : object'[i] = object[i]
      BY <3>1, <3>3 DEF TypeInv, TypeOK, row
    <3>5. target[r] \notin Counted /\ target[r] \in Counted'
      BY <3>2, <3>3, <3>4 DEF Counted, Live, Confirmed, Exists
    <3>6. /\ CountedSize[target[r]] = 0
          /\ CountedSize'[target[r]] = call[r].size
      BY <3>2, <3>3, <3>4, <3>5 DEF CountedSize
    <3>7. pc'[r] = "nsAdd" /\ delta'[r] = call[r].size /\ UNCHANGED call
      BY <1>8, <2>3 DEF InsertConfirmed, Goto, TypeInv, TypeOK
    <3>8. /\ r \notin Adding /\ r \in Adding' /\ r \in Owing /\ r \in Owing'
          /\ r \notin Subtracting /\ r \notin Subtracting'
      BY <2>1, <3>7 DEF Adding, Subtracting, Owing
    <3>9. /\ Credit[r] = 0 /\ Credit'[r] = call[r].size
          /\ Debit[r] = 0 /\ Debit'[r] = 0 /\ Owed'[r] = Owed[r]
      BY <3>7, <3>8 DEF Credit, Debit, Owed
    <3>10. Total(CountedSize', ObjectIds) = B + call[r].size
      <4>1. Total(CountedSize', ObjectIds)
              = B - CountedSize[target[r]] + CountedSize'[target[r]]
        BY <3>3, <3>4, ObjectShare DEF B
      <4>2. QED
        BY <1>0, <3>3, <3>6, <4>1
    <3>11. Inserted(call[r].size)
      BY <1>0, <1>1, <1>8, <2>1, <3>3, <3>9, <3>10 DEF Inserted
    <3>12. QED
      BY <3>3, <3>11 DEF Effect
  <2>4. QED
    BY <2>2, <2>3
<1>9. ASSUME NEW r \in Requests, AddToVault(r) PROVE \E s \in Nat : Effect(s)
  <2>1. /\ PlainAt(r) /\ pc[r] = "vaultAdd" /\ pc'[r] = "audit"
        /\ UNCHANGED <<object, call, delta>> /\ vaultBytes' = vaultBytes + delta[r]
    BY <1>9 DEF PlainInv, AddToVault, Goto, TypeInv, TypeOK
  <2>2. delta[r] = call[r].size /\ delta[r] \in Nat
    BY <2>1 DEF PlainAt, StoreLabels
  <2>3. /\ r \in Adding /\ r \notin Adding' /\ r \in Owing /\ r \notin Owing'
        /\ r \notin Subtracting /\ r \notin Subtracting'
    BY <2>1 DEF Adding, Subtracting, Owing
  <2>4. /\ Credit[r] = delta[r] /\ Credit'[r] = 0
        /\ Debit[r] = 0 /\ Debit'[r] = 0 /\ Owed[r] = delta[r] /\ Owed'[r] = 0
    BY <2>2, <2>3 DEF Credit, Debit, Owed
  <2>5. Added(delta[r])
    BY <1>0, <1>1, <1>2, <1>9, <2>1, <2>2, <2>4 DEF Added
  <2>6. QED
    BY <2>2, <2>5 DEF Effect
<1>10. ASSUME NEW r \in Requests, MarkDeleted(r) PROVE \E s \in Nat : Effect(s)
  <2>1. pc[r] = "mark" /\ UNCHANGED vaultBytes
    BY <1>10 DEF MarkDeleted
  <2>2. CASE Reply(r, "mark") /\ UNCHANGED object
    BY <1>5, <1>10, <2>1, <2>2 DEF Effect
  <2>3. CASE ~(Reply(r, "mark") /\ UNCHANGED object)
    <3>1. PICK id \in LiveAt(call[r].ns, call[r].key) :
            /\ pc' = [pc EXCEPT ![r] = "nsSub"]
            /\ object' = [object EXCEPT ![id].deleted = TRUE]
            /\ delta' = [delta EXCEPT ![r] = object[id].size]
            /\ UNCHANGED call
      BY <1>10, <2>3 DEF MarkDeleted, Deletable, Goto
    <3>2. id \in ObjectIds /\ object[id] \in Row /\ Live(id) /\ Confirmed(id)
      BY <3>1 DEF LiveAt, Live, Exists, TypeInv, TypeOK, PlainInv, PlainRows
    <3> DEFINE row == [object[id] EXCEPT !.deleted = TRUE]
    <3>3. row \in Row /\ row.deleted
      BY <3>2 DEF Row
    <3>4. /\ object'[id] = row
          /\ \A i \in ObjectIds \ {id} : object'[i] = object[i]
      BY <3>1, <3>2 DEF TypeInv, TypeOK
    <3> HIDE DEF row
    <3>5. id \in Counted /\ id \notin Counted' /\ object[id].size \in Nat
      BY <3>2, <3>3, <3>4 DEF Counted, Live, Row
    <3>6. CountedSize[id] = object[id].size /\ CountedSize'[id] = 0
      BY <3>2, <3>5 DEF CountedSize
    <3>7. pc'[r] = "nsSub" /\ delta'[r] = object[id].size
      BY <3>1 DEF TypeInv, TypeOK
    <3>8. /\ r \notin Adding /\ r \notin Adding' /\ r \notin Owing
          /\ r \notin Owing' /\ r \notin Subtracting /\ r \in Subtracting'
      BY <2>1, <3>7 DEF Adding, Subtracting, Owing
    <3>9. /\ Credit[r] = 0 /\ Credit'[r] = 0 /\ Owed[r] = 0 /\ Owed'[r] = 0
          /\ Debit[r] = 0 /\ Debit'[r] = object[id].size
      BY <3>7, <3>8 DEF Credit, Debit, Owed
    <3>10. Total(CountedSize', ObjectIds) = B - object[id].size
      <4>1. Total(CountedSize', ObjectIds)
              = B - CountedSize[id] + CountedSize'[id]
        BY <3>2, <3>4, ObjectShare DEF B
      <4>2. QED
        BY <1>0, <3>5, <3>6, <4>1
    <3>11. Marked(object[id].size)
      BY <1>0, <1>1, <1>10, <2>1, <3>5, <3>9, <3>10 DEF Marked
    <3>12. QED
      BY <3>5, <3>11 DEF Effect
  <2>4. QED
    BY <2>2, <2>3
<1>11. ASSUME NEW r \in Requests, SubtractFromVault(r)
       PROVE  \E s \in Nat : Effect(s)
  <2>1. /\ PlainAt(r) /\ pc[r] = "vaultSub" /\ pc'[r] = "audit"
        /\ UNCHANGED <<object, call, delta>>
        /\ vaultBytes' = Less(vaultBytes, delta[r])
    BY <1>11 DEF PlainInv, SubtractFromVault, Goto, TypeInv, TypeOK
  <2>2. delta[r] \in Nat
    BY <2>1 DEF PlainAt
  <2>3. /\ r \notin Adding /\ r \notin Adding' /\ r \notin Owing
        /\ r \notin Owing' /\ r \in Subtracting /\ r \notin Subtracting'
    BY <2>1 DEF Adding, Subtracting, Owing
  <2>4. /\ Credit[r] = 0 /\ Credit'[r] = 0 /\ Owed[r] = 0 /\ Owed'[r] = 0
        /\ Debit[r] = delta[r] /\ Debit'[r] = 0
    BY <2>3 DEF Credit, Debit, Owed
  <2>5. Subtracted(delta[r])
    BY <1>0, <1>1, <1>2, <1>11, <2>1, <2>2, <2>4 DEF Subtracted
  <2>6. QED
    BY <2>2, <2>5 DEF Effect
\* The TTL of an object is no part of the sums.
<1>12. ASSUME NEW id \in ObjectIds, Expire(id) PROVE Unmoved
  <2>1. /\ object[id] \in Row
        /\ object' = [object EXCEPT ![id].ttl = "expired"]
        /\ UNCHANGED <<vaultBytes, pc, call, delta>>
    BY <1>12 DEF Expire, locals, Exists, TypeInv, TypeOK
  <2> DEFINE row == [object[id] EXCEPT !.ttl = "expired"]
  <2>2. /\ row \in Row /\ row.size = object[id].size
        /\ row.status = object[id].status /\ row.deleted = object[id].deleted
    BY <2>1 DEF Row
  <2>3. /\ object'[id] = row
        /\ \A i \in ObjectIds \ {id} : object'[i] = object[i]
    BY <2>1 DEF TypeInv, TypeOK
  <2> HIDE DEF row
  <2>4. CountedSize'[id] = CountedSize[id]
    BY <2>1, <2>2, <2>3 DEF CountedSize, Counted, Live, Confirmed, Exists
  <2>5. Total(CountedSize', ObjectIds) = B
    <3>1. Total(CountedSize', ObjectIds)
            = B - CountedSize[id] + CountedSize'[id]
      BY <2>3, ObjectShare DEF B
    <3>2. QED
      BY <1>0, <2>4, <3>1
  <2>6. Credit' = Credit /\ Debit' = Debit /\ Owed' = Owed
    BY <2>1 DEF Credit, Debit, Owed, Adding, Subtracting, Owing
  <2>7. QED
    BY <1>0, <2>1, <2>5, <2>6 DEF Unmoved, C, D, O
<1>13. ASSUME UNCHANGED vars PROVE Unmoved
  <2>1. UNCHANGED <<object, vaultBytes, pc, call, delta>>
    BY <1>13 DEF vars
  <2>2. Credit' = Credit /\ Debit' = Debit /\ Owed' = Owed
    BY <2>1 DEF Credit, Debit, Owed, Adding, Subtracting, Owing
  <2>3. QED
    BY <1>0, <1>2, <2>1, <2>2 DEF Unmoved, C, D, O
<1>14. Unmoved => \E s \in Nat : Effect(s)
  BY DEF Effect
<1>15. QED
  BY <1>4, <1>6, <1>7, <1>8, <1>9, <1>10, <1>11, <1>12, <1>13, <1>14, PlainSteps

\* What is inductive about the bytes of the vault.
BytesInv == vaultBytes \in Nat /\ Covered

\* It holds of an empty store.
LEMMA BytesInit == Init => BytesInv
<1> SUFFICES ASSUME Init PROVE BytesInv
  OBVIOUS
<1>1. TypeInv
  BY TypeInit
<1>2. /\ vaultBytes = 0 /\ \A id \in ObjectIds : ~Exists(id)
      /\ \A r \in Requests : pc[r] = "idle"
  BY DEF Init, Exists
<1>3. /\ \A id \in ObjectIds : CountedSize[id] = 0
      /\ \A r \in Requests : Credit[r] = 0 /\ Debit[r] = 0
  BY <1>2 DEF CountedSize, Credit, Debit, Counted, Live, Adding, Subtracting
<1>4. IsFiniteSet(ObjectIds) /\ IsFiniteSet(Requests)
  BY ConstantsAssumption DEF ConstantsAssumption
<1>5. /\ Total(CountedSize, ObjectIds) = 0 /\ Total(Credit, Requests) = 0
      /\ Total(Debit, Requests) = 0
  BY <1>3, <1>4, TotalZero
<1>6. QED
  BY <1>2, <1>5 DEF BytesInv, Covered

\* Every effect keeps it.
LEMMA BytesStep ==
  ASSUME ~Faulty, WholeObjects, TypeInv, TypeInv', WinnerInv, PlainInv,
         BytesInv, [Next]_vars
  PROVE  BytesInv'
<1>1. PICK s \in Nat : Effect(s)
  BY Effects
<1>2. B \in Int /\ C \in Int /\ D \in Int /\ O \in Int
  BY SumTypes DEF B, C, D, O
<1>3. vaultBytes \in Nat /\ vaultBytes + C >= B + D
  BY DEF BytesInv, Covered, B, C, D
<1>4. vaultBytes' \in Nat
  BY <1>1, <1>3 DEF Effect, Unmoved, Admitted, Inserted, Added, Marked,
                    Subtracted, Less
<1>5. vaultBytes' + Total(Credit', Requests)
        >= Total(CountedSize', ObjectIds) + Total(Debit', Requests)
  <2>1. CASE Unmoved
    BY <1>2, <1>3, <2>1 DEF Unmoved
  <2>2. CASE Admitted(s)
    BY <1>2, <1>3, <2>2 DEF Admitted
  <2>3. CASE Inserted(s)
    BY <1>2, <1>3, <2>3 DEF Inserted
  <2>4. CASE Added(s)
    BY <1>2, <1>3, <2>4 DEF Added
  <2>5. CASE Marked(s)
    BY <1>2, <1>3, <2>5 DEF Marked
  <2>6. CASE Subtracted(s)
    <3>1. vaultBytes' >= vaultBytes - s
      BY <1>3, <2>6 DEF Subtracted, Less
    <3>2. QED
      BY <1>2, <1>3, <1>4, <2>6, <3>1 DEF Subtracted
  <2>7. QED
    BY <1>1, <2>1, <2>2, <2>3, <2>4, <2>5, <2>6 DEF Effect
<1>6. QED
  BY <1>4, <1>5, CoveredNext DEF BytesInv

\* So it always holds.
LEMMA BytesInvariant ==
  ASSUME ~Faulty, WholeObjects
  PROVE  Spec => [](TypeInv /\ WinnerInv /\ PlainInv /\ BytesInv)
<1>1. Init => PlainInv /\ BytesInv
  BY PlainInit, BytesInit
<1>2. TypeInv /\ TypeInv' /\ WinnerInv /\ PlainInv /\ BytesInv /\ [Next]_vars
        => PlainInv' /\ BytesInv'
  BY PlainStep, BytesStep
<1>3. QED
  BY WinnerInvariant, <1>1, <1>2, PTL DEF Spec

\* Among direct stores, reads and deletes, and without failed statements, the
\* bytes of the vault are never below the bytes of the objects it counts, once
\* the requests in flight are accounted for: the quota is never checked
\* against a figure that a clamped decrement has made too low.
THEOREM BytesNeverLow ==
  ASSUME ~Faulty, WholeObjects
  PROVE  Spec => []VaultBytesNeverLow
<1>1. TypeInv /\ BytesInv => VaultBytesNeverLow
  BY CoveredIsNeverLow DEF BytesInv
<1>2. QED
  BY BytesInvariant, <1>1, PTL

-----------------------------------------------------------------------------
(* The quota and the requests that pass it together. *)

\* MaxFitting is what its name says.
LEMMA MaxFittingBounds ==
  /\ MaxFitting \in Nat /\ MaxFitting <= PlanLimit
  /\ \A s \in Sizes : s <= PlanLimit => s <= MaxFitting
<1> USE ConstantsAssumption DEF ConstantsAssumption
<1> DEFINE Fitting == {s \in Sizes : s <= PlanLimit} \cup {0}
           Room == {PlanLimit - s : s \in Fitting}
<1>1. Room \subseteq Nat /\ Room # {} /\ Fitting \subseteq Nat
  <2>1. 0 \in Fitting /\ \A x \in Fitting : x \in Nat /\ x <= PlanLimit
    OBVIOUS
  <2> HIDE DEF Fitting
  <2>2. QED
    BY <2>1
<1>2. PICK m \in Room : \A n \in Room : <<n, m>> \notin OpToRel(<, Nat)
  BY <1>1, NatLessThanWellFounded, WFMin
<1>3. \A n \in Room : m <= n
  <2>1. \A n \in Room : ~(n < m)
    BY <1>1, <1>2 DEF OpToRel
  <2>2. QED
    BY <1>1, <2>1
<1>4. PICK x \in Fitting : m = PlanLimit - x
  OBVIOUS
<1>5. \A y \in Fitting : x >= y
  <2> TAKE y \in Fitting
  <2>1. PlanLimit - y \in Room
    OBVIOUS
  <2>2. m <= PlanLimit - y
    BY <1>3, <2>1
  <2> HIDE DEF Room
  <2>3. QED
    BY <1>1, <1>4, <2>2
<1> HIDE DEF Room
<1>6. MaxFitting = CHOOSE z \in Fitting : \A y \in Fitting : z >= y
  BY DEF MaxFitting, Max
<1>7. MaxFitting \in Fitting /\ \A y \in Fitting : MaxFitting >= y
  <2> HIDE DEF Fitting
  <2> QED
    BY <1>5, <1>6
<1>8. QED
  BY <1>7

\* The vault's bytes and what the requests past the quota check are about to
\* add stay within the limit and one fitting object for each other request.
QuotaInv ==
  /\ \A r \in Owing : call[r].size <= MaxFitting
  /\ vaultBytes + Total(Owed, Requests)
       <= PlanLimit + (Cardinality(Requests) - 1) * MaxFitting

\* Nothing is stored or owed at first.
LEMMA QuotaInit == Init => QuotaInv
<1> SUFFICES ASSUME Init PROVE QuotaInv
  OBVIOUS
<1>1. vaultBytes = 0 /\ Owing = {}
  BY DEF Init, Owing
<1>2. \A r \in Requests : Owed[r] = 0
  BY <1>1 DEF Owed
<1>3. IsFiniteSet(Requests) /\ Cardinality(Requests) \in Nat
  BY ConstantsAssumption, FS_CardinalityType DEF ConstantsAssumption
<1>4. Total(Owed, Requests) = 0
  BY <1>2, <1>3, TotalZero
<1>5. /\ MaxFitting \in Nat /\ MaxFitting <= PlanLimit /\ PlanLimit \in Nat
  BY MaxFittingBounds, ConstantsAssumption DEF ConstantsAssumption
<1>6. 0 <= PlanLimit + (Cardinality(Requests) - 1) * MaxFitting
  <2>1. /\ Cardinality(Requests) * MaxFitting \in Nat
        /\ (Cardinality(Requests) - 1) * MaxFitting
             = Cardinality(Requests) * MaxFitting - MaxFitting
    BY <1>3, <1>5
  <2>2. QED
    BY <1>5, <2>1
<1>7. QED
  BY <1>1, <1>4, <1>6 DEF QuotaInv

\* Each request that is let past the check sends an object that fits.
LEMMA OwingFits ==
  ASSUME ~Faulty, WholeObjects, PlanLimit > 0, TypeInv, PlainInv, BytesInv,
         QuotaInv, [Next]_vars
  PROVE  \A r \in Owing' : call'[r].size <= MaxFitting
<1> SUFFICES ASSUME NEW r \in Owing' PROVE call'[r].size <= MaxFitting
  OBVIOUS
<1>1. r \in Requests
  BY DEF Owing
<1>2. CASE r \in Owing /\ call'[r] = call[r]
  BY <1>2 DEF QuotaInv
<1>3. CASE pc'[r] = pc[r] /\ call'[r] = call[r]
  BY <1>1, <1>2, <1>3 DEF Owing
<1>4. ASSUME NEW q \in Requests,
             \/ StartStore(q) \/ StartKeyed(q)
             \/ CheckQuota(q) \/ PutNewBlob(q) \/ InsertConfirmed(q)
             \/ MarkDeleted(q) \/ AddToNamespace(q) \/ AddToVault(q)
             \/ SubtractFromNamespace(q) \/ SubtractFromVault(q)
             \/ FindObject(q) \/ GetBlob(q) \/ Audit(q), q # r
      PROVE  pc'[r] = pc[r] /\ call'[r] = call[r]
  BY <1>1, <1>4, OthersWait DEF Statement
<1>5. ASSUME CheckQuota(r) PROVE call'[r].size <= MaxFitting
  <2>1. PlainAt(r) /\ pc[r] = "quota" /\ pc'[r] # "idle"
    BY <1>1, <1>5 DEF PlainInv, CheckQuota, Owing
  <2>2. ~Reply(r, "quota")
    BY <1>1, <2>1 DEF Reply, TypeInv, TypeOK
  <2>3. ~OverQuota(call[r].size) /\ UNCHANGED call
    BY <1>5, <2>1, <2>2 DEF CheckQuota, PlainAt, StoreLabels
  <2>4. call[r].size \in Sizes /\ call[r].size \in Nat
    BY <2>1, ConstantsAssumption DEF ConstantsAssumption, PlainAt, StoreLabels
  <2>5. vaultBytes + call[r].size <= PlanLimit
    BY <2>3, <2>4, ConstantsAssumption
    DEF ConstantsAssumption, OverQuota, BytesInv
  <2>6. call[r].size <= PlanLimit
    BY <2>4, <2>5, ConstantsAssumption DEF ConstantsAssumption, BytesInv
  <2>7. QED
    BY <2>3, <2>4, <2>6, MaxFittingBounds
<1>6. ASSUME PutNewBlob(r) \/ InsertConfirmed(r) \/ AddToNamespace(r)
      PROVE  r \in Owing /\ call'[r] = call[r]
  <2>1. pc'[r] # "idle"
    BY DEF Owing
  <2>2. ~Reply(r, "insert")
    BY <1>1, <2>1 DEF Reply, TypeInv, TypeOK
  <2>3. QED
    BY <1>1, <1>6, <2>2 DEF PutNewBlob, InsertConfirmed, AddToNamespace, Goto, Owing
<1>7. ASSUME \/ StartStore(r) \/ StartKeyed(r) \/ MarkDeleted(r)
             \/ AddToVault(r) \/ SubtractFromNamespace(r)
             \/ SubtractFromVault(r) \/ FindObject(r) \/ GetBlob(r) \/ Audit(r)
      PROVE  FALSE
  BY <1>1, <1>7 DEF StartStore, StartKeyed, MarkDeleted, AddToVault,
    SubtractFromNamespace, SubtractFromVault, FindObject, GetBlob, Audit, Goto,
    Reply, Owing, TypeInv, TypeOK
<1>8. CASE UNCHANGED vars \/ \E id \in ObjectIds : Expire(id)
  BY <1>3, <1>8 DEF vars, Expire, locals
<1>9. QED
  BY <1>1, <1>2, <1>3, <1>4, <1>5, <1>6, <1>7, <1>8, PlainSteps

\* What the others owe when a request passes the check: at most one fitting
\* object each.
LEMMA OthersOwe ==
  ASSUME TypeInv, QuotaInv, NEW r \in Requests, Owed[r] = 0
  PROVE  Total(Owed, Requests) <= (Cardinality(Requests) - 1) * MaxFitting
<1>1. /\ IsFiniteSet(Requests \ {r})
      /\ Cardinality(Requests \ {r}) = Cardinality(Requests) - 1
      /\ IsFiniteSet(Requests)
  BY ConstantsAssumption, FS_RemoveElement DEF ConstantsAssumption
<1>2. MaxFitting \in Int
  BY MaxFittingBounds
<1>3. \A q \in Requests : Owed[q] \in Int
  BY SumTypes
<1>4. \A q \in Requests \ {r} : Owed[q] \in Int /\ Owed[q] <= MaxFitting
  BY <1>3, MaxFittingBounds DEF Owed, QuotaInv
<1>5. Total(Owed, Requests \ {r}) <= Cardinality(Requests \ {r}) * MaxFitting
  BY <1>1, <1>2, <1>4, TotalBound
<1>6. Total(Owed, Requests) = Owed[r] + Total(Owed, Requests \ {r})
  BY <1>1, <1>3, TotalRemove
<1>7. Total(Owed, Requests \ {r}) \in Int
  BY <1>1, <1>3, TotalType
<1>8. QED
  BY <1>1, <1>5, <1>6, <1>7

\* Every step keeps it: a request is let past the check while the figure it
\* reads, which is not too low, has room for its object.
LEMMA QuotaStep ==
  ASSUME ~Faulty, WholeObjects, PlanLimit > 0, TypeInv, TypeInv', WinnerInv,
         PlainInv, BytesInv, QuotaInv, [Next]_vars
  PROVE  QuotaInv'
<1>1. PICK s \in Nat : Effect(s)
  BY Effects
<1> DEFINE limit == PlanLimit + (Cardinality(Requests) - 1) * MaxFitting
           rest == (Cardinality(Requests) - 1) * MaxFitting
<1>2. /\ vaultBytes \in Nat /\ O \in Nat /\ PlanLimit \in Nat
      /\ rest \in Int /\ limit \in Int /\ limit = PlanLimit + rest
  <2>1. Cardinality(Requests) \in Nat /\ MaxFitting \in Nat /\ PlanLimit \in Nat
    BY MaxFittingBounds, ConstantsAssumption, FS_CardinalityType
    DEF ConstantsAssumption
  <2>2. vaultBytes \in Nat /\ O \in Nat
    BY SumTypes DEF BytesInv, O
  <2>3. QED
    BY <2>1, <2>2
<1>3. vaultBytes + O <= limit
  BY DEF QuotaInv, O
<1> HIDE DEF limit
<1>4. Total(Owed', Requests) \in Int
  <2>1. \A r \in Requests : Owed'[r] \in Int
    BY DEF Owed, Owing, TypeInv, LocalsOK, Call
  <2>2. QED
    BY <2>1, TotalType, ConstantsAssumption DEF ConstantsAssumption
<1>5. vaultBytes' + Total(Owed', Requests) <= limit
  <2>1. CASE Admitted(s)
    <3>1. O <= rest
      BY <2>1, OthersOwe DEF Admitted, O
    <3>2. vaultBytes + s <= PlanLimit
      BY <2>1 DEF Admitted
    <3> HIDE DEF rest
    <3>3. QED
      BY <1>2, <2>1, <3>1, <3>2 DEF Admitted
  <2>2. CASE Subtracted(s)
    <3>1. vaultBytes' \in Nat /\ vaultBytes' <= vaultBytes
      BY <1>2, <2>2 DEF Subtracted, Less
    <3> HIDE DEF rest
    <3>2. QED
      BY <1>2, <1>3, <2>2, <3>1 DEF Subtracted
  <2>3. CASE Unmoved
    <3> HIDE DEF rest
    <3> QED
      BY <1>2, <1>3, <1>4, <2>3 DEF Unmoved
  <2>4. CASE Inserted(s) \/ Added(s) \/ Marked(s)
    <3> HIDE DEF rest
    <3> QED
      BY <1>2, <1>3, <2>4 DEF Inserted, Added, Marked
  <2>5. QED
    BY <1>1, <2>1, <2>2, <2>3, <2>4 DEF Effect
<1>6. QED
  <2>1. \A r \in Owing' : call'[r].size <= MaxFitting
    BY OwingFits
  <2>2. QED
    BY <1>5, <2>1 DEF QuotaInv, limit, Total, MapThenSumSet, MapThenFoldSet,
                      MaxFitting

\* It bounds the bytes of the objects.
LEMMA QuotaHolds ==
  ASSUME TypeInv, PlainInv, BytesInv, QuotaInv
  PROVE  BytesOf(Counted)
           <= PlanLimit + (Cardinality(Requests) - 1) * MaxFitting
<1>1. BytesOf(Counted) = B
  BY BytesTotal DEF B
<1>2. IsFiniteSet(Requests)
  BY ConstantsAssumption DEF ConstantsAssumption
<1>3. C <= O
  <2>1. \A r \in Requests :
          Credit[r] \in Int /\ Owed[r] \in Int /\ Credit[r] <= Owed[r]
    <3> TAKE r \in Requests
    <3>1. Credit[r] \in Int /\ Owed[r] \in Nat /\ PlainAt(r)
      BY SumTypes DEF PlainInv
    <3>2. CASE r \in Adding
      BY <3>1, <3>2 DEF Adding, Owing, Credit, Owed, PlainAt
    <3>3. CASE r \notin Adding
      BY <3>1, <3>3 DEF Credit
    <3>4. QED
      BY <3>2, <3>3
  <2>2. QED
    BY <1>2, <2>1, TotalMonotone DEF C, O
<1>4. D \in Nat
  <2>1. \A r \in Requests : Debit[r] \in Nat
    BY DEF Debit, Subtracting, PlainInv, PlainAt
  <2>2. QED
    BY <1>2, <2>1, TotalNatural DEF D
<1>5. B \in Int /\ C \in Int /\ O \in Int /\ vaultBytes \in Int
  BY SumTypes DEF B, C, O, BytesInv
<1>6. vaultBytes + C >= B + D
  BY DEF BytesInv, Covered, B, C, D
<1> DEFINE limit == PlanLimit + (Cardinality(Requests) - 1) * MaxFitting
<1>7. vaultBytes + O <= limit
  BY DEF QuotaInv, O
<1>8. limit \in Int
  BY MaxFittingBounds, ConstantsAssumption, FS_CardinalityType
  DEF ConstantsAssumption
<1> HIDE DEF limit
<1>9. B <= limit
  BY <1>3, <1>4, <1>5, <1>6, <1>7, <1>8
<1>10. QED
  BY <1>1, <1>9 DEF limit

\* Among direct stores, reads and deletes, and without failed statements: the
\* quota check of a store and its increment are separate statements, so
\* stores that run at the same time pass the plan's limit together, but by no
\* more than one object that fits for each request besides the first.
THEOREM OvershootBounded ==
  ASSUME ~Faulty, WholeObjects
  PROVE  Spec => []QuotaOvershootBounded
<1>1. CASE PlanLimit > 0
  <2>1. TypeInv /\ TypeInv' /\ WinnerInv /\ PlainInv /\ BytesInv /\ QuotaInv
          /\ [Next]_vars => QuotaInv'
    BY <1>1, QuotaStep
  <2>2. TypeInv /\ PlainInv /\ BytesInv /\ QuotaInv => QuotaOvershootBounded
    BY QuotaHolds DEF QuotaOvershootBounded
  <2>3. QED
    BY BytesInvariant, QuotaInit, <2>1, <2>2, PTL DEF Spec
<1>2. CASE ~(PlanLimit > 0)
  <2>1. QuotaOvershootBounded
    BY <1>2 DEF QuotaOvershootBounded
  <2>2. QED
    BY <2>1, PTL
<1>3. QED
  BY <1>1, <1>2

-----------------------------------------------------------------------------
(* Direct stores, deletes and reads act like an atomic map. *)

\* The store as its clients see it.
shownBar == [p \in Namespaces \X Keys |-> ShownAt(p)]
stateBar == [r \in Requests |-> StateOf(r)]
askedBar == [r \in Requests |-> AskedBy(r)]
resultBar == [r \in Requests |-> ResultOf(r)]

\* What the bars must do for a step to be one of the abstract map: one lemma
\* for each action of it.
LEMMA MapInvoke ==
  ASSUME NEW r \in Requests, NEW a \in Client!Ask,
         stateBar[r] = "idle", stateBar' = [stateBar EXCEPT ![r] = "called"],
         askedBar' = [askedBar EXCEPT ![r] = a],
         UNCHANGED <<shownBar, resultBar>>
  PROVE  Client!Invoke(r)
  BY DEF Client!Invoke, Client!Becomes, shownBar, stateBar, askedBar, resultBar

LEMMA MapStore ==
  ASSUME NEW r \in Requests,
         stateBar[r] = "called", stateBar' = [stateBar EXCEPT ![r] = "applied"],
         askedBar[r].kind = "store", shownBar[askedBar[r].slot] = Null,
         shownBar' = [shownBar EXCEPT ![askedBar[r].slot] = askedBar[r].data],
         UNCHANGED <<askedBar, resultBar>>
  PROVE  Client!Store(r)
  BY DEF Client!Store, Client!Becomes, shownBar, stateBar, askedBar, resultBar

LEMMA MapDelete ==
  ASSUME NEW r \in Requests,
         stateBar[r] = "called", stateBar' = [stateBar EXCEPT ![r] = "applied"],
         askedBar[r].kind = "delete",
         shownBar' = [shownBar EXCEPT ![askedBar[r].slot] = Null],
         UNCHANGED <<askedBar, resultBar>>
  PROVE  Client!Delete(r)
  BY DEF Client!Delete, Client!Becomes, shownBar, stateBar, askedBar, resultBar

LEMMA MapRead ==
  ASSUME NEW r \in Requests,
         stateBar[r] = "called", stateBar' = [stateBar EXCEPT ![r] = "applied"],
         askedBar[r].kind = "read", shownBar[askedBar[r].slot] # Null,
         resultBar' = [resultBar EXCEPT ![r] = shownBar[askedBar[r].slot]],
         UNCHANGED <<shownBar, askedBar>>
  PROVE  Client!Read(r)
  BY DEF Client!Read, Client!Becomes, shownBar, stateBar, askedBar, resultBar

LEMMA MapRefuse ==
  ASSUME NEW r \in Requests,
         stateBar[r] = "called", stateBar' = [stateBar EXCEPT ![r] = "idle"],
         askedBar[r].kind # "store" => shownBar[askedBar[r].slot] = Null,
         askedBar' = [askedBar EXCEPT ![r] = Null],
         resultBar' = [resultBar EXCEPT ![r] = Null],
         UNCHANGED shownBar
  PROVE  Client!Refuse(r)
  BY DEF Client!Refuse, Client!Forget, Client!Becomes, shownBar, stateBar,
         askedBar, resultBar

LEMMA MapAnswer ==
  ASSUME NEW r \in Requests,
         stateBar[r] = "applied", stateBar' = [stateBar EXCEPT ![r] = "idle"],
         askedBar' = [askedBar EXCEPT ![r] = Null],
         resultBar' = [resultBar EXCEPT ![r] = Null],
         UNCHANGED shownBar
  PROVE  Client!Answer(r)
  BY DEF Client!Answer, Client!Forget, Client!Becomes, shownBar, stateBar,
         askedBar, resultBar

LEMMA MapLapse ==
  ASSUME NEW p \in Namespaces \X Keys, shownBar[p] # Null,
         shownBar' = [shownBar EXCEPT ![p] = Null],
         UNCHANGED <<stateBar, askedBar, resultBar>>
  PROVE  Client!Lapse(p)
  BY DEF Client!Lapse, shownBar, stateBar, askedBar, resultBar

\* Bars that stay are a step that stutters.
LEMMA MapStutter ==
  ASSUME UNCHANGED <<shownBar, stateBar, askedBar, resultBar>>
  PROVE  UNCHANGED Client!storeVars
  BY DEF Client!storeVars, shownBar, stateBar, askedBar, resultBar

\* Any of these is a step of the map.
LEMMA MapNext ==
  ASSUME \/ \E r \in Requests :
              \/ Client!Invoke(r) \/ Client!Store(r) \/ Client!Delete(r)
              \/ Client!Read(r) \/ Client!Refuse(r) \/ Client!Answer(r)
         \/ \E p \in Namespaces \X Keys : Client!Lapse(p)
         \/ UNCHANGED Client!storeVars
  PROVE  [Client!Next]_(Client!storeVars)
  BY DEF Client!Next

-----------------------------------------------------------------------------
(* What the mapping rests on. *)

\* Stores, deletes and retrievals of the REST handlers only.
RestObjects == Operations \subseteq {"direct", "delete", "retrieve"}

\* Requests of the REST handlers; they do not download.
RestInv ==
  \A r \in Requests :
    /\ pc[r] # "idle" => call[r].op \in {"direct", "delete", "retrieve"}
    /\ pc[r] # "get"

MapInv == TypeInv /\ WinnerInv /\ PlainInv /\ BlobInv /\ RestInv

\* What an idle request shows of itself.
LEMMA IdleBar ==
  ASSUME NEW r \in Requests, pc[r] = "idle"
  PROVE  StateOf(r) = "idle" /\ AskedBy(r) = Null /\ ResultOf(r) = Null
<1>1. StateOf(r) = "idle"
  BY DEF StateOf, Before
<1>2. AskedBy(r) = Null
  BY DEF AskedBy
<1>3. ResultOf(r) = Null
  BY DEF ResultOf
<1>4. QED
  BY <1>1, <1>2, <1>3

\* An empty store is an empty map.
LEMMA MapInit == Init => MapInv /\ Client!Init
<1> SUFFICES ASSUME Init PROVE MapInv /\ Client!Init
  OBVIOUS
<1>1. MapInv
  BY TypeInit, WinnerInit, PlainInit, BlobInit DEF MapInv, RestInv, Init
<1>2. \A p \in Namespaces \X Keys : ShownAt(p) = Null
  BY DEF Init, ShownAt, VisibleAt, LiveAt, Live, Exists
<1>3. ASSUME NEW r \in Requests
      PROVE  StateOf(r) = "idle" /\ AskedBy(r) = Null /\ ResultOf(r) = Null
  <2>1. pc[r] = "idle"
    BY DEF Init
  <2>2. QED
    BY <2>1, IdleBar
<1>4. QED
  BY <1>1, <1>2, <1>3 DEF Client!Init

\* Every step keeps what the requests of the REST handlers know.
LEMMA RestStep ==
  ASSUME ~Faulty, RestObjects, MapInv, [Next]_vars
  PROVE  RestInv'
<1>0. WholeObjects /\ TypeInv /\ PlainInv
  BY DEF RestObjects, WholeObjects, MapInv, Reads
<1> DEFINE RestAt(r) ==
      /\ pc'[r] # "idle" => call'[r].op \in {"direct", "delete", "retrieve"}
      /\ pc'[r] # "get"
<1>1. ASSUME NEW r \in Requests, pc'[r] = pc[r], call'[r] = call[r]
      PROVE  RestAt(r)
  BY <1>1 DEF MapInv, RestInv
<1>2. ASSUME NEW r \in Requests, Reply(r, pc[r]) PROVE RestAt(r)
  BY <1>0, <1>2 DEF Reply, TypeInv, TypeOK
<1>3. ASSUME NEW r \in Requests, StartStore(r) PROVE RestAt(r)
  <2>1. PICK op \in Operations, n \in Namespaces, k \in Keys, s \in Sizes :
          call' = [call EXCEPT ![r] = [op |-> op, ns |-> n, key |-> k, size |-> s]]
    BY <1>3 DEF StartStore
  <2>2. pc'[r] = "quota" /\ call'[r].op = op
    BY <1>0, <1>3, <2>1 DEF StartStore, Goto, TypeInv, TypeOK
  <2>3. QED
    BY <2>2 DEF RestObjects
<1>4. ASSUME NEW r \in Requests, StartKeyed(r) PROVE RestAt(r)
  <2>1. PICK op \in Operations, n \in Namespaces, k \in Keys :
          /\ Goto(r, "idle", IF op = "delete" THEN "mark" ELSE "find")
          /\ call' = [call EXCEPT ![r] = [op |-> op, ns |-> n, key |-> k, size |-> 0]]
    BY <1>4 DEF StartKeyed
  <2>2. pc'[r] \in {"mark", "find"} /\ call'[r].op = op
    BY <1>0, <2>1 DEF Goto, TypeInv, TypeOK
  <2>3. QED
    BY <2>2 DEF RestObjects
<1>5. ASSUME NEW r \in Requests, NEW from, NEW to, Goto(r, from, to),
             UNCHANGED call, from # "idle", to # "get"
      PROVE  RestAt(r)
  BY <1>0, <1>5 DEF Goto, MapInv, RestInv, TypeInv, TypeOK
<1>6. ASSUME NEW r \in Requests, CheckQuota(r) PROVE RestAt(r)
  <2>1. AfterQuota(call[r].op) # "get"
    BY DEF AfterQuota
  <2>2. QED
    BY <1>2, <1>5, <1>6, <2>1 DEF CheckQuota
<1>7. ASSUME NEW r \in Requests, FindObject(r) PROVE RestAt(r)
  <2>1. PlainAt(r) /\ pc[r] = "find"
    BY <1>0, <1>7 DEF PlainInv, FindObject
  <2>2. call[r].op = "retrieve"
    BY <2>1 DEF PlainAt, MapInv, RestInv, Reads
  <2>3. CASE Reply(r, "find")
    BY <1>2, <2>1, <2>3
  <2>4. CASE ~Reply(r, "find")
    <3>1. Goto(r, "find", "audit") /\ UNCHANGED call
      BY <1>7, <2>2, <2>4 DEF FindObject
    <3>2. QED
      BY <1>5, <3>1
  <2>5. QED
    BY <2>3, <2>4
<1>8. ASSUME NEW r \in Requests,
             \/ PutNewBlob(r) \/ AddToNamespace(r) \/ AddToVault(r)
             \/ SubtractFromNamespace(r) \/ SubtractFromVault(r)
      PROVE  RestAt(r)
  BY <1>5, <1>8 DEF PutNewBlob, AddToNamespace, AddToVault,
    SubtractFromNamespace, SubtractFromVault
<1>9. ASSUME NEW r \in Requests, InsertConfirmed(r) \/ MarkDeleted(r)
      PROVE  RestAt(r)
  BY <1>2, <1>5, <1>9 DEF InsertConfirmed, MarkDeleted
<1>10. ASSUME NEW r \in Requests, GetBlob(r) \/ Audit(r) PROVE RestAt(r)
  <2>1. ~GetBlob(r)
    BY DEF GetBlob, Goto, Reply, MapInv, RestInv
  <2>2. Reply(r, pc[r])
    BY <1>10, <2>1 DEF Audit, Reply
  <2>3. QED
    BY <1>2, <2>2
<1>11. ASSUME NEW r \in Requests,
              \/ StartStore(r) \/ StartKeyed(r)
              \/ CheckQuota(r) \/ PutNewBlob(r) \/ InsertConfirmed(r)
              \/ MarkDeleted(r) \/ AddToNamespace(r) \/ AddToVault(r)
              \/ SubtractFromNamespace(r) \/ SubtractFromVault(r)
              \/ FindObject(r) \/ GetBlob(r) \/ Audit(r)
       PROVE  \A q \in Requests : RestAt(q)
  <2>1. RestAt(r)
    BY <1>3, <1>4, <1>6, <1>7, <1>8, <1>9, <1>10, <1>11
  <2>2. \A q \in Requests \ {r} : pc'[q] = pc[q] /\ call'[q] = call[q]
    BY <1>0, <1>11, OthersWait DEF Statement
  <2>3. QED
    BY <1>1, <2>1, <2>2
<1>12. CASE UNCHANGED vars \/ \E id \in ObjectIds : Expire(id)
  <2>1. UNCHANGED <<pc, call>>
    BY <1>12 DEF vars, Expire, locals
  <2>2. QED
    BY <1>1, <2>1 DEF RestInv
<1>13. QED
  BY <1>0, <1>11, <1>12, PlainSteps DEF RestInv

\* Every step keeps the invariant the mapping needs.
LEMMA MapInvStep ==
  ASSUME ~Faulty, RestObjects, MapInv, [Next]_vars
  PROVE  MapInv'
<1>1. WholeObjects
  BY DEF RestObjects, WholeObjects, Reads
<1>2. QED
  BY <1>1, TypeStep, WinnerStep, PlainStep, BlobStep, RestStep DEF MapInv

\* What a reader is shown is the data of the one row that is visible.
ShownOK ==
  \A p \in Namespaces \X Keys :
    \A id \in VisibleAt(p[1], p[2]) : ShownAt(p) = blob[id] /\ blob[id] # Null

\* Readers are shown a blob that is there.
LEMMA ShownRow == MapInv => ShownOK
<1> SUFFICES ASSUME MapInv, NEW p \in Namespaces \X Keys,
                    NEW id \in VisibleAt(p[1], p[2])
             PROVE  ShownAt(p) = blob[id] /\ blob[id] # Null
  BY DEF ShownOK
<1>1. \A i \in VisibleAt(p[1], p[2]) : i = id
  <2>1. \A i \in VisibleAt(p[1], p[2]) :
          i \in ObjectIds /\ Live(i) /\ At(i, p[1], p[2])
    BY DEF VisibleAt, LiveAt
  <2>2. QED
    BY <2>1 DEF MapInv, WinnerInv, LiveKeyUnique, At
<1>2. (CHOOSE i \in VisibleAt(p[1], p[2]) : TRUE) = id
  <2>1. (CHOOSE i \in VisibleAt(p[1], p[2]) : TRUE) \in VisibleAt(p[1], p[2])
    OBVIOUS
  <2>2. QED
    BY <1>1, <2>1
<1>3. ShownAt(p) = blob[id]
  BY <1>2 DEF ShownAt
<1>4. blob[id] # Null
  BY DEF VisibleAt, LiveAt, Visible, MapInv, BlobInv, ConfirmedUnasked,
         PlainInv, PlainRows, Confirmed
<1>5. QED
  BY <1>3, <1>4

\* A row that is given to readers of key k in namespace n.
Shows(row, n, k) ==
  /\ row.ns = n /\ row.key = k
  /\ ~row.deleted /\ row.status = "confirmed" /\ row.ttl # "expired"

\* What is visible at a key once one row has changed.
LEMMA VisibleAfter ==
  ASSUME TypeInv, NEW i \in ObjectIds, NEW row \in Row,
         object' = [object EXCEPT ![i] = row], NEW p \in Namespaces \X Keys
  PROVE  VisibleAt(p[1], p[2])' = {id \in ObjectIds :
                                     \/ id = i /\ Shows(row, p[1], p[2])
                                     \/ id # i /\ id \in VisibleAt(p[1], p[2])}
  BY ConstantsAssumption DEF VisibleAt, LiveAt, Visible, Live, Confirmed,
    Exists, At, Shows, TypeInv, TypeOK

\* Which rows are visible at a key.
LEMMA VisibleWhen ==
  ASSUME NEW id \in ObjectIds, NEW n, NEW k, object[id] \in Row,
         Null \notin Row
  PROVE  id \in VisibleAt(n, k) <=> Shows(object[id], n, k)
  BY DEF VisibleAt, LiveAt, Visible, Live, Confirmed, Exists, At, Shows

\* Where no row is visible there is nothing to see.
LEMMA ShownEmpty ==
  ASSUME NEW p \in Namespaces \X Keys, VisibleAt(p[1], p[2]) = {}
  PROVE  ShownAt(p) = Null
  BY DEF ShownAt

\* Where the same rows are visible the same is seen: their blobs stay.
LEMMA ShownSame ==
  ASSUME ~Faulty, RestObjects, MapInv, [Next]_vars,
         NEW p \in Namespaces \X Keys,
         VisibleAt(p[1], p[2])' = VisibleAt(p[1], p[2])
  PROVE  ShownAt(p)' = ShownAt(p)
<1> DEFINE found == VisibleAt(p[1], p[2])
           id == CHOOSE i \in found : TRUE
<1>1. CASE found = {}
  BY <1>1 DEF ShownAt
<1>2. CASE found # {}
  <2>1. id \in found /\ id \in ObjectIds
    BY <1>2 DEF VisibleAt, LiveAt
  <2>2. blob[id] # Null
    BY <2>1, ShownRow DEF ShownOK
  <2>3. blob'[id] = blob[id]
    BY <2>1, <2>2, PlainBlobs DEF RestObjects, WholeObjects, Reads, MapInv
  <2>4. ShownAt(p) = blob[id] /\ ShownAt(p)' = blob'[id]
    BY <1>2 DEF ShownAt
  <2>5. QED
    BY <2>3, <2>4
<1>3. QED
  BY <1>1, <1>2

\* A request that does not move shows the same of itself.
LEMMA RequestSame ==
  ASSUME ~Faulty, RestObjects, MapInv, [Next]_vars, NEW q \in Requests,
         pc'[q] = pc[q], call'[q] = call[q], target'[q] = target[q]
  PROVE  /\ StateOf(q)' = StateOf(q) /\ AskedBy(q)' = AskedBy(q)
         /\ ResultOf(q)' = ResultOf(q)
<1>1. StateOf(q)' = StateOf(q) /\ AskedBy(q)' = AskedBy(q)
  BY DEF StateOf, AskedBy
<1>2. ASSUME pc[q] = "audit", call[q].op = "retrieve"
      PROVE  blob'[target[q]] = blob[target[q]]
  <2>1. Reading(q)
    BY <1>2 DEF Reading, Reads
  <2>2. target[q] \in ObjectIds /\ blob[target[q]] # Null
    BY <1>2, <2>1 DEF MapInv, BlobInv, ConfirmedUnasked, PlainInv, PlainRows,
                      TypeInv, LocalsOK, HasRow, Confirmed
  <2>3. QED
    BY <2>2, PlainBlobs DEF RestObjects, WholeObjects, Reads, MapInv
<1>3. ResultOf(q)' = ResultOf(q)
  BY <1>2 DEF ResultOf
<1>4. QED
  BY <1>1, <1>3

\* The bars after a step of request r.
LEMMA BarsAfter ==
  ASSUME ~Faulty, RestObjects, MapInv, [Next]_vars, NEW r \in Requests,
         \/ StartStore(r) \/ StartKeyed(r) \/ StartConfirm(r)
         \/ Statement(r) \/ Stop(r)
  PROVE  /\ stateBar' = [stateBar EXCEPT ![r] = StateOf(r)']
         /\ askedBar' = [askedBar EXCEPT ![r] = AskedBy(r)']
         /\ resultBar' = [resultBar EXCEPT ![r] = ResultOf(r)']
<1>1. \A q \in Requests \ {r} :
         /\ StateOf(q)' = StateOf(q) /\ AskedBy(q)' = AskedBy(q)
         /\ ResultOf(q)' = ResultOf(q)
  BY OthersWait, RequestSame DEF MapInv
<1>2. stateBar' = [stateBar EXCEPT ![r] = StateOf(r)']
  BY <1>1 DEF stateBar
<1>3. askedBar' = [askedBar EXCEPT ![r] = AskedBy(r)']
  BY <1>1 DEF askedBar
<1>4. resultBar' = [resultBar EXCEPT ![r] = ResultOf(r)']
  BY <1>1 DEF resultBar
<1>5. QED
  BY <1>2, <1>3, <1>4

\* The rows stay, so what readers are shown stays.
LEMMA ShownKept ==
  ASSUME ~Faulty, RestObjects, MapInv, [Next]_vars, UNCHANGED object
  PROVE  UNCHANGED shownBar
<1>1. ASSUME NEW p \in Namespaces \X Keys PROVE ShownAt(p)' = ShownAt(p)
  <2>1. VisibleAt(p[1], p[2])' = VisibleAt(p[1], p[2])
    BY DEF VisibleAt, LiveAt, Visible, Live, Confirmed, Exists, At
  <2>2. QED
    BY <2>1, ShownSame
<1>2. QED
  BY <1>1 DEF shownBar

\* A step after which the request shows what it showed before stutters.
LEMMA QuietRequest ==
  ASSUME ~Faulty, RestObjects, MapInv, [Next]_vars, NEW r \in Requests,
         Statement(r), UNCHANGED object,
         StateOf(r)' = StateOf(r), AskedBy(r)' = AskedBy(r),
         ResultOf(r)' = ResultOf(r)
  PROVE  UNCHANGED Client!storeVars
<1>1. UNCHANGED stateBar
  BY BarsAfter DEF stateBar
<1>2. UNCHANGED askedBar
  BY BarsAfter DEF askedBar
<1>3. UNCHANGED resultBar
  BY BarsAfter DEF resultBar
<1>4. QED
  BY <1>1, <1>2, <1>3, ShownKept, MapStutter

-----------------------------------------------------------------------------
(* One lemma for each kind of step. *)

\* A request that returns is idle.
LEMMA ReplyBars ==
  ASSUME TypeInv, NEW r \in Requests, NEW l, Reply(r, l)
  PROVE  StateOf(r)' = "idle" /\ AskedBy(r)' = Null /\ ResultOf(r)' = Null
<1>1. pc'[r] = "idle"
  BY DEF Reply, TypeInv, TypeOK
<1>2. StateOf(r)' = "idle"
  BY <1>1 DEF StateOf, Before
<1>3. AskedBy(r)' = Null
  BY <1>1 DEF AskedBy
<1>4. ResultOf(r)' = Null
  BY <1>1 DEF ResultOf
<1>5. QED
  BY <1>2, <1>3, <1>4

\* A request that has been called shows its arguments and no result.
LEMMA CalledBars ==
  ASSUME NEW r \in Requests, pc[r] \in Before
  PROVE  StateOf(r) = "called" /\ ResultOf(r) = Null
<1>1. StateOf(r) = "called"
  BY DEF StateOf, Before
<1>2. ResultOf(r) = Null
  BY DEF ResultOf, Before
<1>3. QED
  BY <1>1, <1>2

\* What a running request is for the map.
LEMMA AskedKind ==
  ASSUME NEW r \in Requests, pc[r] # "idle"
  PROVE  /\ AskedBy(r).slot = <<call[r].ns, call[r].key>>
         /\ call[r].op = "direct" =>
              AskedBy(r).kind = "store" /\ AskedBy(r).data = call[r].size
         /\ call[r].op = "delete" => AskedBy(r).kind = "delete"
         /\ call[r].op = "retrieve" => AskedBy(r).kind = "read"
<1> DEFINE slot == <<call[r].ns, call[r].key>>
<1>1. CASE call[r].op = "direct"
  <2>1. AskedBy(r) = [kind |-> "store", slot |-> slot, data |-> call[r].size]
    BY <1>1 DEF AskedBy
  <2>2. QED
    BY <1>1, <2>1
<1>2. CASE call[r].op = "delete"
  <2>1. AskedBy(r) = [kind |-> "delete", slot |-> slot]
    BY <1>2 DEF AskedBy
  <2>2. QED
    BY <1>2, <2>1
<1>3. CASE call[r].op # "direct" /\ call[r].op # "delete"
  <2>1. AskedBy(r) = [kind |-> "read", slot |-> slot]
    BY <1>3 DEF AskedBy
  <2>2. QED
    BY <1>3, <2>1
<1>4. QED
  BY <1>1, <1>2, <1>3

\* The slot of a request, as AskedBy gives it.
SlotOf(r) == <<call[r].ns, call[r].key>>

\* It is a slot of the map.
LEMMA SlotTyped ==
  ASSUME TypeInv, NEW r \in Requests, pc[r] # "idle"
  PROVE  SlotOf(r) \in Namespaces \X Keys
  BY DEF TypeInv, LocalsOK, Call, SlotOf

\* A store begins.
LEMMA InvokeStore ==
  ASSUME ~Faulty, RestObjects, MapInv, [Next]_vars, NEW r \in Requests,
         StartStore(r)
  PROVE  Client!Invoke(r)
<1>1. PICK op \in Operations \cap Stores, n \in Namespaces, k \in Keys,
           s \in Sizes :
        call' = [call EXCEPT ![r] = [op |-> op, ns |-> n, key |-> k, size |-> s]]
  BY DEF StartStore
<1> DEFINE c == [op |-> op, ns |-> n, key |-> k, size |-> s]
           a == [kind |-> "store", slot |-> <<n, k>>, data |-> s]
<1>2. pc[r] = "idle" /\ pc'[r] = "quota" /\ call'[r] = c /\ op = "direct"
  BY <1>1 DEF StartStore, Goto, Stores, RestObjects, MapInv, TypeInv, TypeOK
<1>3. a \in Client!Ask
  BY DEF Client!Ask
<1>4. AskedBy(r)' = a
  BY <1>2 DEF AskedBy
<1>5. StateOf(r)' = "called" /\ ResultOf(r)' = Null
  BY <1>2 DEF StateOf, ResultOf, Before
<1>6. StateOf(r) = "idle" /\ ResultOf(r) = Null
  BY <1>2, IdleBar
<1>7. UNCHANGED shownBar
  BY ShownKept DEF StartStore, tables
<1> HIDE DEF a
<1>8. /\ stateBar' = [stateBar EXCEPT ![r] = "called"]
      /\ askedBar' = [askedBar EXCEPT ![r] = a]
      /\ resultBar' = [resultBar EXCEPT ![r] = Null]
  BY <1>4, <1>5, BarsAfter
<1>9. UNCHANGED resultBar /\ stateBar[r] = "idle"
  BY <1>6, <1>8 DEF resultBar, stateBar
<1>10. QED
  BY <1>3, <1>7, <1>8, <1>9, MapInvoke

\* A read or a delete begins.
LEMMA InvokeKeyed ==
  ASSUME ~Faulty, RestObjects, MapInv, [Next]_vars, NEW r \in Requests,
         StartKeyed(r)
  PROVE  Client!Invoke(r)
<1>1. PICK op \in Operations \cap (Reads \cup {"delete"}), n \in Namespaces,
           k \in Keys :
        /\ Goto(r, "idle", IF op = "delete" THEN "mark" ELSE "find")
        /\ call' = [call EXCEPT ![r] = [op |-> op, ns |-> n, key |-> k, size |-> 0]]
  BY DEF StartKeyed
<1> DEFINE c == [op |-> op, ns |-> n, key |-> k, size |-> 0]
           a == [kind |-> IF op = "delete" THEN "delete" ELSE "read",
                 slot |-> <<n, k>>]
<1>2. pc[r] = "idle" /\ pc'[r] \in {"mark", "find"} /\ call'[r] = c
  BY <1>1 DEF Goto, MapInv, TypeInv, TypeOK
<1>3. op \in {"retrieve", "delete"}
  BY DEF Reads, RestObjects
<1>4. a \in Client!Ask
  BY DEF Client!Ask
<1>5. AskedBy(r)' = a
  BY <1>2, <1>3 DEF AskedBy
<1>6. StateOf(r)' = "called" /\ ResultOf(r)' = Null
  BY <1>2 DEF StateOf, ResultOf, Before
<1>7. StateOf(r) = "idle" /\ ResultOf(r) = Null
  BY <1>2, IdleBar
<1>8. UNCHANGED shownBar
  BY ShownKept DEF StartKeyed, tables
<1> HIDE DEF a
<1>9. /\ stateBar' = [stateBar EXCEPT ![r] = "called"]
      /\ askedBar' = [askedBar EXCEPT ![r] = a]
      /\ resultBar' = [resultBar EXCEPT ![r] = Null]
  BY <1>5, <1>6, BarsAfter
<1>10. UNCHANGED resultBar /\ stateBar[r] = "idle"
  BY <1>7, <1>9 DEF resultBar, stateBar
<1>11. QED
  BY <1>4, <1>8, <1>9, <1>10, MapInvoke

\* A request is answered with an error before it has had an effect: only a
\* store may be refused while there is something to see at its key.
LEMMA RefusedStep ==
  ASSUME ~Faulty, RestObjects, MapInv, [Next]_vars, NEW r \in Requests,
         Statement(r), pc[r] \in Before, Reply(r, pc[r]), UNCHANGED object,
         call[r].op = "direct" \/ VisibleAt(call[r].ns, call[r].key) = {}
  PROVE  Client!Refuse(r)
<1>0. TypeInv /\ pc[r] # "idle"
  BY DEF MapInv, Before
<1>1. StateOf(r)' = "idle" /\ AskedBy(r)' = Null /\ ResultOf(r)' = Null
  BY <1>0, ReplyBars
<1>2. stateBar[r] = "called"
  BY CalledBars DEF stateBar
<1>3. /\ stateBar' = [stateBar EXCEPT ![r] = "idle"]
      /\ askedBar' = [askedBar EXCEPT ![r] = Null]
      /\ resultBar' = [resultBar EXCEPT ![r] = Null]
  BY <1>1, BarsAfter
<1>4. UNCHANGED shownBar
  BY ShownKept
<1>5. askedBar[r].kind # "store" => shownBar[askedBar[r].slot] = Null
  <2>1. askedBar[r] = AskedBy(r)
    BY DEF askedBar
  <2>2. SUFFICES ASSUME AskedBy(r).kind # "store"
                 PROVE  shownBar[AskedBy(r).slot] = Null
    BY <2>1
  <2>3. AskedBy(r).slot = SlotOf(r) /\ VisibleAt(call[r].ns, call[r].key) = {}
    BY <1>0, <2>2, AskedKind DEF SlotOf
  <2>4. VisibleAt(SlotOf(r)[1], SlotOf(r)[2]) = {}
    BY <2>3 DEF SlotOf
  <2>5. SlotOf(r) \in Namespaces \X Keys
    BY <1>0, SlotTyped
  <2>6. ShownAt(SlotOf(r)) = Null
    BY <2>4, <2>5, ShownEmpty
  <2>7. QED
    BY <2>3, <2>5, <2>6 DEF shownBar
<1>6. QED
  BY <1>2, <1>3, <1>4, <1>5, MapRefuse

\* The quota check turns a store away, or shows nothing.
LEMMA QuotaStepMaps ==
  ASSUME ~Faulty, RestObjects, MapInv, [Next]_vars, NEW r \in Requests,
         CheckQuota(r)
  PROVE  Client!Refuse(r) \/ UNCHANGED Client!storeVars
<1>1. pc[r] = "quota" /\ call[r].op = "direct" /\ UNCHANGED object
  BY DEF CheckQuota, tables, MapInv, PlainInv, PlainAt, StoreLabels
<1>2. CASE Reply(r, "quota")
  BY <1>1, <1>2, RefusedStep DEF Before, Statement
<1>3. CASE Goto(r, "quota", AfterQuota(call[r].op)) /\ UNCHANGED call
  <2>1. pc'[r] = "put" /\ call'[r] = call[r]
    BY <1>1, <1>3 DEF Goto, AfterQuota, MapInv, TypeInv, TypeOK
  <2>2. StateOf(r)' = StateOf(r)
    BY <1>1, <2>1 DEF StateOf, Before
  <2>3. AskedBy(r)' = AskedBy(r)
    BY <1>1, <2>1 DEF AskedBy
  <2>4. ResultOf(r)' = ResultOf(r)
    BY <1>1, <2>1 DEF ResultOf
  <2>5. QED
    BY <1>1, <2>2, <2>3, <2>4, QuietRequest DEF Statement
<1>4. QED
  BY <1>2, <1>3 DEF CheckQuota

\* A blob without a row shows nothing.
LEMMA PutStepMaps ==
  ASSUME ~Faulty, RestObjects, MapInv, [Next]_vars, NEW r \in Requests,
         PutNewBlob(r)
  PROVE  UNCHANGED Client!storeVars
<1>1. /\ pc[r] = "put" /\ pc'[r] = "insert" /\ call'[r] = call[r]
      /\ UNCHANGED object
  BY DEF PutNewBlob, Goto, tables, MapInv, TypeInv, TypeOK
<1>2. StateOf(r)' = StateOf(r)
  BY <1>1 DEF StateOf, Before
<1>3. AskedBy(r)' = AskedBy(r)
  BY <1>1 DEF AskedBy
<1>4. ResultOf(r)' = ResultOf(r)
  BY <1>1 DEF ResultOf
<1>5. QED
  BY <1>1, <1>2, <1>3, <1>4, QuietRequest DEF Statement

\* Counters show nothing.
LEMMA CounterStepMaps ==
  ASSUME ~Faulty, RestObjects, MapInv, [Next]_vars, NEW r \in Requests,
         \/ AddToNamespace(r) \/ AddToVault(r)
         \/ SubtractFromNamespace(r) \/ SubtractFromVault(r)
  PROVE  UNCHANGED Client!storeVars
<1>1. /\ pc[r] \in {"nsAdd", "vaultAdd", "nsSub", "vaultSub"}
      /\ pc'[r] \in {"vaultAdd", "vaultSub", "audit"}
      /\ call'[r] = call[r] /\ UNCHANGED object
  BY DEF AddToNamespace, AddToVault, SubtractFromNamespace,
         SubtractFromVault, Goto, MapInv, TypeInv, TypeOK
<1>2. call[r].op # "retrieve"
  BY <1>1 DEF MapInv, PlainInv, PlainAt, StoreLabels, DeleteLabels
<1>3. StateOf(r)' = StateOf(r)
  BY <1>1 DEF StateOf, Before
<1>4. AskedBy(r)' = AskedBy(r)
  BY <1>1 DEF AskedBy
<1>5. ResultOf(r)' = ResultOf(r)
  BY <1>1, <1>2 DEF ResultOf
<1>6. QED
  BY <1>1, <1>3, <1>4, <1>5, QuietRequest DEF Statement

\* The lookup of a read is the instant at which it takes effect.
LEMMA FindStepMaps ==
  ASSUME ~Faulty, RestObjects, MapInv, [Next]_vars, NEW r \in Requests,
         FindObject(r)
  PROVE  Client!Refuse(r) \/ Client!Read(r)
<1>1. pc[r] = "find" /\ call[r].op = "retrieve" /\ UNCHANGED <<object, blob>>
  BY DEF FindObject, tables, MapInv, PlainInv, PlainAt, RestInv, Reads
<1> DEFINE found == VisibleAt(call[r].ns, call[r].key)
<1>2. CASE found = {}
  BY <1>1, <1>2, RefusedStep DEF Before, Statement, FindObject
<1>3. CASE found # {}
  <2>1. PICK id \in found : /\ Goto(r, "find", "audit")
                            /\ target' = [target EXCEPT ![r] = id]
                            /\ UNCHANGED call
    <3>1. \A id \in found : ~AnsweredByUrl(r, id)
      BY <1>1 DEF AnsweredByUrl
    <3>2. QED
      BY <1>1, <1>3, <3>1 DEF FindObject
  <2>2. /\ pc'[r] = "audit" /\ call'[r] = call[r] /\ target'[r] = id
    BY <2>1 DEF Goto, MapInv, TypeInv, TypeOK
  <2>3. SlotOf(r) \in Namespaces \X Keys
    BY <1>1, SlotTyped DEF MapInv
  <2>4. ShownAt(SlotOf(r)) = blob[id] /\ blob[id] # Null
    BY <2>3, ShownRow DEF ShownOK, SlotOf
  <2>5. StateOf(r)' = "applied"
    BY <2>2 DEF StateOf, Before
  <2>6. AskedBy(r)' = AskedBy(r)
    BY <1>1, <2>2 DEF AskedBy
  <2>7. ResultOf(r)' = blob[id]
    BY <1>1, <2>2 DEF ResultOf
  <2>8. stateBar[r] = "called"
    BY <1>1, CalledBars DEF stateBar, Before
  <2>9. askedBar[r].kind = "read" /\ askedBar[r].slot = SlotOf(r)
    BY <1>1, AskedKind DEF askedBar, SlotOf
  <2>10. shownBar[askedBar[r].slot] = blob[id]
    BY <2>3, <2>4, <2>9 DEF shownBar
  <2>11. /\ stateBar' = [stateBar EXCEPT ![r] = "applied"]
         /\ askedBar' = [askedBar EXCEPT ![r] = AskedBy(r)]
         /\ resultBar' = [resultBar EXCEPT ![r] = blob[id]]
    BY <2>5, <2>6, <2>7, BarsAfter DEF Statement
  <2>12. UNCHANGED askedBar
    BY <2>11 DEF askedBar
  <2>13. UNCHANGED shownBar
    BY <1>1, ShownKept
  <2>14. QED
    BY <2>4, <2>8, <2>9, <2>10, <2>11, <2>12, <2>13, MapRead
<1>4. QED
  BY <1>2, <1>3

\* The answer comes after the audit.
LEMMA AuditStepMaps ==
  ASSUME ~Faulty, RestObjects, MapInv, [Next]_vars, NEW r \in Requests,
         Audit(r)
  PROVE  Client!Answer(r)
<1>1. pc[r] = "audit" /\ UNCHANGED object
  BY DEF Audit, Reply
<1>2. StateOf(r)' = "idle" /\ AskedBy(r)' = Null /\ ResultOf(r)' = Null
  BY ReplyBars DEF Audit, MapInv
<1>3. stateBar[r] = "applied"
  BY <1>1 DEF stateBar, StateOf, Before
<1>4. /\ stateBar' = [stateBar EXCEPT ![r] = "idle"]
      /\ askedBar' = [askedBar EXCEPT ![r] = Null]
      /\ resultBar' = [resultBar EXCEPT ![r] = Null]
  BY <1>2, BarsAfter DEF Statement
<1>5. UNCHANGED shownBar
  BY <1>1, ShownKept
<1>6. QED
  BY <1>3, <1>4, <1>5, MapAnswer

\* What readers are shown once row i has changed to row: at the key of the row
\* its blob if it is visible there, elsewhere what they were shown.
LEMMA ShownAfter ==
  ASSUME ~Faulty, RestObjects, MapInv, [Next]_vars,
         NEW i \in ObjectIds, NEW row \in Row,
         object' = [object EXCEPT ![i] = row],
         Exists(i) => object[i].ns = row.ns /\ object[i].key = row.key,
         NEW p \in Namespaces \X Keys
  PROVE  /\ p # <<row.ns, row.key>> => ShownAt(p)' = ShownAt(p)
         /\ p = <<row.ns, row.key>> /\ VisibleAt(p[1], p[2]) \subseteq {i} =>
              ShownAt(p)' = IF Shows(row, p[1], p[2]) THEN blob'[i] ELSE Null
<1> USE ConstantsAssumption
<1>1. VisibleAt(p[1], p[2])' = {id \in ObjectIds :
                                  \/ id = i /\ Shows(row, p[1], p[2])
                                  \/ id # i /\ id \in VisibleAt(p[1], p[2])}
  BY VisibleAfter DEF MapInv
<1>2. ASSUME p # <<row.ns, row.key>> PROVE ShownAt(p)' = ShownAt(p)
  <2>1. ~Shows(row, p[1], p[2])
    BY <1>2 DEF Shows
  <2>2. i \notin VisibleAt(p[1], p[2])
    BY <1>2 DEF VisibleAt, LiveAt, Visible, Live, At
  <2>3. VisibleAt(p[1], p[2])' = VisibleAt(p[1], p[2])
    BY <1>1, <2>1, <2>2 DEF VisibleAt, LiveAt
  <2>4. QED
    BY <2>3, ShownSame
<1>3. ASSUME VisibleAt(p[1], p[2]) \subseteq {i}
      PROVE  ShownAt(p)' = IF Shows(row, p[1], p[2]) THEN blob'[i] ELSE Null
  <2>1. CASE Shows(row, p[1], p[2])
    <3>1. VisibleAt(p[1], p[2])' = {i}
      BY <1>1, <1>3, <2>1
    <3>2. (CHOOSE id \in {i} : TRUE) = i
      OBVIOUS
    <3>3. ShownAt(p)' = blob'[CHOOSE id \in {i} : TRUE]
      BY <3>1 DEF ShownAt
    <3>4. QED
      BY <2>1, <3>2, <3>3
  <2>2. CASE ~Shows(row, p[1], p[2])
    <3>1. VisibleAt(p[1], p[2])' = {}
      BY <1>1, <1>3, <2>2
    <3>2. QED
      BY <2>2, <3>1 DEF ShownAt
  <2>3. QED
    BY <2>1, <2>2
<1>4. QED
  BY <1>2, <1>3

\* The insert is the instant at which a store takes effect.
LEMMA InsertStepMaps ==
  ASSUME ~Faulty, RestObjects, MapInv, [Next]_vars, NEW r \in Requests,
         InsertConfirmed(r)
  PROVE  Client!Refuse(r) \/ Client!Store(r)
<1> USE ConstantsAssumption
<1>1. /\ pc[r] = "insert" /\ call[r].op = "direct" /\ target[r] \in ObjectIds
      /\ blob[target[r]] = call[r].size /\ object[target[r]] = Null
      /\ UNCHANGED blob
  BY DEF InsertConfirmed, MapInv, PlainInv, PlainAt, StoreLabels, TypeInv,
         LocalsOK, WinnerInv, FreshOK
<1>2. CASE LiveAt(call[r].ns, call[r].key) # {}
  BY <1>1, <1>2, RefusedStep DEF InsertConfirmed, Before, Statement
<1>3. CASE LiveAt(call[r].ns, call[r].key) = {}
  <2>1. PICK t \in Ttls :
          object' = [object EXCEPT ![target[r]] = NewRow(r, "confirmed", t)]
    BY <1>3 DEF InsertConfirmed
  <2> DEFINE row == NewRow(r, "confirmed", t)
  <2>a. PICK slot \in Namespaces \X Keys : slot = SlotOf(r)
    BY <1>1, SlotTyped DEF MapInv
  <2>2. row \in Row
    BY <1>1, NewRowTyped DEF MapInv
  <2>3. /\ slot = <<row.ns, row.key>>
        /\ slot[1] = call[r].ns /\ slot[2] = call[r].key
    BY <2>a DEF SlotOf, NewRow
  <2>4. Shows(row, slot[1], slot[2])
    BY <2>3 DEF Shows, NewRow
  <2>5. VisibleAt(slot[1], slot[2]) = {}
    BY <1>3, <2>3 DEF VisibleAt
  <2>6. ~Exists(target[r])
    BY <1>1 DEF Exists
  <2> HIDE DEF row
  <2>7. object' = [object EXCEPT ![target[r]] = row]
    BY <2>1 DEF row
  <2>8. \A p \in Namespaces \X Keys : p # slot => ShownAt(p)' = ShownAt(p)
    BY <1>1, <2>2, <2>3, <2>6, <2>7, ShownAfter
  <2>9. ShownAt(slot)' = blob'[target[r]]
    BY <1>1, <2>2, <2>3, <2>4, <2>5, <2>6, <2>7, ShownAfter
  <2>10. ShownAt(slot) = Null
    BY <2>3, <2>5, ShownEmpty
  <2>11. shownBar' = [shownBar EXCEPT ![slot] = call[r].size]
    BY <1>1, <2>3, <2>8, <2>9 DEF shownBar
  <2>12. shownBar[slot] = Null
    BY <2>3, <2>10 DEF shownBar
  <2>13. pc'[r] = "nsAdd" /\ call'[r] = call[r]
    BY <1>3 DEF InsertConfirmed, Goto, MapInv, TypeInv, TypeOK
  <2>14. StateOf(r)' = "applied"
    BY <2>13 DEF StateOf, Before
  <2>15. AskedBy(r)' = AskedBy(r)
    BY <1>1, <2>13 DEF AskedBy
  <2>16. ResultOf(r)' = ResultOf(r)
    BY <1>1, <2>13 DEF ResultOf
  <2>17. stateBar' = [stateBar EXCEPT ![r] = "applied"]
    BY <2>14, BarsAfter DEF Statement
  <2>18. UNCHANGED askedBar
    BY <2>15, BarsAfter DEF Statement, askedBar
  <2>19. UNCHANGED resultBar
    BY <2>16, BarsAfter DEF Statement, resultBar
  <2>20. stateBar[r] = "called"
    BY <1>1, CalledBars DEF stateBar, Before
  <2>21. /\ askedBar[r].kind = "store" /\ askedBar[r].slot = slot
         /\ askedBar[r].data = call[r].size
    BY <1>1, <2>a, AskedKind DEF askedBar, SlotOf
  <2>22. QED
    BY <2>11, <2>12, <2>17, <2>18, <2>19, <2>20, <2>21, MapStore
<1>4. QED
  BY <1>2, <1>3

\* A live row is the only one that can be visible at its key.
LEMMA OneLive ==
  ASSUME MapInv, NEW n, NEW k, NEW id \in LiveAt(n, k)
  PROVE  /\ id \in ObjectIds /\ object[id] \in Row
         /\ object[id].ns = n /\ object[id].key = k
         /\ VisibleAt(n, k) \subseteq {id}
<1>1. /\ id \in ObjectIds /\ object[id] \in Row
      /\ object[id].ns = n /\ object[id].key = k
  BY DEF LiveAt, Live, Exists, At, MapInv, TypeInv, TypeOK
<1>2. ASSUME NEW i \in VisibleAt(n, k) PROVE i = id
  BY <1>1 DEF VisibleAt, LiveAt, At, MapInv, WinnerInv, LiveKeyUnique
<1>3. QED
  BY <1>1, <1>2

\* Marking the row is the instant at which a delete takes effect.
LEMMA MarkStepMaps ==
  ASSUME ~Faulty, RestObjects, MapInv, [Next]_vars, NEW r \in Requests,
         MarkDeleted(r)
  PROVE  Client!Refuse(r) \/ Client!Delete(r)
<1> USE ConstantsAssumption
<1>1. pc[r] = "mark" /\ call[r].op = "delete"
  BY DEF MarkDeleted, MapInv, PlainInv, PlainAt, DeleteLabels
<1>2. CASE LiveAt(call[r].ns, call[r].key) = {}
  <2>1. VisibleAt(call[r].ns, call[r].key) = {}
    BY <1>2 DEF VisibleAt
  <2>2. QED
    BY <1>1, <1>2, <2>1, RefusedStep DEF MarkDeleted, Deletable, Before,
                                         Statement
<1>3. CASE LiveAt(call[r].ns, call[r].key) # {}
  <2>1. PICK id \in LiveAt(call[r].ns, call[r].key) :
          /\ object' = [object EXCEPT ![id].deleted = TRUE]
          /\ Goto(r, "mark", "nsSub") /\ UNCHANGED call
    BY <1>3 DEF MarkDeleted, Deletable
  <2> DEFINE row == [object[id] EXCEPT !.deleted = TRUE]
  <2>5. PICK slot \in Namespaces \X Keys : slot = SlotOf(r)
    BY <1>1, SlotTyped DEF MapInv
  <2>2. /\ id \in ObjectIds /\ object[id] \in Row
        /\ object[id].ns = call[r].ns /\ object[id].key = call[r].key
        /\ VisibleAt(call[r].ns, call[r].key) \subseteq {id}
    BY OneLive
  <2>3. /\ row \in Row /\ row.deleted
        /\ row.ns = call[r].ns /\ row.key = call[r].key
    BY <2>2 DEF Row
  <2>4. object' = [object EXCEPT ![id] = row]
    BY <2>1
  <2>6. /\ slot = <<row.ns, row.key>>
        /\ slot[1] = call[r].ns /\ slot[2] = call[r].key
    BY <2>3, <2>5 DEF SlotOf
  <2>b. VisibleAt(slot[1], slot[2]) \subseteq {id}
    BY <2>2, <2>6
  <2>c. /\ object[id].ns = row.ns /\ object[id].key = row.key
        /\ slot = <<row.ns, row.key>> /\ row \in Row /\ id \in ObjectIds
    BY <2>2, <2>3, <2>6
  <2> HIDE DEF row
  <2>7. ~Shows(row, slot[1], slot[2])
    BY <2>3 DEF Shows
  <2>8. \A p \in Namespaces \X Keys : p # slot => ShownAt(p)' = ShownAt(p)
    BY <2>4, <2>c, ShownAfter
  <2>9. ShownAt(slot)' = Null
    BY <2>4, <2>7, <2>b, <2>c, ShownAfter
  <2>10. shownBar' = [shownBar EXCEPT ![slot] = Null]
    BY <2>5, <2>8, <2>9 DEF shownBar
  <2>11. pc'[r] = "nsSub" /\ call'[r] = call[r]
    BY <2>1 DEF Goto, MapInv, TypeInv, TypeOK
  <2>12. StateOf(r)' = "applied"
    BY <2>11 DEF StateOf, Before
  <2>13. AskedBy(r)' = AskedBy(r)
    BY <1>1, <2>11 DEF AskedBy
  <2>14. ResultOf(r)' = ResultOf(r)
    BY <1>1, <2>11 DEF ResultOf
  <2>15. stateBar' = [stateBar EXCEPT ![r] = "applied"]
    BY <2>12, BarsAfter DEF Statement
  <2>16. UNCHANGED askedBar
    BY <2>13, BarsAfter DEF Statement, askedBar
  <2>17. UNCHANGED resultBar
    BY <2>14, BarsAfter DEF Statement, resultBar
  <2>18. stateBar[r] = "called"
    BY <1>1, CalledBars DEF stateBar, Before
  <2>19. askedBar[r].kind = "delete" /\ askedBar[r].slot = slot
    BY <1>1, <2>5, AskedKind DEF askedBar, SlotOf
  <2>20. QED
    BY <2>10, <2>15, <2>16, <2>17, <2>18, <2>19, MapDelete
<1>4. QED
  BY <1>2, <1>3

\* Expiry empties the key of a live row, and does nothing to a deleted one.
LEMMA ExpireMaps ==
  ASSUME ~Faulty, RestObjects, MapInv, [Next]_vars, NEW id \in ObjectIds,
         Expire(id)
  PROVE  \/ \E p \in Namespaces \X Keys : Client!Lapse(p)
         \/ UNCHANGED Client!storeVars
<1> USE ConstantsAssumption
<1> DEFINE row == [object[id] EXCEPT !.ttl = "expired"]
<1>1. object[id] \in Row /\ object[id].ttl = "running" /\ Exists(id)
  BY DEF Expire, Exists, MapInv, TypeInv, TypeOK
<1>2. row \in Row /\ row.ns = object[id].ns /\ row.key = object[id].key
  BY <1>1 DEF Row
<1>3. row.ttl = "expired"
  BY <1>1 DEF Row
<1>4. PICK slot \in Namespaces \X Keys : slot = <<object[id].ns, object[id].key>>
  BY <1>1 DEF Row
<1>5. ~Shows(row, slot[1], slot[2])
  BY <1>3 DEF Shows
<1>6. object' = [object EXCEPT ![id] = row]
  BY DEF Expire
<1>7. UNCHANGED <<stateBar, askedBar, resultBar>>
  <2>1. \A q \in Requests :
           /\ StateOf(q)' = StateOf(q) /\ AskedBy(q)' = AskedBy(q)
           /\ ResultOf(q)' = ResultOf(q)
    BY RequestSame DEF Expire, locals
  <2>2. UNCHANGED stateBar
    BY <2>1 DEF stateBar
  <2>3. UNCHANGED askedBar
    BY <2>1 DEF askedBar
  <2>4. UNCHANGED resultBar
    BY <2>1 DEF resultBar
  <2>5. QED
    BY <2>2, <2>3, <2>4
<1>8. CASE Live(id)
  <2>1. id \in LiveAt(slot[1], slot[2]) /\ Shows(object[id], slot[1], slot[2])
    BY <1>1, <1>4, <1>8 DEF LiveAt, At, Shows, Live, MapInv, PlainInv, PlainRows,
                      Confirmed
  <2>2. VisibleAt(slot[1], slot[2]) \subseteq {id}
    BY <2>1, OneLive
  <2>3. id \in VisibleAt(slot[1], slot[2])
    BY <1>1, <2>1, VisibleWhen
  <2>a. slot = <<row.ns, row.key>>
    BY <1>2, <1>4
  <2> HIDE DEF row
  <2>4. \A p \in Namespaces \X Keys : p # slot => ShownAt(p)' = ShownAt(p)
    BY <1>1, <1>2, <1>6, <2>a, ShownAfter
  <2>5. ShownAt(slot)' = Null
    BY <1>2, <1>5, <1>6, <2>2, <2>a, ShownAfter
  <2>6. ShownAt(slot) # Null
    BY <1>4, <2>3, ShownRow DEF ShownOK
  <2>7. shownBar' = [shownBar EXCEPT ![slot] = Null]
    BY <1>4, <2>4, <2>5 DEF shownBar
  <2>8. shownBar[slot] # Null
    BY <1>4, <2>6 DEF shownBar
  <2>9. QED
    BY <1>4, <1>7, <2>7, <2>8, MapLapse
<1>9. CASE ~Live(id)
  <2>1. \A p \in Namespaces \X Keys :
          VisibleAt(p[1], p[2])' = VisibleAt(p[1], p[2])
    <3>1. SUFFICES ASSUME NEW p \in Namespaces \X Keys
                   PROVE  VisibleAt(p[1], p[2])' = VisibleAt(p[1], p[2])
      OBVIOUS
    <3>2. id \notin VisibleAt(p[1], p[2])
      BY <1>9 DEF VisibleAt, LiveAt
    <3>3. ~Shows(row, p[1], p[2])
      BY <1>3 DEF Shows
    <3> HIDE DEF row
    <3>4. VisibleAt(p[1], p[2])' = {i \in ObjectIds :
                                      \/ i = id /\ Shows(row, p[1], p[2])
                                      \/ i # id /\ i \in VisibleAt(p[1], p[2])}
      BY <1>2, <1>6, VisibleAfter DEF MapInv
    <3>5. QED
      BY <3>2, <3>3, <3>4 DEF VisibleAt, LiveAt
  <2>2. \A p \in Namespaces \X Keys : ShownAt(p)' = ShownAt(p)
    BY <2>1, ShownSame
  <2>3. UNCHANGED shownBar
    BY <2>2 DEF shownBar
  <2>4. QED
    BY <1>7, <2>3, MapStutter
<1>10. QED
  BY <1>8, <1>9

\* Every step is one of the map or stutters.
LEMMA MapStep ==
  ASSUME ~Faulty, RestObjects, MapInv, [Next]_vars
  PROVE  [Client!Next]_(Client!storeVars)
<1>1. WholeObjects /\ TypeInv /\ PlainInv
  BY DEF RestObjects, WholeObjects, Reads, MapInv
<1>2. ASSUME NEW r \in Requests,
             \/ StartStore(r) \/ StartKeyed(r)
             \/ CheckQuota(r) \/ PutNewBlob(r) \/ InsertConfirmed(r)
             \/ MarkDeleted(r) \/ AddToNamespace(r) \/ AddToVault(r)
             \/ SubtractFromNamespace(r) \/ SubtractFromVault(r)
             \/ FindObject(r) \/ GetBlob(r) \/ Audit(r)
      PROVE  \/ Client!Invoke(r) \/ Client!Store(r) \/ Client!Delete(r)
             \/ Client!Read(r) \/ Client!Refuse(r) \/ Client!Answer(r)
             \/ UNCHANGED Client!storeVars
  <2>1. ~GetBlob(r)
    BY DEF GetBlob, Goto, Reply, MapInv, RestInv
  <2>2. QED
    BY <1>2, <2>1, InvokeStore, InvokeKeyed, QuotaStepMaps, PutStepMaps,
       InsertStepMaps, MarkStepMaps, CounterStepMaps, FindStepMaps,
       AuditStepMaps
<1>3. CASE UNCHANGED vars
  <2>1. /\ UNCHANGED object
        /\ \A q \in Requests :
             /\ StateOf(q)' = StateOf(q) /\ AskedBy(q)' = AskedBy(q)
             /\ ResultOf(q)' = ResultOf(q)
    BY <1>3, RequestSame DEF vars
  <2>2. UNCHANGED stateBar
    BY <2>1 DEF stateBar
  <2>3. UNCHANGED askedBar
    BY <2>1 DEF askedBar
  <2>4. UNCHANGED resultBar
    BY <2>1 DEF resultBar
  <2>5. QED
    BY <2>1, <2>2, <2>3, <2>4, ShownKept, MapStutter
<1>4. QED
  BY <1>1, <1>2, <1>3, ExpireMaps, PlainSteps, MapNext

\* Among the direct stores, deletes and retrievals of the REST handlers, and
\* without failed statements, the object store implements an atomic map from
\* keys to data (VaultStore): however the statements of concurrent requests
\* interleave, each request that is answered with success takes effect at one
\* instant between its call and its answer, and a read or a delete is refused
\* only if there is nothing to see at its key at some such instant.
THEOREM ObjectsActLikeAMap ==
  ASSUME ~Faulty, RestObjects
  PROVE  Spec => ActsLikeAMap
<1>1. Init => MapInv /\ Client!Init
  BY MapInit
<1>2. MapInv /\ [Next]_vars => MapInv' /\ [Client!Next]_(Client!storeVars)
  BY MapInvStep, MapStep
<1>3. QED
  BY <1>1, <1>2, PTL DEF Spec, ActsLikeAMap, Client!Spec

-----------------------------------------------------------------------------
(* Totals of a table. *)

\* The total of a column over some rows of a table, when a row changes, when
\* none of those rows does, and when some of them are taken out.
LEMMA SizesType ==
  ASSUME NEW rows, NEW S, IsFiniteSet(S), \A id \in S : rows[id].size \in Nat
  PROVE  SizesOf(rows, S) \in Nat
<1> DEFINE f == [id \in S |-> rows[id].size]
<1>1. \A id \in S : f[id] = rows[id].size /\ f[id] \in Nat
  OBVIOUS
<1> HIDE DEF f
<1>2. SizesOf(rows, S) = Total(f, S)
  BY <1>1, SizesTotal
<1>3. QED
  BY <1>1, <1>2, TotalNatural

\* Rows that keep their sizes add up to what they did.
LEMMA SizesKept ==
  ASSUME NEW rows, NEW rows2, NEW S, IsFiniteSet(S),
         \A id \in S : rows2[id].size = rows[id].size
  PROVE  SizesOf(rows2, S) = SizesOf(rows, S)
<1> DEFINE f == [id \in S |-> rows[id].size]
<1>1. \A id \in S : f[id] = rows[id].size /\ f[id] = rows2[id].size
  OBVIOUS
<1> HIDE DEF f
<1>2. SizesOf(rows, S) = Total(f, S)
  BY <1>1, SizesTotal
<1>3. SizesOf(rows2, S) = Total(f, S)
  BY <1>1, SizesTotal
<1>4. QED
  BY <1>2, <1>3

\* Some of the rows and the others add up to all of them.
LEMMA SizesSplit ==
  ASSUME NEW rows, NEW S, IsFiniteSet(S), \A id \in S : rows[id].size \in Nat,
         NEW T \in SUBSET S
  PROVE  /\ SizesOf(rows, S) = SizesOf(rows, T) + SizesOf(rows, S \ T)
         /\ Cardinality(S) = Cardinality(T) + Cardinality(S \ T)
         /\ SizesOf(rows, T) \in Nat /\ SizesOf(rows, S \ T) \in Nat
         /\ Cardinality(T) \in Nat /\ Cardinality(S \ T) \in Nat
<1> DEFINE f == [id \in S |-> rows[id].size]
<1>1. \A id \in S : f[id] = rows[id].size /\ f[id] \in Int
  OBVIOUS
<1> HIDE DEF f
<1>2. IsFiniteSet(T) /\ IsFiniteSet(S \ T)
  BY FS_Subset, FS_Difference
<1>3. SizesOf(rows, S) = Total(f, S)
  BY <1>1, SizesTotal
<1>4. SizesOf(rows, T) = Total(f, T)
  BY <1>1, <1>2, SizesTotal
<1>5. SizesOf(rows, S \ T) = Total(f, S \ T)
  BY <1>1, <1>2, SizesTotal
<1>6. Total(f, S) = Total(f, T) + Total(f, S \ T)
  BY <1>1, TotalSplit
<1>7. SizesOf(rows, T) \in Nat /\ SizesOf(rows, S \ T) \in Nat
  BY <1>2, SizesType
<1>8. Cardinality(S) = Cardinality(T) + Cardinality(S \ T)
  <2>1. S \cap T = T
    OBVIOUS
  <2>2. Cardinality(S \ T) = Cardinality(S) - Cardinality(T)
    BY <2>1, FS_Difference
  <2>3. Cardinality(S) \in Nat /\ Cardinality(T) \in Nat
    BY <1>2, FS_CardinalityType
  <2>4. QED
    BY <2>2, <2>3
<1>9. Cardinality(T) \in Nat /\ Cardinality(S \ T) \in Nat
  BY <1>2, FS_CardinalityType
<1>10. QED
  BY <1>3, <1>4, <1>5, <1>6, <1>7, <1>8, <1>9

\* The share of one row in a total.
LEMMA SizesShare ==
  ASSUME NEW rows, NEW S, IsFiniteSet(S), \A id \in S : rows[id].size \in Nat,
         NEW id
  PROVE  /\ SizesOf(rows, S) = SizesOf(rows, S \ {id})
                                 + (IF id \in S THEN rows[id].size ELSE 0)
         /\ Cardinality(S) = Cardinality(S \ {id}) + (IF id \in S THEN 1 ELSE 0)
         /\ SizesOf(rows, S \ {id}) \in Nat
         /\ Cardinality(S \ {id}) \in Nat
<1>1. CASE id \in S
  <2> DEFINE f == [i \in S |-> rows[i].size]
  <2>1. \A i \in S : f[i] = rows[i].size /\ f[i] \in Int
    OBVIOUS
  <2> HIDE DEF f
  <2>2. SizesOf(rows, S) = Total(f, S)
    BY <2>1, SizesTotal
  <2>3. IsFiniteSet(S \ {id})
    BY FS_Subset
  <2>4. SizesOf(rows, S \ {id}) = Total(f, S \ {id})
    BY <2>1, <2>3, SizesTotal
  <2>5. Total(f, S) = f[id] + Total(f, S \ {id})
    BY <1>1, <2>1, TotalRemove
  <2>6. SizesOf(rows, S \ {id}) \in Nat
    BY <2>3, SizesType
  <2>7. f[id] = rows[id].size /\ f[id] \in Int
    BY <1>1, <2>1
  <2>8. SizesOf(rows, S) = SizesOf(rows, S \ {id}) + rows[id].size
    BY <2>2, <2>4, <2>5, <2>6, <2>7
  <2>9. /\ Cardinality(S) = Cardinality(S \ {id}) + 1
        /\ Cardinality(S \ {id}) \in Nat
    <3>1. Cardinality(S \ {id}) = Cardinality(S) - 1
      BY <1>1, FS_RemoveElement
    <3>2. Cardinality(S) \in Nat /\ Cardinality(S \ {id}) \in Nat
      BY <2>3, FS_CardinalityType
    <3>3. QED
      BY <3>1, <3>2
  <2>10. QED
    BY <1>1, <2>6, <2>8, <2>9
<1>2. CASE id \notin S
  <2>1. S \ {id} = S
    BY <1>2
  <2>2. SizesOf(rows, S) \in Nat /\ Cardinality(S) \in Nat
    BY SizesType, FS_CardinalityType
  <2>3. SizesOf(rows, S \ {id}) = SizesOf(rows, S)
    BY <2>1, Zenon
  <2>4. Cardinality(S \ {id}) = Cardinality(S)
    BY <2>1, Zenon
  <2>5. QED
    BY <1>2, <2>2, <2>3, <2>4
<1>3. QED
  BY <1>1, <1>2

\* Two tables and sets of rows differ in row id alone: so do their totals.
Shift(rows, S, rows2, S2, id) ==
  /\ SizesOf(rows2, S2) - (IF id \in S2 THEN rows2[id].size ELSE 0)
       = SizesOf(rows, S) - (IF id \in S THEN rows[id].size ELSE 0)
  /\ Cardinality(S2) - (IF id \in S2 THEN 1 ELSE 0)
       = Cardinality(S) - (IF id \in S THEN 1 ELSE 0)

\* So it is with any two finite sets of rows.
LEMMA SizesChange ==
  ASSUME NEW rows, NEW rows2, NEW S, NEW S2, NEW id,
         IsFiniteSet(S), IsFiniteSet(S2), S2 \ {id} = S \ {id},
         \A i \in S : rows[i].size \in Nat, \A i \in S2 : rows2[i].size \in Nat,
         \A i \in S \ {id} : rows2[i].size = rows[i].size
  PROVE  Shift(rows, S, rows2, S2, id)
<1>1. SizesOf(rows2, S2 \ {id}) = SizesOf(rows2, S \ {id})
  BY Zenon
<1>2. SizesOf(rows2, S \ {id}) = SizesOf(rows, S \ {id})
  <2>1. IsFiniteSet(S \ {id})
    BY FS_Subset
  <2>2. QED
    BY <2>1, SizesKept
<1>3. Cardinality(S2 \ {id}) = Cardinality(S \ {id})
  BY Zenon
<1>4. /\ SizesOf(rows, S) = SizesOf(rows, S \ {id})
                              + (IF id \in S THEN rows[id].size ELSE 0)
      /\ Cardinality(S) = Cardinality(S \ {id}) + (IF id \in S THEN 1 ELSE 0)
      /\ SizesOf(rows, S \ {id}) \in Nat
      /\ Cardinality(S \ {id}) \in Nat
  BY SizesShare
<1>5. /\ SizesOf(rows2, S2) = SizesOf(rows2, S2 \ {id})
                                + (IF id \in S2 THEN rows2[id].size ELSE 0)
      /\ Cardinality(S2) = Cardinality(S2 \ {id}) + (IF id \in S2 THEN 1 ELSE 0)
      /\ SizesOf(rows2, S2 \ {id}) \in Nat
      /\ Cardinality(S2 \ {id}) \in Nat
  BY SizesShare
<1>6. (id \in S => rows[id].size \in Nat) /\ (id \in S2 => rows2[id].size \in Nat)
  OBVIOUS
<1>7. QED
  BY <1>1, <1>2, <1>3, <1>4, <1>5, <1>6 DEF Shift

-----------------------------------------------------------------------------
(* Namespaces that are deleted (NamespaceDrop). *)

\* All variables of NamespaceDrop.
dropAll == <<vars, dropVars>>

\* A request whose statement finds its namespace gone.
StrandedStep(r) ==
  Stranded(r) /\ Reply(r, pc[r]) /\ UNCHANGED <<tables, blob, dropVars>>

\* A step is one of the object store, the end of a request whose namespace
\* is gone, or the deletion of a namespace.
LEMMA DropSteps ==
  ASSUME [DropNext]_dropAll
  PROVE  \/ [Next]_vars /\ UNCHANGED dropVars
         \/ \E r \in Requests : StrandedStep(r)
         \/ \E n \in Namespaces : DropNamespace(n)
<1>1. CASE DropNext
  BY <1>1 DEF DropNext, Begin, Proceed, StrandedStep, Next
<1>2. CASE UNCHANGED dropAll
  BY <1>2 DEF dropAll
<1>3. QED
  BY <1>1, <1>2

\* Marking the rows of a namespace keeps the table one of rows.
LEMMA RowsMarked ==
  ASSUME TypeInv, NEW n \in Namespaces, object' = RowsWithout(n)
  PROVE  /\ object' \in [ObjectIds -> Row \cup {Null}] /\ RowsKept
         /\ \A id \in ObjectIds :
              /\ object[id] = Null <=> object'[id] = Null
              /\ Exists(id) =>
                   /\ object'[id].ns = object[id].ns
                   /\ object'[id].key = object[id].key
                   /\ object'[id].size = object[id].size
                   /\ object'[id].status = object[id].status
                   /\ object'[id].url = object[id].url
                   /\ object'[id].deleted = (object[id].deleted \/ object[id].ns = n)
<1> USE ConstantsAssumption
<1>1. \A row \in Row :
        LET gone == [row EXCEPT !.deleted = TRUE]
        IN  /\ gone \in Row /\ gone.ns = row.ns /\ gone.key = row.key
            /\ gone.size = row.size /\ gone.status = row.status
            /\ gone.url = row.url /\ gone.deleted = TRUE
  BY DEF Row
<1>2. ASSUME NEW id \in ObjectIds
      PROVE  /\ object'[id] \in Row \cup {Null}
             /\ object[id] = Null <=> object'[id] = Null
             /\ Exists(id) =>
                  /\ object'[id].ns = object[id].ns
                  /\ object'[id].key = object[id].key
                  /\ object'[id].size = object[id].size
                  /\ object'[id].status = object[id].status
                  /\ object'[id].url = object[id].url
                  /\ object'[id].deleted = (object[id].deleted \/ object[id].ns = n)
  <2>1. CASE Exists(id) /\ object[id].ns = n
    <3>1. object[id] \in Row /\ object'[id] = [object[id] EXCEPT !.deleted = TRUE]
      BY <2>1 DEF RowsWithout, Exists, TypeInv, TypeOK
    <3>2. QED
      BY <1>1, <2>1, <3>1 DEF Exists
  <2>2. CASE ~(Exists(id) /\ object[id].ns = n)
    <3>1. object'[id] = object[id] /\ object[id] \in Row \cup {Null}
      BY <2>2 DEF RowsWithout, TypeInv, TypeOK
    <3>2. Exists(id) => object[id].deleted \in BOOLEAN
      BY <3>1 DEF Exists, Row
    <3>3. QED
      BY <2>2, <3>1, <3>2
  <2>3. QED
    BY <2>1, <2>2
<1>3. object' = [id \in ObjectIds |-> object'[id]]
  BY DEF RowsWithout
<1>4. QED
  BY <1>2, <1>3 DEF RowsKept, Exists

\* What was counted stays so, but for the objects of the namespace.
LEMMA CountedAfterDrop ==
  ASSUME TypeInv, NEW n \in Namespaces, object' = RowsWithout(n)
  PROVE  /\ Counted' = Counted \ CountedIn(n)
         /\ \A m : m # n => CountedIn(m)' = CountedIn(m)
<1> USE ConstantsAssumption
<1>1. ASSUME NEW id \in ObjectIds
      PROVE  id \in Counted' <=> id \in Counted /\ object[id].ns # n
  BY RowsMarked DEF Counted, Live, Confirmed, Exists
<1>2. Counted' = Counted \ CountedIn(n)
  BY <1>1 DEF Counted, CountedIn
<1>3. ASSUME NEW m, m # n PROVE CountedIn(m)' = CountedIn(m)
  <2>1. \A id \in ObjectIds : Exists(id) => object'[id].ns = object[id].ns
    BY RowsMarked
  <2>2. Counted \subseteq {id \in ObjectIds : Exists(id)}
    BY DEF Counted, Live
  <2>3. CountedIn(m)' = {id \in Counted' : object'[id].ns = m}
    BY DEF CountedIn
  <2>4. QED
    BY <1>2, <1>3, <2>1, <2>2, <2>3 DEF CountedIn
<1>4. QED
  BY <1>2, <1>3

\* What is counted are finite sets of rows with sizes.
LEMMA CountedSets ==
  ASSUME TypeInv
  PROVE  /\ IsFiniteSet(Counted) /\ \A n : IsFiniteSet(CountedIn(n))
         /\ \A id \in Counted : object[id].size \in Nat
         /\ \A n : CountedIn(n) \in SUBSET Counted
<1>1. IsFiniteSet(Counted) /\ \A n : CountedIn(n) \in SUBSET Counted
  BY CountsFinite DEF CountedIn
<1>2. \A n : IsFiniteSet(CountedIn(n))
  BY <1>1, FS_Subset
<1>3. \A id \in Counted : object[id].size \in Nat
  BY DEF Counted, Live, Exists, TypeInv, TypeOK, Row
<1>4. QED
  BY <1>1, <1>2, <1>3

\* BytesOf is SizesOf of the table as it is, before a step and after it.
LEMMA BytesAreSizes ==
  /\ BytesOf(Counted) = SizesOf(object, Counted)
  /\ BytesOf(Counted)' = SizesOf(object', Counted')
  /\ \A n : BytesOf(CountedIn(n)) = SizesOf(object, CountedIn(n))
  /\ \A n : BytesOf(CountedIn(n))' = SizesOf(object', CountedIn(n)')
<1>1. BytesOf(Counted) = SizesOf(object, Counted)
  BY DEF BytesOf, SizesOf, MapThenSumSet, MapThenFoldSet
<1>2. BytesOf(Counted)' = SizesOf(object', Counted')
  BY DEF BytesOf, SizesOf, MapThenSumSet, MapThenFoldSet
<1>3. ASSUME NEW n PROVE BytesOf(CountedIn(n)) = SizesOf(object, CountedIn(n))
  BY DEF BytesOf, SizesOf, MapThenSumSet, MapThenFoldSet
<1>4. ASSUME NEW n PROVE BytesOf(CountedIn(n))' = SizesOf(object', CountedIn(n)')
  BY DEF BytesOf, SizesOf, MapThenSumSet, MapThenFoldSet
<1>5. QED
  BY <1>1, <1>2, <1>3, <1>4

\* Typing, one winner for each row, and what the history variables hold.
DropInv ==
  /\ TypeInv /\ WinnerInv
  /\ lost.bytes \in Nat /\ lost.count \in Nat

\* It holds of an empty store.
LEMMA DropInvInit == DropInit => DropInv
  BY TypeInit, WinnerInit DEF DropInit, DropInv

\* Every step keeps it, the deletion of a namespace too.
LEMMA DropInvStep == DropInv /\ [DropNext]_dropAll => DropInv'
<1> SUFFICES ASSUME DropInv, [DropNext]_dropAll PROVE DropInv'
  OBVIOUS
<1> USE ConstantsAssumption
<1>1. CASE [Next]_vars /\ UNCHANGED dropVars
  BY <1>1, TypeStep, WinnerStep DEF DropInv, dropVars
<1>2. ASSUME NEW r \in Requests, StrandedStep(r) PROVE DropInv'
  <2>1. UNCHANGED object /\ UNCHANGED <<blob, lost>>
    BY <1>2 DEF StrandedStep, tables, dropVars
  <2>2. RowsKept
    BY <2>1 DEF RowsKept, Exists
  <2>3. TypeInv'
    BY <1>2, <2>1, <2>2, ReplyTyped
    DEF StrandedStep, tables, DropInv, TypeInv, TypeOK
  <2>4. WinnerInv'
    BY <1>2, <2>1, WinnerQuiet DEF StrandedStep, Reply, DropInv, TypeInv, TypeOK
  <2>5. QED
    BY <2>1, <2>3, <2>4 DEF DropInv
<1>3. ASSUME NEW n \in Namespaces, DropNamespace(n) PROVE DropInv'
  <2>1. /\ object' = RowsWithout(n)
        /\ UNCHANGED <<blob, vaultBytes, vaultCount, nsBytes, nsCount, audit,
                       pc, call, target, delta>>
    BY <1>3 DEF DropNamespace, locals
  <2>2. /\ object' \in [ObjectIds -> Row \cup {Null}] /\ RowsKept
        /\ \A id \in ObjectIds :
             /\ object[id] = Null <=> object'[id] = Null
             /\ Exists(id) =>
                  /\ object'[id].ns = object[id].ns
                  /\ object'[id].key = object[id].key
                  /\ object'[id].status = object[id].status
                  /\ object'[id].deleted = (object[id].deleted \/ object[id].ns = n)
    BY <2>1, RowsMarked DEF DropInv
  <2>3. TypeInv'
    <3>1. TypeOK'
      BY <2>1, <2>2 DEF DropInv, TypeInv, TypeOK
    <3>2. LocalsOK'
      BY <2>1, <2>2 DEF DropInv, TypeInv, TypeOK, LocalsOK, RowsKept, HasRow
    <3>3. QED
      BY <3>1, <3>2 DEF TypeInv
  <2>4. FreshOK'
    BY <2>1, <2>2 DEF DropInv, WinnerInv, FreshOK, TypeInv, LocalsOK
  <2>5. NoDoubleCredit'
    BY <2>1, <2>2 DEF DropInv, WinnerInv, NoDoubleCredit, Adding, Confirmed,
      Exists, TypeInv, LocalsOK, HasRow
  <2>6. NoDoubleRelease'
    BY <2>1, <2>2 DEF DropInv, WinnerInv, NoDoubleRelease, Subtracting,
      Exists, TypeInv, LocalsOK, HasRow
  <2>7. LiveKeyUnique'
    <3>1. SUFFICES ASSUME NEW i \in ObjectIds, NEW j \in ObjectIds,
                          Live(i)', Live(j)',
                          object'[i].ns = object'[j].ns,
                          object'[i].key = object'[j].key
                   PROVE  i = j
      BY DEF LiveKeyUnique, At
    <3>2. Live(i) /\ Live(j) /\ At(i, object[j].ns, object[j].key)
      BY <2>2, <3>1 DEF Live, Exists, At
    <3>3. QED
      BY <3>2 DEF DropInv, WinnerInv, LiveKeyUnique
  <2>8. lost'.bytes \in Nat /\ lost'.count \in Nat
    <3>1. BytesOf(CountedIn(n)) \in Nat
      <4>1. \A id \in CountedIn(n) : object[id].size \in Nat
        BY CountedSets DEF DropInv
      <4>2. QED
        BY <4>1, CountedSets, SizesType, BytesAreSizes DEF DropInv
    <3>2. Cardinality(CountedIn(n)) \in Nat
      BY CountedSets, FS_CardinalityType DEF DropInv
    <3>3. QED
      BY <1>3, <3>1, <3>2 DEF DropNamespace, DropInv
  <2>9. QED
    BY <2>3, <2>4, <2>5, <2>6, <2>7, <2>8 DEF DropInv, WinnerInv
<1>4. QED
  BY <1>1, <1>2, <1>3, DropSteps

-----------------------------------------------------------------------------
(* One request at a time. *)

\* Operations that write a whole object, and the labels of their steps.
StoreOps == {"direct", "mcpStore"}
StoreSteps == {"quota", "lookup", "put", "insert", "update", "nsAdd",
               "vaultAdd", "nsDiff", "vaultDiff"}

\* Labels after the row of a store is written and before the counters are.
Counting == {"nsAdd", "vaultAdd", "nsDiff", "vaultDiff"}

\* The store of request r has left its object.
Stored(r) ==
  /\ target[r] \in Counted /\ object[target[r]].ns = call[r].ns
  /\ object[target[r]].size = call[r].size
  /\ blob[target[r]] = call[r].size

\* A request has found a live row of its key, and by how much it will grow.
Found(r) ==
  /\ target[r] \in LiveAt(call[r].ns, call[r].key)
  /\ delta[r] = call[r].size - object[target[r]].size

\* What the request knows at its labels when it is the only one.
SerialAt(r) ==
  /\ pc[r] \notin {"insertPending", "confirm"}
  /\ pc[r] \in StoreSteps => call[r].op \in StoreOps
  /\ pc[r] \in DeleteLabels => call[r].op = "delete"
  /\ pc[r] \in {"find", "get"} => call[r].op \in Reads
  /\ pc[r] = "insert" => blob[target[r]] = call[r].size
  /\ ~Dropped(r) =>
       /\ pc[r] \in {"put", "update"} /\ target[r] # Null => Found(r)
       /\ pc[r] = "update" => blob[target[r]] = call[r].size
       /\ pc[r] \in Counting \/ (pc[r] = "audit" /\ call[r].op \in StoreOps) =>
            Stored(r)

\* It is inductive as long as there is one request, and nothing is presigned.
SerialInv == PlainRows /\ \A r \in Requests : SerialAt(r)

\* It holds of an empty store.
LEMMA SerialInit == DropInit => SerialInv
  BY DEF DropInit, Init, SerialInv, SerialAt, PlainRows, Exists, StoreSteps,
         DeleteLabels, Counting

\* The steps there are when nothing is presigned.
LEMMA SerialSteps ==
  ASSUME "presign" \notin Operations, DropInv, SerialInv, [DropNext]_dropAll
  PROVE  \/ /\ UNCHANGED dropVars
            /\ \/ \E r \in Requests :
                    \/ StartStore(r) \/ StartKeyed(r) \/ CheckQuota(r)
                    \/ LookupExisting(r) \/ PutNewBlob(r) \/ OverwriteBlob(r)
                    \/ InsertConfirmed(r) \/ UpdateRow(r) \/ MarkDeleted(r)
                    \/ AddToNamespace(r) \/ AddToVault(r)
                    \/ AdjustNamespace(r) \/ AdjustVault(r)
                    \/ SubtractFromNamespace(r) \/ SubtractFromVault(r)
                    \/ FindObject(r) \/ GetBlob(r) \/ Audit(r) \/ Stop(r)
               \/ \E id \in ObjectIds : Expire(id)
               \/ UNCHANGED vars
         \/ \E r \in Requests : StrandedStep(r)
         \/ \E n \in Namespaces : DropNamespace(n)
<1>1. ASSUME NEW r \in Requests, StartConfirm(r) PROVE FALSE
  BY <1>1 DEF StartConfirm, SerialInv, PlainRows
<1>2. ASSUME NEW r \in Requests, InsertPending(r) \/ ConfirmUpload(r) PROVE FALSE
  BY <1>2 DEF InsertPending, ConfirmUpload, Goto, Reply, SerialInv, SerialAt
<1>3. ASSUME NEW id \in ObjectIds, ClientUpload(id) PROVE FALSE
  BY <1>3 DEF ClientUpload, SerialInv, PlainRows
<1>4. QED
  BY <1>1, <1>2, <1>3, DropSteps DEF Next, Statement

\* The steps that leave the rows alone.
LEMMA RowsLeft ==
  ASSUME NEW r \in Requests,
         \/ StartStore(r) \/ StartKeyed(r) \/ CheckQuota(r)
         \/ LookupExisting(r) \/ PutNewBlob(r) \/ OverwriteBlob(r)
         \/ AddToNamespace(r) \/ AddToVault(r)
         \/ AdjustNamespace(r) \/ AdjustVault(r)
         \/ SubtractFromNamespace(r) \/ SubtractFromVault(r)
         \/ FindObject(r) \/ GetBlob(r) \/ Audit(r) \/ Stop(r)
         \/ StrandedStep(r)
  PROVE  UNCHANGED object
  BY DEF StartStore, StartKeyed, CheckQuota, LookupExisting, PutNewBlob,
    OverwriteBlob, AddToNamespace, AddToVault, AdjustNamespace, AdjustVault,
    SubtractFromNamespace, SubtractFromVault, FindObject, GetBlob, Audit,
    Stop, StrandedStep, tables

\* A row that changes keeps its identity: what each of the steps that write
\* to the table does to the one row it writes.
LEMMA UpdatedRow ==
  ASSUME TypeInv, NEW r \in Requests, UpdateRow(r)
  PROVE  \E row \in Row :
           /\ target[r] \in ObjectIds /\ object[target[r]] \in Row
           /\ object' = [object EXCEPT ![target[r]] = row]
           /\ row.size = call[r].size
           /\ row.ns = object[target[r]].ns /\ row.key = object[target[r]].key
           /\ row.status = object[target[r]].status
           /\ row.deleted = object[target[r]].deleted
           /\ row.url = object[target[r]].url
<1> USE ConstantsAssumption
<1>1. /\ call[r].size \in Nat /\ target[r] \in ObjectIds
      /\ object[target[r]] \in Row
  BY DEF UpdateRow, Goto, TypeInv, TypeOK, LocalsOK, HasRow, Call, Exists
<1>2. PICK t \in Ttls : object' = [object EXCEPT ![target[r]].size = call[r].size,
                                                 ![target[r]].ttl = t]
  BY DEF UpdateRow
<1> DEFINE row == [object[target[r]] EXCEPT !.size = call[r].size, !.ttl = t]
<1>3. object' = [object EXCEPT ![target[r]] = row]
  BY <1>1, <1>2 DEF TypeInv, TypeOK
<1>4. /\ row \in Row /\ row.size = call[r].size
      /\ row.ns = object[target[r]].ns /\ row.key = object[target[r]].key
      /\ row.status = object[target[r]].status
      /\ row.deleted = object[target[r]].deleted
      /\ row.url = object[target[r]].url
  BY <1>1 DEF Row
<1>5. QED
  BY <1>1, <1>3, <1>4

\* INSERT.
LEMMA InsertedRow ==
  ASSUME TypeInv, WinnerInv, NEW r \in Requests, InsertConfirmed(r),
         ~Reply(r, "insert")
  PROVE  \E row \in Row :
           /\ target[r] \in ObjectIds /\ object[target[r]] = Null
           /\ object' = [object EXCEPT ![target[r]] = row]
           /\ row.size = call[r].size
           /\ row.ns = call[r].ns /\ row.key = call[r].key
           /\ row.status = "confirmed" /\ ~row.deleted /\ ~row.url
<1>1. PICK t \in Ttls :
        object' = [object EXCEPT ![target[r]] = NewRow(r, "confirmed", t)]
  BY DEF InsertConfirmed
<1>2. NewRow(r, "confirmed", t) \in Row
  BY NewRowTyped DEF InsertConfirmed
<1>3. target[r] \in ObjectIds /\ object[target[r]] = Null
  BY DEF InsertConfirmed, TypeInv, LocalsOK, WinnerInv, FreshOK
<1>4. QED
  BY <1>1, <1>2, <1>3 DEF NewRow

\* UPDATE ... SET deleted_at.
LEMMA MarkedRow ==
  ASSUME TypeInv, NEW r \in Requests, MarkDeleted(r), ~Reply(r, "mark")
  PROVE  \E id \in ObjectIds, row \in Row :
           /\ object[id] \in Row /\ ~object[id].deleted
           /\ object[id].ns = call[r].ns
           /\ object' = [object EXCEPT ![id] = row]
           /\ delta' = [delta EXCEPT ![r] = object[id].size]
           /\ Goto(r, "mark", "nsSub") /\ UNCHANGED call
           /\ row.size = object[id].size
           /\ row.ns = object[id].ns /\ row.key = object[id].key
           /\ row.status = object[id].status /\ row.deleted
           /\ row.url = object[id].url
<1> USE ConstantsAssumption
<1>1. PICK id \in LiveAt(call[r].ns, call[r].key) :
        /\ object' = [object EXCEPT ![id].deleted = TRUE]
        /\ delta' = [delta EXCEPT ![r] = object[id].size]
        /\ Goto(r, "mark", "nsSub") /\ UNCHANGED call
  BY DEF MarkDeleted, Deletable
<1>2. /\ id \in ObjectIds /\ object[id] \in Row /\ ~object[id].deleted
      /\ object[id].ns = call[r].ns
  BY DEF LiveAt, Live, At, Exists, TypeInv, TypeOK
<1> DEFINE row == [object[id] EXCEPT !.deleted = TRUE]
<1>3. /\ row \in Row /\ row.size = object[id].size
      /\ row.ns = object[id].ns /\ row.key = object[id].key
      /\ row.status = object[id].status /\ row.deleted
      /\ row.url = object[id].url
  BY <1>2 DEF Row
<1>4. object' = [object EXCEPT ![id] = row]
  BY <1>1
<1>5. QED
  BY <1>1, <1>2, <1>3, <1>4

\* The passing of expires_at.
LEMMA ExpiredRow ==
  ASSUME TypeInv, NEW id \in ObjectIds, Expire(id)
  PROVE  \E row \in Row :
           /\ object[id] \in Row /\ object' = [object EXCEPT ![id] = row]
           /\ row.size = object[id].size
           /\ row.ns = object[id].ns /\ row.key = object[id].key
           /\ row.status = object[id].status
           /\ row.deleted = object[id].deleted /\ row.url = object[id].url
<1>1. object[id] \in Row
  BY DEF Expire, Exists, TypeInv, TypeOK
<1> DEFINE row == [object[id] EXCEPT !.ttl = "expired"]
<1>2. /\ row \in Row /\ row.size = object[id].size
      /\ row.ns = object[id].ns /\ row.key = object[id].key
      /\ row.status = object[id].status
      /\ row.deleted = object[id].deleted /\ row.url = object[id].url
  BY <1>1 DEF Row
<1>3. object' = [object EXCEPT ![id] = row]
  BY DEF Expire
<1>4. QED
  BY <1>1, <1>2, <1>3

\* No step leaves a row that waits for an upload.
LEMMA SerialRowsStep ==
  ASSUME "presign" \notin Operations, DropInv, SerialInv, [DropNext]_dropAll
  PROVE  PlainRows'
<1> USE ConstantsAssumption
<1>0. TypeInv /\ WinnerInv /\ PlainRows
  BY DEF DropInv, SerialInv
<1>1. CASE UNCHANGED object
  BY <1>0, <1>1 DEF PlainRows, Confirmed, Exists
<1>2. ASSUME NEW id \in ObjectIds, NEW row \in Row,
             object' = [object EXCEPT ![id] = row],
             row.status = "confirmed", ~row.url
      PROVE  PlainRows'
  BY <1>0, <1>2 DEF PlainRows, Confirmed, Exists, TypeInv, TypeOK
<1>3. ASSUME NEW id \in ObjectIds, object[id] \in Row
      PROVE  object[id].status = "confirmed" /\ ~object[id].url
  BY <1>0, <1>3 DEF PlainRows, Confirmed, Exists
<1>4. ASSUME NEW r \in Requests, UpdateRow(r) PROVE PlainRows'
  BY <1>0, <1>2, <1>3, <1>4, UpdatedRow
<1>5. ASSUME NEW r \in Requests, InsertConfirmed(r) PROVE PlainRows'
  <2>1. CASE Reply(r, "insert")
    BY <1>0, <1>1, <1>5, <2>1 DEF InsertConfirmed, Goto, Reply, TypeInv, TypeOK
  <2>2. CASE ~Reply(r, "insert")
    BY <1>0, <1>2, <1>5, <2>2, InsertedRow
  <2>3. QED
    BY <2>1, <2>2
<1>6. ASSUME NEW r \in Requests, MarkDeleted(r) PROVE PlainRows'
  <2>1. CASE Reply(r, "mark")
    BY <1>0, <1>1, <1>6, <2>1 DEF MarkDeleted, Goto, Reply, TypeInv, TypeOK
  <2>2. CASE ~Reply(r, "mark")
    BY <1>0, <1>2, <1>3, <1>6, <2>2, MarkedRow
  <2>3. QED
    BY <2>1, <2>2
<1>7. ASSUME NEW id \in ObjectIds, Expire(id) PROVE PlainRows'
  BY <1>0, <1>2, <1>3, <1>7, ExpiredRow
<1>8. ASSUME NEW n \in Namespaces, DropNamespace(n) PROVE PlainRows'
  <2>1. object' = RowsWithout(n)
    BY <1>8 DEF DropNamespace
  <2>2. \A id \in ObjectIds :
          /\ object[id] = Null <=> object'[id] = Null
          /\ Exists(id) => /\ object'[id].status = object[id].status
                           /\ object'[id].url = object[id].url
    BY <1>0, <2>1, RowsMarked
  <2>3. QED
    BY <1>0, <2>2 DEF PlainRows, Confirmed, Exists
<1>9. QED
  BY <1>1, <1>4, <1>5, <1>6, <1>7, <1>8, SerialSteps, RowsLeft DEF vars

\* The one request takes its steps in order: what it knows after each.
LEMMA SerialStep ==
  ASSUME NEW me, Requests = {me}, "presign" \notin Operations,
         DropInv, SerialInv, [DropNext]_dropAll
  PROVE  SerialInv'
<1> USE ConstantsAssumption DEF StoreOps, StoreSteps, DeleteLabels, Counting
<1>0. TypeInv /\ WinnerInv /\ PlainRows /\ SerialAt(me) /\ me \in Requests
  BY DEF DropInv, SerialInv
<1> SUFFICES SerialAt(me)'
  BY SerialRowsStep DEF SerialInv
<1>a. Null \notin Call
  BY DEF ConstantsAssumption
<1>1. ASSUME Reply(me, pc[me]) PROVE SerialAt(me)'
  <2>1. pc'[me] = "idle"
    BY <1>0, <1>1 DEF Reply, TypeInv, TypeOK
  <2>2. QED
    BY <2>1 DEF SerialAt
<1>2. CASE StartStore(me)
  <2>1. PICK op \in Operations \cap Stores, n \in Namespaces, k \in Keys,
             s \in Sizes :
          call' = [call EXCEPT ![me] = [op |-> op, ns |-> n, key |-> k, size |-> s]]
    BY <1>2 DEF StartStore
  <2>2. pc'[me] = "quota" /\ call'[me].op \in StoreOps
    BY <1>0, <1>2, <2>1 DEF StartStore, Goto, Stores, TypeInv, TypeOK
  <2>3. QED
    BY <2>2 DEF SerialAt
<1>3. CASE StartKeyed(me)
  <2>1. PICK op \in Reads \cup {"delete"}, n \in Namespaces, k \in Keys :
          /\ Goto(me, "idle", IF op = "delete" THEN "mark" ELSE "find")
          /\ call' = [call EXCEPT ![me] = [op |-> op, ns |-> n, key |-> k, size |-> 0]]
    BY <1>3 DEF StartKeyed
  <2>2. /\ pc'[me] = (IF op = "delete" THEN "mark" ELSE "find")
        /\ call'[me].op = op
    BY <1>0, <2>1 DEF Goto, TypeInv, TypeOK
  <2>3. QED
    BY <2>2 DEF SerialAt
<1>4. CASE CheckQuota(me) /\ UNCHANGED dropVars
  <2>1. pc[me] = "quota" /\ call[me].op \in StoreOps /\ target[me] = Null
    BY <1>0, <1>4 DEF CheckQuota, SerialAt, TypeInv, LocalsOK
  <2>2. AfterQuota(call[me].op) \in {"put", "lookup"}
    BY <2>1 DEF AfterQuota
  <2>3. CASE Reply(me, "quota")
    BY <1>1, <2>1, <2>3
  <2>4. CASE Goto(me, "quota", AfterQuota(call[me].op)) /\ UNCHANGED <<call, target>>
    <3>1. /\ pc'[me] \in {"put", "lookup"} /\ call'[me] = call[me]
          /\ target'[me] = Null
      BY <1>0, <2>1, <2>2, <2>4 DEF Goto, TypeInv, TypeOK
    <3>2. QED
      BY <2>1, <3>1 DEF SerialAt
  <2>5. QED
    BY <1>4, <2>3, <2>4 DEF CheckQuota
<1>5. CASE LookupExisting(me) /\ UNCHANGED dropVars
  <2>1. /\ pc[me] = "lookup" /\ pc'[me] = "put" /\ call'[me] = call[me]
        /\ call[me].op \in StoreOps /\ UNCHANGED object /\ target[me] = Null
    BY <1>0, <1>5 DEF LookupExisting, Goto, SerialAt, tables, TypeInv, TypeOK,
                      LocalsOK
  <2>2. target'[me] # Null => Found(me)'
    <3>1. CASE UNCHANGED <<target, delta>>
      BY <2>1, <3>1
    <3>2. CASE \E id \in LiveAt(call[me].ns, call[me].key) :
                 /\ target' = [target EXCEPT ![me] = id]
                 /\ delta' = [delta EXCEPT ![me] = call[me].size - object[id].size]
      <4>1. PICK id \in LiveAt(call[me].ns, call[me].key) :
              /\ target' = [target EXCEPT ![me] = id]
              /\ delta' = [delta EXCEPT ![me] = call[me].size - object[id].size]
        BY <3>2
      <4>2. target'[me] = id /\ delta'[me] = call[me].size - object[id].size
        BY <1>0, <4>1 DEF TypeInv, TypeOK
      <4>3. id \in LiveAt(call[me].ns, call[me].key)'
        BY <2>1 DEF LiveAt, Live, Exists, At
      <4>4. QED
        BY <2>1, <4>2, <4>3 DEF Found, LiveAt, Live, Exists, At
    <3>3. QED
      BY <1>5, <3>1, <3>2 DEF LookupExisting
  <2>3. QED
    BY <2>1, <2>2 DEF SerialAt
<1>6. CASE PutNewBlob(me)
  <2>1. PICK id \in ObjectIds :
          /\ target' = [target EXCEPT ![me] = id]
          /\ blob' = [blob EXCEPT ![id] = call[me].size]
    BY <1>6 DEF PutNewBlob
  <2>2. /\ pc'[me] = "insert" /\ call'[me] = call[me]
        /\ call[me].op \in StoreOps /\ blob'[target'[me]] = call[me].size
    BY <1>0, <1>6, <2>1 DEF PutNewBlob, Goto, SerialAt, TypeInv, TypeOK
  <2>3. QED
    BY <2>2 DEF SerialAt
<1>7. CASE OverwriteBlob(me) /\ UNCHANGED dropVars
  <2>1. /\ pc[me] = "put" /\ pc'[me] = "update" /\ call[me].op \in StoreOps
        /\ call'[me] = call[me] /\ target'[me] = target[me] /\ target[me] # Null
        /\ delta'[me] = delta[me] /\ UNCHANGED object
        /\ blob'[target[me]] = call[me].size
    BY <1>0, <1>7 DEF OverwriteBlob, Goto, SerialAt, tables, TypeInv, TypeOK
  <2>2. ~Dropped(me)' => ~Dropped(me)
    BY <1>7, <2>1 DEF Dropped, dropVars
  <2>3. Found(me) => Found(me)'
    BY <2>1 DEF Found, LiveAt, Live, Exists, At
  <2>4. QED
    BY <1>0, <2>1, <2>2, <2>3 DEF SerialAt
<1>8. CASE InsertConfirmed(me)
  <2>1. pc[me] = "insert" /\ call[me].op \in StoreOps /\ blob[target[me]] = call[me].size
    BY <1>0, <1>8 DEF InsertConfirmed, SerialAt
  <2>2. CASE Reply(me, "insert")
    BY <1>1, <2>1, <2>2
  <2>3. CASE ~Reply(me, "insert")
    <3>1. PICK row \in Row :
            /\ target[me] \in ObjectIds
            /\ object' = [object EXCEPT ![target[me]] = row]
            /\ row.size = call[me].size /\ row.ns = call[me].ns
            /\ row.status = "confirmed" /\ ~row.deleted
      BY <1>0, <1>8, <2>3, InsertedRow
    <3>2. /\ pc'[me] = "nsAdd" /\ call'[me] = call[me]
          /\ target'[me] = target[me] /\ UNCHANGED blob
      BY <1>0, <1>8, <2>3 DEF InsertConfirmed, Goto, TypeInv, TypeOK
    <3>3. Stored(me)'
      <4>1. object'[target[me]] = row
        BY <1>0, <3>1 DEF TypeInv, TypeOK
      <4>2. QED
        BY <2>1, <3>1, <3>2, <4>1
        DEF Stored, Counted, Live, Confirmed, Exists, ConstantsAssumption
    <3>4. QED
      BY <2>1, <3>2, <3>3 DEF SerialAt
  <2>4. QED
    BY <2>2, <2>3
<1>9. CASE UpdateRow(me) /\ UNCHANGED dropVars
  <2>1. PICK row \in Row :
          /\ target[me] \in ObjectIds /\ object[target[me]] \in Row
          /\ object' = [object EXCEPT ![target[me]] = row]
          /\ row.size = call[me].size
          /\ row.ns = object[target[me]].ns
          /\ row.status = object[target[me]].status
          /\ row.deleted = object[target[me]].deleted
    BY <1>0, <1>9, UpdatedRow
  <2>2. /\ pc[me] = "update" /\ pc'[me] = "nsDiff" /\ call[me].op \in StoreOps
        /\ call'[me] = call[me] /\ target'[me] = target[me] /\ target[me] # Null
        /\ UNCHANGED blob
    BY <1>0, <1>9, <2>1 DEF UpdateRow, Goto, SerialAt, TypeInv, TypeOK,
                            ConstantsAssumption
  <2>3. ASSUME ~Dropped(me)' PROVE Stored(me)'
    <3>1. ~Dropped(me)
      BY <1>9, <2>2, <2>3 DEF Dropped, dropVars
    <3>2. /\ target[me] \in LiveAt(call[me].ns, call[me].key)
          /\ blob[target[me]] = call[me].size
      BY <1>0, <2>2, <3>1 DEF SerialAt, Found
    <3>3. /\ object[target[me]].ns = call[me].ns /\ ~object[target[me]].deleted
          /\ object[target[me]].status = "confirmed"
      BY <1>0, <3>2 DEF LiveAt, Live, At, PlainRows, Confirmed
    <3>4. object'[target[me]] = row
      BY <1>0, <2>1 DEF TypeInv, TypeOK
    <3>5. QED
      BY <2>1, <2>2, <3>2, <3>3, <3>4
      DEF Stored, Counted, Live, Confirmed, Exists, ConstantsAssumption
  <2>4. QED
    BY <2>2, <2>3 DEF SerialAt
<1>10. CASE /\ AddToNamespace(me) \/ AddToVault(me) \/ AdjustNamespace(me)
               \/ AdjustVault(me)
            /\ UNCHANGED dropVars
  <2>1. /\ pc[me] \in Counting /\ pc'[me] \in {"vaultAdd", "vaultDiff", "audit"}
        /\ call[me].op \in StoreOps /\ call'[me] = call[me]
        /\ target'[me] = target[me] /\ UNCHANGED <<object, blob>>
    BY <1>0, <1>10 DEF AddToNamespace, AddToVault, AdjustNamespace,
                       AdjustVault, Goto, SerialAt, TypeInv, TypeOK
  <2>2. ~Dropped(me)' => Stored(me)
    BY <1>0, <1>10, <2>1 DEF Dropped, dropVars, SerialAt
  <2>3. Stored(me) => Stored(me)'
    BY <2>1 DEF Stored, Counted, Live, Confirmed, Exists
  <2>4. QED
    BY <2>1, <2>2, <2>3 DEF SerialAt
<1>11. CASE MarkDeleted(me)
  <2>1. pc[me] = "mark" /\ call[me].op = "delete"
    BY <1>0, <1>11 DEF MarkDeleted, SerialAt
  <2>2. CASE Reply(me, "mark")
    BY <1>1, <2>1, <2>2
  <2>3. CASE ~Reply(me, "mark")
    <3>1. pc'[me] = "nsSub" /\ call'[me] = call[me]
      BY <1>0, <1>11, <2>3, MarkedRow DEF Goto, TypeInv, TypeOK
    <3>2. QED
      BY <2>1, <3>1 DEF SerialAt
  <2>4. QED
    BY <2>2, <2>3
<1>12. CASE SubtractFromNamespace(me) \/ SubtractFromVault(me)
  <2>1. /\ pc'[me] \in {"vaultSub", "audit"}
        /\ call'[me].op = "delete"
    BY <1>0, <1>12 DEF SubtractFromNamespace, SubtractFromVault, Goto,
                       SerialAt, TypeInv, TypeOK
  <2>2. QED
    BY <2>1 DEF SerialAt
<1>13. CASE FindObject(me) \/ GetBlob(me)
  <2>1. pc[me] \in {"find", "get"} /\ call[me].op \in Reads
    BY <1>0, <1>13 DEF FindObject, GetBlob, Goto, Reply, SerialAt
  <2>2. CASE Reply(me, pc[me])
    BY <1>1, <2>2
  <2>3. CASE ~Reply(me, pc[me])
    <3>1. /\ pc'[me] \in {"get", "audit"} /\ call'[me] = call[me]
      BY <1>0, <1>13, <2>3 DEF FindObject, GetBlob, Goto, Reply, TypeInv, TypeOK
    <3>2. QED
      BY <2>1, <3>1 DEF SerialAt, Reads
  <2>4. QED
    BY <2>2, <2>3
<1>14. CASE Audit(me) \/ Stop(me) \/ StrandedStep(me)
  <2>1. Reply(me, pc[me])
    BY <1>14 DEF Audit, Stop, StrandedStep, Reply
  <2>2. QED
    BY <1>1, <2>1
\* A step that does not move the request and leaves the rows of its namespace.
<1>15. ASSUME UNCHANGED <<blob, pc, call, target, delta>>,
              ~Dropped(me)' => ~Dropped(me),
              \A id \in ObjectIds : Exists(id) /\ object[id].ns = call[me].ns =>
                /\ ~Dropped(me)' =>
                   /\ Exists(id)' /\ object'[id].ns = object[id].ns
                   /\ object'[id].key = object[id].key
                   /\ object'[id].size = object[id].size
                   /\ object'[id].status = object[id].status
                   /\ object'[id].deleted = object[id].deleted
       PROVE  SerialAt(me)'
  <2>1. ~Dropped(me)' /\ Found(me) => Found(me)'
    BY <1>15 DEF Found, LiveAt, Live, At
  <2>2. ~Dropped(me)' /\ Stored(me) => Stored(me)'
    BY <1>15 DEF Stored, Counted, Live, Confirmed
  <2>3. QED
    BY <1>0, <1>15, <2>1, <2>2 DEF SerialAt
<1>16. ASSUME NEW id \in ObjectIds, Expire(id), UNCHANGED dropVars
       PROVE  SerialAt(me)'
  <2>1. PICK row \in Row :
          /\ object' = [object EXCEPT ![id] = row]
          /\ row.size = object[id].size
          /\ row.ns = object[id].ns /\ row.key = object[id].key
          /\ row.status = object[id].status
          /\ row.deleted = object[id].deleted
    BY <1>0, <1>16, ExpiredRow
  <2>2. \A i \in ObjectIds : Exists(i) =>
          /\ Exists(i)' /\ object'[i].ns = object[i].ns
          /\ object'[i].key = object[i].key
          /\ object'[i].size = object[i].size
          /\ object'[i].status = object[i].status
          /\ object'[i].deleted = object[i].deleted
    BY <1>0, <2>1 DEF Exists, TypeInv, TypeOK, ConstantsAssumption
  <2>3. UNCHANGED <<blob, pc, call, target, delta>>
    BY <1>16 DEF Expire, locals
  <2>4. ~Dropped(me)' => ~Dropped(me)
    BY <1>16, <2>3 DEF Dropped, dropVars
  <2>5. QED
    BY <1>15, <2>2, <2>3, <2>4
<1>17. ASSUME NEW n \in Namespaces, DropNamespace(n) PROVE SerialAt(me)'
  <2>1. /\ object' = RowsWithout(n) /\ dropped' = dropped \cup {n}
        /\ UNCHANGED <<blob, pc, call, target, delta>>
    BY <1>17 DEF DropNamespace, locals
  <2>2. \A i \in ObjectIds : Exists(i) =>
          /\ Exists(i)' /\ object'[i].ns = object[i].ns
          /\ object'[i].key = object[i].key
          /\ object'[i].size = object[i].size
          /\ object'[i].status = object[i].status
          /\ object'[i].deleted = (object[i].deleted \/ object[i].ns = n)
    BY <1>0, <2>1, RowsMarked DEF Exists
  <2>3. ~Dropped(me)' => ~Dropped(me)
    BY <2>1 DEF Dropped
  <2>4. \A i \in ObjectIds : Exists(i) => object[i].deleted \in BOOLEAN
    BY <1>0 DEF Exists, TypeInv, TypeOK, Row
  <2>5. CASE pc[me] = "idle"
    BY <2>1, <2>5 DEF SerialAt
  <2>6. CASE pc[me] # "idle"
    <3>1. call[me] # Null
      BY <1>0, <1>a, <2>6 DEF TypeInv, LocalsOK
    <3>2. ~Dropped(me)' => call[me].ns # n
      BY <2>1, <3>1 DEF Dropped
    <3>3. QED
      BY <1>15, <2>1, <2>2, <2>3, <2>4, <3>2
  <2>7. QED
    BY <2>5, <2>6
<1>18. CASE UNCHANGED vars /\ UNCHANGED dropVars
  <2>1. /\ UNCHANGED <<blob, pc, call, target, delta>> /\ UNCHANGED object
        /\ ~Dropped(me)' => ~Dropped(me)
    BY <1>18 DEF vars, dropVars, Dropped
  <2>2. QED
    BY <1>15, <2>1 DEF Exists
<1>19. QED
  BY <1>2, <1>3, <1>4, <1>5, <1>6, <1>7, <1>8, <1>9, <1>10, <1>11, <1>12,
     <1>13, <1>14, <1>16, <1>17, <1>18, SerialSteps

\* One request at a time, with failed statements and stopped requests, with
\* namespaces deleted at any moment, and without presigned uploads: a store
\* that is about to be acknowledged, through the REST handler or serac_store,
\* as a new object or an upsert, has left a confirmed live row and a blob of
\* the size that was sent, unless its namespace is gone.
THEOREM StoresTakeEffect ==
  ASSUME NEW me, Requests = {me}, "presign" \notin Operations
  PROVE  DropSpec => []StoreTakesEffect
<1>1. DropInit => DropInv /\ SerialInv
  BY DropInvInit, SerialInit
<1>2. DropInv /\ SerialInv /\ [DropNext]_dropAll => DropInv' /\ SerialInv'
  BY DropInvStep, SerialStep
<1>3. SerialInv => StoreTakesEffect
  BY DEF SerialInv, SerialAt, StoreTakesEffect, Stored, StoreOps
<1>4. QED
  BY <1>1, <1>2, <1>3, PTL DEF DropSpec, dropAll

-----------------------------------------------------------------------------
(* The books of the vault and of its namespaces, one request at a time. *)

\* What a request has still to bring to the books of the vault, and to those
\* of namespace n.
VaultDue(r) == IF pc[r] \in Counting THEN delta[r]
               ELSE IF pc[r] \in {"nsSub", "vaultSub"} THEN -delta[r] ELSE 0
VaultCountDue(r) == IF pc[r] \in {"nsAdd", "vaultAdd"} THEN 1
                    ELSE IF pc[r] \in {"nsSub", "vaultSub"} THEN -1 ELSE 0
NsDue(r, n) == IF call[r].ns # n THEN 0
               ELSE IF pc[r] \in {"nsAdd", "nsDiff"} THEN delta[r]
               ELSE IF pc[r] = "nsSub" THEN -delta[r] ELSE 0
NsCountDue(r, n) == IF call[r].ns # n THEN 0
                    ELSE IF pc[r] = "nsAdd" THEN 1
                    ELSE IF pc[r] = "nsSub" THEN -1 ELSE 0

VaultBooks(r) ==
  /\ vaultBytes + VaultDue(r) = BytesOf(Counted) + lost.bytes
  /\ vaultCount + VaultCountDue(r) = Cardinality(Counted) + lost.count

NsBooks(r, n) ==
  /\ nsBytes[n] + NsDue(r, n) = BytesOf(CountedIn(n))
  /\ nsCount[n] + NsCountDue(r, n) = Cardinality(CountedIn(n))

\* The books are right up to what the request has still to bring, as long as
\* no namespace has been deleted under it.
Balanced(r) ==
  /\ pc[r] # "idle" => call[r].ns \notin dropped
  /\ VaultBooks(r)
  /\ \A n \in Namespaces \ dropped : NsBooks(r, n)

\* It is inductive as long as there is one request and no statement fails.
BalancedInv == \A r \in Requests : ~overrun => Balanced(r)

\* An empty table adds up to nothing.
LEMMA NoCounted ==
  ASSUME object = [id \in ObjectIds |-> Null]
  PROVE  /\ BytesOf(Counted) = 0 /\ Cardinality(Counted) = 0
         /\ \A n : BytesOf(CountedIn(n)) = 0 /\ Cardinality(CountedIn(n)) = 0
<1>1. Counted = {}
  BY DEF Counted, Live, Exists
<1>2. \A n : CountedIn(n) = {}
  BY <1>1 DEF CountedIn
<1>3. SizesOf(object, {}) = 0 /\ Cardinality({}) = 0
  <2> DEFINE f == [id \in {} |-> 0]
  <2>1. SizesOf(object, {}) = Total(f, {})
    BY FS_EmptySet, SizesTotal
  <2>2. QED
    BY <2>1, TotalEmpty, FS_EmptySet
<1>4. SizesOf(object, Counted) = 0 /\ Cardinality(Counted) = 0
  BY <1>1, <1>3
<1>5. ASSUME NEW n
      PROVE  SizesOf(object, CountedIn(n)) = 0 /\ Cardinality(CountedIn(n)) = 0
  <2>1. CountedIn(n) = {}
    BY <1>2
  <2>2. QED
    BY <1>3, <2>1
<1>6. QED
  BY <1>4, <1>5, BytesAreSizes

\* The books of an empty store are right.
LEMMA BalancedInit == DropInit => BalancedInv
<1> SUFFICES ASSUME DropInit, NEW r \in Requests PROVE Balanced(r)
  BY DEF BalancedInv
<1>1. /\ pc[r] = "idle" /\ vaultBytes = 0 /\ vaultCount = 0
      /\ lost.bytes = 0 /\ lost.count = 0
      /\ \A n \in Namespaces : nsBytes[n] = 0 /\ nsCount[n] = 0
      /\ object = [id \in ObjectIds |-> Null]
  BY DEF DropInit, Init
<1>2. QED
  BY <1>1, NoCounted DEF Balanced, VaultBooks, NsBooks, VaultDue,
    VaultCountDue, NsDue, NsCountDue, Counting

\* Rows that do not change are counted as before.
LEMMA BooksKept ==
  ASSUME UNCHANGED object
  PROVE  /\ BytesOf(Counted)' = BytesOf(Counted)
         /\ Cardinality(Counted)' = Cardinality(Counted)
         /\ \A n : /\ BytesOf(CountedIn(n))' = BytesOf(CountedIn(n))
                   /\ Cardinality(CountedIn(n))' = Cardinality(CountedIn(n))
<1>1. Counted' = Counted
  BY DEF Counted, Live, Confirmed, Exists
<1>2. \A n : CountedIn(n)' = CountedIn(n)
  BY <1>1 DEF CountedIn
<1>3. SizesOf(object', Counted') = SizesOf(object, Counted)
  BY <1>1
<1>4. Cardinality(Counted)' = Cardinality(Counted)
  BY <1>1
<1>5. ASSUME NEW n
      PROVE  /\ SizesOf(object', CountedIn(n)') = SizesOf(object, CountedIn(n))
             /\ Cardinality(CountedIn(n))' = Cardinality(CountedIn(n))
  <2>1. CountedIn(n)' = CountedIn(n)
    BY <1>2
  <2>2. QED
    BY <2>1
<1>6. QED
  BY <1>3, <1>4, <1>5, BytesAreSizes

\* What is counted after a step is a finite set of rows with sizes.
LEMMA CountedSetsAfter ==
  ASSUME TypeInv'
  PROVE  /\ IsFiniteSet(Counted') /\ \A n : IsFiniteSet(CountedIn(n)')
         /\ \A i \in Counted' : object'[i].size \in Nat
         /\ \A n : \A i \in CountedIn(n)' : object'[i].size \in Nat
<1>1. IsFiniteSet(ObjectIds)
  BY ConstantsAssumption DEF ConstantsAssumption
<1>2. Counted' \in SUBSET ObjectIds /\ \A n : CountedIn(n)' \in SUBSET Counted'
  BY DEF Counted, CountedIn
<1>3. IsFiniteSet(Counted')
  BY <1>1, <1>2, FS_Subset
<1>4. \A n : IsFiniteSet(CountedIn(n)')
  BY <1>2, <1>3, FS_Subset
<1>5. \A i \in Counted' : object'[i].size \in Nat
  BY DEF Counted, Live, Exists, TypeInv, TypeOK, Row
<1>6. QED
  BY <1>2, <1>3, <1>4, <1>5

\* A row that changes changes what is counted by its share.
LEMMA BooksChange ==
  ASSUME TypeInv, TypeInv', NEW id \in ObjectIds,
         \A i \in ObjectIds \ {id} : object'[i] = object[i]
  PROVE  /\ BytesOf(Counted)' - (IF id \in Counted' THEN object'[id].size ELSE 0)
              = BytesOf(Counted) - (IF id \in Counted THEN object[id].size ELSE 0)
         /\ Cardinality(Counted)' - (IF id \in Counted' THEN 1 ELSE 0)
              = Cardinality(Counted) - (IF id \in Counted THEN 1 ELSE 0)
         /\ \A n :
              /\ BytesOf(CountedIn(n))'
                   - (IF id \in CountedIn(n)' THEN object'[id].size ELSE 0)
                   = BytesOf(CountedIn(n))
                       - (IF id \in CountedIn(n) THEN object[id].size ELSE 0)
              /\ Cardinality(CountedIn(n))' - (IF id \in CountedIn(n)' THEN 1 ELSE 0)
                   = Cardinality(CountedIn(n)) - (IF id \in CountedIn(n) THEN 1 ELSE 0)
<1>1. Counted' \ {id} = Counted \ {id}
  BY DEF Counted, Live, Confirmed, Exists
<1>2. ASSUME NEW n PROVE CountedIn(n)' \ {id} = CountedIn(n) \ {id}
  BY <1>1 DEF CountedIn, Counted
<1>3. /\ IsFiniteSet(Counted) /\ \A n : IsFiniteSet(CountedIn(n))
      /\ \A i \in Counted : object[i].size \in Nat
      /\ \A n : \A i \in CountedIn(n) : object[i].size \in Nat
  BY CountedSets
<1>4. /\ IsFiniteSet(Counted') /\ \A n : IsFiniteSet(CountedIn(n)')
      /\ \A i \in Counted' : object'[i].size \in Nat
      /\ \A n : \A i \in CountedIn(n)' : object'[i].size \in Nat
  BY CountedSetsAfter
<1>5. \A i \in Counted \ {id} : object'[i].size = object[i].size
  BY DEF Counted
<1>6. /\ SizesOf(object', Counted') - (IF id \in Counted' THEN object'[id].size ELSE 0)
           = SizesOf(object, Counted) - (IF id \in Counted THEN object[id].size ELSE 0)
      /\ Cardinality(Counted') - (IF id \in Counted' THEN 1 ELSE 0)
           = Cardinality(Counted) - (IF id \in Counted THEN 1 ELSE 0)
  <2> DEFINE S == Counted
             S2 == Counted'
             rows2 == object'
  <2>1. /\ IsFiniteSet(S) /\ IsFiniteSet(S2) /\ S2 \ {id} = S \ {id}
        /\ \A i \in S : object[i].size \in Nat
        /\ \A i \in S2 : rows2[i].size \in Nat
        /\ \A i \in S \ {id} : rows2[i].size = object[i].size
    BY <1>1, <1>3, <1>4, <1>5
  <2> HIDE DEF S, S2, rows2
  <2>2. Shift(object, S, rows2, S2, id)
    BY <2>1, SizesChange
  <2>3. QED
    BY <2>2 DEF Shift, S, S2, rows2
<1>7. ASSUME NEW n
      PROVE  /\ SizesOf(object', CountedIn(n)')
                  - (IF id \in CountedIn(n)' THEN object'[id].size ELSE 0)
                  = SizesOf(object, CountedIn(n))
                      - (IF id \in CountedIn(n) THEN object[id].size ELSE 0)
             /\ Cardinality(CountedIn(n)') - (IF id \in CountedIn(n)' THEN 1 ELSE 0)
                  = Cardinality(CountedIn(n)) - (IF id \in CountedIn(n) THEN 1 ELSE 0)
  <2>1. \A i \in CountedIn(n) \ {id} : object'[i].size = object[i].size
    BY <1>5 DEF CountedIn
  <2>2. CountedIn(n)' \ {id} = CountedIn(n) \ {id}
    BY <1>2
  <2>3. /\ IsFiniteSet(CountedIn(n)) /\ IsFiniteSet(CountedIn(n)')
        /\ \A i \in CountedIn(n) : object[i].size \in Nat
        /\ \A i \in CountedIn(n)' : object'[i].size \in Nat
    BY <1>3, <1>4
  <2> DEFINE S == CountedIn(n)
             S2 == CountedIn(n)'
             rows2 == object'
  <2>4. /\ IsFiniteSet(S) /\ IsFiniteSet(S2) /\ S2 \ {id} = S \ {id}
        /\ \A i \in S : object[i].size \in Nat
        /\ \A i \in S2 : rows2[i].size \in Nat
        /\ \A i \in S \ {id} : rows2[i].size = object[i].size
    BY <2>1, <2>2, <2>3
  <2> HIDE DEF S, S2, rows2
  <2>5. Shift(object, S, rows2, S2, id)
    BY <2>4, SizesChange
  <2>6. QED
    BY <2>5 DEF Shift, S, S2, rows2
<1>8. QED
  BY <1>6, <1>7, BytesAreSizes

\* A namespace takes what it holds out of what is counted.
LEMMA BooksDrop ==
  ASSUME TypeInv, NEW n \in Namespaces, object' = RowsWithout(n)
  PROVE  /\ BytesOf(Counted)' + BytesOf(CountedIn(n)) = BytesOf(Counted)
         /\ Cardinality(Counted)' + Cardinality(CountedIn(n)) = Cardinality(Counted)
         /\ \A m \in Namespaces \ {n} :
              /\ BytesOf(CountedIn(m))' = BytesOf(CountedIn(m))
              /\ Cardinality(CountedIn(m))' = Cardinality(CountedIn(m))
<1> DEFINE rest == Counted \ CountedIn(n)
<1>1. Counted' = rest /\ \A m : m # n => CountedIn(m)' = CountedIn(m)
  BY CountedAfterDrop
<1>2. \A id \in Counted : object'[id].size = object[id].size
  BY RowsMarked DEF Counted, Live
<1>3. /\ IsFiniteSet(Counted) /\ \A m : IsFiniteSet(CountedIn(m))
      /\ \A id \in Counted : object[id].size \in Nat
      /\ \A m : CountedIn(m) \in SUBSET Counted
  BY CountedSets
<1>4. /\ SizesOf(object, Counted) = SizesOf(object, CountedIn(n)) + SizesOf(object, rest)
      /\ Cardinality(Counted) = Cardinality(CountedIn(n)) + Cardinality(rest)
      /\ SizesOf(object, CountedIn(n)) \in Nat /\ SizesOf(object, rest) \in Nat
      /\ Cardinality(CountedIn(n)) \in Nat /\ Cardinality(rest) \in Nat
  BY <1>3, SizesSplit
<1>5. IsFiniteSet(rest)
  BY <1>3, FS_Difference
<1>6. SizesOf(object', rest) = SizesOf(object, rest)
  BY <1>2, <1>5, SizesKept
<1>7. SizesOf(object', Counted') = SizesOf(object, rest)
  <2> HIDE DEF rest
  <2> QED
    BY <1>1, <1>6
<1>8. Cardinality(Counted') = Cardinality(rest)
  <2> HIDE DEF rest
  <2> QED
    BY <1>1
<1>9. ASSUME NEW m \in Namespaces \ {n}
      PROVE  /\ SizesOf(object', CountedIn(m)') = SizesOf(object, CountedIn(m))
             /\ Cardinality(CountedIn(m)') = Cardinality(CountedIn(m))
  <2>1. CountedIn(m)' = CountedIn(m)
    BY <1>1
  <2>2. SizesOf(object', CountedIn(m)) = SizesOf(object, CountedIn(m))
    <3>1. \A id \in CountedIn(m) : object'[id].size = object[id].size
      BY <1>2, <1>3
    <3>2. IsFiniteSet(CountedIn(m))
      BY <1>3
    <3>3. QED
      BY <3>1, <3>2, SizesKept
  <2>3. QED
    BY <2>1, <2>2
<1> HIDE DEF rest
<1>10. /\ BytesOf(Counted)' + BytesOf(CountedIn(n)) = BytesOf(Counted)
       /\ Cardinality(Counted)' + Cardinality(CountedIn(n)) = Cardinality(Counted)
  BY <1>4, <1>7, <1>8, BytesAreSizes
<1>11. QED
  BY <1>9, <1>10, BytesAreSizes

\* A request begins in a namespace that is there.
LEMMA BeginsInside ==
  ASSUME NEW me, Requests = {me}, TypeInv, [DropNext]_dropAll,
         pc[me] = "idle", pc'[me] # "idle"
  PROVE  call'[me].ns \notin dropped
<1>1. CASE Begin(me)
  BY <1>1 DEF Begin
<1>2. CASE Proceed(me)
  BY <1>2 DEF Proceed, Stranded, Reply, Statement, CheckQuota, LookupExisting,
    PutNewBlob, OverwriteBlob, InsertConfirmed, InsertPending, UpdateRow,
    ConfirmUpload, MarkDeleted, AddToNamespace, AddToVault, AdjustNamespace,
    AdjustVault, SubtractFromNamespace, SubtractFromVault, FindObject,
    GetBlob, Audit, Goto
<1>3. CASE Stop(me)
  BY <1>3 DEF Stop
<1>4. CASE \E id \in ObjectIds : ClientUpload(id) \/ Expire(id)
  BY <1>4 DEF ClientUpload, Expire, locals
<1>5. CASE \E n \in Namespaces : DropNamespace(n)
  BY <1>5 DEF DropNamespace, locals
<1>6. CASE UNCHANGED dropAll
  BY <1>6 DEF dropAll, vars
<1>7. QED
  BY <1>1, <1>2, <1>3, <1>4, <1>5, <1>6 DEF DropNext

\* What is counted adds up to naturals.
LEMMA BookTypes ==
  ASSUME TypeInv
  PROVE  /\ BytesOf(Counted) \in Nat /\ Cardinality(Counted) \in Nat
         /\ \A n : BytesOf(CountedIn(n)) \in Nat /\ Cardinality(CountedIn(n)) \in Nat
<1>1. BytesOf(Counted) \in Nat
  <2>1. SizesOf(object, Counted) \in Nat
    BY CountedSets, SizesType
  <2>2. QED
    BY <2>1, BytesAreSizes
<1>2. ASSUME NEW n PROVE BytesOf(CountedIn(n)) \in Nat
  <2>1. /\ IsFiniteSet(CountedIn(n))
        /\ \A id \in CountedIn(n) : object[id].size \in Nat
    BY CountedSets
  <2>2. SizesOf(object, CountedIn(n)) \in Nat
    BY <2>1, SizesType
  <2>3. QED
    BY <2>2, BytesAreSizes
<1>3. QED
  BY <1>1, <1>2, CountedSets, FS_CardinalityType

\* The same for what is counted after a step.
LEMMA BookTypesAfter ==
  ASSUME TypeInv'
  PROVE  /\ BytesOf(Counted)' \in Nat /\ Cardinality(Counted)' \in Nat
         /\ \A n : BytesOf(CountedIn(n))' \in Nat /\ Cardinality(CountedIn(n))' \in Nat
<1>1. SizesOf(object', Counted') \in Nat /\ Cardinality(Counted') \in Nat
  BY CountedSetsAfter, SizesType, FS_CardinalityType
<1>2. ASSUME NEW n
      PROVE  SizesOf(object', CountedIn(n)') \in Nat /\ Cardinality(CountedIn(n)') \in Nat
  <2>1. /\ IsFiniteSet(CountedIn(n)')
        /\ \A id \in CountedIn(n)' : object'[id].size \in Nat
    BY CountedSetsAfter
  <2>2. QED
    BY <2>1, SizesType, FS_CardinalityType
<1>3. QED
  BY <1>1, <1>2, BytesAreSizes

\* A step that neither writes rows or counters nor leaves anything due.
LEMMA BooksQuiet ==
  ASSUME NEW r \in Requests, Balanced(r),
         UNCHANGED <<object, vaultBytes, vaultCount, nsBytes, nsCount>>,
         UNCHANGED dropVars,
         pc[r] \notin Counting \cup {"nsSub", "vaultSub"},
         pc'[r] \notin Counting \cup {"nsSub", "vaultSub"},
         pc'[r] # "idle" => call'[r].ns \notin dropped
  PROVE  Balanced(r)'
<1>1. /\ VaultDue(r) = 0 /\ VaultCountDue(r) = 0
      /\ VaultDue(r)' = 0 /\ VaultCountDue(r)' = 0
  BY DEF VaultDue, VaultCountDue, Counting
<1>2. \A n : /\ NsDue(r, n) = 0 /\ NsCountDue(r, n) = 0
             /\ NsDue(r, n)' = 0 /\ NsCountDue(r, n)' = 0
  BY DEF NsDue, NsCountDue, Counting
<1>3. VaultBooks(r)'
  BY <1>1, BooksKept DEF VaultBooks, Balanced, dropVars
<1>4. \A n \in Namespaces \ dropped' : NsBooks(r, n)'
  BY <1>2, BooksKept DEF NsBooks, Balanced, dropVars
<1>5. QED
  BY <1>3, <1>4 DEF Balanced, dropVars

\* A statement that brings what is due to a counter.
LEMMA BooksBrought ==
  ASSUME NEW me, Requests = {me}, TypeInv, Balanced(me), UNCHANGED dropVars,
         lost.bytes \in Nat, lost.count \in Nat,
         \/ AddToNamespace(me) \/ AddToVault(me)
         \/ AdjustNamespace(me) \/ AdjustVault(me)
         \/ SubtractFromNamespace(me) \/ SubtractFromVault(me)
  PROVE  Balanced(me)'
<1> USE DEF Counting
<1>0. /\ UNCHANGED <<object, call, delta, dropped, lost>>
      /\ pc[me] \in Counting \cup {"nsSub", "vaultSub"}
      /\ call[me].ns \in Namespaces /\ call[me].ns \notin dropped
      /\ delta[me] \in Int /\ vaultBytes \in Int /\ vaultCount \in Int
      /\ \A n \in Namespaces : nsBytes[n] \in Int /\ nsCount[n] \in Int
  BY DEF AddToNamespace, AddToVault, AdjustNamespace, AdjustVault,
    SubtractFromNamespace, SubtractFromVault, Goto, dropVars, Balanced,
    TypeInv, TypeOK, LocalsOK, Call
<1>a. NsBooks(me, call[me].ns) /\ VaultBooks(me)
  BY <1>0 DEF Balanced
<1>b. /\ BytesOf(Counted) \in Nat /\ Cardinality(Counted) \in Nat
      /\ BytesOf(CountedIn(call[me].ns)) \in Nat
      /\ Cardinality(CountedIn(call[me].ns)) \in Nat
  BY BookTypes
<1>1. CASE AddToNamespace(me)
  <2>1. /\ pc[me] = "nsAdd" /\ pc'[me] = "vaultAdd"
        /\ nsBytes' = [nsBytes EXCEPT ![call[me].ns] = @ + delta[me]]
        /\ nsCount' = [nsCount EXCEPT ![call[me].ns] = @ + 1]
        /\ UNCHANGED <<vaultBytes, vaultCount>>
    BY <1>1 DEF AddToNamespace, Goto, TypeInv, TypeOK
  <2>2. VaultBooks(me)'
    BY <1>0, <1>a, <2>1, BooksKept DEF VaultBooks, VaultDue, VaultCountDue
  <2>3. ASSUME NEW n \in Namespaces \ dropped PROVE NsBooks(me, n)'
    BY <1>0, <2>1, BooksKept DEF Balanced, NsBooks, NsDue, NsCountDue,
                                 TypeInv, TypeOK
  <2>4. QED
    BY <1>0, <2>2, <2>3 DEF Balanced
<1>2. CASE AddToVault(me)
  <2>1. /\ pc[me] = "vaultAdd" /\ pc'[me] = "audit"
        /\ vaultBytes' = vaultBytes + delta[me]
        /\ vaultCount' = vaultCount + 1
        /\ UNCHANGED <<nsBytes, nsCount>>
    BY <1>2 DEF AddToVault, Goto, TypeInv, TypeOK
  <2>2. VaultBooks(me)'
    BY <1>0, <1>a, <2>1, BooksKept DEF VaultBooks, VaultDue, VaultCountDue
  <2>3. ASSUME NEW n \in Namespaces \ dropped PROVE NsBooks(me, n)'
    BY <1>0, <2>1, BooksKept DEF Balanced, NsBooks, NsDue, NsCountDue
  <2>4. QED
    BY <1>0, <2>2, <2>3 DEF Balanced
<1>3. CASE AdjustNamespace(me)
  <2>1. /\ pc[me] = "nsDiff" /\ pc'[me] = "vaultDiff"
        /\ nsBytes' = [nsBytes EXCEPT ![call[me].ns] = @ + delta[me]]
        /\ UNCHANGED <<vaultBytes, vaultCount, nsCount>>
    BY <1>3 DEF AdjustNamespace, Goto, TypeInv, TypeOK
  <2>2. VaultBooks(me)'
    BY <1>0, <1>a, <2>1, BooksKept DEF VaultBooks, VaultDue, VaultCountDue
  <2>3. ASSUME NEW n \in Namespaces \ dropped PROVE NsBooks(me, n)'
    BY <1>0, <2>1, BooksKept DEF Balanced, NsBooks, NsDue, NsCountDue,
                                 TypeInv, TypeOK
  <2>4. QED
    BY <1>0, <2>2, <2>3 DEF Balanced
<1>4. CASE AdjustVault(me)
  <2>1. /\ pc[me] = "vaultDiff" /\ pc'[me] = "audit"
        /\ vaultBytes' = vaultBytes + delta[me]
        /\ UNCHANGED <<vaultCount, nsBytes, nsCount>>
    BY <1>4 DEF AdjustVault, Goto, TypeInv, TypeOK
  <2>2. VaultBooks(me)'
    BY <1>0, <1>a, <2>1, BooksKept DEF VaultBooks, VaultDue, VaultCountDue
  <2>3. ASSUME NEW n \in Namespaces \ dropped PROVE NsBooks(me, n)'
    BY <1>0, <2>1, BooksKept DEF Balanced, NsBooks, NsDue, NsCountDue
  <2>4. QED
    BY <1>0, <2>2, <2>3 DEF Balanced
<1>5. CASE SubtractFromNamespace(me)
  <2>1. /\ pc[me] = "nsSub" /\ pc'[me] = "vaultSub"
        /\ nsBytes' = [nsBytes EXCEPT ![call[me].ns] = Less(@, delta[me])]
        /\ nsCount' = [nsCount EXCEPT ![call[me].ns] = Less(@, 1)]
        /\ UNCHANGED <<vaultBytes, vaultCount>>
    BY <1>5 DEF SubtractFromNamespace, Goto, TypeInv, TypeOK
  <2>2. VaultBooks(me)'
    BY <1>0, <1>a, <2>1, BooksKept DEF VaultBooks, VaultDue, VaultCountDue
  <2>3. /\ Less(nsBytes[call[me].ns], delta[me]) = BytesOf(CountedIn(call[me].ns))
        /\ Less(nsCount[call[me].ns], 1) = Cardinality(CountedIn(call[me].ns))
    BY <1>0, <1>a, <1>b, <2>1 DEF NsBooks, NsDue, NsCountDue, Less
  <2>4. ASSUME NEW n \in Namespaces \ dropped PROVE NsBooks(me, n)'
    <3>1. CASE n = call[me].ns
      <4>1. /\ nsBytes'[n] = BytesOf(CountedIn(n))
            /\ nsCount'[n] = Cardinality(CountedIn(n))
        BY <1>0, <2>1, <2>3, <3>1 DEF TypeInv, TypeOK
      <4>2. NsDue(me, n)' = 0 /\ NsCountDue(me, n)' = 0
        BY <2>1 DEF NsDue, NsCountDue
      <4>3. BytesOf(CountedIn(n)) \in Nat /\ Cardinality(CountedIn(n)) \in Nat
        BY BookTypes
      <4>4. QED
        BY <1>0, <4>1, <4>2, <4>3, BooksKept DEF NsBooks
    <3>2. CASE n # call[me].ns
      BY <1>0, <2>1, <3>2, BooksKept DEF Balanced, NsBooks, NsDue, NsCountDue,
                                         TypeInv, TypeOK
    <3>3. QED
      BY <3>1, <3>2
  <2>5. QED
    BY <1>0, <2>2, <2>4 DEF Balanced
<1>6. CASE SubtractFromVault(me)
  <2>1. /\ pc[me] = "vaultSub" /\ pc'[me] = "audit"
        /\ vaultBytes' = Less(vaultBytes, delta[me])
        /\ vaultCount' = Less(vaultCount, 1)
        /\ UNCHANGED <<nsBytes, nsCount>>
    BY <1>6 DEF SubtractFromVault, Goto, TypeInv, TypeOK
  <2>2. VaultBooks(me)'
    <3>1. /\ vaultBytes' = BytesOf(Counted) + lost.bytes
          /\ vaultCount' = Cardinality(Counted) + lost.count
      BY <1>0, <1>a, <1>b, <2>1 DEF VaultBooks, VaultDue, VaultCountDue, Less
    <3>2. VaultDue(me)' = 0 /\ VaultCountDue(me)' = 0
      BY <2>1 DEF VaultDue, VaultCountDue
    <3>3. QED
      BY <1>0, <1>b, <3>1, <3>2, BooksKept DEF VaultBooks
  <2>3. ASSUME NEW n \in Namespaces \ dropped PROVE NsBooks(me, n)'
    BY <1>0, <2>1, BooksKept DEF Balanced, NsBooks, NsDue, NsCountDue
  <2>4. QED
    BY <1>0, <2>2, <2>3 DEF Balanced
<1>7. QED
  BY <1>1, <1>2, <1>3, <1>4, <1>5, <1>6

\* A statement that writes one row: what it adds to what is counted, and to
\* nothing but the namespace of the row, is what it leaves due.
LEMMA BooksWritten ==
  ASSUME TypeInv, TypeInv', NEW r \in Requests, Balanced(r),
         UNCHANGED <<vaultBytes, vaultCount, nsBytes, nsCount, call>>,
         UNCHANGED dropVars, lost.bytes \in Nat, lost.count \in Nat,
         NEW id \in ObjectIds, \A i \in ObjectIds \ {id} : object'[i] = object[i],
         \A n : id \in CountedIn(n) => n = call[r].ns,
         \A n : id \in CountedIn(n)' => n = call[r].ns,
         id \in Counted => id \in CountedIn(call[r].ns),
         id \in Counted' => id \in CountedIn(call[r].ns)',
         pc[r] \notin Counting \cup {"idle", "nsSub", "vaultSub"},
         pc'[r] \in {"nsAdd", "nsDiff", "nsSub"},
         VaultDue(r)' = (IF id \in Counted' THEN object'[id].size ELSE 0)
                          - (IF id \in Counted THEN object[id].size ELSE 0),
         VaultCountDue(r)' = (IF id \in Counted' THEN 1 ELSE 0)
                               - (IF id \in Counted THEN 1 ELSE 0)
  PROVE  Balanced(r)'
<1> DEFINE new == IF id \in Counted' THEN object'[id].size ELSE 0
           old == IF id \in Counted THEN object[id].size ELSE 0
           new1 == IF id \in Counted' THEN 1 ELSE 0
           old1 == IF id \in Counted THEN 1 ELSE 0
<1>1. new \in Nat /\ old \in Nat /\ new1 \in Nat /\ old1 \in Nat
  BY DEF Counted, Live, Exists, TypeInv, TypeOK, Row
<1>2. /\ VaultDue(r) = 0 /\ VaultCountDue(r) = 0
      /\ \A n : NsDue(r, n) = 0 /\ NsCountDue(r, n) = 0
  BY DEF VaultDue, VaultCountDue, NsDue, NsCountDue, Counting
<1>3. /\ BytesOf(Counted) \in Nat /\ Cardinality(Counted) \in Nat
      /\ \A n : BytesOf(CountedIn(n)) \in Nat /\ Cardinality(CountedIn(n)) \in Nat
  BY BookTypes
<1>4. /\ BytesOf(Counted)' \in Int /\ Cardinality(Counted)' \in Int
      /\ \A n : BytesOf(CountedIn(n))' \in Int /\ Cardinality(CountedIn(n))' \in Int
  BY BookTypesAfter
<1>5. /\ BytesOf(Counted)' - new = BytesOf(Counted) - old
      /\ Cardinality(Counted)' - new1 = Cardinality(Counted) - old1
  BY BooksChange
<1>6. VaultDue(r)' = new - old /\ VaultCountDue(r)' = new1 - old1
  OBVIOUS
<1>7. call'[r].ns = call[r].ns /\ call[r].ns \in Namespaces \ dropped
  BY DEF Balanced, TypeInv, LocalsOK, Call
<1>8. ASSUME NEW n, n = call[r].ns
      PROVE  NsDue(r, n)' = new - old /\ NsCountDue(r, n)' = new1 - old1
  <2>1. NsDue(r, n)' = VaultDue(r)'
    BY <1>7, <1>8 DEF NsDue, VaultDue, Counting
  <2>2. NsCountDue(r, n)' = VaultCountDue(r)'
    BY <1>7, <1>8 DEF NsCountDue, VaultCountDue
  <2>3. QED
    BY <1>6, <2>1, <2>2
<1> HIDE DEF new, old, new1, old1
<1>9. VaultBooks(r)'
  <2>1. vaultBytes \in Int /\ vaultCount \in Int
    BY DEF TypeInv, TypeOK
  <2>2. /\ vaultBytes = BytesOf(Counted) + lost.bytes
        /\ vaultCount = Cardinality(Counted) + lost.count
    BY <1>2, <2>1 DEF Balanced, VaultBooks
  <2>3. /\ vaultBytes' = vaultBytes /\ vaultCount' = vaultCount /\ lost' = lost
    BY DEF dropVars
  <2>4. /\ vaultBytes' + (new - old) = BytesOf(Counted)' + lost.bytes
        /\ vaultCount' + (new1 - old1) = Cardinality(Counted)' + lost.count
    BY <1>1, <1>3, <1>4, <1>5, <2>1, <2>2, <2>3
  <2>5. QED
    BY <1>6, <2>3, <2>4 DEF VaultBooks
<1>10. ASSUME NEW n \in Namespaces \ dropped PROVE NsBooks(r, n)'
  <2>1. nsBytes[n] \in Int /\ nsCount[n] \in Int
    BY DEF TypeInv, TypeOK
  <2>2. NsBooks(r, n)
    BY DEF Balanced
  <2>3. CASE n = call[r].ns
    <3>1. /\ BytesOf(CountedIn(n))' - new = BytesOf(CountedIn(n)) - old
          /\ Cardinality(CountedIn(n))' - new1 = Cardinality(CountedIn(n)) - old1
      <4>1. (id \in CountedIn(n) <=> id \in Counted)
            /\ (id \in CountedIn(n)' <=> id \in Counted')
        BY <1>7, <2>3 DEF CountedIn
      <4>2. QED
        BY <4>1, BooksChange DEF new, old, new1, old1
    <3>2. NsDue(r, n)' = new - old /\ NsCountDue(r, n)' = new1 - old1
      BY <1>7, <1>8, <2>3
    <3>3. QED
      BY <1>1, <1>2, <1>3, <1>4, <2>1, <2>2, <3>1, <3>2 DEF NsBooks
  <2>4. CASE n # call[r].ns
    <3>1. id \notin CountedIn(n) /\ id \notin CountedIn(n)'
      BY <2>4
    <3>2. /\ BytesOf(CountedIn(n))' = BytesOf(CountedIn(n))
          /\ Cardinality(CountedIn(n))' = Cardinality(CountedIn(n))
      BY <1>3, <1>4, <3>1, BooksChange
    <3>3. NsDue(r, n)' = 0 /\ NsCountDue(r, n)' = 0
      BY <1>7, <2>4 DEF NsDue, NsCountDue
    <3>4. QED
      BY <1>2, <2>1, <2>2, <3>2, <3>3 DEF NsBooks
  <2>5. QED
    BY <2>3, <2>4
<1>11. QED
  BY <1>7, <1>9, <1>10 DEF Balanced, dropVars

\* A new object is due to the counters of its namespace.
LEMMA InsertBalanced ==
  ASSUME TypeInv, TypeInv', WinnerInv, NEW r \in Requests, Balanced(r),
         UNCHANGED dropVars, lost.bytes \in Nat, lost.count \in Nat,
         InsertConfirmed(r), ~Reply(r, "insert")
  PROVE  Balanced(r)'
<1> USE ConstantsAssumption
<1>1. PICK row \in Row :
        /\ target[r] \in ObjectIds /\ object[target[r]] = Null
        /\ object' = [object EXCEPT ![target[r]] = row]
        /\ row.size = call[r].size /\ row.ns = call[r].ns
        /\ row.status = "confirmed" /\ ~row.deleted
  BY InsertedRow
<1>2. /\ pc[r] = "insert" /\ pc'[r] = "nsAdd" /\ delta'[r] = call[r].size
      /\ UNCHANGED <<vaultBytes, vaultCount, nsBytes, nsCount, call>>
  BY DEF InsertConfirmed, Goto, TypeInv, TypeOK
<1>3. /\ object'[target[r]] = row /\ row # Null
      /\ \A i \in ObjectIds \ {target[r]} : object'[i] = object[i]
  BY <1>1 DEF TypeInv, TypeOK, ConstantsAssumption
<1>4. PICK id \in ObjectIds : id = target[r]
  BY <1>1
<1>5. id \notin Counted /\ \A n : id \notin CountedIn(n)
  BY <1>1, <1>4 DEF Counted, CountedIn, Live, Exists
<1>6. id \in Counted' /\ \A n : id \in CountedIn(n)' <=> n = call[r].ns
  BY <1>1, <1>3, <1>4 DEF Counted, CountedIn, Live, Confirmed, Exists
<1>7. VaultDue(r)' = object'[id].size /\ VaultCountDue(r)' = 1
  BY <1>1, <1>2, <1>3, <1>4 DEF VaultDue, VaultCountDue, Counting
<1>8. object'[id].size \in Nat
  BY <1>1, <1>3, <1>4 DEF Row
<1>9. /\ pc[r] \notin Counting \cup {"idle", "nsSub", "vaultSub"}
      /\ pc'[r] \in {"nsAdd", "nsDiff", "nsSub"}
  BY <1>2 DEF Counting
<1>10. \A i \in ObjectIds \ {id} : object'[i] = object[i]
  BY <1>3, <1>4
<1>11. /\ VaultDue(r)' = (IF id \in Counted' THEN object'[id].size ELSE 0)
                          - (IF id \in Counted THEN object[id].size ELSE 0)
       /\ VaultCountDue(r)' = (IF id \in Counted' THEN 1 ELSE 0)
                               - (IF id \in Counted THEN 1 ELSE 0)
  BY <1>5, <1>6, <1>7, <1>8
<1>12. QED
  BY <1>2, <1>5, <1>6, <1>9, <1>10, <1>11, BooksWritten

\* An upsert leaves the difference of the sizes due.
LEMMA UpdateBalanced ==
  ASSUME TypeInv, TypeInv', PlainRows, NEW r \in Requests, Balanced(r),
         UNCHANGED dropVars, lost.bytes \in Nat, lost.count \in Nat,
         UpdateRow(r), Found(r)
  PROVE  Balanced(r)'
<1> USE ConstantsAssumption
<1>1. PICK row \in Row :
        /\ target[r] \in ObjectIds /\ object[target[r]] \in Row
        /\ object' = [object EXCEPT ![target[r]] = row]
        /\ row.size = call[r].size /\ row.ns = object[target[r]].ns
        /\ row.status = object[target[r]].status
        /\ row.deleted = object[target[r]].deleted
  BY UpdatedRow
<1>2. /\ pc[r] = "update" /\ pc'[r] = "nsDiff" /\ delta'[r] = delta[r]
      /\ UNCHANGED <<vaultBytes, vaultCount, nsBytes, nsCount, call>>
  BY DEF UpdateRow, Goto, TypeInv, TypeOK
<1>3. /\ object'[target[r]] = row /\ row # Null
      /\ \A i \in ObjectIds \ {target[r]} : object'[i] = object[i]
  BY <1>1 DEF TypeInv, TypeOK, ConstantsAssumption
<1>4. PICK id \in ObjectIds : id = target[r]
  BY <1>1
<1>5. id \in Counted /\ object[id].ns = call[r].ns
  BY <1>4 DEF Found, LiveAt, At, Live, Counted, PlainRows
<1>6. id \in Counted' /\ object'[id].ns = call[r].ns
  BY <1>1, <1>3, <1>4, <1>5 DEF Counted, Live, Confirmed, Exists
<1>7. /\ VaultDue(r)' = call[r].size - object[id].size /\ VaultCountDue(r)' = 0
      /\ object'[id].size = call[r].size
  BY <1>1, <1>2, <1>3, <1>4 DEF VaultDue, VaultCountDue, Counting, Found
<1>8. /\ pc[r] \notin Counting \cup {"idle", "nsSub", "vaultSub"}
      /\ pc'[r] \in {"nsAdd", "nsDiff", "nsSub"}
  BY <1>2 DEF Counting
<1>9. \A i \in ObjectIds \ {id} : object'[i] = object[i]
  BY <1>3, <1>4
<1>10. /\ VaultDue(r)' = (IF id \in Counted' THEN object'[id].size ELSE 0)
                           - (IF id \in Counted THEN object[id].size ELSE 0)
       /\ VaultCountDue(r)' = (IF id \in Counted' THEN 1 ELSE 0)
                                - (IF id \in Counted THEN 1 ELSE 0)
  BY <1>5, <1>6, <1>7
<1>11. /\ \A n : id \in CountedIn(n) <=> n = call[r].ns
       /\ \A n : id \in CountedIn(n)' <=> n = call[r].ns
  BY <1>5, <1>6 DEF CountedIn
<1>12. QED
  BY <1>2, <1>8, <1>9, <1>10, <1>11, BooksWritten

\* A deleted object has its size and itself to be taken off.
LEMMA MarkBalanced ==
  ASSUME TypeInv, TypeInv', PlainRows, NEW r \in Requests, Balanced(r),
         UNCHANGED dropVars, lost.bytes \in Nat, lost.count \in Nat,
         MarkDeleted(r), ~Reply(r, "mark")
  PROVE  Balanced(r)'
<1> USE ConstantsAssumption
<1>1. PICK id \in ObjectIds, row \in Row :
        /\ object[id] \in Row /\ ~object[id].deleted
        /\ object[id].ns = call[r].ns
        /\ object' = [object EXCEPT ![id] = row]
        /\ delta' = [delta EXCEPT ![r] = object[id].size]
        /\ Goto(r, "mark", "nsSub") /\ UNCHANGED call /\ row.deleted
  BY MarkedRow
<1>2. /\ pc[r] = "mark" /\ pc'[r] = "nsSub" /\ delta'[r] = object[id].size
      /\ UNCHANGED <<vaultBytes, vaultCount, nsBytes, nsCount, call>>
  BY <1>1 DEF MarkDeleted, Goto, TypeInv, TypeOK
<1>3. /\ object'[id] = row
      /\ \A i \in ObjectIds \ {id} : object'[i] = object[i]
  BY <1>1 DEF TypeInv, TypeOK
<1>4. id \in Counted /\ \A n : id \in CountedIn(n) <=> n = call[r].ns
  BY <1>1 DEF Counted, CountedIn, Live, Exists, PlainRows, ConstantsAssumption
<1>5. id \notin Counted' /\ \A n : id \notin CountedIn(n)'
  BY <1>1, <1>3 DEF Counted, CountedIn, Live
<1>6. VaultDue(r)' = -object[id].size /\ VaultCountDue(r)' = -1
  BY <1>2 DEF VaultDue, VaultCountDue, Counting
<1>7. object[id].size \in Nat
  BY <1>1 DEF Row
<1>8. /\ pc[r] \notin Counting \cup {"idle", "nsSub", "vaultSub"}
      /\ pc'[r] \in {"nsAdd", "nsDiff", "nsSub"}
  BY <1>2 DEF Counting
<1>9. /\ VaultDue(r)' = (IF id \in Counted' THEN object'[id].size ELSE 0)
                          - (IF id \in Counted THEN object[id].size ELSE 0)
      /\ VaultCountDue(r)' = (IF id \in Counted' THEN 1 ELSE 0)
                               - (IF id \in Counted THEN 1 ELSE 0)
  BY <1>4, <1>5, <1>6, <1>7
<1>10. QED
  BY <1>2, <1>3, <1>4, <1>5, <1>8, <1>9, BooksWritten

\* Steps that do not move the request: a row expires, which is counted as
\* before, or a namespace goes while the request is idle.
LEMMA ExpireBalanced ==
  ASSUME TypeInv, TypeInv', NEW r \in Requests, Balanced(r),
         UNCHANGED dropVars, NEW id \in ObjectIds, Expire(id)
  PROVE  Balanced(r)'
<1> USE ConstantsAssumption
<1>1. PICK row \in Row :
        /\ object[id] \in Row /\ object' = [object EXCEPT ![id] = row]
        /\ row.size = object[id].size /\ row.ns = object[id].ns
        /\ row.status = object[id].status /\ row.deleted = object[id].deleted
  BY ExpiredRow
<1>2. /\ object'[id] = row /\ row # Null /\ object[id] # Null
      /\ \A i \in ObjectIds \ {id} : object'[i] = object[i]
  BY <1>1 DEF TypeInv, TypeOK, ConstantsAssumption
<1>3. /\ id \in Counted' <=> id \in Counted
      /\ \A n : id \in CountedIn(n)' <=> id \in CountedIn(n)
      /\ object'[id].size = object[id].size /\ object[id].size \in Nat
  BY <1>1, <1>2 DEF Counted, CountedIn, Live, Confirmed, Exists, Row
<1>4. /\ BytesOf(Counted) \in Nat /\ Cardinality(Counted) \in Nat
      /\ \A n : BytesOf(CountedIn(n)) \in Nat /\ Cardinality(CountedIn(n)) \in Nat
  BY BookTypes
<1>5. /\ BytesOf(Counted)' \in Int /\ Cardinality(Counted)' \in Int
      /\ \A n : BytesOf(CountedIn(n))' \in Int /\ Cardinality(CountedIn(n))' \in Int
  BY BookTypesAfter
<1>6. BytesOf(Counted)' = BytesOf(Counted) /\ Cardinality(Counted)' = Cardinality(Counted)
  BY <1>2, <1>3, <1>4, <1>5, BooksChange
<1>7. \A n : /\ BytesOf(CountedIn(n))' = BytesOf(CountedIn(n))
             /\ Cardinality(CountedIn(n))' = Cardinality(CountedIn(n))
  BY <1>2, <1>3, <1>4, <1>5, BooksChange
<1>8. UNCHANGED <<vaultBytes, vaultCount, nsBytes, nsCount, pc, call, delta>>
  BY DEF Expire, locals
<1>9. QED
  BY <1>6, <1>7, <1>8 DEF Balanced, VaultBooks, NsBooks, VaultDue,
    VaultCountDue, NsDue, NsCountDue, dropVars

\* What a namespace held when it went is what the vault has too much.
LEMMA DropBalanced ==
  ASSUME TypeInv, NEW r \in Requests, Balanced(r), pc[r] = "idle",
         lost.bytes \in Nat, lost.count \in Nat,
         NEW n \in Namespaces, DropNamespace(n)
  PROVE  Balanced(r)'
<1>1. /\ object' = RowsWithout(n) /\ dropped' = dropped \cup {n}
      /\ lost'.bytes = lost.bytes + BytesOf(CountedIn(n))
      /\ lost'.count = lost.count + Cardinality(CountedIn(n))
      /\ UNCHANGED <<vaultBytes, vaultCount, nsBytes, nsCount, pc, call, delta>>
  BY DEF DropNamespace, locals
<1>2. /\ VaultDue(r) = 0 /\ VaultCountDue(r) = 0
      /\ VaultDue(r)' = 0 /\ VaultCountDue(r)' = 0
      /\ \A m : /\ NsDue(r, m) = 0 /\ NsCountDue(r, m) = 0
                /\ NsDue(r, m)' = 0 /\ NsCountDue(r, m)' = 0
  BY <1>1 DEF VaultDue, VaultCountDue, NsDue, NsCountDue, Counting
<1>3. /\ BytesOf(Counted) \in Nat /\ Cardinality(Counted) \in Nat
      /\ \A m : BytesOf(CountedIn(m)) \in Nat /\ Cardinality(CountedIn(m)) \in Nat
  BY BookTypes
<1>4. /\ BytesOf(Counted)' + BytesOf(CountedIn(n)) = BytesOf(Counted)
      /\ Cardinality(Counted)' + Cardinality(CountedIn(n)) = Cardinality(Counted)
      /\ \A m \in Namespaces \ {n} :
           /\ BytesOf(CountedIn(m))' = BytesOf(CountedIn(m))
           /\ Cardinality(CountedIn(m))' = Cardinality(CountedIn(m))
  BY <1>1, BooksDrop
<1>5. VaultBooks(r)'
  <2>1. vaultBytes \in Int /\ vaultCount \in Int
    BY DEF TypeInv, TypeOK
  <2>2. BytesOf(Counted)' \in Int /\ Cardinality(Counted)' \in Int
    <3>1. IsFiniteSet(Counted') /\ \A id \in Counted' : object'[id].size \in Nat
      <4>1. Counted' = Counted \ CountedIn(n)
        BY <1>1, CountedAfterDrop
      <4>2. \A id \in Counted : object'[id].size = object[id].size
        BY <1>1, RowsMarked DEF Counted, Live
      <4>3. IsFiniteSet(Counted \ CountedIn(n))
        BY CountedSets, FS_Difference
      <4>4. QED
        BY <4>1, <4>2, <4>3, CountedSets
    <3>2. SizesOf(object', Counted') \in Nat /\ Cardinality(Counted') \in Nat
      BY <3>1, SizesType, FS_CardinalityType
    <3>3. QED
      BY <3>2, BytesAreSizes
  <2>3. QED
    BY <1>1, <1>2, <1>3, <1>4, <2>1, <2>2 DEF Balanced, VaultBooks
<1>6. ASSUME NEW m \in Namespaces \ dropped' PROVE NsBooks(r, m)'
  BY <1>1, <1>2, <1>4 DEF Balanced, NsBooks
<1>7. QED
  BY <1>1, <1>5, <1>6 DEF Balanced

\* Every step keeps the books right.
LEMMA BalancedStep ==
  ASSUME NEW me, Requests = {me}, "presign" \notin Operations, ~Faulty,
         DropInv, DropInv', SerialInv, BalancedInv, [DropNext]_dropAll
  PROVE  BalancedInv'
<1> USE ConstantsAssumption
<1>0. /\ TypeInv /\ TypeInv' /\ WinnerInv /\ PlainRows /\ SerialAt(me)
      /\ me \in Requests /\ lost.bytes \in Nat /\ lost.count \in Nat
  BY DEF DropInv, SerialInv
<1>1. SUFFICES ASSUME ~overrun' PROVE Balanced(me)'
  BY DEF BalancedInv
<1>2. ~overrun
  BY <1>1, DropSteps DEF dropVars, StrandedStep, DropNamespace
<1>3. Balanced(me)
  BY <1>0, <1>2 DEF BalancedInv
\* A step that leaves nothing due.
<1>4. ASSUME UNCHANGED dropVars,
             UNCHANGED <<object, vaultBytes, vaultCount, nsBytes, nsCount>>,
             pc[me] \notin Counting \cup {"nsSub", "vaultSub"},
             pc'[me] \notin Counting \cup {"nsSub", "vaultSub"},
             pc[me] = "idle" \/ pc'[me] = "idle" \/ call'[me] = call[me]
      PROVE  Balanced(me)'
  <2>1. pc'[me] # "idle" => call'[me].ns \notin dropped
    BY <1>0, <1>3, <1>4, BeginsInside DEF Balanced
  <2>2. QED
    BY <1>0, <1>3, <1>4, <2>1, BooksQuiet
<1>5. ASSUME UNCHANGED dropVars, NEW l \in Labels, Reply(me, l),
             l \notin Counting \cup {"nsSub", "vaultSub"},
             UNCHANGED <<object, vaultBytes, vaultCount, nsBytes, nsCount>>
      PROVE  Balanced(me)'
  <2>1. pc[me] = l /\ pc'[me] = "idle"
    BY <1>0, <1>5 DEF Reply, TypeInv, TypeOK
  <2>2. QED
    BY <1>4, <1>5, <2>1 DEF Counting
<1>6. ASSUME UNCHANGED dropVars, StartStore(me) \/ StartKeyed(me)
      PROVE  Balanced(me)'
  <2>1. pc[me] = "idle" /\ pc'[me] \in {"quota", "mark", "find"}
    BY <1>0, <1>6 DEF StartStore, StartKeyed, Goto, TypeInv, TypeOK
  <2>2. UNCHANGED <<object, vaultBytes, vaultCount, nsBytes, nsCount>>
    BY <1>6 DEF StartStore, StartKeyed, tables
  <2>3. QED
    BY <1>4, <1>6, <2>1, <2>2 DEF Counting
<1>7. ASSUME UNCHANGED dropVars,
             \/ CheckQuota(me) \/ LookupExisting(me) \/ PutNewBlob(me)
             \/ OverwriteBlob(me) \/ FindObject(me) \/ GetBlob(me) \/ Audit(me)
      PROVE  Balanced(me)'
  <2>1. UNCHANGED <<object, vaultBytes, vaultCount, nsBytes, nsCount>>
    BY <1>7 DEF CheckQuota, LookupExisting, PutNewBlob, OverwriteBlob,
                FindObject, GetBlob, Audit, tables
  <2>2. AfterQuota(call[me].op) \in {"put", "insertPending", "lookup"}
    BY DEF AfterQuota
  <2>3. /\ pc[me] \in {"quota", "lookup", "put", "find", "get", "audit"}
        /\ \/ pc'[me] = "idle"
           \/ /\ call'[me] = call[me]
              /\ pc'[me] \in {"put", "insertPending", "lookup", "insert",
                              "update", "get", "audit"}
    BY <1>0, <1>7, <2>2 DEF CheckQuota, LookupExisting, PutNewBlob,
      OverwriteBlob, FindObject, GetBlob, Audit, Goto, Reply, TypeInv, TypeOK
  <2>4. QED
    BY <1>4, <1>7, <2>1, <2>3 DEF Counting
<1>8. ASSUME UNCHANGED dropVars, InsertConfirmed(me) PROVE Balanced(me)'
  <2>1. CASE Reply(me, "insert")
    <3>1. UNCHANGED <<object, vaultBytes, vaultCount, nsBytes, nsCount>>
      BY <1>0, <1>8, <2>1 DEF InsertConfirmed, Goto, Reply, TypeInv, TypeOK
    <3>2. QED
      BY <1>5, <1>8, <2>1, <3>1 DEF Labels, Counting
  <2>2. CASE ~Reply(me, "insert")
    BY <1>0, <1>3, <1>8, <2>2, InsertBalanced
  <2>3. QED
    BY <2>1, <2>2
<1>9. ASSUME UNCHANGED dropVars, UpdateRow(me) PROVE Balanced(me)'
  <2>1. pc[me] = "update" /\ target[me] # Null /\ ~Dropped(me)
    BY <1>0, <1>3, <1>9 DEF UpdateRow, Goto, Balanced, Dropped, TypeInv,
                            LocalsOK, HasRow, ConstantsAssumption
  <2>2. Found(me)
    BY <1>0, <2>1 DEF SerialAt
  <2>3. QED
    BY <1>0, <1>3, <1>9, <2>2, UpdateBalanced
<1>10. ASSUME UNCHANGED dropVars, MarkDeleted(me) PROVE Balanced(me)'
  <2>1. CASE Reply(me, "mark")
    <3>1. UNCHANGED <<object, vaultBytes, vaultCount, nsBytes, nsCount>>
      BY <1>0, <1>10, <2>1 DEF MarkDeleted, Goto, Reply, TypeInv, TypeOK
    <3>2. QED
      BY <1>5, <1>10, <2>1, <3>1 DEF Labels, Counting
  <2>2. CASE ~Reply(me, "mark")
    BY <1>0, <1>3, <1>10, <2>2, MarkBalanced
  <2>3. QED
    BY <2>1, <2>2
<1>11. ASSUME UNCHANGED dropVars,
              \/ AddToNamespace(me) \/ AddToVault(me)
              \/ AdjustNamespace(me) \/ AdjustVault(me)
              \/ SubtractFromNamespace(me) \/ SubtractFromVault(me)
       PROVE  Balanced(me)'
  BY <1>0, <1>3, <1>11, BooksBrought
<1>12. ASSUME UNCHANGED dropVars, NEW id \in ObjectIds, Expire(id)
       PROVE  Balanced(me)'
  BY <1>0, <1>3, <1>12, ExpireBalanced
<1>13. ASSUME UNCHANGED dropVars, UNCHANGED vars PROVE Balanced(me)'
  BY <1>3, <1>13, BooksKept DEF vars, dropVars, Balanced, VaultBooks, NsBooks,
    VaultDue, VaultCountDue, NsDue, NsCountDue
<1>14. ASSUME StrandedStep(me) PROVE FALSE
  BY <1>3, <1>14 DEF StrandedStep, Stranded, Dropped, Balanced
<1>15. ASSUME NEW n \in Namespaces, DropNamespace(n) PROVE Balanced(me)'
  <2>1. pc[me] = "idle"
    BY <1>0, <1>1, <1>15 DEF DropNamespace
  <2>2. QED
    BY <1>0, <1>3, <1>15, <2>1, DropBalanced
<1>16. ~Stop(me)
  BY DEF Stop
<1>17. QED
  BY <1>6, <1>7, <1>8, <1>9, <1>10, <1>11, <1>12, <1>13, <1>14, <1>15, <1>16,
     SerialSteps

\* One request at a time, without failed statements and presigned uploads, and
\* with namespaces deleted in between: whenever no request is running, and
\* unless a namespace was deleted under one, the counters of each namespace
\* are what a recount of its confirmed live objects gives, and those of the
\* vault are too high by exactly what the deleted namespaces held, which
\* nothing ever gives back and the quota counts as used.
THEOREM CountersAddUp ==
  ASSUME NEW me, Requests = {me}, "presign" \notin Operations, ~Faulty
  PROVE  DropSpec => []CountersExplained
<1>1. DropInit => DropInv /\ SerialInv /\ BalancedInv
  BY DropInvInit, SerialInit, BalancedInit
<1>2. DropInv /\ SerialInv /\ BalancedInv /\ [DropNext]_dropAll =>
        DropInv' /\ SerialInv' /\ BalancedInv'
  BY DropInvStep, SerialStep, BalancedStep
<1>3. DropInv /\ BalancedInv => CountersExplained
  <2>1. SUFFICES ASSUME DropInv, BalancedInv, pc[me] = "idle", ~overrun
                 PROVE  /\ vaultBytes = BytesOf(Counted) + lost.bytes
                        /\ vaultCount = Cardinality(Counted) + lost.count
                        /\ \A n \in Namespaces \ dropped :
                             /\ nsBytes[n] = BytesOf(CountedIn(n))
                             /\ nsCount[n] = Cardinality(CountedIn(n))
    BY DEF CountersExplained
  <2>2. Balanced(me)
    BY <2>1 DEF BalancedInv
  <2>3. /\ VaultDue(me) = 0 /\ VaultCountDue(me) = 0
        /\ \A n : NsDue(me, n) = 0 /\ NsCountDue(me, n) = 0
    BY <2>1 DEF VaultDue, VaultCountDue, NsDue, NsCountDue, Counting
  <2>4. /\ vaultBytes \in Int /\ vaultCount \in Int
        /\ \A n \in Namespaces : nsBytes[n] \in Int /\ nsCount[n] \in Int
    BY <2>1 DEF DropInv, TypeInv, TypeOK
  <2>5. QED
    BY <2>2, <2>3, <2>4 DEF Balanced, VaultBooks, NsBooks
<1>4. QED
  BY <1>1, <1>2, <1>3, PTL DEF DropSpec, dropAll
=============================================================================
