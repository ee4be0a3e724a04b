---------------------------- MODULE SumTheorems ----------------------------
(* The sum of a function over a finite set: the operator MapThenSumSet, by *)
(* which the modules add up counters, picks the elements one by one.  The  *)
(* proofs are by a smallest set that makes a claim false.                  *)
EXTENDS Integers, FiniteSets, FiniteSetsExt, FiniteSetTheorems, TLAPS

SumOver(f, S) == MapThenSumSet(LAMBDA x : f[x], S)

Pick(s) == CHOOSE x \in s : TRUE

(* g maps the subsets of S to their sums.                                  *)
IsSum(f, g, S) ==
  g = [s \in SUBSET S |-> IF s = {} THEN 0 ELSE f[Pick(s)] + g[s \ {Pick(s)}]]
SumOn(f, S) == CHOOSE g : IsSum(f, g, S)

LEMMA SmallestSet ==
  ASSUME NEW S, IsFiniteSet(S), NEW Bad, Bad \subseteq SUBSET S, Bad # {}
  PROVE  \E m \in Bad : IsFiniteSet(m) /\ \A s \in Bad : s \subseteq m => s = m
<1>1. Bad \subseteq FiniteSubsetsOf(S)
  BY FS_Subset DEF FiniteSubsetsOf
<1>2. PICK m \in Bad : \A s \in Bad : <<s, m>> \notin StrictSubsetOrdering(S)
  BY <1>1, WFMin, FS_StrictSubsetOrderingWellFounded
<1>3. \A s \in Bad : s \subseteq m => s = m
  BY <1>2 DEF StrictSubsetOrdering
<1> QED
  BY <1>1, <1>3 DEF FiniteSubsetsOf

LEMMA PickIn ==
  ASSUME NEW s, s # {}
  PROVE  Pick(s) \in s /\ s \ {Pick(s)} \subseteq s /\ s \ {Pick(s)} # s
BY DEF Pick

(* There is one such g only: a larger one agrees with a smaller one.       *)
LEMMA SumUnique ==
  ASSUME NEW S, IsFiniteSet(S), NEW T \in SUBSET S, NEW f, NEW g, NEW h,
         IsSum(f, g, S), IsSum(f, h, T), NEW s \in SUBSET T
  PROVE  g[s] = h[s]
<1> DEFINE Bad == {t \in SUBSET T : g[t] # h[t]}
<1>1. SUFFICES ASSUME Bad # {} PROVE FALSE
  OBVIOUS
<1>2. PICK m \in Bad : \A t \in Bad : t \subseteq m => t = m
  <2>1. Bad \subseteq SUBSET T /\ IsFiniteSet(T)
    BY FS_Subset
  <2> HIDE DEF Bad
  <2> QED
    BY <1>1, <2>1, SmallestSet
<1>3. m \in SUBSET T /\ m \in SUBSET S
  OBVIOUS
<1>4. /\ g[m] = IF m = {} THEN 0 ELSE f[Pick(m)] + g[m \ {Pick(m)}]
      /\ h[m] = IF m = {} THEN 0 ELSE f[Pick(m)] + h[m \ {Pick(m)}]
  BY <1>3 DEF IsSum
<1>5. m # {} => g[m \ {Pick(m)}] = h[m \ {Pick(m)}]
  BY <1>2, <1>3, PickIn
<1> QED
  BY <1>4, <1>5

(* There is one.                                                           *)
LEMMA SumExists ==
  ASSUME NEW S, IsFiniteSet(S), NEW f
  PROVE  IsSum(f, SumOn(f, S), S)
<1> DEFINE Bad == {T \in SUBSET S : ~IsSum(f, SumOn(f, T), T)}
<1>1. SUFFICES ASSUME Bad # {} PROVE FALSE
  OBVIOUS
<1>2. PICK m \in Bad : IsFiniteSet(m) /\ \A t \in Bad : t \subseteq m => t = m
  <2>1. Bad \subseteq SUBSET S
    OBVIOUS
  <2> HIDE DEF Bad
  <2> QED
    BY <1>1, <2>1, SmallestSet
<1>3. \A u \in SUBSET m : u # m => IsFiniteSet(u) /\ IsSum(f, SumOn(f, u), u)
  BY <1>2, FS_Subset
<1> HIDE DEF Bad
<1> DEFINE Rest(s) == s \ {Pick(s)}
           G == [s \in SUBSET m |->
                   IF s = {} THEN 0 ELSE f[Pick(s)] + SumOn(f, Rest(s))[Rest(s)]]
<1>4. ASSUME NEW u \in SUBSET m, u # m PROVE G[u] = SumOn(f, u)[u]
  <2>1. IsFiniteSet(u) /\ IsSum(f, SumOn(f, u), u)
    BY <1>3, <1>4
  <2>2. SumOn(f, u)[u] = IF u = {} THEN 0 ELSE f[Pick(u)] + SumOn(f, u)[Rest(u)]
    <3> HIDE DEF G
    <3> QED BY <2>1 DEF IsSum
  <2>3. CASE u # {}
    <3>1. Rest(u) \in SUBSET u /\ Rest(u) \in SUBSET m /\ Rest(u) # m
      BY <1>4, <2>3, PickIn
    <3>2. IsSum(f, SumOn(f, Rest(u)), Rest(u))
      BY <1>3, <3>1
    <3>3. SumOn(f, u)[Rest(u)] = SumOn(f, Rest(u))[Rest(u)]
      BY <2>1, <3>1, <3>2, SumUnique
    <3> QED
      BY <2>2, <2>3, <3>3
  <2> QED
    BY <2>2, <2>3
<1>5. \A s \in SUBSET m : s # {} => G[Rest(s)] = SumOn(f, Rest(s))[Rest(s)]
  <2>1. ASSUME NEW s \in SUBSET m, s # {} PROVE Rest(s) \in SUBSET m /\ Rest(s) # m
    BY <2>1, PickIn
  <2> QED
    BY <1>4, <2>1
<1>6. G = [s \in SUBSET m |-> IF s = {} THEN 0 ELSE f[Pick(s)] + G[Rest(s)]]
  BY <1>5
<1>7. IsSum(f, G, m)
  BY <1>6 DEF IsSum
<1>8. IsSum(f, SumOn(f, m), m)
  BY <1>7 DEF SumOn
<1> QED
  BY <1>2, <1>8 DEF Bad

LEMMA SumIsSum ==
  ASSUME NEW f, NEW S
  PROVE  SumOver(f, S) = SumOn(f, S)[S]
BY DEF SumOver, MapThenSumSet, MapThenFoldSet, SumOn, IsSum, Pick

(* The sum of f over S is f at some element and the sum over the rest.     *)
LEMMA SumEmpty ==
  ASSUME NEW f
  PROVE  SumOver(f, {}) = 0
<1>1. IsFiniteSet({}) /\ {} \in SUBSET {}
  BY FS_EmptySet
<1> QED
  BY <1>1, SumIsSum, SumExists DEF IsSum

LEMMA SumPick ==
  ASSUME NEW S, IsFiniteSet(S), S # {}, NEW f
  PROVE  SumOver(f, S) = f[Pick(S)] + SumOver(f, S \ {Pick(S)})
<1> DEFINE R == S \ {Pick(S)}
<1>1. R \in SUBSET S /\ IsFiniteSet(R)
  BY FS_Subset
<1>2. IsSum(f, SumOn(f, S), S) /\ IsSum(f, SumOn(f, R), R)
  BY <1>1, SumExists
<1>3. SumOn(f, S)[R] = SumOn(f, R)[R]
  <2> HIDE DEF R
  <2> QED BY <1>1, <1>2, SumUnique
<1>4. SumOn(f, S)[S] = f[Pick(S)] + SumOn(f, S)[R]
  BY <1>2 DEF IsSum
<1> QED
  BY <1>3, <1>4, SumIsSum

LEMMA SumNat ==
  ASSUME NEW S, IsFiniteSet(S), NEW f, \A x \in S : f[x] \in Nat
  PROVE  SumOver(f, S) \in Nat
<1> DEFINE Bad == {t \in SUBSET S : SumOver(f, t) \notin Nat}
<1>1. SUFFICES ASSUME Bad # {} PROVE FALSE
  OBVIOUS
<1>2. PICK m \in Bad : IsFiniteSet(m) /\ \A t \in Bad : t \subseteq m => t = m
  <2>1. Bad \subseteq SUBSET S
    OBVIOUS
  <2> HIDE DEF Bad
  <2> QED
    BY <1>1, <2>1, SmallestSet
<1>3. CASE m = {}
  BY <1>3, SumEmpty
<1>4. CASE m # {}
  <2> DEFINE R == m \ {Pick(m)}
  <2>1. SumOver(f, m) = f[Pick(m)] + SumOver(f, R)
    BY <1>2, <1>4, SumPick
  <2>2. Pick(m) \in S /\ R \in SUBSET S /\ R \subseteq m /\ R # m
    BY <1>4, PickIn
  <2>3. SumOver(f, R) \in Nat
    BY <1>2, <2>2
  <2>4. f[Pick(m)] \in Nat
    BY <2>2
  <2> QED
    BY <2>1, <2>3, <2>4
<1> QED
  BY <1>3, <1>4

LEMMA SumAny ==
  ASSUME NEW S, IsFiniteSet(S), NEW f, \A x \in S : f[x] \in Nat, NEW y \in S
  PROVE  SumOver(f, S) = f[y] + SumOver(f, S \ {y})
<1> DEFINE Wrong(t, x) == SumOver(f, t) # f[x] + SumOver(f, t \ {x})
           Bad == {t \in SUBSET S : \E x \in t : Wrong(t, x)}
<1>1. SUFFICES ASSUME Bad # {} PROVE FALSE
  OBVIOUS
<1>2. PICK m \in Bad : IsFiniteSet(m) /\ \A t \in Bad : t \subseteq m => t = m
  <2>1. Bad \subseteq SUBSET S
    OBVIOUS
  <2> HIDE DEF Bad
  <2> QED
    BY <1>1, <2>1, SmallestSet
<1>3. PICK x \in m : Wrong(m, x)
  BY <1>2
<1>4. m \in SUBSET S
  BY <1>2
<1>5. \A t \in SUBSET S : t \subseteq m /\ t # m => \A z \in t : ~Wrong(t, z)
  BY <1>2
<1> HIDE DEF Bad
<1> DEFINE p == Pick(m)
<1>6. SumOver(f, m) = f[p] + SumOver(f, m \ {p})
  BY <1>2, <1>3, SumPick
<1>7. p # x
  BY <1>3, <1>6
<1>8. p \in m
  BY <1>3, PickIn
<1> DEFINE Both == m \ {p, x}
<1>9. SumOver(f, m \ {p}) = f[x] + SumOver(f, Both)
  <2>1. (m \ {p}) \in SUBSET S /\ m \ {p} # m /\ x \in m \ {p} /\ (m \ {p}) \ {x} = Both
    BY <1>3, <1>4, <1>7, <1>8
  <2> QED BY <1>5, <2>1
<1>10. SumOver(f, m \ {x}) = f[p] + SumOver(f, Both)
  <2>1. (m \ {x}) \in SUBSET S /\ m \ {x} # m /\ p \in m \ {x} /\ (m \ {x}) \ {p} = Both
    BY <1>3, <1>4, <1>7, <1>8
  <2> QED BY <1>5, <2>1
<1>11. f[x] \in Nat /\ f[p] \in Nat /\ SumOver(f, Both) \in Nat
  <2>1. Both \in SUBSET S
    BY <1>4
  <2>2. SumOver(f, Both) \in Nat
    <3> HIDE DEF Both
    <3> QED BY <2>1, SumNat, FS_Subset
  <2> QED
    BY <1>3, <1>4, <1>8, <2>2
<1>12. SumOver(f, m) = f[x] + SumOver(f, m \ {x})
  BY <1>6, <1>9, <1>10, <1>11
<1> QED
  BY <1>3, <1>12

(* Functions that agree on S have the same sum over it.                    *)
LEMMA SumSame ==
  ASSUME NEW S, IsFiniteSet(S), NEW f, NEW g, \A x \in S : f[x] = g[x]
  PROVE  SumOver(f, S) = SumOver(g, S)
<1> DEFINE Bad == {t \in SUBSET S : SumOver(f, t) # SumOver(g, t)}
<1>1. SUFFICES ASSUME Bad # {} PROVE FALSE
  OBVIOUS
<1>2. PICK m \in Bad : IsFiniteSet(m) /\ \A t \in Bad : t \subseteq m => t = m
  <2>1. Bad \subseteq SUBSET S
    OBVIOUS
  <2> HIDE DEF Bad
  <2> QED
    BY <1>1, <2>1, SmallestSet
<1>3. m # {}
  BY <1>2, SumEmpty
<1>4. /\ SumOver(f, m) = f[Pick(m)] + SumOver(f, m \ {Pick(m)})
      /\ SumOver(g, m) = g[Pick(m)] + SumOver(g, m \ {Pick(m)})
  BY <1>2, <1>3, SumPick
<1>5. SumOver(f, m \ {Pick(m)}) = SumOver(g, m \ {Pick(m)}) /\ f[Pick(m)] = g[Pick(m)]
  BY <1>2, <1>3, PickIn
<1> QED
  BY <1>2, <1>4, <1>5

(* Changing f at one element changes the sum by as much.                   *)
LEMMA SumUpdate ==
  ASSUME NEW S, IsFiniteSet(S), NEW f, NEW g, NEW y \in S,
         \A x \in S : f[x] \in Nat, \A x \in S : g[x] \in Nat,
         \A x \in S \ {y} : g[x] = f[x]
  PROVE  SumOver(g, S) = SumOver(f, S) + g[y] - f[y]
<1>1. SumOver(f, S) = f[y] + SumOver(f, S \ {y}) /\ SumOver(g, S) = g[y] + SumOver(g, S \ {y})
  BY SumAny
<1>2. IsFiniteSet(S \ {y})
  BY FS_Subset
<1>3. SumOver(f, S \ {y}) = SumOver(g, S \ {y}) /\ SumOver(f, S \ {y}) \in Nat
  BY <1>2, SumSame, SumNat
<1> QED
  BY <1>1, <1>3

(* A larger set has no smaller sum, and neither has a larger function.     *)
LEMMA SumMonotone ==
  ASSUME NEW S, IsFiniteSet(S), NEW f, NEW g,
         \A x \in S : f[x] \in Nat /\ g[x] \in Nat /\ f[x] <= g[x]
  PROVE  SumOver(f, S) <= SumOver(g, S)
<1> DEFINE Bad == {t \in SUBSET S : ~(SumOver(f, t) <= SumOver(g, t))}
<1>1. SUFFICES ASSUME Bad # {} PROVE FALSE
  OBVIOUS
<1>2. PICK m \in Bad : IsFiniteSet(m) /\ \A t \in Bad : t \subseteq m => t = m
  <2>1. Bad \subseteq SUBSET S
    OBVIOUS
  <2> HIDE DEF Bad
  <2> QED
    BY <1>1, <2>1, SmallestSet
<1>3. m # {}
  <2>1. SumOver(f, {}) = 0 /\ SumOver(g, {}) = 0
    BY SumEmpty
  <2>2. ~(SumOver(f, m) <= SumOver(g, m))
    BY <1>2
  <2> HIDE DEF Bad
  <2>3. ASSUME m = {} PROVE FALSE
    <3>1. SumOver(f, m) = 0 /\ SumOver(g, m) = 0
      BY <2>1, <2>3
    <3> QED
      BY <2>2, <3>1
  <2> QED
    BY <2>3
<1> DEFINE p == Pick(m)
           R == m \ {p}
<1>4. /\ SumOver(f, m) = f[p] + SumOver(f, R)
      /\ SumOver(g, m) = g[p] + SumOver(g, R)
  BY <1>2, <1>3, SumPick
<1>5. p \in S /\ R \subseteq m /\ R # m /\ R \in SUBSET S
  BY <1>2, <1>3, PickIn
<1>6. SumOver(f, R) <= SumOver(g, R)
  BY <1>2, <1>5
<1>7. SumOver(f, R) \in Nat /\ SumOver(g, R) \in Nat
  BY <1>5, SumNat, FS_Subset
<1> QED
  BY <1>2, <1>4, <1>5, <1>6, <1>7

(* The sum of a function that is 0 on S.                                   *)
LEMMA SumZero ==
  ASSUME NEW S, IsFiniteSet(S), NEW f, \A x \in S : f[x] = 0
  PROVE  SumOver(f, S) = 0
<1> DEFINE Bad == {t \in SUBSET S : SumOver(f, t) # 0}
<1>1. SUFFICES ASSUME Bad # {} PROVE FALSE
  OBVIOUS
<1>2. PICK m \in Bad : IsFiniteSet(m) /\ \A t \in Bad : t \subseteq m => t = m
  <2>1. Bad \subseteq SUBSET S
    OBVIOUS
  <2> HIDE DEF Bad
  <2> QED
    BY <1>1, <2>1, SmallestSet
<1>3. m # {}
  BY <1>2, SumEmpty
<1>4. SumOver(f, m) = f[Pick(m)] + SumOver(f, m \ {Pick(m)})
  BY <1>2, <1>3, SumPick
<1>5. SumOver(f, m \ {Pick(m)}) = 0 /\ f[Pick(m)] = 0
  BY <1>2, <1>3, PickIn
<1> QED
  BY <1>2, <1>4, <1>5

=============================================================================
