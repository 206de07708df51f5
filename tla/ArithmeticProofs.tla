-------------------------- MODULE ArithmeticProofs --------------------------
(***************************************************************************)
(* What the proofs about the duels need of arithmetic: bounds on the       *)
(* amounts of a settlement, for every price, commission and number of      *)
(* players, and facts about sums over finite sets (SumFunctionOnSet of the *)
(* community modules), which the books of the duels rest on.  The          *)
(* induction the sums need is taken from the well-founded order of the     *)
(* subsets of a finite set, with a set of subsets in the place of a        *)
(* predicate.                                                              *)
(***************************************************************************)
EXTENDS RewardMath, FiniteSets, Functions, FiniteSetTheorems, TLAPS

-----------------------------------------------------------------------------
(* The amounts of a settlement *)

\* naturals are closed under products
LEMMA Product ==
  ASSUME NEW a \in Nat, NEW b \in Nat
  PROVE  a * b \in Nat
BY SMT

\* a share, taken as often as there are shares, is not more than the whole
LEMMA DivBound ==
  ASSUME NEW a \in Nat, NEW b \in Nat \ {0}
  PROVE  a \div b \in Nat /\ b * (a \div b) <= a
BY SMT

\* the part taken in percent is not more than the whole
LEMMA PartOfWhole ==
  ASSUME NEW pool \in Nat, NEW c \in 0..100
  PROVE  pool * c \in Nat /\ pool * c <= 100 * pool
<1>1. c \in Nat /\ 100 - c \in Nat
  OBVIOUS
<1>2. pool * c \in Nat /\ pool * (100 - c) \in Nat
  BY <1>1, Product
<1>3. pool * (100 - c) = 100 * pool - pool * c
  BY <1>1, SMT
<1> QED
  BY <1>2, <1>3

\* a percentage rounded to the nearest point is not more than the whole, its half
\* not more than itself
LEMMA RoundedPart ==
  ASSUME NEW x \in Nat, NEW pool \in Nat, x <= 100 * pool
  PROVE  /\ (x + 50) \div 100 \in Nat
         /\ (x + 50) \div 100 <= pool
         /\ x \div 200 \in Nat
         /\ x \div 200 <= (x + 50) \div 100
BY SMT

\* the commission lies within the pool, the owner's half within the commission
LEMMA PercentBounds ==
  ASSUME NEW pool \in Nat, NEW c \in 0..100
  PROVE  /\ PercentValue(pool, c) \in 0..pool
         /\ CommissionReward(pool, c) \in 0..PercentValue(pool, c)
<1>1. pool * c \in Nat /\ pool * c <= 100 * pool
  BY PartOfWhole
<1> QED
  BY <1>1, RoundedPart DEF PercentValue, CommissionReward

\* Winners and owner together never take more than the stakes in the pool,
\* whatever the price, the commission (up to 100 percent) and the number of
\* winners: CalculateFinalReward rounds down what CalculateCommissionReward left.
THEOREM PayoutWithinPool ==
  ASSUME NEW pool \in Nat, NEW c \in 0..100, NEW w \in Nat \ {0}
  PROVE  /\ FinalReward(pool, c, w) \in Nat
         /\ w * FinalReward(pool, c, w) + CommissionReward(pool, c) <= pool
<1>1. PercentValue(pool, c) \in 0..pool
      /\ CommissionReward(pool, c) \in 0..PercentValue(pool, c)
  BY PercentBounds
<1> DEFINE rest == pool - PercentValue(pool, c)
<1>2. rest \in Nat
  BY <1>1
<1>3. rest \div w \in Nat /\ w * (rest \div w) <= rest
  BY <1>2, DivBound
<1>4. w * (rest \div w) \in Nat
  BY <1>3, Product
<1>5. FinalReward(pool, c, w) = rest \div w
  BY DEF FinalReward
<1> QED
  BY <1>1, <1>2, <1>3, <1>4, <1>5

\* A room's payouts stay within its deposits too: RewardDuelWinners pays the
\* winners, the owner's half and a referrer's quarter of the commission.
THEOREM CryptoPayoutWithinPool ==
  ASSUME NEW pool \in Nat, NEW c \in 0..100, NEW w \in Nat \ {0}
  PROVE  /\ FinalCryptoReward(pool, c, w) \in Nat
         /\ w * FinalCryptoReward(pool, c, w)
               + CryptoCommissionReward(pool, c) + CryptoCommissionReward(pool, c) \div 2
            <= pool * Micro
<1> DEFINE part == pool * c
           rest == pool * Micro - part * (Micro \div 100)
<1>1. part \in Nat /\ part <= 100 * pool
  BY PartOfWhole
<1>2. Micro \div 100 = 10000
  BY SMT DEF Micro
<1>3. rest \in Nat
  BY <1>1, <1>2, SMT DEF Micro
<1>4. rest \div w \in Nat /\ w * (rest \div w) <= rest
  BY <1>3, DivBound
<1>5. FinalCryptoReward(pool, c, w) = rest \div w
  BY DEF FinalCryptoReward
<1>6. CryptoCommissionReward(pool, c) \in Nat
      /\ CryptoCommissionReward(pool, c) \div 2 \in Nat
      /\ CryptoCommissionReward(pool, c) + CryptoCommissionReward(pool, c) \div 2
           <= part * (Micro \div 100)
  BY <1>1, <1>2, SMT DEF CryptoCommissionReward
<1>7. w * (rest \div w) \in Nat
  BY <1>4, Product
<1>8. part * (Micro \div 100) \in Nat /\ pool * Micro \in Nat
  BY <1>1, <1>2, Product DEF Micro
<1> HIDE DEF part
<1> QED
  BY <1>4, <1>5, <1>6, <1>7, <1>8

\* uint64 arithmetic stays within uint64
LEMMA PlayersPoolType ==
  ASSUME NEW count \in Nat, NEW refunds \in Nat, NEW m \in Nat \ {0}
  PROVE  PlayersPool(count, refunds, m) \in Nat
BY SMT DEF PlayersPool

\* more factors, more product
LEMMA ProductMonotonic ==
  ASSUME NEW a \in Nat, NEW b \in Nat, NEW c \in Nat, a <= b
  PROVE  a * c <= b * c /\ c * a <= c * b /\ a * c \in Nat /\ b * c \in Nat
<1>1. b - a \in Nat /\ b = a + (b - a)
  OBVIOUS
<1>2. (b - a) * c \in Nat /\ a * c \in Nat /\ b * c \in Nat
  BY <1>1, Product
<1>3. b * c = a * c + (b - a) * c /\ a * c = c * a /\ b * c = c * b
  BY <1>1, SMT
<1> QED
  BY <1>2, <1>3

\* a quotient is at least what its divisor goes into
LEMMA DivAtLeast ==
  ASSUME NEW a \in Nat, NEW w \in Nat \ {0}, NEW k \in Nat, k * w <= a
  PROVE  a \div w >= k
<1>1. /\ a \div w \in Nat /\ a < w * (a \div w) + w
  BY SMT
<1>2. ASSUME a \div w < k PROVE FALSE
  <2>1. (a \div w) + 1 <= k /\ (a \div w) + 1 \in Nat
    BY <1>1, <1>2
  <2>2. ((a \div w) + 1) * w <= k * w
    BY <2>1, ProductMonotonic
  <2>3. ((a \div w) + 1) * w = w * (a \div w) + w
    BY <1>1, SMT
  <2>4. w * (a \div w) \in Nat /\ k * w \in Nat
    BY <1>1, Product
  <2> QED
    BY <1>1, <2>2, <2>3, <2>4
<1> QED
  BY <1>1, <1>2

\* What is left of a huge pool is more than the column of win_amount can hold.
LEMMA HugePool ==
  ASSUME NEW pool \in Nat, NEW c \in 0..99, NEW w \in Nat \ {0}, NEW limit \in Nat,
         100 * (limit * w) + 50 <= pool
  PROVE  FinalReward(pool, c, w) >= limit
<1> DEFINE x == pool * c
           p == PercentValue(pool, c)
<1>1. limit * w \in Nat
  BY Product
<1>2. x \in Nat /\ x <= 99 * pool
  <2>1. c <= 99 /\ c \in Nat
    OBVIOUS
  <2> QED
    BY <2>1, ProductMonotonic
<1>3. p = (x + 50) \div 100
  BY DEF PercentValue
<1> HIDE DEF x, p
<1>4. p \in Nat /\ 100 * p <= x + 50
  BY <1>2, <1>3, SMT
<1>5. limit * w <= pool - p /\ pool - p \in Nat
  BY <1>1, <1>2, <1>4
<1>6. (pool - p) \div w >= limit
  BY <1>5, DivAtLeast
<1> QED
  BY <1>6 DEF FinalReward, p

\* a commission of everything leaves nothing
LEMMA WholeCommission ==
  ASSUME NEW pool \in Nat, NEW w \in Nat \ {0}
  PROVE  FinalReward(pool, 100, w) = 0
<1>1. PercentValue(pool, 100) = pool
  BY SMT DEF PercentValue
<1>2. pool - PercentValue(pool, 100) = 0
  BY <1>1
<1>3. 0 \div w = 0
  BY SMT
<1> QED
  BY <1>2, <1>3, Zenon DEF FinalReward

\* what uint64 makes of a difference
LEMMA Remainder ==
  ASSUME NEW k \in Nat, NEW f \in Nat, NEW m \in Nat \ {0}, k < m, f < m
  PROVE  (k - f) % m = IF f <= k THEN k - f ELSE m + k - f
BY SMT

-----------------------------------------------------------------------------
(* Induction over numbers, and over the subsets of a finite set *)

\* A set of numbers that is not empty has a smallest one.
LEMMA Smallest ==
  ASSUME NEW S \in SUBSET Nat, S # {}
  PROVE  \E n \in S : \A m \in S : n <= m
<1>1. PICK n \in S : \A m \in S : ~ (<<m, n>> \in OpToRel(<, Nat))
  BY NatLessThanWellFounded, WFMin, Zenon
<1>2. ASSUME NEW m \in S PROVE n <= m
  <2>1. ~ (m < n)
    BY <1>1 DEF OpToRel
  <2> QED BY <2>1
<1> QED BY <1>2

\* of the subsets that are no good, one has only good parts
LEMMA SmallestBad ==
  ASSUME NEW S, IsFiniteSet(S), NEW Bad \in SUBSET (SUBSET S), Bad # {}
  PROVE  \E T \in Bad : \A U \in SUBSET T : U # T => U \notin Bad
<1>1. IsWellFoundedOn(StrictSubsetOrdering(S), SUBSET S)
  BY FS_StrictSubsetOrderingWellFounded, FS_FiniteSubsetsOfFinite
<1>2. PICK T \in Bad : \A U \in Bad : ~ (<<U, T>> \in StrictSubsetOrdering(S))
  BY <1>1, WFMin, Zenon
<1>3. ASSUME NEW U \in SUBSET T, U # T
      PROVE  U \notin Bad
  <2>1. SUFFICES ASSUME U \in Bad PROVE FALSE
    OBVIOUS
  <2>2. <<U, T>> \in StrictSubsetOrdering(S)
    BY <1>3 DEF StrictSubsetOrdering
  <2> QED
    BY <1>2, <2>1, <2>2
<1> QED
  BY <1>3

\* what holds of a set when it holds of its proper parts holds of every set
LEMMA PartsInduction ==
  ASSUME NEW S, IsFiniteSet(S), NEW Good,
         \A T \in SUBSET S : (\A U \in SUBSET T : U # T => U \in Good) => T \in Good
  PROVE  \A T \in SUBSET S : T \in Good
<1> DEFINE Bad == {T \in SUBSET S : T \notin Good}
<1>1. SUFFICES ASSUME Bad # {} PROVE FALSE
  OBVIOUS
<1>2. Bad \in SUBSET (SUBSET S)
  OBVIOUS
<1>3. \A T : T \in Bad <=> T \in SUBSET S /\ T \notin Good
  OBVIOUS
<1> HIDE DEF Bad
<1>4. PICK T \in Bad : \A U \in SUBSET T : U # T => U \notin Bad
  BY <1>1, <1>2, SmallestBad, Zenon
<1> QED
  BY <1>3, <1>4

\* what holds of the empty set and survives one more element holds of the set
LEMMA SetInduction ==
  ASSUME NEW S, IsFiniteSet(S), NEW Good,
         {} \in Good,
         \A T \in SUBSET S : \A x \in S \ T : T \in Good => T \cup {x} \in Good
  PROVE  \A T \in SUBSET S : T \in Good
<1>1. ASSUME NEW T \in SUBSET S, \A U \in SUBSET T : U # T => U \in Good
      PROVE  T \in Good
  <2>1. CASE T = {}
    BY <2>1
  <2>2. ASSUME NEW x \in T
        PROVE  T \in Good
    <3>1. T \ {x} \in Good /\ T \ {x} \in SUBSET S /\ x \in S \ (T \ {x})
      BY <1>1, <2>2
    <3>2. (T \ {x}) \cup {x} = T
      BY <2>2
    <3> QED
      BY <3>1, <3>2
  <2> QED
    BY <2>1, <2>2
<1> QED
  BY <1>1, PartsInduction, Zenon

-----------------------------------------------------------------------------
(* The sum is well defined *)

Chosen(T) == CHOOSE x \in T : TRUE

\* the partial sums that the definition of SumFunctionOnSet chooses
Partial(f, S) ==
  CHOOSE g : g = [T \in SUBSET S |->
                    IF T = {} THEN 0 ELSE f[Chosen(T)] + g[T \ {Chosen(T)}]]

Sums(g, f, S) ==
  /\ g = [T \in SUBSET S |-> g[T]]
  /\ \A T \in SUBSET S : g[T] = IF T = {} THEN 0 ELSE f[Chosen(T)] + g[T \ {Chosen(T)}]

LEMMA ChosenIn == ASSUME NEW T, T # {} PROVE Chosen(T) \in T
BY DEF Chosen

LEMMA SumIsPartial ==
  ASSUME NEW f, NEW S
  PROVE  SumFunctionOnSet(f, S) = Partial(f, S)[S]
BY DEF SumFunctionOnSet, FoldFunctionOnSet, MapThenFoldSet, Partial, Chosen

\* sums of the same function agree wherever both are defined
LEMMA SumsAgree ==
  ASSUME NEW f, NEW g, NEW h, NEW S, NEW T, IsFiniteSet(S),
         Sums(g, f, S), Sums(h, f, T)
  PROVE  \A U \in SUBSET S : U \in SUBSET T => g[U] = h[U]
<1> DEFINE Good == {U \in SUBSET S : U \in SUBSET T => g[U] = h[U]}
<1>1. ASSUME NEW U \in SUBSET S, \A V \in SUBSET U : V # U => V \in Good
      PROVE  U \in Good
  <2>1. SUFFICES ASSUME U \in SUBSET T PROVE g[U] = h[U]
    OBVIOUS
  <2>2. CASE U = {}
    BY <2>1, <2>2 DEF Sums
  <2>3. CASE U # {}
    <3>1. Chosen(U) \in U
      BY <2>3, ChosenIn
    <3>2. U \ {Chosen(U)} \in Good /\ U \ {Chosen(U)} \in SUBSET T
      BY <1>1, <2>1, <3>1
    <3>3. g[U \ {Chosen(U)}] = h[U \ {Chosen(U)}]
      BY <3>2
    <3> QED
      BY <2>1, <2>3, <3>3 DEF Sums
  <2> QED
    BY <2>2, <2>3
<1> HIDE DEF Good
<1>2. \A U \in SUBSET S : U \in Good
  BY <1>1, PartsInduction, Zenon
<1> QED
  BY <1>2 DEF Good

LEMMA SumsExist ==
  ASSUME NEW f, NEW S, IsFiniteSet(S)
  PROVE  \E g : Sums(g, f, S)
<1> DEFINE Good == {T \in SUBSET S : \E g : Sums(g, f, T)}
<1>1. ASSUME NEW T \in SUBSET S, \A U \in SUBSET T : U # T => U \in Good
      PROVE  T \in Good
  <2> DEFINE G(U) == CHOOSE g : Sums(g, f, U)
             last == f[Chosen(T)] + G(T \ {Chosen(T)})[T \ {Chosen(T)}]
             g == [U \in SUBSET T |-> IF U # T THEN G(U)[U]
                                      ELSE IF T = {} THEN 0 ELSE last]
  <2>1. \A U \in SUBSET T : U # T => Sums(G(U), f, U) /\ IsFiniteSet(U)
    BY <1>1, FS_Subset
  <2> HIDE DEF G
  <2>2. ASSUME NEW U \in SUBSET T, U # T, U # {}
        PROVE  g[U] = f[Chosen(U)] + g[U \ {Chosen(U)}]
    <3> DEFINE V == U \ {Chosen(U)}
    <3>1. Chosen(U) \in U
      BY <2>2, ChosenIn
    <3>2. V \in SUBSET U /\ V \in SUBSET T /\ V # T
      BY <2>2, <3>1
    <3>3. G(U)[V] = G(V)[V]
      BY <2>1, <2>2, <3>2, SumsAgree
    <3>4. G(U)[U] = f[Chosen(U)] + G(U)[V]
      BY <2>1, <2>2 DEF Sums
    <3>5. g[U] = G(U)[U] /\ g[V] = G(V)[V]
      BY <2>2, <3>2
    <3> QED
      BY <3>3, <3>4, <3>5
  <2>3. ASSUME NEW U \in SUBSET T, U # T, U = {}
        PROVE  g[U] = 0
    <3>1. G(U)[U] = 0
      BY <2>1, <2>3 DEF Sums
    <3> QED
      BY <2>3, <3>1
  <2>4. T # {} => g[T] = f[Chosen(T)] + g[T \ {Chosen(T)}]
    <3>1. SUFFICES ASSUME T # {} PROVE g[T] = last /\ g[T \ {Chosen(T)}] = G(T \ {Chosen(T)})[T \ {Chosen(T)}]
      OBVIOUS
    <3>2. T \ {Chosen(T)} \in SUBSET T /\ T \ {Chosen(T)} # T
      BY <3>1, ChosenIn
    <3> QED
      BY <3>1, <3>2
  <2>5. T = {} => g[T] = 0
    OBVIOUS
  <2>6. g = [U \in SUBSET T |-> g[U]]
    OBVIOUS
  <2> HIDE DEF g
  <2>7. Sums(g, f, T)
    BY <2>2, <2>3, <2>4, <2>5, <2>6 DEF Sums
  <2> QED
    BY <2>7
<1> HIDE DEF Good
<1>2. S \in Good
  BY <1>1, PartsInduction, Zenon
<1> QED
  BY <1>2 DEF Good

LEMMA PartialSums ==
  ASSUME NEW f, NEW S, IsFiniteSet(S)
  PROVE  Sums(Partial(f, S), f, S)
<1>1. PICK g : Sums(g, f, S)
  BY SumsExist
<1>2. g = [T \in SUBSET S |-> IF T = {} THEN 0 ELSE f[Chosen(T)] + g[T \ {Chosen(T)}]]
  BY <1>1 DEF Sums
<1>3. Partial(f, S) = [T \in SUBSET S |-> IF T = {} THEN 0
                         ELSE f[Chosen(T)] + Partial(f, S)[T \ {Chosen(T)}]]
  BY <1>2 DEF Partial
<1> HIDE DEF Partial
<1> QED
  BY <1>3 DEF Sums

LEMMA SumOfNothing == \A f : SumFunctionOnSet(f, {}) = 0
<1> SUFFICES ASSUME NEW f PROVE SumFunctionOnSet(f, {}) = 0
  OBVIOUS
<1>1. Sums(Partial(f, {}), f, {})
  BY PartialSums, FS_EmptySet
<1> QED
  BY <1>1, SumIsPartial DEF Sums

\* the recursion equation: the element that is chosen and the rest
LEMMA SumOfChosen ==
  ASSUME NEW f, NEW S, IsFiniteSet(S), S # {}
  PROVE  SumFunctionOnSet(f, S) = f[Chosen(S)] + SumFunctionOnSet(f, S \ {Chosen(S)})
<1> DEFINE R == S \ {Chosen(S)}
<1>1. IsFiniteSet(R) /\ R \in SUBSET S
  BY FS_Subset
<1>2. Sums(Partial(f, S), f, S) /\ Sums(Partial(f, R), f, R)
  BY <1>1, PartialSums
<1>3. Partial(f, S)[R] = Partial(f, R)[R]
  BY <1>1, <1>2, SumsAgree
<1>4. Partial(f, S)[S] = f[Chosen(S)] + Partial(f, S)[R]
  BY <1>2 DEF Sums
<1> QED
  BY <1>3, <1>4, SumIsPartial

-----------------------------------------------------------------------------
(* What the sum of a function on a finite set is *)

IntOn(f, S) == \A x \in S : f[x] \in Int

\* A sum of integers is an integer.
LEMMA SumInt ==
  ASSUME NEW f, NEW S, IsFiniteSet(S), IntOn(f, S)
  PROVE  SumFunctionOnSet(f, S) \in Int
<1> DEFINE Good == {T \in SUBSET S : SumFunctionOnSet(f, T) \in Int}
<1>1. ASSUME NEW T \in SUBSET S, \A U \in SUBSET T : U # T => U \in Good
      PROVE  T \in Good
  <2>1. CASE T = {}
    BY <2>1, SumOfNothing
  <2>2. CASE T # {}
    <3>1. Chosen(T) \in T /\ IsFiniteSet(T)
      BY <2>2, ChosenIn, FS_Subset
    <3>2. SumFunctionOnSet(f, T) = f[Chosen(T)] + SumFunctionOnSet(f, T \ {Chosen(T)})
      BY <2>2, <3>1, SumOfChosen
    <3>3. SumFunctionOnSet(f, T \ {Chosen(T)}) \in Int
      BY <1>1, <3>1
    <3>4. f[Chosen(T)] \in Int
      BY <3>1 DEF IntOn
    <3> QED
      BY <3>2, <3>3, <3>4
  <2> QED
    BY <2>1, <2>2
<1> HIDE DEF Good
<1>2. S \in Good
  BY <1>1, PartsInduction, Zenon
<1> QED
  BY <1>2 DEF Good

\* Whichever element is taken out, the sum is that element and the rest.
LEMMA SumWithout ==
  ASSUME NEW f, NEW S, IsFiniteSet(S), IntOn(f, S)
  PROVE  \A x \in S : SumFunctionOnSet(f, S) = f[x] + SumFunctionOnSet(f, S \ {x})
<1> DEFINE Sum(T) == SumFunctionOnSet(f, T)
           Good == {T \in SUBSET S : \A x \in T : Sum(T) = f[x] + Sum(T \ {x})}
<1>1. ASSUME NEW T \in SUBSET S, \A U \in SUBSET T : U # T => U \in Good
      PROVE  T \in Good
  <2>1. SUFFICES ASSUME NEW x \in T PROVE Sum(T) = f[x] + Sum(T \ {x})
    OBVIOUS
  <2> DEFINE c == Chosen(T)
             rest == T \ {c, x}
  <2>2. IsFiniteSet(T) /\ c \in T
    BY <2>1, ChosenIn, FS_Subset
  <2>3. Sum(T) = f[c] + Sum(T \ {c})
    BY <2>1, <2>2, SumOfChosen
  <2>4. CASE x = c
    BY <2>3, <2>4
  <2>5. CASE x # c
    <3>1. /\ T \ {c} \in Good /\ x \in T \ {c}
          /\ T \ {x} \in Good /\ c \in T \ {x}
      BY <1>1, <2>1, <2>2, <2>5
    <3>2. (T \ {c}) \ {x} = rest /\ (T \ {x}) \ {c} = rest
      OBVIOUS
    <3>3. Sum(T \ {c}) = f[x] + Sum(rest) /\ Sum(T \ {x}) = f[c] + Sum(rest)
      BY <3>1, <3>2
    <3>4. f[x] \in Int /\ f[c] \in Int /\ Sum(rest) \in Int
      <4>1. IsFiniteSet(rest) /\ IntOn(f, rest)
        BY <2>2, FS_Subset DEF IntOn
      <4> QED
        BY <2>1, <2>2, <4>1, SumInt DEF IntOn
    <3> QED
      BY <2>3, <3>3, <3>4
  <2> QED
    BY <2>4, <2>5
<1> HIDE DEF Good
<1>2. S \in Good
  BY <1>1, PartsInduction, Zenon
<1> QED
  BY <1>2 DEF Good

\* One element more adds its value.
LEMMA SumWith ==
  ASSUME NEW f, NEW S, NEW x, IsFiniteSet(S), IntOn(f, S), f[x] \in Int, x \notin S
  PROVE  SumFunctionOnSet(f, S \cup {x}) = SumFunctionOnSet(f, S) + f[x]
<1>1. IsFiniteSet(S \cup {x}) /\ IntOn(f, S \cup {x})
  BY FS_AddElement DEF IntOn
<1>2. (S \cup {x}) \ {x} = S
  OBVIOUS
<1>3. SumFunctionOnSet(f, S \cup {x}) = f[x] + SumFunctionOnSet(f, (S \cup {x}) \ {x})
  BY <1>1, SumWithout
<1>4. SumFunctionOnSet(f, S) \in Int
  BY SumInt
<1>5. SumFunctionOnSet(f, S \cup {x}) = f[x] + SumFunctionOnSet(f, S)
  BY <1>2, <1>3, Zenon
<1> QED
  BY <1>4, <1>5

LEMMA SumOfOne ==
  ASSUME NEW f, NEW x, f[x] \in Int
  PROVE  SumFunctionOnSet(f, {x}) = f[x]
<1>1. {} \cup {x} = {x}
  OBVIOUS
<1>2. SumFunctionOnSet(f, {} \cup {x}) = SumFunctionOnSet(f, {}) + f[x]
  BY SumWith, FS_EmptySet DEF IntOn
<1> QED
  BY <1>1, <1>2, SumOfNothing

\* The sum over two disjoint sets is the two sums.
LEMMA SumOfUnion ==
  ASSUME NEW f, NEW S, NEW T, IsFiniteSet(S), IsFiniteSet(T), S \cap T = {},
         IntOn(f, S), IntOn(f, T)
  PROVE  SumFunctionOnSet(f, S \cup T) = SumFunctionOnSet(f, S) + SumFunctionOnSet(f, T)
<1> DEFINE Sum(U) == SumFunctionOnSet(f, U)
           Good == {U \in SUBSET T : Sum(S \cup U) = Sum(S) + Sum(U)}
<1>1. {} \in Good
  <2>1. S \cup {} = S /\ Sum(S) \in Int
    BY SumInt
  <2> QED
    BY <2>1, SumOfNothing
<1>2. ASSUME NEW U \in SUBSET T, NEW x \in T \ U, U \in Good
      PROVE  U \cup {x} \in Good
  <2>1. IsFiniteSet(U) /\ IsFiniteSet(S \cup U) /\ IntOn(f, U) /\ IntOn(f, S \cup U)
    BY FS_Subset, FS_Union DEF IntOn
  <2>2. f[x] \in Int /\ x \notin S \cup U
    BY DEF IntOn
  <2>3. Sum(U \cup {x}) = Sum(U) + f[x] /\ Sum((S \cup U) \cup {x}) = Sum(S \cup U) + f[x]
    BY <2>1, <2>2, SumWith
  <2>4. (S \cup U) \cup {x} = S \cup (U \cup {x})
    OBVIOUS
  <2>5. Sum(S) \in Int /\ Sum(U) \in Int
    BY <2>1, SumInt
  <2>6. Sum(S \cup U) = Sum(S) + Sum(U)
    BY <1>2
  <2> HIDE DEF Sum
  <2>7. Sum(S \cup (U \cup {x})) = Sum(S \cup U) + f[x]
    BY <2>3, <2>4, Zenon
  <2>8. Sum(S \cup (U \cup {x})) = Sum(S) + Sum(U \cup {x})
    BY <2>2, <2>3, <2>5, <2>6, <2>7
  <2> QED
    BY <1>2, <2>8 DEF Sum
<1> HIDE DEF Good
<1>3. T \in Good
  BY <1>1, <1>2, SetInduction, Zenon
<1> QED
  BY <1>3 DEF Good

\* Functions that agree on a set have the same sum there.
LEMMA SumOfEqual ==
  ASSUME NEW f, NEW g, NEW S, IsFiniteSet(S), IntOn(f, S), \A x \in S : f[x] = g[x]
  PROVE  SumFunctionOnSet(f, S) = SumFunctionOnSet(g, S)
<1> DEFINE Good == {T \in SUBSET S : SumFunctionOnSet(f, T) = SumFunctionOnSet(g, T)}
<1>1. {} \in Good
  BY SumOfNothing
<1>2. ASSUME NEW T \in SUBSET S, NEW x \in S \ T, T \in Good
      PROVE  T \cup {x} \in Good
  <2>1. IsFiniteSet(T) /\ IntOn(f, T) /\ IntOn(g, T) /\ f[x] \in Int /\ g[x] = f[x]
    BY FS_Subset DEF IntOn
  <2>2. /\ SumFunctionOnSet(f, T \cup {x}) = SumFunctionOnSet(f, T) + f[x]
        /\ SumFunctionOnSet(g, T \cup {x}) = SumFunctionOnSet(g, T) + g[x]
    BY <2>1, SumWith
  <2> QED
    BY <1>2, <2>1, <2>2
<1> HIDE DEF Good
<1>3. S \in Good
  BY <1>1, <1>2, SetInduction, Zenon
<1> QED
  BY <1>3 DEF Good

\* A function changed at one element changes the sum by as much.
LEMMA SumOfChanged ==
  ASSUME NEW f, NEW g, NEW S, IsFiniteSet(S), IntOn(f, S), IntOn(g, S), NEW x \in S,
         \A y \in S \ {x} : g[y] = f[y]
  PROVE  SumFunctionOnSet(g, S) = SumFunctionOnSet(f, S) + g[x] - f[x]
<1>1. IsFiniteSet(S \ {x}) /\ IntOn(f, S \ {x}) /\ IntOn(g, S \ {x})
  BY FS_Subset DEF IntOn
<1>2. SumFunctionOnSet(f, S \ {x}) = SumFunctionOnSet(g, S \ {x})
  BY <1>1, SumOfEqual
<1>3. /\ SumFunctionOnSet(f, S) = f[x] + SumFunctionOnSet(f, S \ {x})
      /\ SumFunctionOnSet(g, S) = g[x] + SumFunctionOnSet(g, S \ {x})
  BY SumWithout
<1>4. f[x] \in Int /\ g[x] \in Int /\ SumFunctionOnSet(f, S \ {x}) \in Int
  BY <1>1, SumInt DEF IntOn
<1> QED
  BY <1>2, <1>3, <1>4

\* The same value for every element: as many times the value.
LEMMA SumOfConstant ==
  ASSUME NEW f, NEW S, NEW c \in Int, IsFiniteSet(S), \A x \in S : f[x] = c
  PROVE  SumFunctionOnSet(f, S) = Cardinality(S) * c
<1> DEFINE Good == {T \in SUBSET S : SumFunctionOnSet(f, T) = Cardinality(T) * c}
<1>1. {} \in Good
  BY SumOfNothing, FS_EmptySet
<1>2. ASSUME NEW T \in SUBSET S, NEW x \in S \ T, T \in Good
      PROVE  T \cup {x} \in Good
  <2>1. IsFiniteSet(T) /\ IntOn(f, T) /\ f[x] = c
    BY FS_Subset DEF IntOn
  <2>2. SumFunctionOnSet(f, T \cup {x}) = SumFunctionOnSet(f, T) + c
    BY <2>1, SumWith
  <2>3. Cardinality(T \cup {x}) = Cardinality(T) + 1 /\ Cardinality(T) \in Nat
    BY <2>1, FS_AddElement, FS_CardinalityType
  <2>4. \A n \in Nat : (n + 1) * c = n * c + c
    BY SMT
  <2> QED
    BY <1>2, <2>2, <2>3, <2>4
<1> HIDE DEF Good
<1>3. S \in Good
  BY <1>1, <1>2, SetInduction, Zenon
<1> QED
  BY <1>3 DEF Good

\* Sums add up element by element.
LEMMA SumOfSum ==
  ASSUME NEW f, NEW g, NEW h, NEW S, IsFiniteSet(S), IntOn(f, S), IntOn(g, S),
         \A x \in S : h[x] = f[x] + g[x]
  PROVE  SumFunctionOnSet(h, S) = SumFunctionOnSet(f, S) + SumFunctionOnSet(g, S)
<1> DEFINE Good == {T \in SUBSET S :
             SumFunctionOnSet(h, T) = SumFunctionOnSet(f, T) + SumFunctionOnSet(g, T)}
<1>1. {} \in Good
  BY SumOfNothing
<1>2. ASSUME NEW T \in SUBSET S, NEW x \in S \ T, T \in Good
      PROVE  T \cup {x} \in Good
  <2>1. /\ IsFiniteSet(T) /\ IntOn(f, T) /\ IntOn(g, T) /\ IntOn(h, T)
        /\ f[x] \in Int /\ g[x] \in Int /\ h[x] = f[x] + g[x]
    BY FS_Subset DEF IntOn
  <2>2. /\ SumFunctionOnSet(f, T \cup {x}) = SumFunctionOnSet(f, T) + f[x]
        /\ SumFunctionOnSet(g, T \cup {x}) = SumFunctionOnSet(g, T) + g[x]
        /\ SumFunctionOnSet(h, T \cup {x}) = SumFunctionOnSet(h, T) + h[x]
    <3>1. h[x] \in Int /\ x \notin T
      BY <2>1
    <3> QED
      BY <2>1, <3>1, SumWith
  <2>3. SumFunctionOnSet(f, T) \in Int /\ SumFunctionOnSet(g, T) \in Int
    BY <2>1, SumInt
  <2>4. SumFunctionOnSet(h, T) = SumFunctionOnSet(f, T) + SumFunctionOnSet(g, T)
    BY <1>2
  <2>5. SumFunctionOnSet(h, T \cup {x})
          = SumFunctionOnSet(f, T \cup {x}) + SumFunctionOnSet(g, T \cup {x})
    <3>1. \A a, b, c, d \in Int : (a + b) + (c + d) = (a + c) + (b + d)
      OBVIOUS
    <3> QED
      BY <2>1, <2>2, <2>3, <2>4, <3>1
  <2> QED
    BY <1>2, <2>5
<1> HIDE DEF Good
<1>3. S \in Good
  BY <1>1, <1>2, SetInduction, Zenon
<1> QED
  BY <1>3 DEF Good

\* A sum of numbers none of which exceeds its counterpart does not exceed the other sum.
LEMMA SumMonotonic ==
  ASSUME NEW f, NEW g, NEW S, IsFiniteSet(S), IntOn(f, S), IntOn(g, S),
         \A x \in S : f[x] <= g[x]
  PROVE  SumFunctionOnSet(f, S) <= SumFunctionOnSet(g, S)
<1> DEFINE Good == {T \in SUBSET S : SumFunctionOnSet(f, T) <= SumFunctionOnSet(g, T)}
<1>1. {} \in Good
  BY SumOfNothing
<1>2. ASSUME NEW T \in SUBSET S, NEW x \in S \ T, T \in Good
      PROVE  T \cup {x} \in Good
  <2>1. /\ IsFiniteSet(T) /\ IntOn(f, T) /\ IntOn(g, T)
        /\ f[x] \in Int /\ g[x] \in Int /\ f[x] <= g[x]
    BY FS_Subset DEF IntOn
  <2>2. /\ SumFunctionOnSet(f, T \cup {x}) = SumFunctionOnSet(f, T) + f[x]
        /\ SumFunctionOnSet(g, T \cup {x}) = SumFunctionOnSet(g, T) + g[x]
    BY <2>1, SumWith
  <2>3. SumFunctionOnSet(f, T) \in Int /\ SumFunctionOnSet(g, T) \in Int
    BY <2>1, SumInt
  <2> QED
    BY <1>2, <2>1, <2>2, <2>3
<1> HIDE DEF Good
<1>3. S \in Good
  BY <1>1, <1>2, SetInduction, Zenon
<1> QED
  BY <1>3 DEF Good

\* A value for the elements of a part, nothing for the others.
LEMMA SumOnPart ==
  ASSUME NEW f, NEW S, NEW A \in SUBSET S, NEW c \in Int, IsFiniteSet(S),
         \A x \in A : f[x] = c, \A x \in S \ A : f[x] = 0
  PROVE  SumFunctionOnSet(f, S) = Cardinality(A) * c
<1>1. IsFiniteSet(A) /\ IsFiniteSet(S \ A) /\ A \cap (S \ A) = {} /\ A \cup (S \ A) = S
  BY FS_Subset
<1>2. IntOn(f, A) /\ IntOn(f, S \ A)
  BY DEF IntOn
<1>3. SumFunctionOnSet(f, S) = SumFunctionOnSet(f, A) + SumFunctionOnSet(f, S \ A)
  <2>1. SumFunctionOnSet(f, A \cup (S \ A)) = SumFunctionOnSet(f, A) + SumFunctionOnSet(f, S \ A)
    BY <1>1, <1>2, SumOfUnion
  <2> QED
    BY <1>1, <2>1
<1>4. SumFunctionOnSet(f, A) = Cardinality(A) * c /\ SumFunctionOnSet(f, A) \in Int
  BY <1>1, <1>2, SumOfConstant, SumInt
<1>5. SumFunctionOnSet(f, S \ A) = Cardinality(S \ A) * 0 /\ Cardinality(S \ A) \in Nat
  BY <1>1, SumOfConstant, FS_CardinalityType
<1> QED
  BY <1>3, <1>4, <1>5

-----------------------------------------------------------------------------
(* Counting *)

\* two sets with nothing in common are counted one after the other
LEMMA DisjointUnion ==
  ASSUME NEW S, NEW T, IsFiniteSet(S), IsFiniteSet(T), S \cap T = {}
  PROVE  /\ IsFiniteSet(S \cup T)
         /\ Cardinality(S \cup T) = Cardinality(S) + Cardinality(T)
<1>1. Cardinality(S \cap T) = 0
  BY FS_EmptySet, Zenon
<1>2. /\ IsFiniteSet(S \cup T)
      /\ Cardinality(S \cup T) = Cardinality(S) + Cardinality(T) - Cardinality(S \cap T)
  BY FS_Union
<1>3. Cardinality(S) \in Nat /\ Cardinality(T) \in Nat
  BY FS_CardinalityType
<1> QED
  BY <1>1, <1>2, <1>3

\* one more in groups of s opens one more group, or none
LEMMA NextAllocation ==
  ASSUME NEW n \in Nat \ {0}, NEW s \in Nat \ {0}
  PROVE  /\ n \div s \in Nat /\ (n - 1) \div s \in Nat
         /\ n \div s = (n - 1) \div s \/ n \div s = (n - 1) \div s + 1
<1>1. n \div s \in Int /\ n = s * (n \div s) + (n % s) /\ n % s \in 0..(s - 1)
  BY Z3
<1>2. /\ (n - 1) \div s \in Int /\ n - 1 = s * ((n - 1) \div s) + ((n - 1) % s)
      /\ (n - 1) % s \in 0..(s - 1)
  BY Z3
<1>3. ASSUME NEW d \in Int, NEW e \in Int, NEW a \in 0..(s - 1), NEW b \in 0..(s - 1),
             n - 1 = s * d + a, n = s * e + b
      PROVE  d >= 0 /\ e >= 0 /\ (e = d \/ e = d + 1)
  <2>1. ASSUME NEW k \in Int, NEW m \in Int, k < m PROVE s * m >= s * k + s
    <3>1. s * m >= s * (k + 1) /\ s * (k + 1) = s * k + s
      BY <2>1, Z3
    <3> QED
      BY <3>1
  <2>2. ASSUME d < 0 PROVE FALSE
    BY <1>3, <2>1, <2>2
  <2>3. ASSUME e < 0 PROVE FALSE
    BY <1>3, <2>1, <2>3
  <2>4. ASSUME e < d PROVE FALSE
    BY <1>3, <2>1, <2>4
  <2>5. ASSUME d + 1 < e PROVE FALSE
    <3>1. s * e >= s * (d + 1) + s /\ s * (d + 1) >= s * d + s
      BY <2>1, <2>5
    <3> QED
      BY <1>3, <3>1
  <2> QED
    BY <2>2, <2>3, <2>4, <2>5
<1> QED
  BY <1>1, <1>2, <1>3
=============================================================================
