----------------------------- MODULE ShopProofs -----------------------------
(***************************************************************************)
(* The shop with its wallet and inventory, for every table of products and *)
(* every set of callers.                                                   *)
(*                                                                         *)
(* The limit row is read once, four awaits before it is written; what      *)
(* makes the check still good is that only the shop grain writes the row   *)
(* and that it runs one purchase at a time: Fresh.  That money and items   *)
(* match the rows rests on the conversation with the other two grains: a   *)
(* request, a running turn or an answer of the shop belongs to the         *)
(* purchase it is running (WalletCallOK, InventoryCallOK), and what is     *)
(* paid and not yet recorded, or recorded and not yet granted, is known    *)
(* from where that conversation stands (PaidOK, GrantsOK).  The grains'    *)
(* own invariants come from their proofs, through WP and IP.               *)
(***************************************************************************)
EXTENDS Shop, Functions, FiniteSetTheorems, WellFoundedInduction, TLAPS

(***************************************************************************)
(* Sums.  What SumFunctionOnSet of the community modules computes over a   *)
(* finite set, whatever the order it is folded in.  The induction is by a  *)
(* least counterexample, since the induction theorems of the library take  *)
(* an operator the provers cannot supply.                                  *)
(***************************************************************************)

\* g is the recursive function SumFunctionOnSet(f, S) is a value of.
IsSum(g, f, S) ==
    g = [T \in SUBSET S |->
            IF T = {} THEN 0
            ELSE LET x == CHOOSE x \in T : TRUE IN f[x] + g[T \ {x}]]

\* f has an integer to sum at each member of S.
Summable(f, S) == IsFiniteSet(S) /\ \A x \in S : f[x] \in Int

-----------------------------------------------------------------------------
(* A set of naturals closed under successor has them all: were one missing,
   the least missing one would have a predecessor that is not.             *)
LEMMA ClosedSetOfNaturals ==
    ASSUME NEW N, 0 \in N, \A n \in Nat : n \in N => n + 1 \in N
    PROVE  Nat \subseteq N
  <1> SUFFICES ASSUME Nat \ N # {} PROVE FALSE
    OBVIOUS
  <1> DEFINE R == OpToRel(<, Nat)
  <1>1. IsWellFoundedOn(R, Nat)
    BY NatLessThanWellFounded
  <1>2. PICK n \in Nat \ N : \A m \in Nat \ N : ~(<<m, n>> \in R)
    <2> HIDE DEF R
    <2> QED
      BY <1>1, WFMin
  <1> HIDE DEF R
  <1>3. n \in Nat /\ n \notin N /\ n # 0 /\ n - 1 \in Nat /\ n - 1 < n
    OBVIOUS
  <1>4. <<n - 1, n>> \in R
    BY <1>3 DEF OpToRel, R
  <1>5. n - 1 \in N
    BY <1>2, <1>3, <1>4
  <1>6. (n - 1) + 1 \in N
    BY <1>3, <1>5
  <1> QED
    BY <1>3, <1>6

(* Subsets of a finite set, and what taking a member out leaves. *)
LEMMA SmallerSubset ==
    ASSUME NEW S, IsFiniteSet(S), NEW T \in SUBSET S
    PROVE  /\ IsFiniteSet(T) /\ Cardinality(T) \in Nat
           /\ Cardinality(T) = 0 <=> T = {}
           /\ \A x \in T : T \ {x} \in SUBSET S /\ Cardinality(T \ {x}) = Cardinality(T) - 1
  BY FS_Subset, FS_CardinalityType, FS_EmptySet, FS_RemoveElement

(* Over a finite set the recursion has a solution: it is built for the subsets
   of up to n members, for every n.                                        *)
LEMMA SumExists ==
    ASSUME NEW f, NEW S, IsFiniteSet(S)
    PROVE  \E g : IsSum(g, f, S)
  <1> DEFINE UpTo(n) == {T \in SUBSET S : Cardinality(T) <= n}
             Step(g, T) == IF T = {} THEN 0
                           ELSE LET x == CHOOSE x \in T : TRUE IN f[x] + g[T \ {x}]
             Good == {n \in Nat : \E g : \A T \in UpTo(n) : g[T] = Step(g, T)}
  <1>1. 0 \in Good
    <2> DEFINE g == [T \in UpTo(0) |-> 0]
    <2>1. \A T \in UpTo(0) : T = {}
      BY SmallerSubset
    <2>2. \A T \in UpTo(0) : g[T] = Step(g, T)
      BY <2>1
    <2> QED
      BY <2>2
  <1>2. ASSUME NEW n \in Nat, n \in Good
        PROVE  n + 1 \in Good
    <2>1. PICK g : \A T \in UpTo(n) : g[T] = Step(g, T)
      BY <1>2
    <2> DEFINE h == [T \in UpTo(n + 1) |-> IF T \in UpTo(n) THEN g[T] ELSE Step(g, T)]
    <2>2. ASSUME NEW T \in UpTo(n + 1)
          PROVE  h[T] = Step(h, T)
      <3>1. CASE T = {}
        <4>1. T \in UpTo(n) => g[T] = Step(g, T)
          BY <2>1
        <4> QED
          BY <3>1, <4>1
      <3>2. CASE T # {}
        <4> DEFINE x == CHOOSE x \in T : TRUE
        <4>1. x \in T
          BY <3>2
        <4>2. T \ {x} \in UpTo(n) /\ T \ {x} \in UpTo(n + 1)
          BY <4>1, SmallerSubset
        <4>3. h[T \ {x}] = g[T \ {x}]
          BY <4>2
        <4>4. T \in UpTo(n) => g[T] = Step(g, T)
          BY <2>1
        <4>5. h[T] = Step(g, T)
          BY <4>4
        <4> QED
          BY <3>2, <4>3, <4>5
      <3> QED
        BY <3>1, <3>2
    <2> HIDE DEF h, UpTo, Step
    <2> QED
      BY <2>2
  <1>3. Cardinality(S) \in Good
    <2> HIDE DEF Good
    <2> QED
      BY <1>1, <1>2, ClosedSetOfNaturals, FS_CardinalityType
  <1>4. UpTo(Cardinality(S)) = SUBSET S
    BY FS_Subset
  <1>5. PICK g : \A T \in SUBSET S : g[T] = Step(g, T)
    BY <1>3, <1>4
  <1> DEFINE h == [T \in SUBSET S |-> g[T]]
  <1>6. ASSUME NEW T \in SUBSET S PROVE h[T] = Step(h, T)
    BY <1>5
  <1>7. IsSum(h, f, S)
    BY <1>6 DEF IsSum
  <1> QED
    BY <1>7

(* The value of the sum is that of a solution. *)
LEMMA SumIsSolution ==
    ASSUME NEW f, NEW S, IsFiniteSet(S)
    PROVE  \E g : IsSum(g, f, S) /\ SumFunctionOnSet(f, S) = g[S]
  <1> DEFINE iter[T \in SUBSET S] ==
                IF T = {} THEN 0
                ELSE LET x == CHOOSE x \in T : TRUE IN f[x] + iter[T \ {x}]
  <1>1. SumFunctionOnSet(f, S) = iter[S]
    BY DEF SumFunctionOnSet, FoldFunctionOnSet, MapThenFoldSet
  <1>2. PICK g : IsSum(g, f, S)
    BY SumExists
  <1>3. IsSum(iter, f, S)
    BY <1>2 DEF IsSum
  <1> QED
    BY <1>1, <1>3

(* Solutions agree where what they sum does. *)
LEMMA SolutionsAgree ==
    ASSUME NEW f, NEW S, NEW g, IsSum(g, f, S), IsFiniteSet(S),
           NEW e, NEW T \in SUBSET S, NEW h, IsSum(h, e, T),
           \A x \in T : f[x] = e[x]
    PROVE  \A U \in SUBSET T : g[U] = h[U]
  <1> DEFINE N == {n \in Nat : \A U \in SUBSET T : Cardinality(U) = n => g[U] = h[U]}
  <1>1. 0 \in N
    BY SmallerSubset DEF IsSum
  <1>2. ASSUME NEW n \in Nat, n \in N PROVE n + 1 \in N
    <2> SUFFICES ASSUME NEW U \in SUBSET T, Cardinality(U) = n + 1
                 PROVE  g[U] = h[U]
      OBVIOUS
    <2> DEFINE x == CHOOSE x \in U : TRUE
    <2>1. U \in SUBSET S /\ U # {}
      BY SmallerSubset
    <2>2. x \in U
      BY <2>1
    <2>3. Cardinality(U \ {x}) = n /\ U \ {x} \in SUBSET T
      <3> HIDE DEF x
      <3> QED
        BY <2>1, <2>2, SmallerSubset
    <2>4. g[U \ {x}] = h[U \ {x}]
      BY <1>2, <2>3
    <2>5. g[U] = f[x] + g[U \ {x}] /\ h[U] = e[x] + h[U \ {x}]
      BY <2>1 DEF IsSum
    <2> QED
      BY <2>2, <2>4, <2>5
  <1>3. Nat \subseteq N
    <2> HIDE DEF N
    <2> QED
      BY <1>1, <1>2, ClosedSetOfNaturals
  <1> QED
    BY <1>3, SmallerSubset

(* A solution over S has the sum over each part of S. *)
LEMMA SolutionOfParts ==
    ASSUME NEW f, NEW S, IsFiniteSet(S), NEW g, IsSum(g, f, S), NEW T \in SUBSET S
    PROVE  SumFunctionOnSet(f, T) = g[T]
  <1>1. PICK h : IsSum(h, f, T) /\ SumFunctionOnSet(f, T) = h[T]
    BY SmallerSubset, SumIsSolution
  <1> QED
    BY <1>1, SolutionsAgree

(* Only the summed values matter. *)
LEMMA SumAgrees ==
    ASSUME NEW f, NEW e, NEW S, IsFiniteSet(S), \A x \in S : f[x] = e[x]
    PROVE  SumFunctionOnSet(f, S) = SumFunctionOnSet(e, S)
  <1>1. PICK g : IsSum(g, f, S) /\ SumFunctionOnSet(f, S) = g[S]
    BY SumIsSolution
  <1>2. PICK h : IsSum(h, e, S) /\ SumFunctionOnSet(e, S) = h[S]
    BY SumIsSolution
  <1> QED
    BY <1>1, <1>2, SolutionsAgree

(* Nothing sums to nothing, and integers to an integer. *)
LEMMA SumOfNothing ==
    ASSUME NEW f
    PROVE  SumFunctionOnSet(f, {}) = 0
  <1>1. PICK g : IsSum(g, f, {}) /\ SumFunctionOnSet(f, {}) = g[{}]
    BY SumIsSolution, FS_EmptySet
  <1> QED
    BY <1>1 DEF IsSum

LEMMA SumType ==
    ASSUME NEW f, NEW S, Summable(f, S)
    PROVE  SumFunctionOnSet(f, S) \in Int
  <1>1. PICK g : IsSum(g, f, S) /\ SumFunctionOnSet(f, S) = g[S]
    BY SumIsSolution DEF Summable
  <1> DEFINE N == {n \in Nat : \A U \in SUBSET S : Cardinality(U) = n => g[U] \in Int}
  <1>2. 0 \in N
    BY <1>1, SmallerSubset DEF IsSum, Summable
  <1>3. ASSUME NEW n \in Nat, n \in N PROVE n + 1 \in N
    <2> SUFFICES ASSUME NEW U \in SUBSET S, Cardinality(U) = n + 1
                 PROVE  g[U] \in Int
      OBVIOUS
    <2> DEFINE x == CHOOSE x \in U : TRUE
    <2>1. U # {}
      BY SmallerSubset DEF Summable
    <2>2. x \in U
      BY <2>1
    <2>3. Cardinality(U \ {x}) = n /\ U \ {x} \in SUBSET S
      <3> HIDE DEF x
      <3> QED
        BY <2>2, SmallerSubset DEF Summable
    <2>4. g[U] = f[x] + g[U \ {x}]
      BY <1>1, <2>1 DEF IsSum
    <2> QED
      BY <1>3, <2>2, <2>3, <2>4 DEF Summable
  <1>4. Nat \subseteq N
    <2> HIDE DEF N
    <2> QED
      BY <1>2, <1>3, ClosedSetOfNaturals
  <1> QED
    BY <1>1, <1>4, SmallerSubset DEF Summable

(* Any member may be taken out first: addition commutes. *)
LEMMA SumOfMember ==
    ASSUME NEW f, NEW S, Summable(f, S), NEW y \in S
    PROVE  SumFunctionOnSet(f, S) = f[y] + SumFunctionOnSet(f, S \ {y})
  <1>1. PICK g : IsSum(g, f, S) /\ SumFunctionOnSet(f, S) = g[S]
    BY SumIsSolution DEF Summable
  <1>2. \A U \in SUBSET S : g[U] = SumFunctionOnSet(f, U) /\ g[U] \in Int
    <2> SUFFICES ASSUME NEW U \in SUBSET S
                 PROVE  g[U] = SumFunctionOnSet(f, U) /\ g[U] \in Int
      OBVIOUS
    <2>1. Summable(f, U)
      BY SmallerSubset DEF Summable
    <2> QED
      BY <1>1, <2>1, SolutionOfParts, SumType DEF Summable
  <1> DEFINE N == {n \in Nat : \A U \in SUBSET S : Cardinality(U) = n =>
                                   \A z \in U : g[U] = f[z] + g[U \ {z}]}
  <1>3. 0 \in N
    BY SmallerSubset DEF Summable
  <1>4. ASSUME NEW n \in Nat, n \in N PROVE n + 1 \in N
    <2> SUFFICES ASSUME NEW U \in SUBSET S, Cardinality(U) = n + 1, NEW z \in U
                 PROVE  g[U] = f[z] + g[U \ {z}]
      OBVIOUS
    <2> DEFINE x == CHOOSE x \in U : TRUE
    <2>1. x \in U /\ g[U] = f[x] + g[U \ {x}]
      BY <1>1 DEF IsSum
    <2> HIDE DEF x
    <2>2. CASE x # z
      <3>1. /\ U \ {x} \in SUBSET S /\ Cardinality(U \ {x}) = n /\ z \in U \ {x}
            /\ U \ {z} \in SUBSET S /\ Cardinality(U \ {z}) = n /\ x \in U \ {z}
        BY <2>1, <2>2, SmallerSubset DEF Summable
      <3> DEFINE V == (U \ {x}) \ {z}
      <3>2. g[U \ {x}] = f[z] + g[V]
        BY <1>4, <3>1
      <3>3. V = (U \ {z}) \ {x} /\ V \in SUBSET S
        OBVIOUS
      <3>4. g[U \ {z}] = f[x] + g[V]
        BY <1>4, <3>1, <3>3
      <3>5. f[x] \in Int /\ f[z] \in Int /\ g[V] \in Int
        BY <1>2, <2>1, <3>3 DEF Summable
      <3> HIDE DEF V
      <3> QED
        BY <2>1, <3>2, <3>4, <3>5
    <2> QED
      BY <2>1, <2>2
  <1>5. Nat \subseteq N
    <2> HIDE DEF N
    <2> QED
      BY <1>3, <1>4, ClosedSetOfNaturals
  <1>6. g[S] = f[y] + g[S \ {y}]
    BY <1>5, SmallerSubset DEF Summable
  <1> QED
    BY <1>2, <1>6

(* A new member adds its value. *)
LEMMA SumWithMember ==
    ASSUME NEW f, NEW S, Summable(f, S), NEW y, y \notin S, f[y] \in Int
    PROVE  SumFunctionOnSet(f, S \cup {y}) = SumFunctionOnSet(f, S) + f[y]
  <1>1. Summable(f, S \cup {y}) /\ (S \cup {y}) \ {y} = S
    BY FS_AddElement DEF Summable
  <1>2. SumFunctionOnSet(f, S) \in Int
    BY SumType
  <1> DEFINE T == S \cup {y}
  <1>3. SumFunctionOnSet(f, T) = f[y] + SumFunctionOnSet(f, T \ {y})
    BY <1>1, SumOfMember
  <1>4. T \ {y} = S
    BY <1>1
  <1>5. SumFunctionOnSet(f, T) = f[y] + SumFunctionOnSet(f, S)
    <2> HIDE DEF T
    <2> QED
      BY <1>3, <1>4
  <1> QED
    BY <1>2, <1>5

(* A change of one value changes the sum by as much. *)
LEMMA SumWithChange ==
    ASSUME NEW f, NEW e, NEW S, Summable(f, S), NEW y \in S, e[y] \in Int,
           \A x \in S \ {y} : e[x] = f[x]
    PROVE  SumFunctionOnSet(e, S) = SumFunctionOnSet(f, S) + (e[y] - f[y])
  <1> DEFINE rest == SumFunctionOnSet(f, S \ {y})
  <1>1. Summable(e, S) /\ Summable(f, S \ {y}) /\ f[y] \in Int
    BY FS_RemoveElement DEF Summable
  <1>2. SumFunctionOnSet(f, S) = f[y] + rest
    BY SumOfMember
  <1>3. SumFunctionOnSet(e, S) = e[y] + SumFunctionOnSet(e, S \ {y})
    BY <1>1, SumOfMember
  <1>4. SumFunctionOnSet(e, S \ {y}) = rest
    BY <1>1, SumAgrees DEF Summable
  <1>5. rest \in Int
    BY <1>1, SumType
  <1> QED
    BY <1>1, <1>2, <1>3, <1>4, <1>5

(* Sums are as monotone as addition. *)
LEMMA SumIsMonotone ==
    ASSUME NEW f, NEW e, NEW S, Summable(f, S), Summable(e, S),
           \A x \in S : f[x] <= e[x]
    PROVE  SumFunctionOnSet(f, S) <= SumFunctionOnSet(e, S)
  <1> DEFINE F(U) == SumFunctionOnSet(f, U)
             E(U) == SumFunctionOnSet(e, U)
             N == {n \in Nat : \A U \in SUBSET S : Cardinality(U) = n => F(U) <= E(U)}
  <1>1. 0 \in N
    <2>1. F({}) = 0 /\ E({}) = 0
      BY SumOfNothing
    <2>2. \A U \in SUBSET S : Cardinality(U) = 0 => U = {}
      BY SmallerSubset DEF Summable
    <2> HIDE DEF F, E
    <2> QED
      BY <2>1, <2>2
  <1>2. ASSUME NEW n \in Nat, n \in N PROVE n + 1 \in N
    <2> SUFFICES ASSUME NEW U \in SUBSET S, Cardinality(U) = n + 1
                 PROVE  F(U) <= E(U)
      OBVIOUS
    <2>1. Summable(f, U) /\ Summable(e, U) /\ U # {}
      BY SmallerSubset DEF Summable
    <2>2. PICK x \in U : TRUE
      BY <2>1
    <2>3. Cardinality(U \ {x}) = n /\ U \ {x} \in SUBSET S
      BY <2>2, SmallerSubset DEF Summable
    <2>4. F(U) = f[x] + F(U \ {x}) /\ E(U) = e[x] + E(U \ {x})
      BY <2>1, SumOfMember
    <2>5. F(U \ {x}) <= E(U \ {x})
      BY <1>2, <2>3
    <2>6. F(U \ {x}) \in Int /\ E(U \ {x}) \in Int
      <3>1. Summable(f, U \ {x}) /\ Summable(e, U \ {x})
        BY <2>1, FS_RemoveElement DEF Summable
      <3> QED
        BY <3>1, SumType
    <2>7. f[x] \in Int /\ e[x] \in Int /\ f[x] <= e[x]
      BY DEF Summable
    <2> HIDE DEF F, E
    <2> QED
      BY <2>4, <2>5, <2>6, <2>7
  <1>3. Nat \subseteq N
    <2> HIDE DEF N
    <2> QED
      BY <1>1, <1>2, ClosedSetOfNaturals
  <1> QED
    BY <1>3, SmallerSubset DEF Summable

LEMMA SumOfZeros ==
    ASSUME NEW f, NEW S, IsFiniteSet(S), \A x \in S : f[x] = 0
    PROVE  SumFunctionOnSet(f, S) = 0
  <1> DEFINE N == {n \in Nat : \A U \in SUBSET S :
                      Cardinality(U) = n => SumFunctionOnSet(f, U) = 0}
  <1>1. 0 \in N
    <2>1. \A U \in SUBSET S : Cardinality(U) = 0 => U = {}
      BY SmallerSubset
    <2>2. SumFunctionOnSet(f, {}) = 0
      BY SumOfNothing
    <2> QED
      BY <2>1, <2>2
  <1>2. ASSUME NEW n \in Nat, n \in N PROVE n + 1 \in N
    <2> SUFFICES ASSUME NEW U \in SUBSET S, Cardinality(U) = n + 1
                 PROVE  SumFunctionOnSet(f, U) = 0
      OBVIOUS
    <2>1. Summable(f, U) /\ U # {}
      BY SmallerSubset DEF Summable
    <2>2. PICK x \in U : TRUE
      BY <2>1
    <2>3. Cardinality(U \ {x}) = n /\ U \ {x} \in SUBSET S
      BY <2>2, SmallerSubset
    <2>4. SumFunctionOnSet(f, U) = f[x] + SumFunctionOnSet(f, U \ {x})
      BY <2>1, SumOfMember
    <2>5. SumFunctionOnSet(f, U \ {x}) = 0
      BY <1>2, <2>3
    <2> QED
      BY <2>4, <2>5
  <1>3. Nat \subseteq N
    <2> HIDE DEF N
    <2> QED
      BY <1>1, <1>2, ClosedSetOfNaturals
  <1> QED
    BY <1>3, SmallerSubset

(* A sum of naturals is one, and no less than any of them. *)
LEMMA SumOfNaturals ==
    ASSUME NEW f, NEW S, IsFiniteSet(S), \A x \in S : f[x] \in Nat
    PROVE  /\ SumFunctionOnSet(f, S) \in Nat
           /\ \A y \in S : f[y] <= SumFunctionOnSet(f, S)
  <1>1. \A U \in SUBSET S : Summable(f, U)
    BY SmallerSubset DEF Summable
  <1>2. ASSUME NEW U \in SUBSET S PROVE SumFunctionOnSet(f, U) \in Nat
    <2> DEFINE zero == [x \in U |-> 0]
    <2>1. Summable(zero, U) /\ Summable(f, U) /\ IsFiniteSet(U)
      BY <1>1 DEF Summable
    <2>2. SumFunctionOnSet(zero, U) = 0
      BY <2>1, SumOfZeros
    <2>3. SumFunctionOnSet(zero, U) <= SumFunctionOnSet(f, U)
      <3>1. \A x \in U : zero[x] <= f[x]
        OBVIOUS
      <3> HIDE DEF zero
      <3> QED
        BY <2>1, <3>1, SumIsMonotone
    <2> QED
      BY <2>1, <2>2, <2>3, SumType
  <1>3. ASSUME NEW y \in S PROVE f[y] <= SumFunctionOnSet(f, S)
    <2>1. SumFunctionOnSet(f, S) = f[y] + SumFunctionOnSet(f, S \ {y})
      BY <1>1, SumOfMember
    <2>2. SumFunctionOnSet(f, S \ {y}) \in Nat
      BY <1>2
    <2> QED
      BY <2>1, <2>2
  <1> QED
    BY <1>2, <1>3

-----------------------------------------------------------------------------
WP == INSTANCE WalletProofs WITH Callers <- {Shop} \cup Others
IP == INSTANCE InventoryProofs WITH Callers <- {Shop}

LimitTyped ==
    /\ prows \in [DOMAIN prows -> Nat] /\ DOMAIN prows \subseteq Products
    /\ sturn \in Turn \cup {Idle}

\* A limited purchase past its check was checked against the row as it is.
Fresh ==
    sturn # Idle =>
        /\ sturn.pc \in {"record", "recorded"} => HasLimit(sturn.prod)
        /\ HasLimit(sturn.prod) /\ sturn.pc \in {"isEnough", "spend", "record"} =>
             /\ Purchased(sturn.prod) + sturn.count <= LimitCount[sturn.prod]
             /\ sturn.had = (sturn.prod \in DOMAIN prows)

\* What is bought at once is at most what the table allows at once.
WithinMax == sturn # Idle => sturn.count <= MaxPurchaseCount[sturn.prod]

LInv == LimitTyped /\ Fresh /\ WithinMax /\ LimitRespected

shopState == <<prows, sturn>>

-----------------------------------------------------------------------------
LEMMA InitLimit == Init => LInv
  <1> SUFFICES ASSUME Init PROVE LInv
    OBVIOUS
  <1> USE ShopAssumption DEF Init
  <1>1. LimitTyped
    BY DEF LimitTyped
  <1>2. Fresh /\ WithinMax
    BY DEF Fresh, WithinMax
  <1>3. LimitRespected
    BY DEF LimitRespected, Limited, HasLimit, Purchased
  <1> QED
    BY <1>1, <1>2, <1>3 DEF LInv

(* The table and its rows, as the provers need them. *)
LEMMA Columns ==
    ASSUME LInv, NEW p \in Products
    PROVE  /\ LimitCount[p] \in Nat /\ MaxPurchaseCount[p] \in Nat
           /\ Purchased(p) \in Nat
  BY ShopAssumption DEF LInv, LimitTyped, Purchased

(* Steps that leave the limit rows alone, and end the turn or carry it on
   with the same product, count and reading of the row.                    *)
LEMMA SameReadingKeepsLimit ==
    ASSUME LInv, prows' = prows,
           \/ sturn' = Idle
           \/ sturn' = sturn
           \/ /\ sturn # Idle
              /\ \E pc \in {"spend", "grant", "abandoned"} :
                    /\ sturn' = [sturn EXCEPT !.pc = pc]
                    /\ pc = "spend" => sturn.pc = "isEnough"
           \/ /\ sturn # Idle /\ sturn.pc = "spend" /\ HasLimit(sturn.prod)
              /\ sturn' = [sturn EXCEPT !.pc = "record"]
    PROVE  LInv'
  <1> USE DEF LInv
  <1>1. LimitTyped' /\ Fresh' /\ WithinMax'
    <2>1. CASE sturn' = Idle \/ sturn' = sturn
      BY <2>1 DEF LimitTyped, Fresh, WithinMax, Purchased, HasLimit
    <2>2. CASE /\ sturn # Idle
               /\ \E pc \in {"spend", "grant", "abandoned"} :
                     /\ sturn' = [sturn EXCEPT !.pc = pc]
                     /\ pc = "spend" => sturn.pc = "isEnough"
      <3>1. PICK pc \in {"spend", "grant", "abandoned"} :
                     /\ sturn' = [sturn EXCEPT !.pc = pc]
                     /\ pc = "spend" => sturn.pc = "isEnough"
        BY <2>2
      <3>2. /\ sturn \in Turn /\ sturn' \in Turn /\ sturn'.pc = pc
            /\ sturn'.prod = sturn.prod /\ sturn'.count = sturn.count
            /\ sturn'.had = sturn.had
        BY <2>2, <3>1 DEF LimitTyped, Turn
      <3> QED
        BY <2>2, <3>1, <3>2 DEF LimitTyped, Fresh, WithinMax, Purchased, HasLimit
    <2>3. CASE /\ sturn # Idle /\ sturn.pc = "spend" /\ HasLimit(sturn.prod)
               /\ sturn' = [sturn EXCEPT !.pc = "record"]
      <3>1. /\ sturn \in Turn /\ sturn' \in Turn /\ sturn'.pc = "record"
            /\ sturn'.prod = sturn.prod /\ sturn'.count = sturn.count
            /\ sturn'.had = sturn.had
        BY <2>3 DEF LimitTyped, Turn
      <3> QED
        BY <2>3, <3>1 DEF LimitTyped, Fresh, WithinMax, Purchased, HasLimit
    <2> QED
      BY <2>1, <2>2, <2>3
  <1>2. LimitRespected'
    BY DEF LimitRespected, Limited, HasLimit, Purchased
  <1> QED
    BY <1>1, <1>2

LEMMA BeginKeepsLimit ==
    ASSUME LInv, NEW m \in Purchase, Begin(m) PROVE LInv'
  <1> USE DEF LInv
  <1>1. m \in Purchase /\ prows' = prows
    BY DEF Begin
  <1>2. CASE UNCHANGED sturn
    BY <1>1, <1>2, SameReadingKeepsLimit
  <1>3. CASE ~Invalid(m) /\ \E pc \in {"readLimit", "isEnough"} :
               /\ sturn' = At(pc, m.prod, m.count)
               /\ pc = "isEnough" => ~HasLimit(m.prod)
    <2>1. PICK pc \in {"readLimit", "isEnough"} :
               /\ sturn' = At(pc, m.prod, m.count)
               /\ pc = "isEnough" => ~HasLimit(m.prod)
      BY <1>3
    <2>2. m.prod \in Products /\ m.count \in Nat \ {0} /\ m.count <= MaxPurchaseCount[m.prod]
      <3>1. m.prod \in Products /\ ~(m.count <= 0)
        BY <1>3 DEF Invalid
      <3>2. m.count \in Int /\ ~(MaxPurchaseCount[m.prod] < m.count)
        BY <1>1, <1>3, <3>1, ShopAssumption DEF Purchase, Invalid
      <3> QED
        BY <3>1, <3>2, Columns
    <2>3. /\ sturn' \in Turn /\ sturn'.pc = pc /\ sturn'.prod = m.prod
          /\ sturn'.count = m.count
      BY <2>1, <2>2 DEF At, Turn
    <2>4. LimitTyped' /\ Fresh' /\ WithinMax'
      BY <1>1, <2>1, <2>2, <2>3 DEF LimitTyped, Fresh, WithinMax, HasLimit
    <2>5. LimitRespected'
      BY <1>1 DEF LimitRespected, Limited, HasLimit, Purchased
    <2> QED
      BY <2>4, <2>5
  <1> QED
    BY <1>2, <1>3 DEF Begin

(* The check: the purchase goes on only where the row leaves room for it. *)
LEMMA ReadLimitKeepsLimit ==
    ASSUME LInv, ReadLimit PROVE LInv'
  <1> USE DEF LInv
  <1>1. prows' = prows /\ sturn \in Turn /\ sturn # Idle
    BY DEF ReadLimit, LimitTyped, Idle
  <1>2. CASE EndTurn
    BY <1>1, <1>2, SameReadingKeepsLimit DEF EndTurn
  <1>3. CASE /\ ~OverLimit(sturn.prod, sturn.count)
             /\ sturn' = [sturn EXCEPT !.pc = "isEnough",
                                       !.had = sturn.prod \in DOMAIN prows]
    <2>1. /\ sturn' \in Turn /\ sturn'.pc = "isEnough" /\ sturn'.prod = sturn.prod
          /\ sturn'.count = sturn.count /\ sturn'.had = (sturn.prod \in DOMAIN prows)
      <3> DEFINE known == sturn.prod \in DOMAIN prows
      <3>1. known \in BOOLEAN
        OBVIOUS
      <3>2. sturn' = [sturn EXCEPT !.pc = "isEnough", !.had = known]
        BY <1>3
      <3> HIDE DEF known
      <3>3. /\ sturn' \in Turn /\ sturn'.pc = "isEnough" /\ sturn'.prod = sturn.prod
            /\ sturn'.count = sturn.count /\ sturn'.had = known
        BY <1>1, <3>1, <3>2 DEF Turn
      <3> QED
        BY <3>3 DEF known
    <2>2. Purchased(sturn.prod) + sturn.count <= LimitCount[sturn.prod]
      BY <1>1, <1>3, Columns DEF OverLimit, Turn
    <2>3. LimitTyped' /\ Fresh' /\ WithinMax'
      BY <1>1, <2>1, <2>2 DEF LimitTyped, Fresh, WithinMax, HasLimit, Purchased
    <2>4. LimitRespected'
      BY <1>1 DEF LimitRespected, Limited, HasLimit, Purchased
    <2> QED
      BY <2>3, <2>4
  <1> QED
    BY <1>2, <1>3 DEF ReadLimit

(* Writing the row, acknowledged or not, adds the count that was checked. *)
LEMMA RecordingAdds ==
    ASSUME LInv, sturn.pc = "record", ~Conflict, prows' = Recording
    PROVE  /\ prows' \in [DOMAIN prows' -> Nat] /\ DOMAIN prows' \subseteq Products
           /\ \A p \in Products : Purchased(p)' = IF p = sturn.prod
                                                  THEN Purchased(p) + sturn.count
                                                  ELSE Purchased(p)
  <1> USE DEF LInv
  <1>1. /\ sturn \in Turn /\ sturn # Idle /\ HasLimit(sturn.prod)
        /\ Purchased(sturn.prod) + sturn.count <= LimitCount[sturn.prod]
        /\ sturn.had = (sturn.prod \in DOMAIN prows)
    BY DEF LimitTyped, Fresh, WithinMax, Idle
  <1>2. sturn.prod \in Products /\ sturn.count \in Nat
    BY <1>1 DEF Turn
  <1>3. /\ prows' \in [DOMAIN prows' -> Nat] /\ DOMAIN prows' \subseteq Products
        /\ \A p \in Products : Purchased(p)' = IF p = sturn.prod
                                               THEN Purchased(p) + sturn.count
                                               ELSE Purchased(p)
    <2> DEFINE D == DOMAIN prows
    <2>0. prows \in [D -> Nat] /\ D \subseteq Products
      BY DEF LimitTyped
    <2>1. CASE sturn.had
      <3>1. sturn.prod \in D
        BY <1>1, <2>1
      <3>2. prows' = [p \in D |-> IF p = sturn.prod THEN prows[p] + sturn.count
                                                   ELSE prows[p]]
        BY <2>1 DEF Recording
      <3> HIDE DEF D
      <3>3. prows' \in [D -> Nat] /\ DOMAIN prows' = D
        BY <1>2, <2>0, <3>2
      <3>4. \A p \in D : prows'[p] = IF p = sturn.prod THEN prows[p] + sturn.count
                                                      ELSE prows[p]
        BY <3>2
      <3> QED
        BY <1>2, <2>0, <3>1, <3>3, <3>4 DEF Purchased, D
    <2>2. CASE ~sturn.had
      <3>1. sturn.prod \notin D
        BY <1>1, <2>2
      <3>2. prows' = [p \in D \cup {sturn.prod} |->
                         IF p = sturn.prod THEN sturn.count ELSE prows[p]]
        BY <2>2 DEF Recording
      <3> HIDE DEF D
      <3>3. prows' \in [D \cup {sturn.prod} -> Nat] /\ DOMAIN prows' = D \cup {sturn.prod}
        BY <1>2, <2>0, <3>2
      <3>4. \A p \in D \cup {sturn.prod} :
               prows'[p] = IF p = sturn.prod THEN sturn.count ELSE prows[p]
        BY <3>2
      <3> QED
        BY <1>2, <2>0, <3>1, <3>3, <3>4 DEF Purchased, D
    <2> QED
      BY <2>1, <2>2
  <1> QED
    BY <1>3

LEMMA RecordingKeepsLimit ==
    ASSUME LInv, sturn.pc = "record", ~Conflict, prows' = Recording,
           sturn' = Idle \/ sturn' = [sturn EXCEPT !.pc = "recorded"]
    PROVE  LInv'
  <1> USE DEF LInv
  <1>1. /\ sturn \in Turn /\ sturn # Idle /\ HasLimit(sturn.prod)
        /\ Purchased(sturn.prod) + sturn.count <= LimitCount[sturn.prod]
        /\ sturn.had = (sturn.prod \in DOMAIN prows)
    BY DEF LimitTyped, Fresh, WithinMax, Idle
  <1>2. sturn.prod \in Products /\ sturn.count \in Nat
    BY <1>1 DEF Turn
  <1>3. /\ prows' \in [DOMAIN prows' -> Nat] /\ DOMAIN prows' \subseteq Products
        /\ \A p \in Products : Purchased(p)' = IF p = sturn.prod
                                               THEN Purchased(p) + sturn.count
                                               ELSE Purchased(p)
    BY RecordingAdds
  <1>4. LimitTyped' /\ Fresh' /\ WithinMax'
    <2>1. CASE sturn' = Idle
      BY <1>3, <2>1 DEF LimitTyped, Fresh, WithinMax
    <2>2. CASE sturn' = [sturn EXCEPT !.pc = "recorded"]
      <3>1. /\ sturn' \in Turn /\ sturn'.pc = "recorded"
            /\ sturn'.prod = sturn.prod /\ sturn'.count = sturn.count
        BY <1>1, <2>2 DEF Turn
      <3> QED
        BY <1>1, <1>3, <3>1 DEF LimitTyped, Fresh, WithinMax
    <2> QED
      BY <2>1, <2>2
  <1>5. LimitRespected'
    BY <1>1, <1>2, <1>3, Columns DEF LimitRespected, Limited, HasLimit
  <1> QED
    BY <1>4, <1>5

LEMMA StepKeepsLimit == LInv /\ [Next]_vars => LInv'
  <1> SUFFICES ASSUME LInv, [Next]_vars PROVE LInv'
    OBVIOUS
  <1>1. CASE UNCHANGED shopState
    BY <1>1, SameReadingKeepsLimit DEF shopState
  <1>2. CASE \E m \in Purchase : Begin(m)
    BY <1>2, BeginKeepsLimit
  <1>3. CASE ReadLimit
    BY <1>3, ReadLimitKeepsLimit
  <1>4. CASE Enough \/ Spent \/ Recorded \/ Granted
    BY <1>4, SameReadingKeepsLimit DEF Enough, Spent, Recorded, Granted, EndTurn, Idle
  <1>5. CASE Record \/ StatementLost
    BY <1>5, RecordingKeepsLimit DEF Record, StatementLost, EndTurn
  <1>6. CASE StatementFails \/ StatementAbandoned \/ CallTimesOut
    BY <1>6, SameReadingKeepsLimit
       DEF StatementFails, StatementAbandoned, CallTimesOut, EndTurn, Idle
  <1>7. CASE Crash
    BY <1>7, SameReadingKeepsLimit, RecordingKeepsLimit DEF Crash, EndTurn
  <1> QED
    BY <1>1, <1>2, <1>3, <1>4, <1>5, <1>6, <1>7
       DEF Next, ShopStep, Continue, Components, OtherCaller, Faults, ComponentFails,
           shopVars, shopState, vars, StatementFault

-----------------------------------------------------------------------------
(* Every step of the wallet and of the inventory in here is one of theirs. *)
LEMMA WalletSteps ==
    /\ W!Init => WP!Init
    /\ \A m \in WP!Request : W!Send(m) => WP!Next
    /\ \A c \in {Shop} \cup Others : W!Receive(c) \/ W!TimeOut(c) => WP!Next
    /\ W!Serve \/ W!Fault \/ W!Crash => WP!Next
  <1> USE DEF W!Idle, WP!Idle, W!NoCache, WP!NoCache, W!Balance, WP!Balance, W!Answer, WP!Answer
  <1>1. W!Init => WP!Init
    BY DEF W!Init, WP!Init
  <1>2. \A m : W!Send(m) <=> WP!Send(m)
    BY DEF W!Send, WP!Send, W!Calling, WP!Calling
  <1>3. \A c : (W!Receive(c) <=> WP!Receive(c)) /\ (W!TimeOut(c) <=> WP!TimeOut(c))
    BY DEF W!Receive, WP!Receive, W!TimeOut, WP!TimeOut
  <1>4. (W!Activate <=> WP!Activate) /\ (W!Deactivate <=> WP!Deactivate)
    BY DEF W!Activate, WP!Activate, W!Deactivate, WP!Deactivate
  <1>5. \A m : W!Begin(m) <=> WP!Begin(m)
    BY DEF W!Begin, WP!Begin, W!AnswerAtOnce, WP!AnswerAtOnce, W!Submit, WP!Submit,
           W!IsEnough, WP!IsEnough, W!Covers, WP!Covers, W!AddAmount, WP!AddAmount,
           W!Awaiting, WP!Awaiting
  <1>6. /\ W!Apply <=> WP!Apply
        /\ W!LoseAck <=> WP!LoseAck
        /\ W!Crash <=> WP!Crash
    BY DEF W!Apply, WP!Apply, W!LoseAck, WP!LoseAck, W!Crash, WP!Crash,
           W!Updated, WP!Updated, W!Taken, WP!Taken
  <1>7. W!Resume <=> WP!Resume
    BY DEF W!Resume, WP!Resume, W!Succeeded, WP!Succeeded, W!SetBalance, WP!SetBalance
  <1>8. (W!ActivateFails <=> WP!ActivateFails) /\ (W!Fail <=> WP!Fail)
    BY DEF W!ActivateFails, WP!ActivateFails, W!Fail, WP!Fail
  <1> QED
    BY <1>1, <1>2, <1>3, <1>4, <1>5, <1>6, <1>7, <1>8
       DEF WP!Next, WP!Serve, W!Serve, WP!Fault, W!Fault

LEMMA InventorySteps ==
    /\ I!Init => IP!Init
    /\ \A m \in IP!Request : I!Send(m) => IP!Next
    /\ I!Receive(Shop) \/ I!TimeOut(Shop) => IP!Next
    /\ I!Serve \/ I!Fault \/ I!Crash => IP!Next
  <1> USE DEF I!Idle, IP!Idle, I!Nothing, IP!Nothing, I!CountIn, IP!CountIn,
              I!Answer, IP!Answer, I!Conflict, IP!Conflict, I!Affected, IP!Affected,
              I!Changed, IP!Changed, I!Put, IP!Put
  <1>1. I!Init => IP!Init
    BY DEF I!Init, IP!Init
  <1>2. \A m : I!Send(m) <=> IP!Send(m)
    BY DEF I!Send, IP!Send, I!Calling, IP!Calling
  <1>3. (I!Receive(Shop) <=> IP!Receive(Shop)) /\ (I!TimeOut(Shop) <=> IP!TimeOut(Shop))
    BY DEF I!Receive, IP!Receive, I!TimeOut, IP!TimeOut
  <1>4. (I!Activate <=> IP!Activate) /\ (I!Deactivate <=> IP!Deactivate)
    BY DEF I!Activate, IP!Activate, I!Deactivate, IP!Deactivate
  <1>5. \A m : I!Begin(m) <=> IP!Begin(m)
    BY DEF I!Begin, IP!Begin, I!AnswerAtOnce, IP!AnswerAtOnce, I!Submit, IP!Submit,
           I!AddCount, IP!AddCount, I!Awaiting, IP!Awaiting,
           I!AddStatement, IP!AddStatement
  <1>6. /\ I!Apply <=> IP!Apply
        /\ I!LoseAck <=> IP!LoseAck
        /\ I!Crash <=> IP!Crash
    BY DEF I!Apply, IP!Apply, I!LoseAck, IP!LoseAck, I!Crash, IP!Crash
  <1>7. I!Resume <=> IP!Resume
    BY DEF I!Resume, IP!Resume, I!Succeeded, IP!Succeeded
  <1>8. (I!ActivateFails <=> IP!ActivateFails) /\ (I!Fail <=> IP!Fail)
    BY DEF I!ActivateFails, IP!ActivateFails, I!Fail, IP!Fail
  <1> QED
    BY <1>1, <1>2, <1>3, <1>4, <1>5, <1>6, <1>7, <1>8
       DEF IP!Next, IP!Serve, I!Serve, IP!Fault, I!Fault

(* What the shop asks is what its grains take: its prices and counts. *)
LEMMA CallsTyped ==
    ASSUME NEW p \in Products, NEW n \in 1..MaxPurchaseCount[p], NEW op \in {"IsEnough", "Spend"}
    PROVE  /\ [from |-> Shop, op |-> op, cur |-> Currency[p], amt |-> Price[p] * n] \in WP!Request
           /\ [from |-> Shop, op |-> "Add", item |-> RewardItemId[p],
               count |-> RewardItemCount[p]] \in IP!Request
  <1>1. Price[p] * n \in Amounts /\ Currency[p] \in Currencies
    BY ShopAssumption
  <1>2. RewardItemId[p] \in Items /\ RewardItemCount[p] \in Counts
    BY ShopAssumption
  <1> QED
    BY <1>1, <1>2 DEF WP!Request, IP!Request

\* An acknowledgement was lost by another grain.
LostElsewhere == lost < MaxLost /\ lost' = lost + 1

LEMMA TurnCounts ==
    ASSUME LInv, sturn # Idle
    PROVE  /\ sturn \in Turn /\ sturn.prod \in Products
           /\ sturn.count \in 1..MaxPurchaseCount[sturn.prod] /\ sturn.count \in Nat
  <1>1. sturn \in Turn /\ sturn.count <= MaxPurchaseCount[sturn.prod]
    BY DEF LInv, LimitTyped, WithinMax
  <1>2. sturn.prod \in Products /\ sturn.count \in Nat \ {0}
    BY <1>1 DEF Turn
  <1>3. MaxPurchaseCount[sturn.prod] \in Nat
    BY <1>2, Columns
  <1> QED
    BY <1>1, <1>2, <1>3

LEMMA StepOfWallet ==
    ASSUME LInv, [Next]_vars
    PROVE  \/ WP!Next
           \/ UNCHANGED walletVars /\ (LostElsewhere \/ UNCHANGED lost)
  <1>1. CASE \E m \in Purchase : Begin(m)
    <2>1. PICK m \in Purchase : Begin(m)
      BY <1>1
    <2>2. CASE ~Invalid(m) /\ CallWallet("IsEnough", m.prod, m.count)
      <3>1. m.prod \in Products /\ m.count \in Int /\ ~(m.count <= 0)
            /\ ~(MaxPurchaseCount[m.prod] < m.count)
        BY <2>2, ShopAssumption DEF Invalid, Purchase
      <3>2. m.count \in 1..MaxPurchaseCount[m.prod]
        BY <3>1, Columns
      <3> QED
        BY <2>2, <3>1, <3>2, CallsTyped, WalletSteps DEF CallWallet
    <2> QED
      BY <2>1, <2>2 DEF Begin
  <1>2. CASE ReadLimit \/ Enough
    <2>1. sturn # Idle
      BY <1>2 DEF ReadLimit, Enough, Idle
    <2>2. \/ UNCHANGED <<walletVars, lost>>
          \/ \E op \in {"IsEnough", "Spend"} : CallWallet(op, sturn.prod, sturn.count)
          \/ W!Receive(Shop)
      BY <1>2 DEF ReadLimit, Enough
    <2> QED
      BY <2>1, <2>2, TurnCounts, CallsTyped, WalletSteps DEF CallWallet
  <1>3. CASE Spent
    BY <1>3, WalletSteps DEF Spent
  <1>4. CASE Record \/ StatementFails \/ StatementAbandoned
    BY <1>4 DEF Record, StatementFails, StatementAbandoned
  <1>5. CASE Recorded \/ Granted
    BY <1>5 DEF Recorded, Granted, CallInventory, I!Send, I!Receive
  <1>6. CASE StatementLost
    BY <1>6 DEF StatementLost, LostElsewhere
  <1>7. CASE CallTimesOut
    BY <1>7, WalletSteps DEF CallTimesOut, I!TimeOut
  <1>8. CASE Crash
    BY <1>8, WalletSteps DEF Crash
  <1>9. CASE ComponentFails
    BY <1>9, WalletSteps
       DEF ComponentFails, I!Fault, I!ActivateFails, I!Fail, I!LoseAck, LostElsewhere
  <1>10. CASE Components
    BY <1>10, WalletSteps
       DEF Components, I!Serve, I!Activate, I!Deactivate, I!Begin, I!Apply, I!Resume
  <1>11. CASE OtherCaller
    <2>1. PICK c \in Others :
             \/ \E op \in {"Spend", "Add"}, cur \in Currencies, amt \in OtherAmounts :
                   W!Send([from |-> c, op |-> op, cur |-> cur, amt |-> amt])
             \/ W!Receive(c) \/ W!TimeOut(c)
      BY <1>11 DEF OtherCaller
    <2>2. \A op \in {"Spend", "Add"}, cur \in Currencies, amt \in OtherAmounts :
             [from |-> c, op |-> op, cur |-> cur, amt |-> amt] \in WP!Request
      BY ShopAssumption DEF WP!Request
    <2> QED
      BY <2>1, <2>2, WalletSteps
  <1>12. CASE UNCHANGED vars
    BY <1>12 DEF vars
  <1> QED
    BY <1>1, <1>2, <1>3, <1>4, <1>5, <1>6, <1>7, <1>8, <1>9, <1>10, <1>11, <1>12
       DEF Next, ShopStep, Continue, Faults, StatementFault

LEMMA StepOfInventory ==
    ASSUME LInv, [Next]_vars
    PROVE  \/ IP!Next
           \/ UNCHANGED inventoryVars /\ (LostElsewhere \/ UNCHANGED lost)
  <1>1. CASE (\E m \in Purchase : Begin(m)) \/ ReadLimit \/ Enough
    BY <1>1 DEF Begin, ReadLimit, Enough, CallWallet, W!Send, W!Receive
  <1>2. CASE Spent \/ Recorded
    <2>1. sturn # Idle
      BY <1>2 DEF Spent, Recorded, Idle
    <2>2. \/ UNCHANGED <<inventoryVars, lost>>
          \/ CallInventory(sturn.prod)
      BY <1>2 DEF Spent, Recorded, W!Receive
    <2> QED
      BY <2>1, <2>2, TurnCounts, CallsTyped, InventorySteps DEF CallInventory
  <1>3. CASE Granted
    BY <1>3, InventorySteps DEF Granted
  <1>4. CASE Record \/ StatementFails \/ StatementAbandoned
    BY <1>4 DEF Record, StatementFails, StatementAbandoned
  <1>5. CASE StatementLost
    BY <1>5 DEF StatementLost, LostElsewhere
  <1>6. CASE CallTimesOut
    BY <1>6, InventorySteps DEF CallTimesOut, W!TimeOut
  <1>7. CASE Crash
    BY <1>7, InventorySteps DEF Crash
  <1>8. CASE ComponentFails
    BY <1>8, InventorySteps
       DEF ComponentFails, W!Fault, W!ActivateFails, W!Fail, W!LoseAck, LostElsewhere
  <1>9. CASE Components
    BY <1>9, InventorySteps
       DEF Components, W!Serve, W!Activate, W!Deactivate, W!Begin, W!Apply, W!Resume
  <1>10. CASE OtherCaller
    BY <1>10 DEF OtherCaller, W!Send, W!Receive, W!TimeOut
  <1>11. CASE UNCHANGED vars
    BY <1>11 DEF vars
  <1> QED
    BY <1>1, <1>2, <1>3, <1>4, <1>5, <1>6, <1>7, <1>8, <1>9, <1>10, <1>11
       DEF Next, ShopStep, Continue, Faults, StatementFault

(* So the grains keep their invariants, whatever the others lose. *)
CInv == LInv /\ WP!IInv /\ IP!IInv

LEMMA InitComponents == Init => CInv
  BY InitLimit, WalletSteps, InventorySteps, ComponentsAssumption, WP!InitInv, IP!InitInv
     DEF CInv, Init, W!WalletAssumption, I!InventoryAssumption

LEMMA StepKeepsComponents == CInv /\ [Next]_vars => CInv'
  <1> SUFFICES ASSUME CInv, [Next]_vars PROVE CInv'
    OBVIOUS
  <1> USE ComponentsAssumption DEF CInv, W!WalletAssumption, I!InventoryAssumption
  <1>1. LInv'
    BY StepKeepsLimit
  <1>2. WP!IInv'
    BY StepOfWallet, WP!StepKeepsInv, WP!LossElsewhereKeepsInv
       DEF walletVars, LostElsewhere, WP!wvars
  <1>3. IP!IInv'
    BY StepOfInventory, IP!StepKeepsInv, IP!LossElsewhereKeepsInv
       DEF inventoryVars, LostElsewhere, IP!ivars
  <1> QED
    BY <1>1, <1>2, <1>3

-----------------------------------------------------------------------------
(* The conversation with the wallet. *)
Cost == Price[sturn.prod] * sturn.count

\* The wallet runs a request that the shop still waits for.
WalletRuns == wturn # W!Idle /\ wturn.from = Shop /\ wturn.live

\* Of a request, a running turn and an answer of the shop there is one at
\* most, and it is the running purchase's; until something fails the wallet
\* runs nothing of the shop's that the shop does not wait for.
WalletCallOK ==
    /\ \A m \in wreqs : m.from = Shop =>
         /\ \/ sturn.pc = "isEnough" /\ m.op = "IsEnough"
            \/ sturn.pc = "spend" /\ m.op = "Spend" /\ m.amt = Cost
         /\ ~WalletRuns
         /\ \A r \in wreps : r.from # Shop
         /\ \A n \in wreqs : n.from = Shop => n = m
    /\ WalletRuns =>
         /\ sturn.pc = "spend" /\ wturn.op = "Spend" /\ wturn.amt = Cost
         /\ \A r \in wreps : r.from # Shop
    /\ \A r, q \in wreps : r.from = Shop /\ q.from = Shop => r = q
    /\ clean /\ wturn # W!Idle /\ wturn.from = Shop =>
         wturn.live /\ wturn.pc # "failed"

SpendAnswered == \E r \in wreps : r.from = Shop /\ r.res = "Success"

\* Paid and not yet recorded, and without a limit never to be.
Paid ==
    \/ sturn.pc = "record"
    \/ sturn.pc = "spend" /\ (SpendAnswered \/ (WalletRuns /\ wturn.pc = "ok"))
    \/ sturn.pc = "grant" /\ ~HasLimit(sturn.prod)

Owing == IF Paid THEN Cost ELSE 0

PaidOK ==
    /\ RecordedPrice + Owing <= wtaken[Shop]
    /\ clean /\ OnlyRecordedPurchases => wtaken[Shop] = RecordedPrice + Owing

CleanOK == clean \in BOOLEAN /\ (clean => lost = 0)

PInv == CInv /\ CleanOK /\ WalletCallOK /\ PaidOK

(* What the wallet's proofs say of its state, in the shop's words. *)
LEMMA WalletTyped ==
    ASSUME CInv
    PROVE  /\ W!TypeOK
           /\ wturn = W!Idle \/ (wturn \in W!Turn /\ wturn # W!Idle)
           /\ \A m \in wreqs : m \in W!Request
           /\ wtaken \in [{Shop} \cup Others -> Nat]
  <1>1. W!TypeOK <=> WP!TypeOK
    BY DEF W!TypeOK, WP!TypeOK, W!Turn, WP!Turn, W!Idle, WP!Idle, W!Request, WP!Request,
           W!Reply, WP!Reply, W!ResultCode, WP!ResultCode
  <1>2. W!TypeOK
    BY <1>1 DEF CInv, WP!IInv
  <1> QED
    BY <1>2 DEF W!TypeOK, W!Turn, W!Idle

LEMMA Prices ==
    ASSUME CInv
    PROVE  /\ RecordedPrice \in Nat /\ Owing \in Nat /\ wtaken[Shop] \in Nat
           /\ sturn # Idle => Cost \in Nat
  <1>1. \A p \in Products : Price[p] * Purchased(p) \in Nat
    <2> SUFFICES ASSUME NEW p \in Products PROVE Price[p] * Purchased(p) \in Nat
      OBVIOUS
    <2>1. Price[p] \in Nat /\ Purchased(p) \in Nat
      BY ShopAssumption, Columns DEF CInv
    <2> QED
      BY <2>1
  <1>2. RecordedPrice \in Nat
    <2>1. IsFiniteSet(Limited)
      BY ShopAssumption, FS_Subset DEF Limited
    <2>2. \A p \in Limited : [q \in Products |-> Price[q] * Purchased(q)][p] \in Nat
      BY <1>1 DEF Limited
    <2> QED
      BY <2>1, <2>2, SumOfNaturals DEF RecordedPrice
  <1>3. sturn # Idle => Cost \in Nat
    <2> SUFFICES ASSUME sturn # Idle PROVE Cost \in Nat
      OBVIOUS
    <2>1. Price[sturn.prod] \in Nat /\ sturn.count \in Nat
      BY ShopAssumption, TurnCounts DEF CInv
    <2> QED
      BY <2>1 DEF Cost
  <1>4. Owing \in Nat
    BY <1>3 DEF Owing, Paid, Idle
  <1>5. wtaken[Shop] \in Nat
    BY WalletTyped
  <1> QED
    BY <1>2, <1>3, <1>4, <1>5

(* Only the limit rows say what was recorded. *)
LEMMA RecordsUnchanged ==
    ASSUME prows' = prows
    PROVE  /\ RecordedPrice' = RecordedPrice
           /\ \A i : RecordedWorth(i)' = RecordedWorth(i)
  <1>1. \A p : Purchased(p)' = Purchased(p)
    BY DEF Purchased
  <1> QED
    BY <1>1 DEF RecordedPrice, RecordedWorth, Giving, Limited, HasLimit

(* The books balance when what is owed and what was taken move together. *)
LEMMA PaidMoves ==
    ASSUME CInv, PaidOK, RecordedPrice' = RecordedPrice,
           Owing' \in Nat, wtaken'[Shop] \in Nat,
           Owing' - Owing <= wtaken'[Shop] - wtaken[Shop],
           clean' /\ OnlyRecordedPurchases' =>
              /\ clean /\ OnlyRecordedPurchases
              /\ Owing' - Owing = wtaken'[Shop] - wtaken[Shop]
    PROVE  PaidOK'
  BY Prices DEF PaidOK

\* The wallet moves while the shop waits, or does nothing.
Aside == UNCHANGED <<prows, sturn, irows>> /\ (clean' => clean)

LEMMA AsideKeepsPaid ==
    ASSUME PInv, Aside, wtaken'[Shop] = wtaken[Shop], Paid' <=> Paid
    PROVE  PaidOK'
  <1>1. Owing' = Owing
    BY DEF Aside, Owing, Cost
  <1>2. RecordedPrice' = RecordedPrice
    BY RecordsUnchanged DEF Aside
  <1>3. clean' /\ OnlyRecordedPurchases' => clean /\ OnlyRecordedPurchases
    BY DEF Aside, PInv, CleanOK, OnlyRecordedPurchases, Held, Limited, HasLimit
  <1> QED
    BY <1>1, <1>2, <1>3, Prices, PaidMoves DEF PInv

\* Nothing new of the shop's: what there still is of the conversation was.
NothingNew ==
    /\ \A m \in wreqs' : m.from = Shop => m \in wreqs
    /\ \A r \in wreps' : r.from = Shop => r \in wreps
    /\ WalletRuns' => WalletRuns /\ wturn'.op = wturn.op /\ wturn'.amt = wturn.amt
    /\ clean' /\ wturn' # W!Idle /\ wturn'.from = Shop => wturn'.live /\ wturn'.pc # "failed"

LEMMA NothingNewKeepsCall ==
    ASSUME WalletCallOK, sturn' = sturn, NothingNew
    PROVE  WalletCallOK'
  <1>1. Cost' = Cost
    BY DEF Cost
  <1>2. \A m \in wreqs' : m.from = Shop =>
           /\ \/ sturn.pc = "isEnough" /\ m.op = "IsEnough"
              \/ sturn.pc = "spend" /\ m.op = "Spend" /\ m.amt = Cost
           /\ ~WalletRuns'
           /\ \A r \in wreps' : r.from # Shop
           /\ \A n \in wreqs' : n.from = Shop => n = m
    BY DEF WalletCallOK, NothingNew
  <1>3. WalletRuns' =>
           /\ sturn.pc = "spend" /\ wturn'.op = "Spend" /\ wturn'.amt = Cost
           /\ \A r \in wreps' : r.from # Shop
    BY DEF WalletCallOK, NothingNew
  <1>4. \A r, q \in wreps' : r.from = Shop /\ q.from = Shop => r = q
    BY DEF WalletCallOK, NothingNew
  <1> QED
    BY <1>1, <1>2, <1>3, <1>4 DEF WalletCallOK, NothingNew

LEMMA OthersKeepCall ==
    ASSUME PInv, Aside, NEW c \in Others,
           \/ \E m : m.from = c /\ W!Send(m)
           \/ W!Receive(c) \/ W!TimeOut(c)
    PROVE  WalletCallOK' /\ PaidOK'
  <1> USE DEF PInv, Aside, CleanOK
  <1>1. c # Shop
    BY ShopAssumption
  <1>2. CASE \E m : m.from = c /\ W!Send(m)
    <2>1. PICK m : m.from = c /\ W!Send(m)
      BY <1>2
    <2>2. /\ wreqs' = wreqs \cup {m} /\ wreps' = {r \in wreps : r.from # c}
          /\ wturn' = wturn /\ wtaken' = wtaken
      BY <2>1 DEF W!Send
    <2>3. WalletRuns' <=> WalletRuns
      BY <2>2 DEF WalletRuns
    <2>4. NothingNew
      BY <1>1, <2>1, <2>2, <2>3 DEF NothingNew, WalletCallOK
    <2>5. Paid' <=> Paid
      BY <1>1, <2>2, <2>3 DEF Paid, SpendAnswered, HasLimit
    <2> QED
      BY <2>2, <2>4, <2>5, NothingNewKeepsCall, AsideKeepsPaid
  <1>3. CASE W!Receive(c)
    <2>1. /\ wreqs' = wreqs /\ wreps' = {r \in wreps : r.from # c}
          /\ wturn' = wturn /\ wtaken' = wtaken
      BY <1>3 DEF W!Receive
    <2>2. WalletRuns' <=> WalletRuns
      BY <2>1 DEF WalletRuns
    <2>3. NothingNew
      BY <1>1, <2>1, <2>2 DEF NothingNew, WalletCallOK
    <2>4. Paid' <=> Paid
      BY <1>1, <2>1, <2>2 DEF Paid, SpendAnswered, HasLimit
    <2> QED
      BY <2>1, <2>3, <2>4, NothingNewKeepsCall, AsideKeepsPaid
  <1>4. CASE W!TimeOut(c)
    <2>1. /\ wreqs' = wreqs \/ wreqs' = {m \in wreqs : m.from # c}
          /\ wreps' = wreps /\ wtaken' = wtaken
          /\ \/ wturn' = wturn
             \/ /\ wturn # W!Idle /\ wturn.from = c
                /\ wturn' = [wturn EXCEPT !.live = FALSE]
      BY <1>4 DEF W!TimeOut
    <2>2. wturn' = wturn \/ (wturn # W!Idle /\ wturn.from # Shop /\ wturn'.from # Shop)
      BY <1>1, <2>1, WalletTyped DEF W!Turn
    <2>3. WalletRuns' => WalletRuns /\ wturn' = wturn
      BY <2>2 DEF WalletRuns
    <2>4. NothingNew
      BY <1>1, <2>1, <2>2, <2>3 DEF NothingNew, WalletCallOK
    <2>5. (WalletRuns' /\ wturn'.pc = "ok") <=> (WalletRuns /\ wturn.pc = "ok")
      BY <2>2 DEF WalletRuns
    <2>6. Paid' <=> Paid
      BY <2>1, <2>5 DEF Paid, SpendAnswered, HasLimit
    <2> QED
      BY <2>1, <2>4, <2>6, NothingNewKeepsCall, AsideKeepsPaid
  <1> QED
    BY <1>2, <1>3, <1>4

(* A request begins: it is answered at once, or its statement is submitted. *)
LEMMA WalletBeginKeepsCall ==
    ASSUME PInv, Aside, NEW m \in wreqs, W!Begin(m)
    PROVE  WalletCallOK' /\ PaidOK'
  <1> USE DEF PInv, WalletCallOK, Aside, CleanOK
  <1>1. /\ wturn = W!Idle /\ wreqs' = wreqs \ {m} /\ wtaken' = wtaken
        /\ m \in W!Request
    BY WalletTyped DEF W!Begin
  <1>2. ~WalletRuns
    BY <1>1 DEF WalletRuns
  <1>3. CASE W!AnswerAtOnce(m) /\ UNCHANGED wturn
    <2>1. PICK res \in {"Success", "NotEnoughCurrency"} :
             /\ wreps' = wreps \cup {[from |-> m.from, res |-> res]}
             /\ m.op = "Spend" => res = "NotEnoughCurrency"
      BY <1>3 DEF W!AnswerAtOnce, W!Answer
    <2>2. ~WalletRuns'
      BY <1>1, <1>3 DEF WalletRuns
    <2>3. WalletCallOK'
      BY <1>1, <1>3, <2>1, <2>2 DEF Cost
    <2>4. Paid' <=> Paid
      BY <1>1, <1>2, <2>1, <2>2 DEF Paid, SpendAnswered, HasLimit
    <2> QED
      BY <1>1, <2>3, <2>4, AsideKeepsPaid
  <1>4. CASE W!Submit(m) /\ UNCHANGED wreps
    <2>1. PICK amt : /\ wturn' = W!Awaiting(m, amt)
                     /\ m.op = "Spend" => amt = m.amt
      BY <1>4 DEF W!Submit
    <2>2. /\ wturn'.pc = "await" /\ wturn'.from = m.from /\ wturn'.live = TRUE
          /\ wturn'.op = m.op /\ wturn'.amt = amt /\ wturn' # W!Idle
      BY <2>1 DEF W!Awaiting, W!Idle
    <2>3. m.op # "IsEnough"
      BY <1>4 DEF W!Submit
    <2>4. WalletRuns' => m.from = Shop
      BY <2>2 DEF WalletRuns
    <2>5. WalletCallOK'
      BY <1>1, <1>4, <2>1, <2>2, <2>3, <2>4 DEF Cost
    <2>6. Paid' <=> Paid
      BY <1>2, <1>4, <2>2 DEF Paid, SpendAnswered, HasLimit
    <2> QED
      BY <1>1, <2>5, <2>6, AsideKeepsPaid
  <1> QED
    BY <1>3, <1>4 DEF W!Begin

(* The statement is applied: from here what the shop asked for is taken. *)
LEMMA WalletStatementKeepsCall ==
    ASSUME PInv, Aside, wturn.pc = "await", wtaken' = W!Taken,
           UNCHANGED <<wreqs, wreps>>,
           \/ wturn' = [wturn EXCEPT !.pc = IF wturn.cur \in DOMAIN wrows
                                            THEN "ok" ELSE "norow"]
           \/ wturn' = [wturn EXCEPT !.pc = "failed"] /\ clean' = FALSE
    PROVE  WalletCallOK' /\ PaidOK'
  <1> USE DEF PInv, WalletCallOK, Aside, CleanOK
  <1>1. wturn \in W!Turn /\ wturn # W!Idle /\ wturn.amt \in Nat
    <2>1. wturn \in W!Turn /\ wturn # W!Idle
      BY WalletTyped DEF W!Idle
    <2> QED
      BY <2>1, ComponentsAssumption DEF W!Turn, W!WalletAssumption
  <1>2. /\ wturn' # W!Idle /\ wturn'.from = wturn.from /\ wturn'.live = wturn.live
        /\ wturn'.op = wturn.op /\ wturn'.amt = wturn.amt
        /\ wturn'.pc \in {"ok", "norow", "failed"}
        /\ wturn'.pc = "ok" => wturn.cur \in DOMAIN wrows
        /\ wturn'.pc = "failed" => ~clean'
        /\ clean' => (wturn'.pc = "ok" <=> wturn.cur \in DOMAIN wrows)
    BY <1>1 DEF W!Turn, W!Idle
  <1>3. WalletRuns' <=> WalletRuns
    BY <1>1, <1>2 DEF WalletRuns
  <1>4. WalletCallOK'
    <2>1. NothingNew
      BY <1>1, <1>2, <1>3 DEF NothingNew
    <2> QED
      BY <2>1, NothingNewKeepsCall
  <1>5. /\ wtaken'[Shop] \in Nat
        /\ wtaken'[Shop] = IF /\ wturn.from = Shop /\ wturn.op = "Spend"
                              /\ wturn.cur \in DOMAIN wrows
                           THEN wtaken[Shop] + wturn.amt ELSE wtaken[Shop]
    <2> USE <1>1, WalletTyped DEF W!Taken
    <2>1. CASE wturn.op = "Spend" /\ wturn.cur \in DOMAIN wrows
      <3>1. wtaken' = [wtaken EXCEPT ![wturn.from] = @ + wturn.amt]
        BY <2>1
      <3>2. wtaken'[Shop] = IF wturn.from = Shop THEN wtaken[Shop] + wturn.amt ELSE wtaken[Shop]
        BY <3>1
      <3> QED
        BY <2>1, <3>2
    <2>2. CASE ~(wturn.op = "Spend" /\ wturn.cur \in DOMAIN wrows)
      BY <2>2
    <2> QED
      BY <2>1, <2>2
  <1>6. CASE WalletRuns
    <2>1. /\ sturn.pc = "spend" /\ wturn.op = "Spend" /\ wturn.amt = Cost
          /\ wturn.from = Shop /\ ~SpendAnswered /\ ~SpendAnswered'
      BY <1>6 DEF WalletRuns, SpendAnswered
    <2>2. ~Paid /\ (Paid' <=> wturn'.pc = "ok") /\ sturn # Idle
      BY <1>3, <1>6, <2>1 DEF Paid, Idle
    <2>3. Owing = 0 /\ Owing' = IF wturn'.pc = "ok" THEN Cost ELSE 0
      BY <2>2 DEF Owing, Cost
    <2>4. RecordedPrice' = RecordedPrice
      BY RecordsUnchanged
    <2>5. clean' /\ OnlyRecordedPurchases' => clean /\ OnlyRecordedPurchases
      BY DEF OnlyRecordedPurchases, Held, Limited, HasLimit
    <2>6. Cost \in Nat /\ wtaken[Shop] \in Nat
      BY <2>2, Prices
    <2>7. Owing' \in Nat /\ Owing' - Owing <= wtaken'[Shop] - wtaken[Shop]
      BY <1>2, <1>5, <2>1, <2>3, <2>6
    <2>8. clean' => Owing' - Owing = wtaken'[Shop] - wtaken[Shop]
      BY <1>2, <1>5, <2>1, <2>3, <2>6
    <2>9. PaidOK'
      BY <1>5, <2>4, <2>5, <2>7, <2>8, PaidMoves
    <2> QED
      BY <1>4, <2>9
  <1>7. CASE ~WalletRuns
    <2>1. Paid' <=> Paid
      BY <1>3, <1>7 DEF Paid, SpendAnswered, HasLimit
    <2>2. Owing' = Owing
      BY <2>1 DEF Owing, Cost
    <2>3. RecordedPrice' = RecordedPrice
      BY RecordsUnchanged
    <2>4. clean' /\ OnlyRecordedPurchases' => clean /\ OnlyRecordedPurchases
      BY DEF OnlyRecordedPurchases, Held, Limited, HasLimit
    <2>5. clean => wturn.from # Shop
      BY <1>1, <1>7 DEF WalletRuns
    <2>6. PaidOK'
      BY <1>1, <1>5, <2>2, <2>3, <2>4, <2>5, Prices, PaidMoves
    <2> QED
      BY <1>4, <2>6
  <1> QED
    BY <1>6, <1>7

(* The turn ends, and answers its caller if it still waits. *)
LEMMA WalletResumeKeepsCall ==
    ASSUME PInv, Aside, W!Resume
    PROVE  WalletCallOK' /\ PaidOK'
  <1> USE DEF PInv, WalletCallOK, Aside, CleanOK
  <1>1. wturn \in W!Turn /\ wturn # W!Idle
    BY WalletTyped DEF W!Resume, W!Idle
  <1>2. /\ wturn' = W!Idle /\ wreqs' = wreqs /\ wtaken' = wtaken
        /\ wreps' = IF ~wturn.live THEN wreps
                    ELSE wreps \cup {[from |-> wturn.from, res |->
                            IF wturn.pc = "ok" THEN "Success"
                            ELSE IF wturn.pc = "failed" THEN "Exception"
                            ELSE "DbUpdateError"]}
    BY DEF W!Resume, W!Answer, W!Succeeded
  <1>3. ~WalletRuns'
    BY <1>2 DEF WalletRuns
  <1> DEFINE res == IF wturn.pc = "ok" THEN "Success"
                    ELSE IF wturn.pc = "failed" THEN "Exception" ELSE "DbUpdateError"
  <1>4. /\ wreps' = IF ~wturn.live THEN wreps
                    ELSE wreps \cup {[from |-> wturn.from, res |-> res]}
        /\ res = "Success" <=> wturn.pc = "ok"
    BY <1>2
  <1> HIDE DEF res
  <1>5. WalletCallOK'
    <2>1. \A m \in wreqs : m.from = Shop => \A r \in wreps' : r.from # Shop
      BY <1>1, <1>4 DEF WalletRuns
    <2>2. \A r, q \in wreps' : r.from = Shop /\ q.from = Shop => r = q
      BY <1>1, <1>4 DEF WalletRuns
    <2> QED
      BY <1>2, <1>3, <2>1, <2>2 DEF Cost
  <1>6. Paid' <=> Paid
    <2>1. CASE wturn.live
      <3>1. wreps' = wreps \cup {[from |-> wturn.from, res |-> res]}
        BY <1>4, <2>1
      <3>2. SpendAnswered' <=> SpendAnswered \/ (wturn.from = Shop /\ res = "Success")
        <4> DEFINE new == [from |-> wturn.from, res |-> res]
        <4>1. new.from = wturn.from /\ new.res = res /\ wreps' = wreps \cup {new}
          BY <3>1
        <4> HIDE DEF new
        <4> QED
          BY <4>1 DEF SpendAnswered
      <3>3. WalletRuns <=> wturn.from = Shop
        BY <1>1, <2>1 DEF WalletRuns
      <3> QED
        BY <1>3, <1>4, <3>2, <3>3 DEF Paid, HasLimit
    <2>2. CASE ~wturn.live
      BY <1>3, <1>4, <2>2 DEF Paid, HasLimit, SpendAnswered, WalletRuns
    <2> QED
      BY <2>1, <2>2
  <1> QED
    BY <1>2, <1>5, <1>6, AsideKeepsPaid

LEMMA WalletAloneKeepsCall ==
    ASSUME PInv, Aside, W!Serve \/ (W!Fault /\ clean' = FALSE)
    PROVE  WalletCallOK' /\ PaidOK'
  <1> USE DEF PInv, WalletCallOK, Aside, CleanOK
  <1>1. CASE W!Activate \/ W!Deactivate
    <2>1. UNCHANGED <<wreqs, wreps, wturn, wtaken>>
      BY <1>1 DEF W!Activate, W!Deactivate
    <2>2. WalletRuns' <=> WalletRuns
      BY <2>1 DEF WalletRuns
    <2>3. NothingNew /\ (Paid' <=> Paid)
      BY <2>1, <2>2 DEF NothingNew, Paid, SpendAnswered, HasLimit
    <2> QED
      BY <2>1, <2>3, NothingNewKeepsCall, AsideKeepsPaid
  <1>2. CASE \E m \in wreqs : W!Begin(m)
    BY <1>2, WalletBeginKeepsCall
  <1>3. CASE W!Apply \/ (W!LoseAck /\ clean' = FALSE)
    BY <1>3, WalletStatementKeepsCall DEF W!Apply, W!LoseAck
  <1>4. CASE W!Resume
    BY <1>4, WalletResumeKeepsCall
  <1>5. CASE W!ActivateFails /\ clean' = FALSE
    <2>1. /\ wreqs' = {} /\ wturn' = wturn /\ wtaken' = wtaken
          /\ wreps' = wreps \cup [from : {m.from : m \in wreqs}, res : {"Exception"}]
      BY <1>5 DEF W!ActivateFails
    <2>2. \A r \in wreps' : r \in wreps \/ (r.res = "Exception" /\ \E m \in wreqs : r.from = m.from)
      BY <2>1
    <2>3. \A r, q \in wreps' : r.from = Shop /\ q.from = Shop => r = q
      BY <2>1
    <2>4. WalletRuns' <=> WalletRuns
      BY <2>1 DEF WalletRuns
    <2>5. WalletCallOK'
      BY <1>5, <2>1, <2>2, <2>3, <2>4 DEF Cost
    <2>6. Paid' <=> Paid
      BY <2>1, <2>2, <2>4 DEF Paid, SpendAnswered, HasLimit
    <2> QED
      BY <2>1, <2>5, <2>6, AsideKeepsPaid
  <1>6. CASE W!Fail /\ clean' = FALSE
    <2>1. wturn \in W!Turn /\ wturn # W!Idle
      BY <1>6, WalletTyped DEF W!Fail, W!Idle
    <2>2. /\ wturn' # W!Idle /\ wturn'.from = wturn.from /\ wturn'.live = wturn.live
          /\ wturn'.op = wturn.op /\ wturn'.amt = wturn.amt /\ wturn'.pc = "failed"
          /\ UNCHANGED <<wreqs, wreps, wtaken>> /\ wturn.pc = "await"
      BY <1>6, <2>1 DEF W!Fail, W!Turn, W!Idle
    <2>3. WalletRuns' <=> WalletRuns
      BY <2>1, <2>2 DEF WalletRuns
    <2>4. WalletCallOK' /\ (Paid' <=> Paid)
      BY <1>6, <2>2, <2>3 DEF Cost, Paid, SpendAnswered, HasLimit
    <2> QED
      BY <2>2, <2>4, AsideKeepsPaid
  <1> QED
    BY <1>1, <1>2, <1>3, <1>4, <1>5, <1>6 DEF W!Serve, W!Fault

(* A purchase recorded: the totals grow by its price and by its worth. *)
LEMMA RecordingAddsUp ==
    ASSUME CInv, sturn.pc = "record", ~Conflict, prows' = Recording
    PROVE  /\ RecordedPrice' = RecordedPrice + Cost
           /\ \A i \in Items :
                 RecordedWorth(i)' = RecordedWorth(i) +
                    IF RewardItemId[sturn.prod] = i
                    THEN RewardItemCount[sturn.prod] * sturn.count ELSE 0
  <1>1. PICK q \in Products, n \in Nat :
           /\ q = sturn.prod /\ n = sturn.count /\ q \in Limited
           /\ \A p \in Products : /\ Purchased(p) \in Nat
                                  /\ Purchased(p)' = IF p = q THEN Purchased(p) + n
                                                              ELSE Purchased(p)
    <2>1. sturn # Idle
      BY DEF Idle
    <2> QED
      BY <2>1, TurnCounts, RecordingAdds, Columns DEF CInv, LInv, Fresh, Limited
  <1>2. ASSUME NEW k \in [Products -> Nat], NEW S \in SUBSET Products
        PROVE  SumFunctionOnSet([p \in Products |-> k[p] * Purchased(p)], S)' =
               SumFunctionOnSet([p \in Products |-> k[p] * Purchased(p)], S) +
                  IF q \in S THEN k[q] * n ELSE 0
    <2> DEFINE f == [p \in Products |-> k[p] * Purchased(p)]
               e == [p \in Products |-> k[p] * Purchased(p)']
    <2>0. \A x, y \in Nat : x * y \in Int
      OBVIOUS
    <2>1. \A p \in Products : f[p] \in Int /\ e[p] \in Int
      <3> SUFFICES ASSUME NEW p \in Products PROVE f[p] \in Int /\ e[p] \in Int
        OBVIOUS
      <3>1. k[p] \in Nat /\ Purchased(p) \in Nat /\ Purchased(p)' \in Nat
        BY <1>1
      <3> QED
        BY <2>0, <3>1
    <2>2. \A p \in Products \ {q} : e[p] = f[p]
      BY <1>1
    <2>3. e[q] = f[q] + k[q] * n
      <3>1. \A x, y, z \in Nat : x * (y + z) = x * y + x * z
        OBVIOUS
      <3>2. k[q] \in Nat /\ Purchased(q) \in Nat /\ Purchased(q)' = Purchased(q) + n /\ n \in Nat
        BY <1>1
      <3>3. k[q] * (Purchased(q) + n) = k[q] * Purchased(q) + k[q] * n
        BY <3>1, <3>2
      <3>4. f[q] = k[q] * Purchased(q) /\ e[q] = k[q] * Purchased(q)'
        BY <1>1
      <3> HIDE DEF f, e
      <3> QED
        BY <3>2, <3>3, <3>4
    <2>4. k[q] * n \in Int
      BY <1>1, <2>0
    <2>5. IsFiniteSet(S)
      BY ShopAssumption, FS_Subset
    <2> HIDE DEF f, e
    <2>6. SumFunctionOnSet(e, S) = SumFunctionOnSet(f, S) + IF q \in S THEN k[q] * n ELSE 0
      <3>1. Summable(f, S) /\ SumFunctionOnSet(f, S) \in Int
        BY <2>1, <2>5, SumType DEF Summable
      <3>2. CASE q \in S
        <4>1. SumFunctionOnSet(e, S) = SumFunctionOnSet(f, S) + (e[q] - f[q])
          BY <2>1, <2>2, <3>1, <3>2, SumWithChange
        <4>2. e[q] - f[q] = k[q] * n
          BY <1>1, <2>1, <2>3, <2>4
        <4> QED
          BY <3>2, <4>1, <4>2
      <3>3. CASE q \notin S
        <4>1. SumFunctionOnSet(e, S) = SumFunctionOnSet(f, S)
          BY <2>2, <2>5, <3>3, SumAgrees
        <4> QED
          BY <3>1, <3>3, <4>1
      <3> QED
        BY <3>2, <3>3
    <2> QED
      BY <2>6 DEF f, e
  <1>3. RecordedPrice' = RecordedPrice + Cost
    <2>1. Price \in [Products -> Nat] /\ Limited \in SUBSET Products
      BY ShopAssumption DEF Limited
    <2>2. Limited' = Limited
      BY DEF Limited, HasLimit
    <2> QED
      BY <1>1, <1>2, <2>1, <2>2 DEF RecordedPrice, Cost
  <1>4. ASSUME NEW i \in Items
        PROVE  RecordedWorth(i)' = RecordedWorth(i) +
                  IF RewardItemId[q] = i THEN RewardItemCount[q] * n ELSE 0
    <2>1. RewardItemCount \in [Products -> Nat] /\ Giving(i) \in SUBSET Products
      BY ShopAssumption, ComponentsAssumption DEF Giving, I!InventoryAssumption
    <2>2. Giving(i)' = Giving(i) /\ (q \in Giving(i) <=> RewardItemId[q] = i)
      BY <1>1 DEF Giving
    <2> QED
      BY <1>2, <2>1, <2>2 DEF RecordedWorth
  <1> QED
    BY <1>1, <1>3, <1>4

(* The shop's side of the conversation. *)
LEMMA QuietKeepsCall ==
    ASSUME WalletCallOK, ~WalletRuns',
           \A m \in wreqs' : m.from # Shop,
           \A r \in wreps' : r.from = Shop => r \in wreps,
           clean' => wturn' = W!Idle \/ wturn'.from # Shop
    PROVE  WalletCallOK'
  <1>1. \A r, q \in wreps' : r.from = Shop /\ q.from = Shop => r = q
    BY DEF WalletCallOK
  <1> QED
    BY <1>1 DEF WalletCallOK

NoCall ==
    /\ ~WalletRuns
    /\ \A m \in wreqs : m.from # Shop
    /\ clean => wturn = W!Idle \/ wturn.from # Shop

\* Where the shop does not wait for the wallet, or just got its answer.
LEMMA NoCallThen ==
    ASSUME WalletCallOK, sturn.pc \notin {"isEnough", "spend"} \/ \E r \in wreps : r.from = Shop
    PROVE  NoCall
  BY DEF WalletCallOK, NoCall, WalletRuns

LEMMA AskKeepsCall ==
    ASSUME NoCall, clean' => clean,
           NEW m, W!Send(m), m.from = Shop,
           \/ sturn'.pc = "isEnough" /\ m.op = "IsEnough"
           \/ sturn'.pc = "spend" /\ m.op = "Spend" /\ m.amt = Cost'
    PROVE  /\ WalletCallOK' /\ ~WalletRuns' /\ ~SpendAnswered'
           /\ wtaken' = wtaken
  <1>1. /\ wreqs' = wreqs \cup {m} /\ wreps' = {r \in wreps : r.from # Shop}
        /\ wturn' = wturn /\ wtaken' = wtaken
    BY DEF W!Send
  <1>2. ~WalletRuns'
    BY <1>1 DEF WalletRuns, NoCall
  <1>3. \A n \in wreqs' : n.from = Shop => n = m
    BY <1>1 DEF NoCall
  <1>4. \A r \in wreps' : r.from # Shop
    BY <1>1
  <1>5. ~SpendAnswered'
    BY <1>4 DEF SpendAnswered
  <1> QED
    BY <1>1, <1>2, <1>3, <1>4, <1>5 DEF WalletCallOK, NoCall

(* Steps of the shop that leave the limit rows and the inventory's alone. *)
ShopMoves == UNCHANGED <<prows, irows>> /\ (clean' => clean)

LEMMA ShopKeepsPaid ==
    ASSUME PInv, ShopMoves, wtaken'[Shop] = wtaken[Shop],
           \/ Owing' = Owing
           \/ Owing' = 0 /\ ~(clean' /\ OnlyRecordedPurchases)
    PROVE  PaidOK'
  <1>1. RecordedPrice' = RecordedPrice
    BY RecordsUnchanged DEF ShopMoves
  <1>2. OnlyRecordedPurchases' <=> OnlyRecordedPurchases
    BY DEF ShopMoves, OnlyRecordedPurchases, Held, Limited, HasLimit
  <1>3. Owing' \in Nat /\ Owing' <= Owing /\ wtaken'[Shop] \in Nat
    BY Prices DEF PInv
  <1> QED
    BY <1>1, <1>2, <1>3, Prices, PaidMoves DEF PInv, ShopMoves

LEMMA BeginKeepsCall ==
    ASSUME PInv, NEW m \in Purchase, Begin(m)
    PROVE  WalletCallOK' /\ PaidOK'
  <1> USE DEF PInv
  <1>1. sturn = Idle /\ ShopMoves /\ Owing = 0 /\ NoCall
    BY NoCallThen DEF Begin, inventoryVars, Idle, Owing, Paid, ShopMoves
  <1>2. CASE UNCHANGED <<walletVars, lost, sturn>>
    <2>1. Owing' = Owing
      BY <1>1, <1>2 DEF Owing, Paid, Idle
    <2>2. WalletCallOK'
      BY <1>1, <1>2, QuietKeepsCall DEF walletVars, NoCall, WalletRuns, ShopMoves
    <2> QED
      BY <1>1, <1>2, <2>1, <2>2, ShopKeepsPaid DEF walletVars
  <1>3. CASE sturn' = At("readLimit", m.prod, m.count) /\ UNCHANGED <<walletVars, lost>>
    <2>1. Owing' = 0
      BY <1>3 DEF Owing, Paid, At
    <2>2. WalletCallOK'
      BY <1>1, <1>3, QuietKeepsCall DEF walletVars, NoCall, WalletRuns, ShopMoves
    <2> QED
      BY <1>1, <1>3, <2>1, <2>2, ShopKeepsPaid DEF walletVars
  <1>4. CASE /\ sturn' = At("isEnough", m.prod, m.count)
             /\ CallWallet("IsEnough", m.prod, m.count)
    <2>1. Owing' = 0 /\ sturn'.pc = "isEnough"
      BY <1>4 DEF Owing, Paid, At
    <2>2. WalletCallOK' /\ wtaken' = wtaken
      BY <1>1, <1>4, <2>1, AskKeepsCall DEF CallWallet, ShopMoves
    <2> QED
      BY <1>1, <2>1, <2>2, ShopKeepsPaid
  <1> QED
    BY <1>2, <1>3, <1>4 DEF Begin

LEMMA ReadLimitKeepsCall ==
    ASSUME PInv, ReadLimit
    PROVE  WalletCallOK' /\ PaidOK'
  <1> USE DEF PInv
  <1>1. sturn.pc = "readLimit" /\ ShopMoves /\ Owing = 0 /\ NoCall
    BY NoCallThen DEF ReadLimit, inventoryVars, Owing, Paid, ShopMoves
  <1>2. CASE EndTurn /\ UNCHANGED <<walletVars, lost>>
    <2>1. Owing' = 0
      BY <1>2 DEF EndTurn, Owing, Paid, Idle
    <2>2. WalletCallOK'
      BY <1>1, <1>2, QuietKeepsCall DEF walletVars, NoCall, WalletRuns, ShopMoves
    <2> QED
      BY <1>1, <1>2, <2>1, <2>2, ShopKeepsPaid DEF walletVars
  <1>3. CASE sturn'.pc = "isEnough" /\ CallWallet("IsEnough", sturn.prod, sturn.count)
    <2>1. Owing' = 0
      BY <1>3 DEF Owing, Paid
    <2>2. WalletCallOK' /\ wtaken' = wtaken
      BY <1>1, <1>3, AskKeepsCall DEF CallWallet, ShopMoves
    <2> QED
      BY <1>1, <2>1, <2>2, ShopKeepsPaid
  <1>4. sturn \in Turn
    BY <1>1 DEF CInv, LInv, LimitTyped, Idle
  <1>5. [sturn EXCEPT !.pc = "isEnough", !.had = sturn.prod \in DOMAIN prows].pc = "isEnough"
    BY <1>4 DEF Turn
  <1> QED
    BY <1>2, <1>3, <1>5 DEF ReadLimit

LEMMA EnoughKeepsCall ==
    ASSUME PInv, Enough
    PROVE  WalletCallOK' /\ PaidOK'
  <1> USE DEF PInv
  <1>1. /\ sturn.pc = "isEnough" /\ ShopMoves /\ Owing = 0 /\ NoCall
        /\ sturn \in Turn
    BY NoCallThen DEF Enough, inventoryVars, Owing, Paid, ShopMoves, CInv, LInv, LimitTyped, Idle
  <1>2. CASE /\ CallWallet("Spend", sturn.prod, sturn.count)
             /\ sturn' = [sturn EXCEPT !.pc = "spend"]
    <2>1. sturn'.pc = "spend" /\ Cost' = Price[sturn.prod] * sturn.count
      BY <1>1, <1>2 DEF Turn, Cost
    <2>2. WalletCallOK' /\ ~WalletRuns' /\ ~SpendAnswered' /\ wtaken' = wtaken
      BY <1>1, <1>2, <2>1, AskKeepsCall DEF CallWallet, ShopMoves
    <2>3. Owing' = 0
      BY <2>1, <2>2 DEF Owing, Paid
    <2> QED
      BY <1>1, <2>2, <2>3, ShopKeepsPaid
  <1>3. CASE W!Receive(Shop) /\ EndTurn
    <2>1. Owing' = 0
      BY <1>3 DEF EndTurn, Owing, Paid, Idle
    <2>2. WalletCallOK' /\ wtaken' = wtaken
      BY <1>1, <1>3, QuietKeepsCall DEF W!Receive, NoCall, WalletRuns, ShopMoves
    <2> QED
      BY <1>1, <2>1, <2>2, ShopKeepsPaid
  <1> QED
    BY <1>2, <1>3 DEF Enough

(* The answer to the Spend tells whether the price was taken. *)
LEMMA SpentKeepsCall ==
    ASSUME PInv, Spent
    PROVE  WalletCallOK' /\ PaidOK'
  <1> USE DEF PInv
  <1>1. PICK r \in wreps :
           /\ r.from = Shop /\ W!Receive(Shop)
           /\ \/ /\ Succeeded(r)
                 /\ \E pc \in {"record", "grant"} :
                       /\ sturn' = [sturn EXCEPT !.pc = pc]
                       /\ pc = "grant" => ~HasLimit(sturn.prod)
              \/ ~Succeeded(r) /\ EndTurn
    BY DEF Spent
  <1>2. /\ sturn.pc = "spend" /\ NoCall /\ sturn \in Turn
        /\ prows' = prows /\ irows' = irows /\ clean' = clean
    BY <1>1, NoCallThen
       DEF Spent, CallInventory, I!Send, inventoryVars, CInv, LInv, LimitTyped, Idle
  <1>3. ShopMoves
    BY <1>2 DEF ShopMoves
  <1>4. WalletCallOK' /\ wtaken' = wtaken
    BY <1>1, <1>2, QuietKeepsCall DEF W!Receive, NoCall, WalletRuns
  <1>5. SpendAnswered <=> Succeeded(r)
    BY <1>1 DEF SpendAnswered, Succeeded, WalletCallOK
  <1>6. Paid <=> Succeeded(r)
    BY <1>2, <1>5 DEF Paid, NoCall
  <1>7. CASE Succeeded(r)
    <2>1. PICK pc \in {"record", "grant"} :
             /\ sturn' = [sturn EXCEPT !.pc = pc]
             /\ pc = "grant" => ~HasLimit(sturn.prod)
      BY <1>1, <1>7
    <2>2. sturn'.pc = pc /\ sturn'.prod = sturn.prod /\ sturn'.count = sturn.count
      BY <1>2, <2>1 DEF Turn
    <2>3. Paid' /\ Cost' = Cost
      BY <2>1, <2>2 DEF Paid, Cost, HasLimit
    <2>4. Owing' = Owing
      BY <1>6, <1>7, <2>3 DEF Owing
    <2> QED
      BY <1>3, <1>4, <2>4, ShopKeepsPaid
  <1>8. CASE ~Succeeded(r)
    <2>1. Owing = 0 /\ Owing' = 0
      BY <1>1, <1>6, <1>8 DEF Owing, Paid, EndTurn, Idle
    <2> QED
      BY <1>3, <1>4, <2>1, ShopKeepsPaid
  <1> QED
    BY <1>7, <1>8

(* The record of what was paid: from here it is no longer owed. *)
LEMMA RecordingKeepsCall ==
    ASSUME PInv, sturn.pc = "record", ~Conflict, prows' = Recording,
           sturn' = Idle \/ sturn' = [sturn EXCEPT !.pc = "recorded"],
           UNCHANGED <<wturn, wreqs, wreps, irows>>, wtaken'[Shop] = wtaken[Shop],
           clean' => clean
    PROVE  WalletCallOK' /\ PaidOK'
  <1> USE DEF PInv
  <1>1. Owing = Cost /\ sturn # Idle /\ NoCall /\ sturn \in Turn
    BY NoCallThen DEF Owing, Paid, Idle, CInv, LInv, LimitTyped
  <1>2. sturn'.pc \in {"idle", "recorded"}
    BY <1>1 DEF Idle, Turn
  <1>3. Owing' = 0
    BY <1>2 DEF Owing, Paid
  <1>4. RecordedPrice' = RecordedPrice + Cost
    BY RecordingAddsUp
  <1>5. OnlyRecordedPurchases' <=> OnlyRecordedPurchases
    BY DEF OnlyRecordedPurchases, Held, Limited, HasLimit
  <1>6. PaidOK'
    BY <1>1, <1>3, <1>4, <1>5, Prices DEF PaidOK
  <1>7. WalletCallOK'
    BY <1>1, QuietKeepsCall DEF NoCall, WalletRuns
  <1> QED
    BY <1>6, <1>7

(* A failure may leave what was paid without its record, never the reverse. *)
LEMMA FailureKeepsCall ==
    ASSUME PInv, clean' = FALSE, UNCHANGED <<prows, irows>>,
           sturn' = Idle \/ sturn'.pc = "abandoned",
           \/ UNCHANGED walletVars /\ sturn.pc \notin {"isEnough", "spend"}
           \/ W!TimeOut(Shop)
    PROVE  WalletCallOK' /\ PaidOK'
  <1> USE DEF PInv
  <1>1. Owing' = 0 /\ ShopMoves
    BY DEF Owing, Paid, Idle, ShopMoves
  <1>2. /\ ~WalletRuns' /\ \A m \in wreqs' : m.from # Shop
        /\ wreps' = wreps /\ wtaken' = wtaken
    <2>1. CASE UNCHANGED walletVars /\ sturn.pc \notin {"isEnough", "spend"}
      BY <2>1, NoCallThen DEF walletVars, NoCall, WalletRuns
    <2>2. CASE W!TimeOut(Shop)
      <3>1. CASE /\ \E m \in wreqs : m.from = Shop
                 /\ wreqs' = {m \in wreqs : m.from # Shop}
                 /\ UNCHANGED <<wturn, wreps, wtaken>>
        BY <3>1 DEF WalletCallOK, WalletRuns
      <3>2. CASE /\ wturn # W!Idle /\ wturn.from = Shop /\ wturn.live
                 /\ wturn' = [wturn EXCEPT !.live = FALSE]
                 /\ UNCHANGED <<wreqs, wreps, wtaken>>
        <4>1. wturn \in W!Turn
          BY <3>2, WalletTyped
        <4>2. wturn'.live = FALSE
          BY <3>2, <4>1 DEF W!Turn
        <4> QED
          BY <3>2, <4>2 DEF WalletCallOK, WalletRuns
      <3> QED
        BY <2>2, <3>1, <3>2 DEF W!TimeOut
    <2> QED
      BY <2>1, <2>2
  <1>3. WalletCallOK'
    BY <1>2, QuietKeepsCall
  <1> QED
    BY <1>1, <1>2, <1>3, ShopKeepsPaid

-----------------------------------------------------------------------------
(* The conversation with the inventory. *)
InventoryRuns == iturn # I!Idle /\ iturn.live

\* Of the shop's request, turn and answer there is one at most, it adds what
\* the running purchase gives, and until something fails an answer means that
\* the item is there.
InventoryCallOK ==
    /\ \A m \in ireqs :
         /\ sturn.pc = "grant" /\ m.op = "Add"
         /\ m.item = RewardItemId[sturn.prod] /\ m.count = RewardItemCount[sturn.prod]
         /\ ~InventoryRuns /\ ireps = {} /\ ireqs = {m}
    /\ iturn # I!Idle => iturn.stmt # "spend" /\ iturn.count > 0
    /\ iturn # I!Idle /\ iturn.stmt = "add" => iturn.item \in DOMAIN irows
    /\ InventoryRuns =>
         sturn.pc = "grant" /\ iturn.item = RewardItemId[sturn.prod] /\ ireps = {}

AnswerMeansHeld ==
    clean =>
        /\ iturn # I!Idle => iturn.live /\ iturn.pc \in {"await", "ok"}
        /\ iturn.pc = "ok" => Held(iturn.item) > 0
        /\ sturn.pc = "grant" /\ ireps # {} /\ RewardItemCount[sturn.prod] > 0 =>
             Held(RewardItemId[sturn.prod]) > 0

\* What a statement may still add of item i, and what the shop is to ask for.
Running(i) == IF iturn.pc = "await" /\ iturn.item = i THEN iturn.count ELSE 0

Owed(i) == IF sturn.pc = "recorded" /\ RewardItemId[sturn.prod] = i
           THEN RewardItemCount[sturn.prod] ELSE 0

Backed(i, n) == Held(i) + Running(i) + n + Owed(i) <= RecordedWorth(i)

GrantsOK ==
    \A i \in Items : Giving(i) \subseteq Limited =>
        /\ Backed(i, 0)
        /\ \A m \in ireqs : m.item = i => Backed(i, m.count)

SInv == PInv /\ InventoryCallOK /\ AnswerMeansHeld /\ GrantsOK

(* What the inventory's proofs say of its state, in the shop's words. *)
LEMMA InventoryTyped ==
    ASSUME CInv
    PROVE  /\ I!TypeOK
           /\ iturn = I!Idle \/ (iturn \in I!Turn /\ iturn # I!Idle)
           /\ \A m \in ireqs : m \in I!Request /\ m.from = Shop /\ m.count \in Nat
           /\ \A r \in ireps : r.from = Shop
           /\ iturn # I!Idle => iturn.count \in Nat /\ iturn.from = Shop /\ iturn.item \in Items
           /\ \A i : Held(i) \in Int /\ Held(i) = I!CountIn(irows, i)
  <1>1. I!TypeOK <=> IP!TypeOK
    BY DEF I!TypeOK, IP!TypeOK, I!Turn, IP!Turn, I!Idle, IP!Idle, I!Request, IP!Request,
           I!Reply, IP!Reply, I!ResultCode, IP!ResultCode
  <1>2. I!TypeOK
    BY <1>1 DEF CInv, IP!IInv
  <1>3. Counts \subseteq Nat /\ MaxCount \in Nat
    BY ComponentsAssumption DEF I!InventoryAssumption
  <1>4. iturn = I!Idle \/ (iturn \in I!Turn /\ iturn # I!Idle)
    BY <1>2 DEF I!TypeOK, I!Turn, I!Idle
  <1>5. \A m \in ireqs : m \in I!Request /\ m.from = Shop /\ m.count \in Nat
    BY <1>2, <1>3 DEF I!TypeOK, I!Request
  <1>6. \A r \in ireps : r.from = Shop
    BY <1>2 DEF I!TypeOK, I!Reply
  <1>7. iturn # I!Idle => iturn.count \in Nat /\ iturn.from = Shop /\ iturn.item \in Items
    BY <1>3, <1>4 DEF I!Turn
  <1>8. \A i : Held(i) \in Int /\ Held(i) = I!CountIn(irows, i)
    BY <1>2 DEF Held, I!CountIn, I!TypeOK
  <1> QED
    BY <1>2, <1>4, <1>5, <1>6, <1>7, <1>8

(* While no acknowledgement was lost no row is negative, and what an idle
   activation caches is what the rows hold.                                *)
LEMMA InventoryExact ==
    ASSUME CInv, lost = 0, NEW i \in Items
    PROVE  /\ Held(i) >= 0
           /\ iact /\ iturn = I!Idle => I!CountIn(icache, i) = Held(i)
  <1>1. 0 * MaxCount = 0
    BY ComponentsAssumption DEF I!InventoryAssumption
  <1>2. Held(i) >= 0
    <2>1. IP!CountWithinStack /\ IP!TypeOK
      BY DEF CInv, IP!IInv
    <2>2. i \in DOMAIN irows => irows[i] >= -(0 * MaxCount) /\ irows[i] \in Int
      BY <2>1 DEF IP!CountWithinStack, IP!TypeOK
    <2> QED
      BY <1>1, <2>2 DEF Held
  <1>3. ASSUME iact, iturn = I!Idle PROVE I!CountIn(icache, i) = Held(i)
    <2>1. IP!SeenBounded /\ IP!TypeOK
      BY DEF CInv, IP!IInv
    <2>2. IP!Seen(i) = I!CountIn(icache, i) /\ IP!CountIn(irows, i) = Held(i)
      BY <1>3 DEF IP!Seen, I!Idle, IP!CountIn, I!CountIn, Held
    <2>3. I!CountIn(icache, i) \in Int
      BY <2>1 DEF IP!TypeOK, I!CountIn
    <2>4. /\ Held(i) <= I!CountIn(icache, i) + 0 * MaxCount
          /\ Held(i) >= I!CountIn(icache, i) - 0 * MaxCount
      BY <1>3, <2>1, <2>2 DEF IP!SeenBounded
    <2> QED
      BY <1>1, <2>3, <2>4, InventoryTyped
  <1> QED
    BY <1>2, <1>3

LEMMA Worths ==
    ASSUME CInv, InventoryCallOK, NEW i
    PROVE  /\ RecordedWorth(i) \in Nat
           /\ Held(i) \in Int /\ Running(i) \in Nat /\ Owed(i) \in Nat
  <1>1. \A p \in Products : RewardItemCount[p] \in Nat /\ Purchased(p) \in Nat
    BY ShopAssumption, ComponentsAssumption, Columns DEF CInv, I!InventoryAssumption
  <1>2. RecordedWorth(i) \in Nat
    <2>1. IsFiniteSet(Giving(i))
      BY ShopAssumption, FS_Subset DEF Giving
    <2>2. ASSUME NEW p \in Giving(i)
          PROVE  [q \in Products |-> RewardItemCount[q] * Purchased(q)][p] \in Nat
      <3>1. p \in Products
        BY DEF Giving
      <3>2. RewardItemCount[p] \in Nat /\ Purchased(p) \in Nat
        BY <1>1, <3>1
      <3>3. RewardItemCount[p] * Purchased(p) \in Nat
        BY <3>2
      <3> QED
        BY <3>1, <3>3
    <2> QED
      BY <2>1, <2>2, SumOfNaturals DEF RecordedWorth
  <1>3. Held(i) \in Int /\ Running(i) \in Nat
    BY InventoryTyped DEF Running, I!Idle
  <1>4. Owed(i) \in Nat
    BY <1>1, TurnCounts DEF CInv, Owed, Idle
  <1> QED
    BY <1>2, <1>3, <1>4

(* The inventory moves while the shop waits, or does nothing. *)
Beside == UNCHANGED <<walletVars, shopVars>> /\ (clean' => clean)

LEMMA BesideKeepsCall ==
    ASSUME SInv, Beside, clean' => \A i \in Items : Held(i)' >= Held(i)
    PROVE  WalletCallOK' /\ PaidOK'
  <1> USE DEF SInv, PInv, Beside, walletVars, shopVars
  <1>1. WalletRuns' <=> WalletRuns
    BY DEF WalletRuns
  <1>2. WalletCallOK'
    <2>1. NothingNew
      BY <1>1 DEF NothingNew, WalletCallOK
    <2> QED
      BY <2>1, NothingNewKeepsCall
  <1>3. Owing' = Owing
    BY <1>1 DEF Owing, Paid, Cost, SpendAnswered, HasLimit
  <1>4. RecordedPrice' = RecordedPrice
    BY RecordsUnchanged
  <1>5. ASSUME clean', OnlyRecordedPurchases'
        PROVE  clean /\ OnlyRecordedPurchases
    <2>1. \A p \in Products \ Limited : RewardItemCount[p] > 0 /\ Held(RewardItemId[p])' = 0
      BY <1>5 DEF OnlyRecordedPurchases, Limited, HasLimit
    <2>2. ASSUME NEW p \in Products \ Limited
          PROVE  Held(RewardItemId[p]) = 0
      <3>1. RewardItemId[p] \in Items
        BY ShopAssumption
      <3>2. Held(RewardItemId[p]) >= 0 /\ Held(RewardItemId[p])' >= Held(RewardItemId[p])
        BY <1>5, <3>1, InventoryExact DEF CleanOK
      <3> QED
        BY <2>1, <3>2, InventoryTyped
    <2> QED
      BY <1>5, <2>1, <2>2 DEF OnlyRecordedPurchases
  <1> QED
    BY <1>2, <1>3, <1>4, <1>5, Prices, PaidMoves

LEMMA GrantsMove ==
    ASSUME SInv, prows' = prows, sturn' = sturn, ireqs' \subseteq ireqs,
           \A i \in Items : /\ Held(i)' \in Int /\ Running(i)' \in Int
                            /\ Held(i)' + Running(i)' <= Held(i) + Running(i)
    PROVE  GrantsOK'
  <1> SUFFICES ASSUME NEW i \in Items, Giving(i) \subseteq Limited
               PROVE  /\ Backed(i, 0)'
                      /\ \A m \in ireqs' : m.item = i => Backed(i, m.count)'
    BY DEF GrantsOK, Giving, Limited, HasLimit
  <1> USE DEF SInv, PInv
  <1>1. RecordedWorth(i)' = RecordedWorth(i) /\ Owed(i)' = Owed(i)
    BY RecordsUnchanged DEF Owed
  <1>2. ASSUME NEW n \in Nat, Backed(i, n) PROVE Backed(i, n)'
    BY <1>1, <1>2, Worths DEF Backed
  <1> QED
    BY <1>2, InventoryTyped DEF GrantsOK

\* What one step of the inventory has to keep.
InventoryPart == WalletCallOK /\ PaidOK /\ InventoryCallOK /\ AnswerMeansHeld /\ GrantsOK

LEMMA InventoryBeginKeeps ==
    ASSUME SInv, Beside, NEW m \in ireqs, I!Begin(m)
    PROVE  InventoryPart'
  <1> USE DEF SInv, Beside, shopVars
  <1> USE DEF PInv
  <1>1. /\ iact /\ iturn = I!Idle /\ ireqs' = {} /\ irows' = irows
        /\ sturn.pc = "grant" /\ m.op = "Add" /\ m.item = RewardItemId[sturn.prod]
        /\ m.count = RewardItemCount[sturn.prod] /\ ireps = {}
        /\ m.from = Shop /\ m.count \in Nat /\ m.item \in Items
    BY InventoryTyped DEF I!Begin, InventoryCallOK, I!Request
  <1>2. \A i : Held(i)' = Held(i) /\ Running(i) = 0
    BY <1>1 DEF Held, Running, I!Idle
  <1>3. clean => I!CountIn(icache, m.item) = Held(m.item)
    BY <1>1, InventoryExact DEF CleanOK
  <1>4. WalletCallOK' /\ PaidOK'
    BY <1>2, InventoryTyped, BesideKeepsCall
  <1>5. CASE I!AnswerAtOnce(m) /\ UNCHANGED iturn
    <2>1. InventoryCallOK'
      BY <1>1, <1>5 DEF InventoryCallOK, InventoryRuns
    <2>2. GrantsOK'
      BY <1>1, <1>2, <1>5, Worths, GrantsMove DEF Running
    <2>3. ASSUME clean, m.count > 0 PROVE Held(m.item) > 0
      <3>1. I!AddCount(m.item, m.count) = 0
        BY <1>1, <1>5, <2>3 DEF I!AnswerAtOnce
      <3>2. MaxStack[m.item] \in Nat /\ Held(m.item) \in Int
        BY <1>1, ComponentsAssumption, InventoryTyped DEF I!InventoryAssumption
      <3>3. MaxStack[m.item] > 0 /\ MaxStack[m.item] - Held(m.item) <= 0
        BY <1>1, <1>3, <2>3, <3>1, <3>2 DEF I!AddCount
      <3> QED
        BY <3>2, <3>3
    <2>4. AnswerMeansHeld'
      BY <1>1, <1>2, <1>5, <2>3 DEF AnswerMeansHeld, I!Idle
    <2> QED
      BY <1>4, <2>1, <2>2, <2>4 DEF InventoryPart
  <1>6. CASE I!Submit(m) /\ UNCHANGED ireps
    <2> DEFINE n == I!AddCount(m.item, m.count)
               stmt == I!AddStatement(m.item)
    <2>1. iturn' = I!Awaiting(m, stmt, n) /\ n > 0
      BY <1>1, <1>6 DEF I!Submit
    <2>2. n \in Nat /\ n <= m.count
      <3>1. MaxStack[m.item] \in Nat /\ I!CountIn(icache, m.item) \in Int
        BY <1>1, ComponentsAssumption, InventoryTyped
           DEF I!InventoryAssumption, I!CountIn, I!TypeOK
      <3> QED
        BY <1>1, <3>1 DEF I!AddCount
    <2>3. stmt \in {"insert", "add"} /\ (stmt = "add" => m.item \in DOMAIN irows)
      BY InventoryTyped DEF I!AddStatement, I!TypeOK
    <2> HIDE DEF n, stmt
    <2>4. /\ iturn' # I!Idle /\ iturn'.pc = "await" /\ iturn'.live = TRUE
          /\ iturn'.stmt = stmt /\ iturn'.item = m.item /\ iturn'.count = n
      BY <2>1 DEF I!Awaiting, I!Idle
    <2>5. InventoryCallOK'
      BY <1>1, <1>6, <2>1, <2>3, <2>4 DEF InventoryCallOK, InventoryRuns
    <2>6. AnswerMeansHeld'
      BY <1>1, <1>6, <2>4 DEF AnswerMeansHeld
    <2>7. GrantsOK'
      <3> SUFFICES ASSUME NEW i \in Items, Giving(i) \subseteq Limited PROVE Backed(i, 0)'
        BY <1>1 DEF GrantsOK, Giving, Limited, HasLimit
      <3>1. /\ RecordedWorth(i)' = RecordedWorth(i) /\ Owed(i)' = Owed(i)
            /\ Running(i)' = IF i = m.item THEN n ELSE 0
        BY <2>4, RecordsUnchanged DEF Owed, Running
      <3>2. Backed(i, 0) /\ (i = m.item => Backed(i, m.count))
        BY DEF GrantsOK
      <3> QED
        BY <1>1, <1>2, <2>2, <3>1, <3>2, Worths DEF Backed
    <2> QED
      BY <1>4, <2>5, <2>6, <2>7 DEF InventoryPart
  <1> QED
    BY <1>5, <1>6 DEF I!Begin

(* The rows once the pending statement, which only adds, is applied. *)
LEMMA InventoryChanged ==
    ASSUME SInv, iturn.pc = "await", irows' = I!Changed(irows)
    PROVE  /\ DOMAIN irows' = DOMAIN irows \cup {iturn.item}
           /\ \A i : Held(i)' = Held(i) + Running(i)
  <1>1. iturn # I!Idle /\ iturn.stmt # "spend" /\ iturn.count \in Nat
    BY InventoryTyped DEF SInv, PInv, InventoryCallOK, I!Idle
  <1>2. irows' = [x \in DOMAIN irows \cup {iturn.item} |->
                    IF x = iturn.item THEN I!CountIn(irows, iturn.item) + iturn.count
                                      ELSE irows[x]]
    BY <1>1 DEF I!Changed, I!Put
  <1>3. \A i : Held(i) \in Int /\ Held(i) = I!CountIn(irows, i)
    BY InventoryTyped DEF SInv, PInv
  <1>4. ASSUME NEW i PROVE Held(i)' = Held(i) + Running(i)
    <2>1. CASE i = iturn.item
      BY <1>2, <1>3, <2>1 DEF Held, Running
    <2>2. CASE i # iturn.item
      <3>1. Held(i)' = Held(i) /\ Running(i) = 0
        BY <1>2, <2>2 DEF Held, Running
      <3> QED
        BY <1>3, <3>1
    <2> QED
      BY <2>1, <2>2
  <1> QED
    BY <1>2, <1>4

\* The pending statement is applied, or fails: the rows grow by no more.
LEMMA InventoryStatementKeeps ==
    ASSUME SInv, Beside, iturn.pc = "await", UNCHANGED <<ireqs, ireps>>,
           \/ irows' = irows /\ \E pc \in {"norow", "failed"} :
                 /\ iturn' = [iturn EXCEPT !.pc = pc]
                 /\ clean' => pc = "norow" /\ ~I!Affected
           \/ irows' = I!Changed(irows) /\ \E pc \in {"ok", "failed"} :
                 /\ iturn' = [iturn EXCEPT !.pc = pc]
                 /\ clean' => pc = "ok"
    PROVE  InventoryPart'
  <1> USE DEF SInv, Beside, shopVars
  <1> USE DEF PInv
  <1>1. iturn \in I!Turn /\ iturn # I!Idle
    BY InventoryTyped DEF I!Idle
  <1>2. PICK pc \in {"ok", "norow", "failed"} :
           /\ iturn' = [iturn EXCEPT !.pc = pc]
           /\ \/ irows' = irows /\ pc # "ok" /\ (clean' => ~I!Affected)
              \/ irows' = I!Changed(irows) /\ (clean' => pc = "ok")
    <2>1. CASE irows' = irows /\ \E pc \in {"norow", "failed"} :
                 /\ iturn' = [iturn EXCEPT !.pc = pc]
                 /\ clean' => pc = "norow" /\ ~I!Affected
      <3>1. PICK pc \in {"norow", "failed"} :
                 /\ iturn' = [iturn EXCEPT !.pc = pc]
                 /\ clean' => pc = "norow" /\ ~I!Affected
        BY <2>1
      <3> QED
        BY <2>1, <3>1
    <2>2. CASE irows' = I!Changed(irows) /\ \E pc \in {"ok", "failed"} :
                 /\ iturn' = [iturn EXCEPT !.pc = pc]
                 /\ clean' => pc = "ok"
      <3>1. PICK pc \in {"ok", "failed"} :
                 /\ iturn' = [iturn EXCEPT !.pc = pc]
                 /\ clean' => pc = "ok"
        BY <2>2
      <3> QED
        BY <2>2, <3>1
    <2> QED
      BY <2>1, <2>2
  <1>3. /\ iturn' # I!Idle /\ iturn'.pc = pc /\ iturn'.live = iturn.live
        /\ iturn'.stmt = iturn.stmt /\ iturn'.item = iturn.item /\ iturn'.count = iturn.count
    BY <1>1, <1>2 DEF I!Turn, I!Idle
  <1>4. /\ DOMAIN irows \subseteq DOMAIN irows'
        /\ \A i : Held(i)' \in Int /\ Held(i)' >= Held(i) /\ Held(i)' <= Held(i) + Running(i)
    <2>1. CASE irows' = irows
      BY <2>1, Worths DEF Held
    <2>2. CASE irows' = I!Changed(irows)
      BY <2>2, InventoryChanged, Worths
    <2> QED
      BY <1>2, <2>1, <2>2
  <1>5. WalletCallOK' /\ PaidOK'
    BY <1>4, BesideKeepsCall
  <1>6. GrantsOK'
    <2>1. \A i : Running(i)' = 0
      BY <1>3 DEF Running
    <2> QED
      BY <1>4, <2>1, Worths, GrantsMove
  <1>7. InventoryCallOK'
    <2>1. InventoryRuns' <=> InventoryRuns
      BY <1>1, <1>3 DEF InventoryRuns
    <2> QED
      BY <1>1, <1>3, <1>4, <2>1 DEF InventoryCallOK
  <1>8. AnswerMeansHeld'
    <2> SUFFICES ASSUME clean' PROVE AnswerMeansHeld'
      BY DEF AnswerMeansHeld
    <2>1. clean
      OBVIOUS
    <2>2. I!Affected
      BY <1>1, InventoryTyped DEF InventoryCallOK, I!Affected, I!Turn
    <2>3. pc = "ok" /\ irows' = I!Changed(irows)
      BY <1>2, <2>2
    <2>4. Held(iturn.item)' > 0
      <3>1. iturn.item \in Items /\ iturn.count \in Nat /\ iturn.count > 0
        BY <1>1, InventoryTyped DEF InventoryCallOK
      <3>2. Held(iturn.item) >= 0
        BY <2>1, <3>1, InventoryExact DEF CleanOK
      <3>3. PICK i : i = iturn.item
        OBVIOUS
      <3>4. Held(i)' = Held(i) + Running(i) /\ Running(i) = iturn.count
        BY <2>3, <3>3, InventoryChanged DEF Running
      <3>5. Held(i)' > 0
        BY <3>1, <3>2, <3>3, <3>4, InventoryTyped
      <3> QED
        BY <1>3, <3>3, <3>5
    <2>5. iturn.live /\ ireps' = {}
      BY <1>1, <2>1 DEF AnswerMeansHeld, InventoryCallOK, InventoryRuns
    <2> QED
      BY <1>3, <2>3, <2>4, <2>5 DEF AnswerMeansHeld
  <1> QED
    BY <1>5, <1>6, <1>7, <1>8 DEF InventoryPart

(* The turn ends, and answers the shop if it still waits. *)
LEMMA InventoryResumeKeeps ==
    ASSUME SInv, Beside, I!Resume
    PROVE  InventoryPart'
  <1> USE DEF SInv, Beside, shopVars
  <1> USE DEF PInv
  <1>1. /\ iturn # I!Idle /\ iturn.pc \in {"ok", "norow", "failed"}
        /\ iturn' = I!Idle /\ ireqs' = ireqs /\ irows' = irows
        /\ ~iturn.live => ireps' = ireps
    BY DEF I!Resume, I!Idle
  <1>2. (\A i : Held(i)' = Held(i) /\ Running(i) = 0 /\ Running(i)' = 0) /\ ~InventoryRuns'
    BY <1>1 DEF Held, Running, I!Idle, InventoryRuns
  <1>3. WalletCallOK' /\ PaidOK'
    BY <1>2, InventoryTyped, BesideKeepsCall
  <1>4. InventoryCallOK'
    BY <1>1, <1>2 DEF InventoryCallOK, InventoryRuns
  <1>5. AnswerMeansHeld'
    BY <1>1, <1>2 DEF AnswerMeansHeld, InventoryCallOK, InventoryRuns, I!Idle, Held
  <1>6. GrantsOK'
    BY <1>1, <1>2, Worths, GrantsMove
  <1> QED
    BY <1>3, <1>4, <1>5, <1>6 DEF InventoryPart

LEMMA InventoryAloneKeeps ==
    ASSUME SInv, Beside, I!Serve \/ (I!Fault /\ clean' = FALSE)
    PROVE  InventoryPart'
  <1> USE DEF SInv, Beside, shopVars
  <1> USE DEF PInv
  <1>1. CASE I!Activate \/ I!Deactivate
    <2>1. UNCHANGED <<irows, iturn, ireqs, ireps>>
      BY <1>1 DEF I!Activate, I!Deactivate
    <2>2. (\A i : Held(i)' = Held(i) /\ Running(i)' = Running(i))
          /\ (InventoryRuns' <=> InventoryRuns)
      BY <2>1 DEF Held, Running, InventoryRuns
    <2>3. WalletCallOK' /\ PaidOK'
      BY <2>2, InventoryTyped, BesideKeepsCall
    <2>4. InventoryCallOK' /\ AnswerMeansHeld'
      BY <2>1, <2>2 DEF InventoryCallOK, AnswerMeansHeld, Held
    <2>5. GrantsOK'
      BY <2>1, <2>2, Worths, GrantsMove
    <2> QED
      BY <2>3, <2>4, <2>5 DEF InventoryPart
  <1>2. CASE \E m \in ireqs : I!Begin(m)
    BY <1>2, InventoryBeginKeeps
  <1>3. CASE I!Apply
    BY <1>3, InventoryStatementKeeps DEF I!Apply
  <1>4. CASE (I!Fail \/ I!LoseAck) /\ clean' = FALSE
    BY <1>4, InventoryStatementKeeps DEF I!Fail, I!LoseAck
  <1>5. CASE I!Resume
    BY <1>5, InventoryResumeKeeps
  <1>6. CASE I!ActivateFails /\ clean' = FALSE
    <2>1. UNCHANGED <<irows, iturn>> /\ ireqs # {} /\ ireqs' = {}
      BY <1>6 DEF I!ActivateFails
    <2>2. (\A i : Held(i)' = Held(i) /\ Running(i)' = Running(i))
          /\ (InventoryRuns' <=> InventoryRuns)
      BY <2>1 DEF Held, Running, InventoryRuns
    <2>3. WalletCallOK' /\ PaidOK'
      BY <1>6, BesideKeepsCall
    <2>4. InventoryCallOK' /\ AnswerMeansHeld'
      BY <1>6, <2>1, <2>2 DEF InventoryCallOK, AnswerMeansHeld
    <2>5. GrantsOK'
      BY <2>1, <2>2, Worths, GrantsMove
    <2> QED
      BY <2>3, <2>4, <2>5 DEF InventoryPart
  <1> QED
    BY <1>1, <1>2, <1>3, <1>4, <1>5, <1>6 DEF I!Serve, I!Fault

-----------------------------------------------------------------------------
(* What the steps of the shop and of the wallet do to the conversation with
   the inventory.                                                          *)
GrantPart == InventoryCallOK /\ AnswerMeansHeld /\ GrantsOK

LEMMA AsideKeepsGrants ==
    ASSUME SInv, Aside, UNCHANGED inventoryVars
    PROVE  GrantPart'
  <1> USE DEF SInv, PInv, Aside, inventoryVars
  <1>1. InventoryCallOK' /\ AnswerMeansHeld'
    BY DEF InventoryCallOK, InventoryRuns, AnswerMeansHeld, Held
  <1>2. \A i : Held(i)' = Held(i) /\ Running(i)' = Running(i)
    BY DEF Held, Running
  <1>3. GrantsOK'
    BY <1>2, Worths, GrantsMove
  <1> QED
    BY <1>1, <1>3 DEF GrantPart

\* While the shop does not wait for the inventory there is nothing of its own.
LEMMA NotAsking ==
    ASSUME SInv, sturn.pc # "grant" \/ ireps # {}
    PROVE  ireqs = {} /\ ~InventoryRuns
  BY DEF SInv, InventoryCallOK

LEMMA ElsewhereKeepsGrants ==
    ASSUME SInv, sturn.pc # "grant", sturn'.pc \notin {"recorded", "grant"},
           prows' = prows, UNCHANGED inventoryVars, clean' => clean
    PROVE  GrantPart'
  <1> USE DEF SInv, PInv, inventoryVars
  <1>1. ireqs = {} /\ ~InventoryRuns /\ ~InventoryRuns'
    BY NotAsking DEF InventoryRuns
  <1>2. InventoryCallOK' /\ AnswerMeansHeld'
    BY <1>1 DEF InventoryCallOK, AnswerMeansHeld, Held
  <1>3. GrantsOK'
    <2> SUFFICES ASSUME NEW i \in Items, Giving(i) \subseteq Limited PROVE Backed(i, 0)'
      BY <1>1 DEF GrantsOK, Giving, Limited, HasLimit
    <2>1. /\ Held(i)' = Held(i) /\ Running(i)' = Running(i) /\ Owed(i)' = 0
          /\ RecordedWorth(i)' = RecordedWorth(i) /\ Backed(i, 0)
      BY RecordsUnchanged DEF Held, Running, Owed, GrantsOK
    <2> QED
      BY <2>1, Worths DEF Backed
  <1> QED
    BY <1>2, <1>3 DEF GrantPart

(* The grant is asked for: it is what the record is worth, or the item of a
   product without a limit.                                                *)
LEMMA AskKeepsGrants ==
    ASSUME SInv, sturn # Idle, sturn.pc # "grant", CallInventory(sturn.prod),
           sturn.pc = "recorded" \/ ~HasLimit(sturn.prod),
           sturn' = [sturn EXCEPT !.pc = "grant"], prows' = prows, clean' => clean
    PROVE  GrantPart'
  <1> USE DEF SInv, PInv
  <1>1. PICK q \in Products, k \in Nat, m \in ireqs' :
           /\ q = sturn.prod /\ k = RewardItemCount[q]
           /\ m.op = "Add" /\ m.item = RewardItemId[q] /\ m.count = k
           /\ ireqs' = {m} /\ ireps' = {}
           /\ sturn'.pc = "grant" /\ sturn'.prod = q
    <2>1. sturn \in Turn /\ sturn.prod \in Products /\ RewardItemCount[sturn.prod] \in Nat
      BY TurnCounts, ShopAssumption, ComponentsAssumption DEF CInv, I!InventoryAssumption
    <2>2. sturn'.pc = "grant" /\ sturn'.prod = sturn.prod
      BY <2>1 DEF Turn
    <2> DEFINE m == [from |-> Shop, op |-> "Add", item |-> RewardItemId[sturn.prod],
                     count |-> RewardItemCount[sturn.prod]]
    <2>3. /\ m.from = Shop /\ m.op = "Add" /\ m.item = RewardItemId[sturn.prod]
          /\ m.count = RewardItemCount[sturn.prod] /\ I!Send(m)
      BY DEF CallInventory
    <2> HIDE DEF m
    <2>4. ireqs' = ireqs \cup {m} /\ ireps' = {r \in ireps : r.from # Shop}
      BY <2>3 DEF I!Send
    <2>5. ireqs' = {m} /\ ireps' = {} /\ m \in ireqs'
      BY <2>4, NotAsking, InventoryTyped
    <2> QED
      BY <2>1, <2>2, <2>3, <2>5
  <1>2. irows' = irows /\ iturn' = iturn /\ ~InventoryRuns /\ ~InventoryRuns'
    BY NotAsking DEF CallInventory, I!Send, InventoryRuns
  <1>3. InventoryCallOK' /\ AnswerMeansHeld'
    BY <1>1, <1>2 DEF InventoryCallOK, AnswerMeansHeld, Held
  <1>4. GrantsOK'
    <2> SUFFICES ASSUME NEW i \in Items, Giving(i) \subseteq Limited
                 PROVE  Backed(i, 0)' /\ (m.item = i => Backed(i, m.count)')
      BY <1>1 DEF GrantsOK, Giving, Limited, HasLimit
    <2>1. /\ Held(i)' = Held(i) /\ Running(i)' = Running(i) /\ Owed(i)' = 0
          /\ RecordedWorth(i)' = RecordedWorth(i) /\ Backed(i, 0)
      BY <1>1, <1>2, RecordsUnchanged DEF Held, Running, Owed, GrantsOK
    <2>2. m.item = i => Owed(i) = k
      BY <1>1 DEF Owed, Giving, Limited
    <2> QED
      BY <1>1, <2>1, <2>2, Worths DEF Backed
  <1> QED
    BY <1>3, <1>4 DEF GrantPart

(* The record is worth what the shop is to ask for, and more if the player
   bought more than one.                                                   *)
LEMMA RecordingKeepsGrants ==
    ASSUME SInv, sturn.pc = "record", ~Conflict, prows' = Recording,
           sturn' = Idle \/ sturn' = [sturn EXCEPT !.pc = "recorded"],
           UNCHANGED inventoryVars, clean' => clean
    PROVE  GrantPart'
  <1> USE DEF SInv, PInv, inventoryVars
  <1>1. ireqs = {} /\ ~InventoryRuns /\ ~InventoryRuns'
    BY NotAsking DEF InventoryRuns
  <1>2. PICK q \in Products, k \in Nat, n \in Nat :
           /\ q = sturn.prod /\ k = RewardItemCount[q] /\ n = sturn.count /\ n >= 1
           /\ sturn'.pc \in {"idle", "recorded"}
           /\ sturn'.pc = "recorded" => sturn'.prod = q
    <2>1. /\ sturn \in Turn /\ sturn.prod \in Products /\ sturn.count \in Nat \ {0}
          /\ RewardItemCount[sturn.prod] \in Nat
      BY TurnCounts, ShopAssumption, ComponentsAssumption
         DEF CInv, I!InventoryAssumption, Idle
    <2>2. sturn'.pc \in {"idle", "recorded"} /\ (sturn'.pc = "recorded" => sturn'.prod = sturn.prod)
      BY <2>1 DEF Turn, Idle
    <2> QED
      BY <2>1, <2>2
  <1>3. InventoryCallOK' /\ AnswerMeansHeld'
    BY <1>1, <1>2 DEF InventoryCallOK, AnswerMeansHeld, Held
  <1>4. GrantsOK'
    <2> SUFFICES ASSUME NEW i \in Items, Giving(i) \subseteq Limited PROVE Backed(i, 0)'
      BY <1>1 DEF GrantsOK, Giving, Limited, HasLimit
    <2>1. k * n \in Nat /\ k * n >= k
      <3>1. \A x \in Nat, y \in Nat : y >= 1 => x * y \in Nat /\ x * y >= x
        <4> SUFFICES ASSUME NEW x \in Nat, NEW y \in Nat, y >= 1
                     PROVE  x * y \in Nat /\ x * y >= x
          OBVIOUS
        <4>1. PICK z \in Nat : y = z + 1
          BY y - 1 \in Nat
        <4>2. x * y = x * z + x
          BY <4>1
        <4>3. x * z \in Nat
          OBVIOUS
        <4> QED
          BY <4>2, <4>3
      <3> QED
        BY <1>2, <3>1
    <2>2. RecordedWorth(i)' = RecordedWorth(i) + IF RewardItemId[q] = i THEN k * n ELSE 0
      BY <1>2, RecordingAddsUp
    <2>3. /\ Held(i)' = Held(i) /\ Running(i)' = Running(i)
          /\ Owed(i) = 0 /\ (Owed(i)' = 0 \/ (RewardItemId[q] = i /\ Owed(i)' = k))
          /\ Backed(i, 0)
      BY <1>2 DEF Held, Running, Owed, GrantsOK
    <2> QED
      BY <1>2, <2>1, <2>2, <2>3, Worths DEF Backed
  <1> QED
    BY <1>3, <1>4 DEF GrantPart

(* The answer to the grant ends the purchase.  What an unlimited product cost
   is no longer accounted for, but then its item is there.                 *)
LEMMA GrantedKeeps ==
    ASSUME SInv, Granted
    PROVE  InventoryPart'
  <1> USE DEF SInv, PInv
  <1>1. /\ sturn.pc = "grant" /\ sturn # Idle /\ sturn' = Idle /\ ireps # {} /\ ireps' = {}
        /\ UNCHANGED <<walletVars, prows, irows, iturn, ireqs, clean>>
    BY InventoryTyped DEF Granted, I!Receive, EndTurn, Idle
  <1>2. ireqs = {} /\ ~InventoryRuns /\ ~InventoryRuns'
    BY <1>1, NotAsking DEF InventoryRuns
  <1>3. InventoryCallOK' /\ AnswerMeansHeld'
    BY <1>1, <1>2 DEF InventoryCallOK, AnswerMeansHeld, Held, Idle
  <1>4. GrantsOK'
    <2> SUFFICES ASSUME NEW i \in Items, Giving(i) \subseteq Limited PROVE Backed(i, 0)'
      BY <1>1, <1>2 DEF GrantsOK, Giving, Limited, HasLimit
    <2>1. /\ Held(i)' = Held(i) /\ Running(i)' = Running(i) /\ Owed(i) = 0 /\ Owed(i)' = 0
          /\ RecordedWorth(i)' = RecordedWorth(i) /\ Backed(i, 0)
      BY <1>1, RecordsUnchanged DEF Held, Running, Owed, GrantsOK, Idle
    <2> QED
      BY <2>1 DEF Backed
  <1>5. WalletCallOK'
    BY <1>1, NoCallThen, QuietKeepsCall DEF NoCall, WalletRuns, walletVars
  <1>6. PaidOK'
    <2>1. ShopMoves /\ Owing' = 0 /\ wtaken'[Shop] = wtaken[Shop]
      BY <1>1 DEF ShopMoves, Owing, Paid, Idle, walletVars
    <2>2. CASE HasLimit(sturn.prod)
      BY <1>1, <2>1, <2>2, ShopKeepsPaid DEF Owing, Paid
    <2>3. CASE ~HasLimit(sturn.prod)
      <3>1. sturn.prod \in Products \ Limited
        BY <1>1, <2>3, TurnCounts DEF CInv, Limited
      <3>2. clean => ~OnlyRecordedPurchases
        BY <1>1, <3>1 DEF OnlyRecordedPurchases, AnswerMeansHeld
      <3>3. OnlyRecordedPurchases' <=> OnlyRecordedPurchases
        BY <1>1 DEF OnlyRecordedPurchases, Held, Limited, HasLimit
      <3> QED
        BY <1>1, <2>1, <3>2, <3>3, ShopKeepsPaid
    <2> QED
      BY <2>2, <2>3
  <1> QED
    BY <1>3, <1>4, <1>5, <1>6 DEF InventoryPart

\* The shop gives up on the grant; the statement may still run.
LEMMA GrantTimesOutKeeps ==
    ASSUME SInv, sturn.pc = "grant", I!TimeOut(Shop), UNCHANGED <<walletVars, prows>>,
           sturn' = Idle, clean' = FALSE
    PROVE  InventoryPart'
  <1> USE DEF SInv, PInv
  <1>1. irows' = irows
    BY DEF I!TimeOut
  <1>2. WalletCallOK' /\ PaidOK'
    BY <1>1, FailureKeepsCall
  <1>3. /\ ireqs' = {} /\ ~InventoryRuns' /\ (iturn' # I!Idle <=> iturn # I!Idle)
        /\ iturn'.pc = iturn.pc /\ iturn'.item = iturn.item /\ iturn'.count = iturn.count
        /\ iturn'.stmt = iturn.stmt
    <2>1. CASE (\E m \in ireqs : m.from = Shop) /\ ireqs' = {m \in ireqs : m.from # Shop}
               /\ UNCHANGED iturn
      BY <2>1, InventoryTyped DEF InventoryCallOK, InventoryRuns
    <2>2. CASE /\ iturn # I!Idle /\ iturn.live
               /\ iturn' = [iturn EXCEPT !.live = FALSE] /\ UNCHANGED ireqs
      <3>1. iturn \in I!Turn /\ ireqs = {}
        BY <2>2, InventoryTyped DEF InventoryCallOK, InventoryRuns
      <3> QED
        BY <2>2, <3>1 DEF I!Turn, I!Idle, InventoryRuns
    <2> QED
      BY <2>1, <2>2 DEF I!TimeOut
  <1>4. InventoryCallOK' /\ AnswerMeansHeld'
    BY <1>1, <1>3 DEF InventoryCallOK, AnswerMeansHeld
  <1>5. GrantsOK'
    <2> SUFFICES ASSUME NEW i \in Items, Giving(i) \subseteq Limited PROVE Backed(i, 0)'
      BY <1>3 DEF GrantsOK, Giving, Limited, HasLimit
    <2>1. /\ Held(i)' = Held(i) /\ Running(i)' = Running(i) /\ Owed(i) = 0 /\ Owed(i)' = 0
          /\ RecordedWorth(i)' = RecordedWorth(i) /\ Backed(i, 0)
      BY <1>1, <1>3, RecordsUnchanged DEF Held, Running, Owed, GrantsOK, Idle
    <2> QED
      BY <2>1 DEF Backed
  <1> QED
    BY <1>2, <1>4, <1>5 DEF InventoryPart

(* A crash forgets every call; a statement that was on its way was applied
   or was not.                                                             *)
LEMMA CrashKeeps ==
    ASSUME SInv, Crash, clean' = FALSE
    PROVE  InventoryPart'
  <1> USE DEF SInv, PInv
  <1>1. /\ sturn' = Idle /\ wturn' = W!Idle /\ wreqs' = {} /\ wreps' = {}
        /\ iturn' = I!Idle /\ ireqs' = {} /\ ireps' = {}
        /\ prows' = prows \/ (sturn.pc = "record" /\ ~Conflict /\ prows' = Recording)
        /\ wtaken' = wtaken \/ (wturn.pc = "await" /\ wtaken' = W!Taken)
        /\ irows' = irows \/ (iturn.pc = "await" /\ irows' = I!Changed(irows))
    BY DEF Crash, W!Crash, I!Crash, EndTurn
  <1>2. WalletCallOK' /\ InventoryCallOK' /\ AnswerMeansHeld'
    BY <1>1 DEF WalletCallOK, WalletRuns, InventoryCallOK, InventoryRuns, AnswerMeansHeld
  <1>3. PaidOK'
    <2>1. wtaken'[Shop] >= wtaken[Shop] /\ wtaken'[Shop] \in Nat
      <3>1. CASE wtaken' = wtaken
        BY <3>1, Prices
      <3>2. CASE wturn.pc = "await" /\ wtaken' = W!Taken
        <4>1. wturn \in W!Turn /\ wturn.amt \in Nat
          <5>1. wturn \in W!Turn
            BY <3>2, WalletTyped DEF W!Idle
          <5> QED
            BY <5>1, ComponentsAssumption DEF W!Turn, W!WalletAssumption
        <4>2. \/ wtaken' = wtaken
              \/ wtaken' = [wtaken EXCEPT ![wturn.from] = @ + wturn.amt]
          BY <3>2 DEF W!Taken
        <4>3. wtaken'[Shop] \in {wtaken[Shop], wtaken[Shop] + wturn.amt}
          BY <4>2, WalletTyped
        <4> QED
          BY <4>1, <4>3, Prices
      <3> QED
        BY <1>1, <3>1, <3>2
    <2>2. Owing' = 0
      BY <1>1 DEF Owing, Paid, Idle
    <2>3. RecordedPrice' \in Nat /\ RecordedPrice' <= RecordedPrice + Owing
      <3>1. CASE prows' = prows
        BY <3>1, RecordsUnchanged, Prices
      <3>2. CASE sturn.pc = "record" /\ ~Conflict /\ prows' = Recording
        <4>1. Owing = Cost
          BY <3>2 DEF Owing, Paid
        <4> QED
          BY <3>2, <4>1, RecordingAddsUp, Prices
      <3> QED
        BY <1>1, <3>1, <3>2
    <2> QED
      BY <2>1, <2>2, <2>3, Prices DEF PaidOK
  <1>4. GrantsOK'
    <2> SUFFICES ASSUME NEW i \in Items, Giving(i) \subseteq Limited PROVE Backed(i, 0)'
      BY <1>1 DEF GrantsOK, Giving, Limited, HasLimit
    <2>1. Backed(i, 0) /\ Running(i)' = 0 /\ Owed(i)' = 0
      BY <1>1 DEF GrantsOK, Running, Owed, I!Idle, Idle
    <2>2. Held(i)' \in Int /\ Held(i)' <= Held(i) + Running(i)
      <3>1. CASE irows' = irows
        BY <3>1, Worths DEF Held
      <3>2. CASE iturn.pc = "await" /\ irows' = I!Changed(irows)
        BY <3>2, InventoryChanged, Worths
      <3> QED
        BY <1>1, <3>1, <3>2
    <2>3. RecordedWorth(i)' \in Nat /\ RecordedWorth(i)' >= RecordedWorth(i)
      <3>1. CASE prows' = prows
        BY <3>1, RecordsUnchanged, Worths
      <3>2. CASE sturn.pc = "record" /\ ~Conflict /\ prows' = Recording
        <4>1. PICK w \in Nat : RecordedWorth(i)' = RecordedWorth(i) + w
          <5>1. PICK k \in Nat, n \in Nat : k = RewardItemCount[sturn.prod] /\ n = sturn.count
            BY <3>2, TurnCounts, ShopAssumption, ComponentsAssumption
               DEF CInv, I!InventoryAssumption, Idle
          <5>2. k * n \in Nat
            OBVIOUS
          <5>3. RecordedWorth(i)' =
                   RecordedWorth(i) + IF RewardItemId[sturn.prod] = i THEN k * n ELSE 0
            BY <3>2, <5>1, RecordingAddsUp
          <5> QED
            BY <5>2, <5>3
        <4> QED
          BY <4>1, Worths
      <3> QED
        BY <1>1, <3>1, <3>2
    <2> QED
      BY <2>1, <2>2, <2>3, Worths DEF Backed
  <1> QED
    BY <1>2, <1>3, <1>4 DEF InventoryPart

-----------------------------------------------------------------------------
LEMMA InitPurchases == Init => SInv
  <1> SUFFICES ASSUME Init PROVE SInv
    OBVIOUS
  <1>1. CInv
    BY InitComponents
  <1>2. sturn = Idle /\ wturn = W!Idle /\ iturn = I!Idle /\ clean = TRUE /\ lost = 0
        /\ wreqs = {} /\ wreps = {} /\ ireqs = {} /\ ireps = {} /\ wtaken[Shop] = 0
    BY DEF Init, W!Init, I!Init
  <1>3. \A p \in Products : Purchased(p) = 0
    BY DEF Init, Purchased
  <1>4. ASSUME NEW k \in [Products -> Nat], NEW S \in SUBSET Products
        PROVE  SumFunctionOnSet([p \in Products |-> k[p] * Purchased(p)], S) = 0
    <2> DEFINE f == [p \in Products |-> k[p] * Purchased(p)]
    <2>1. \A p \in Products : f[p] = 0
      <3> SUFFICES ASSUME NEW p \in Products PROVE f[p] = 0
        OBVIOUS
      <3>1. k[p] * 0 = 0
        OBVIOUS
      <3> QED
        BY <1>3, <3>1
    <2>2. IsFiniteSet(S)
      BY ShopAssumption, FS_Subset
    <2> HIDE DEF f
    <2>3. SumFunctionOnSet(f, S) = 0
      BY <2>1, <2>2, SumOfZeros
    <2> QED
      BY <2>3 DEF f
  <1>5. RecordedPrice = 0 /\ \A i : RecordedWorth(i) = 0
    <2>1. Price \in [Products -> Nat] /\ RewardItemCount \in [Products -> Nat]
      BY ShopAssumption, ComponentsAssumption DEF I!InventoryAssumption
    <2> QED
      BY <1>4, <2>1 DEF RecordedPrice, RecordedWorth, Limited, Giving
  <1>6. WalletCallOK /\ InventoryCallOK /\ AnswerMeansHeld
    BY <1>2 DEF WalletCallOK, WalletRuns, InventoryCallOK, InventoryRuns, AnswerMeansHeld,
                I!Idle, Idle
  <1>7. PaidOK
    BY <1>2, <1>5 DEF PaidOK, Owing, Paid, Idle
  <1>8. GrantsOK
    BY <1>2, <1>5 DEF GrantsOK, Backed, Held, Running, Owed, Init, I!Init, I!Nothing, I!Idle, Idle
  <1> QED
    BY <1>1, <1>2, <1>6, <1>7, <1>8 DEF SInv, PInv, CleanOK

(* Only what sets "clean" to FALSE loses an acknowledgement. *)
LEMMA StepKeepsClean == CleanOK /\ [Next]_vars => CleanOK' /\ (clean' => clean)
  <1> SUFFICES ASSUME CleanOK, [Next]_vars PROVE CleanOK' /\ (clean' => clean)
    OBVIOUS
  <1>1. CASE Faults
    BY <1>1 DEF Faults, CleanOK
  <1>2. CASE ShopStep
    BY <1>2 DEF ShopStep, Continue, Begin, ReadLimit, Enough, Spent, Record, Recorded, Granted,
                CallWallet, CallInventory, W!Send, W!Receive, I!Send, I!Receive, CleanOK
  <1>3. CASE Components
    BY <1>3 DEF Components, CleanOK, W!Serve, W!Activate, W!Deactivate, W!Begin, W!Apply, W!Resume,
                I!Serve, I!Activate, I!Deactivate, I!Begin, I!Apply, I!Resume
  <1>4. CASE OtherCaller \/ UNCHANGED vars
    BY <1>4 DEF OtherCaller, W!Send, W!Receive, W!TimeOut, vars, CleanOK
  <1> QED
    BY <1>1, <1>2, <1>3, <1>4 DEF Next

LEMMA StepKeepsPurchases == SInv /\ [Next]_vars => SInv'
  <1> SUFFICES ASSUME SInv, [Next]_vars PROVE SInv'
    OBVIOUS
  <1> USE DEF SInv
  <1>1. CInv' /\ CleanOK' /\ (clean' => clean)
    BY StepKeepsComponents, StepKeepsClean DEF PInv
  <1>2. InventoryPart'
    <2>1. CASE \E m \in Purchase : Begin(m)
      <3>1. PICK m \in Purchase : Begin(m)
        BY <2>1
      <3>2. sturn.pc # "grant" /\ prows' = prows /\ UNCHANGED inventoryVars
            /\ sturn'.pc \notin {"recorded", "grant"}
        BY <3>1 DEF Begin, Idle, At
      <3> QED
        BY <1>1, <3>1, <3>2, BeginKeepsCall, ElsewhereKeepsGrants DEF InventoryPart, GrantPart
    <2>2. CASE ReadLimit \/ Enough
      <3>1. sturn \in Turn /\ sturn.pc # "grant" /\ sturn.pc # "recorded"
            /\ prows' = prows /\ UNCHANGED inventoryVars
        BY <2>2 DEF ReadLimit, Enough, PInv, CInv, LInv, LimitTyped, Idle
      <3>2. ASSUME NEW had, sturn' = [sturn EXCEPT !.pc = "isEnough", !.had = had]
            PROVE  sturn'.pc = "isEnough"
        BY <3>1, <3>2 DEF Turn
      <3>3. sturn' = [sturn EXCEPT !.pc = "spend"] => sturn'.pc = "spend"
        BY <3>1 DEF Turn
      <3>4. \/ sturn' = Idle
            \/ sturn' = [sturn EXCEPT !.pc = "spend"]
            \/ sturn' = [sturn EXCEPT !.pc = "isEnough", !.had = sturn.prod \in DOMAIN prows]
        BY <2>2 DEF ReadLimit, Enough, EndTurn
      <3>5. sturn'.pc \notin {"recorded", "grant"}
        <4>1. CASE sturn' = Idle
          BY <4>1 DEF Idle
        <4>2. CASE sturn' = [sturn EXCEPT !.pc = "spend"]
          BY <3>3, <4>2
        <4>3. CASE sturn' = [sturn EXCEPT !.pc = "isEnough", !.had = sturn.prod \in DOMAIN prows]
          <5>1. sturn'.pc = "isEnough"
            BY <3>2, <4>3
          <5> QED
            BY <5>1
        <4> QED
          BY <3>4, <4>1, <4>2, <4>3
      <3> QED
        BY <1>1, <2>2, <3>1, <3>5, ReadLimitKeepsCall, EnoughKeepsCall, ElsewhereKeepsGrants
           DEF InventoryPart, GrantPart
    <2>3. CASE Spent
      <3>1. sturn \in Turn /\ sturn # Idle /\ sturn.pc = "spend" /\ prows' = prows
        BY <2>3 DEF Spent, PInv, CInv, LInv, LimitTyped, Idle
      <3>2. WalletCallOK' /\ PaidOK'
        BY <2>3, SpentKeepsCall
      <3>3. CASE sturn' = [sturn EXCEPT !.pc = "record"] /\ UNCHANGED inventoryVars
        <4>1. sturn'.pc = "record"
          BY <3>1, <3>3 DEF Turn
        <4> QED
          BY <1>1, <3>1, <3>2, <3>3, <4>1, ElsewhereKeepsGrants DEF InventoryPart, GrantPart
      <3>4. CASE /\ ~HasLimit(sturn.prod) /\ sturn' = [sturn EXCEPT !.pc = "grant"]
                 /\ CallInventory(sturn.prod)
        BY <1>1, <3>1, <3>2, <3>4, AskKeepsGrants DEF InventoryPart, GrantPart
      <3>5. CASE EndTurn /\ UNCHANGED inventoryVars
        <4>1. sturn'.pc = "idle"
          BY <3>5 DEF EndTurn, Idle
        <4> QED
          BY <1>1, <3>1, <3>2, <3>5, <4>1, ElsewhereKeepsGrants DEF InventoryPart, GrantPart
      <3> QED
        BY <2>3, <3>3, <3>4, <3>5 DEF Spent
    <2>4. CASE Record \/ (StatementLost /\ clean' = FALSE)
      <3>1. /\ sturn.pc = "record" /\ ~Conflict /\ prows' = Recording
            /\ sturn' = Idle \/ sturn' = [sturn EXCEPT !.pc = "recorded"]
            /\ UNCHANGED <<walletVars, inventoryVars>> /\ (clean' => clean)
        BY <2>4 DEF Record, StatementLost, EndTurn
      <3> QED
        BY <3>1, RecordingKeepsCall, RecordingKeepsGrants
           DEF InventoryPart, GrantPart, walletVars, inventoryVars
    <2>5. CASE Recorded
      <3>1. sturn.pc = "recorded" /\ sturn # Idle /\ sturn \in Turn /\ prows' = prows
            /\ sturn' = [sturn EXCEPT !.pc = "grant"] /\ CallInventory(sturn.prod)
            /\ UNCHANGED <<walletVars, clean>> /\ HasLimit(sturn.prod)
        BY <2>5 DEF Recorded, PInv, CInv, LInv, LimitTyped, Fresh, Idle
      <3>2. GrantPart'
        BY <3>1, AskKeepsGrants
      <3>3. sturn'.pc = "grant" /\ sturn'.prod = sturn.prod
        BY <3>1 DEF Turn
      <3>4. Owing = 0 /\ Owing' = 0
        BY <3>1, <3>3 DEF Owing, Paid, HasLimit
      <3>5. ShopMoves /\ UNCHANGED walletVars
        BY <3>1 DEF ShopMoves, CallInventory, I!Send
      <3>6. PaidOK'
        BY <3>4, <3>5, ShopKeepsPaid DEF walletVars
      <3>7. WalletCallOK'
        BY <3>1, NoCallThen, QuietKeepsCall DEF NoCall, WalletRuns, walletVars, PInv
      <3> QED
        BY <3>2, <3>6, <3>7 DEF InventoryPart, GrantPart
    <2>6. CASE Granted
      BY <2>6, GrantedKeeps
    <2>7. CASE /\ W!Serve \/ (W!Fault /\ clean' = FALSE)
               /\ UNCHANGED <<inventoryVars, shopVars>>
      <3>1. Aside /\ UNCHANGED inventoryVars
        BY <1>1, <2>7 DEF Aside, inventoryVars, shopVars
      <3> QED
        BY <2>7, <3>1, WalletAloneKeepsCall, AsideKeepsGrants DEF InventoryPart, GrantPart
    <2>8. CASE /\ I!Serve \/ (I!Fault /\ clean' = FALSE)
               /\ UNCHANGED <<walletVars, shopVars>>
      BY <1>1, <2>8, InventoryAloneKeeps DEF Beside
    <2>9. CASE OtherCaller
      <3>1. PICK c \in Others : \/ \E m : m.from = c /\ W!Send(m)
                               \/ W!Receive(c) \/ W!TimeOut(c)
        <4>1. \A c, op, cur, amt : [from |-> c, op |-> op, cur |-> cur, amt |-> amt].from = c
          OBVIOUS
        <4> QED
          BY <2>9, <4>1 DEF OtherCaller
      <3>2. Aside /\ UNCHANGED inventoryVars
        BY <1>1, <2>9 DEF OtherCaller, Aside, inventoryVars, shopVars
      <3> QED
        BY <3>1, <3>2, OthersKeepCall, AsideKeepsGrants DEF InventoryPart, GrantPart
    <2>10. CASE (StatementFails \/ StatementAbandoned) /\ clean' = FALSE
      <3>1. /\ sturn.pc \in {"readLimit", "record"} /\ prows' = prows
            /\ sturn' = Idle \/ sturn' = [sturn EXCEPT !.pc = "abandoned"]
            /\ UNCHANGED <<walletVars, inventoryVars>>
        BY <2>10 DEF StatementFails, StatementAbandoned, EndTurn
      <3>2. sturn' = Idle \/ sturn'.pc = "abandoned"
        <4>1. sturn \in Turn
          BY <3>1 DEF PInv, CInv, LInv, LimitTyped, Idle
        <4> QED
          BY <3>1, <4>1 DEF Turn
      <3>3. WalletCallOK' /\ PaidOK'
        BY <2>10, <3>1, <3>2, FailureKeepsCall DEF inventoryVars
      <3>4. GrantPart'
        BY <2>10, <3>1, <3>2, ElsewhereKeepsGrants DEF Idle
      <3> QED
        BY <3>3, <3>4 DEF InventoryPart, GrantPart
    <2>11. CASE CallTimesOut /\ clean' = FALSE
      <3>1. CASE sturn.pc \in {"isEnough", "spend"} /\ W!TimeOut(Shop) /\ UNCHANGED inventoryVars
        <4>1. sturn' = Idle /\ prows' = prows
          BY <2>11 DEF CallTimesOut, EndTurn
        <4>2. WalletCallOK' /\ PaidOK'
          BY <2>11, <3>1, <4>1, FailureKeepsCall DEF inventoryVars
        <4>3. GrantPart'
          BY <2>11, <3>1, <4>1, ElsewhereKeepsGrants DEF Idle
        <4> QED
          BY <4>2, <4>3 DEF InventoryPart, GrantPart
      <3>2. CASE sturn.pc = "grant" /\ I!TimeOut(Shop) /\ UNCHANGED walletVars
        BY <2>11, <3>2, GrantTimesOutKeeps DEF CallTimesOut, EndTurn
      <3> QED
        BY <2>11, <3>1, <3>2 DEF CallTimesOut
    <2>12. CASE Crash /\ clean' = FALSE
      BY <2>12, CrashKeeps
    <2>13. CASE UNCHANGED vars
      <3>1. Aside /\ UNCHANGED <<walletVars, inventoryVars>>
        BY <2>13 DEF vars, Aside, inventoryVars, shopVars
      <3>2. WalletRuns' <=> WalletRuns
        BY <3>1 DEF WalletRuns, walletVars
      <3>3. NothingNew /\ (Paid' <=> Paid)
        BY <3>1, <3>2 DEF NothingNew, Paid, SpendAnswered, HasLimit, Aside, walletVars,
                          PInv, WalletCallOK
      <3>4. WalletCallOK' /\ PaidOK'
        BY <3>1, <3>3, NothingNewKeepsCall, AsideKeepsPaid DEF Aside, walletVars, PInv
      <3> QED
        BY <3>1, <3>4, AsideKeepsGrants DEF InventoryPart, GrantPart
    <2> QED
      BY <2>1, <2>2, <2>3, <2>4, <2>5, <2>6, <2>7, <2>8, <2>9, <2>10, <2>11, <2>12, <2>13
         DEF Next, ShopStep, Continue, Components, Faults, StatementFault, ComponentFails
  <1> QED
    BY <1>1, <1>2 DEF InventoryPart, PInv

-----------------------------------------------------------------------------
(* InternalPurchaseLimitAsync: purchase_count never exceeds LimitCount, for
   every table of products, interleaving, failure, timeout and crash.      *)
THEOREM ShopLimitRespected == Spec => []LimitRespected
  <1>1. LInv => LimitRespected
    BY DEF LInv
  <1> QED
    BY <1>1, InitLimit, StepKeepsLimit, PTL DEF Spec

(* The state of a purchase and of the grains it calls, and with it what the
   proofs need to know of products, counts and prices: every variable of the
   three grains stays in its type.                                         *)
THEOREM ShopTypeOK == Spec => []TypeOK
  <1>1. SInv => TypeOK
    BY WalletTyped, InventoryTyped
       DEF SInv, PInv, CInv, LInv, LimitTyped, CleanOK, TypeOK
  <1> QED
    BY <1>1, InitPurchases, StepKeepsPurchases, PTL DEF Spec

(* PurchaseProductAsync records a limited purchase before it grants the item
   and grants it at most once: whatever runs, fails, times out, crashes or
   goes on without its caller, of an item only limited products give the
   player holds no more than the limit rows are worth.                     *)
THEOREM ShopGrantsAreRecorded == Spec => []GrantsAreRecorded
  <1>1. SInv => GrantsAreRecorded
    <2> SUFFICES ASSUME SInv, NEW i \in Items, Giving(i) \subseteq Limited
                 PROVE  Held(i) <= RecordedWorth(i)
      BY DEF GrantsAreRecorded
    <2>1. Backed(i, 0)
      BY DEF SInv, GrantsOK
    <2> QED
      BY <2>1, Worths DEF SInv, PInv, Backed
  <1> QED
    BY <1>1, InitPurchases, StepKeepsPurchases, PTL DEF Spec

(* What the limit rows say was bought is covered by what the wallet's applied
   Spend statements took for the shop; and while nothing failed, timed out or
   crashed, a shop between two purchases has taken nothing else.           *)
THEOREM ShopRecordsArePaid == Spec => []RecordsArePaid
  <1>1. SInv => RecordsArePaid
    <2> SUFFICES ASSUME SInv PROVE RecordsArePaid
      OBVIOUS
    <2>1. RecordedPrice \in Nat /\ Owing \in Nat /\ wtaken[Shop] \in Nat /\ PaidOK
      BY Prices DEF SInv, PInv
    <2>2. sturn = Idle => Owing = 0
      BY DEF Owing, Paid, Idle
    <2> QED
      BY <2>1, <2>2 DEF RecordsArePaid, PaidOK
  <1> QED
    BY <1>1, InitPurchases, StepKeepsPurchases, PTL DEF Spec

=============================================================================
