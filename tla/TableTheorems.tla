--------------------------- MODULE TableTheorems ----------------------------
(***************************************************************************)
(* Facts about the operators of Tables: what Put and Erase do to a table   *)
(* of amounts and to its total, and what the next key is; and what it      *)
(* takes to reason about a fold over a sequence.                           *)
(*                                                                         *)
(* Induction over the natural numbers is LeastNatural: a set of            *)
(* counterexamples, if it is not empty, has a least element.               *)
(***************************************************************************)
EXTENDS Tables, FiniteSetsExt, FiniteSetTheorems, WellFoundedInduction, TLAPS

\* A finite table of natural numbers, the only kind Total is used on.
Summable(rows) == IsFiniteSet(DOMAIN rows) /\ rows \in [DOMAIN rows -> Nat]

\* The units of every row but k's.
UnitsApartFrom(rows, k) == {u \in Units(rows) : u[1] # k}

(* Units is finite: one finite block of units per row. *)
LEMMA UnitsFinite ==
  ASSUME NEW rows, Summable(rows)
  PROVE  IsFiniteSet(Units(rows))
<1> DEFINE block == [k \in DOMAIN rows |-> {k} \X (1..rows[k])]
           blocks == {block[k] : k \in DOMAIN rows}
<1>1. block \in Surjection(DOMAIN rows, blocks)
  BY DEF Surjection
<1>2. IsFiniteSet(blocks)
  BY <1>1, FS_Surjection DEF Summable
<1>3. ASSUME NEW k \in DOMAIN rows PROVE IsFiniteSet(block[k])
  <2>1. IsFiniteSet({k}) /\ IsFiniteSet(1..rows[k])
    BY FS_Singleton, FS_Interval DEF Summable
  <2> QED BY <2>1, FS_Product
<1>4. IsFiniteSet(UNION blocks)
  <2>1. \A T \in blocks : IsFiniteSet(T)
    BY <1>3
  <2> HIDE DEF blocks
  <2> QED BY <1>2, <2>1, FS_UNION
<1>5. Units(rows) = UNION blocks
  BY DEF Units
<1> QED BY <1>4, <1>5

(* A total is the units under one key and the units elsewhere. *)
LEMMA TotalSplit ==
  ASSUME NEW rows, Summable(rows), NEW k
  PROVE  /\ At(rows, k) \in Nat
         /\ Cardinality(UnitsApartFrom(rows, k)) \in Nat
         /\ Total(rows) = Cardinality(UnitsApartFrom(rows, k)) + At(rows, k)
<1> DEFINE mine == {k} \X (1..At(rows, k))
           rest == UnitsApartFrom(rows, k)
<1>1. At(rows, k) \in Nat
  BY DEF At, Summable
<1>2. IsFiniteSet(rest) /\ Cardinality(rest) \in Nat
  <2>1. rest \in SUBSET Units(rows)
    BY DEF UnitsApartFrom
  <2> QED BY <2>1, UnitsFinite, FS_Subset, FS_CardinalityType
<1>3. IsFiniteSet(mine) /\ Cardinality(mine) = At(rows, k)
  <2>1. IsFiniteSet({k}) /\ Cardinality({k}) = 1
    BY FS_Singleton
  <2>2. IsFiniteSet(1..At(rows, k)) /\ Cardinality(1..At(rows, k)) = At(rows, k)
    BY <1>1, FS_Interval
  <2>3. /\ IsFiniteSet(mine)
        /\ Cardinality(mine) = Cardinality({k}) * Cardinality(1..At(rows, k))
    BY <2>1, <2>2, FS_Product
  <2> QED BY <1>1, <2>1, <2>2, <2>3
<1>4. rest \cap mine = {}
  BY DEF UnitsApartFrom
<1>5. Units(rows) = rest \cup mine
  BY DEF Units, UnitsApartFrom, At
<1>6. Cardinality(rest \cup mine) = Cardinality(rest) + Cardinality(mine) - Cardinality({})
  <2> HIDE DEF rest, mine
  <2> QED BY <1>2, <1>3, <1>4, FS_Union
<1>7. Cardinality({}) = 0
  BY FS_EmptySet
<1> QED BY <1>1, <1>2, <1>3, <1>5, <1>6, <1>7 DEF Total

(* Every amount in a table is at most the table's total. *)
LEMMA RowWithinTotal ==
  ASSUME NEW rows, Summable(rows), NEW k
  PROVE  At(rows, k) <= Total(rows) /\ Total(rows) \in Nat
BY TotalSplit

(* Storing an amount changes the total by the difference it makes. *)
LEMMA TotalPut ==
  ASSUME NEW rows, Summable(rows), NEW k, NEW n \in Nat
  PROVE  /\ Summable(Put(rows, k, n))
         /\ Total(Put(rows, k, n)) = Total(rows) - At(rows, k) + n
<1>1. Summable(Put(rows, k, n))
  <2>1. IsFiniteSet(DOMAIN rows \cup {k})
    BY FS_AddElement DEF Summable
  <2>2. DOMAIN Put(rows, k, n) = DOMAIN rows \cup {k}
    BY DEF Put
  <2>3. Put(rows, k, n) \in [DOMAIN rows \cup {k} -> Nat]
    BY DEF Put, Summable
  <2> QED BY <2>1, <2>2, <2>3 DEF Summable
<1>2. At(Put(rows, k, n), k) = n
  BY DEF Put, At
<1>3. UnitsApartFrom(Put(rows, k, n), k) = UnitsApartFrom(rows, k)
  BY DEF UnitsApartFrom, Units, Put
<1> QED BY <1>1, <1>2, <1>3, TotalSplit

(* Erasing a row takes its amount out of the total. *)
LEMMA TotalErase ==
  ASSUME NEW rows, Summable(rows), NEW k
  PROVE  /\ Summable(Erase(rows, k))
         /\ Total(Erase(rows, k)) = Total(rows) - At(rows, k)
<1>1. Summable(Erase(rows, k))
  <2>1. IsFiniteSet(DOMAIN rows \ {k})
    BY FS_RemoveElement DEF Summable
  <2>2. DOMAIN Erase(rows, k) = DOMAIN rows \ {k}
    BY DEF Erase, Restrict
  <2>3. Erase(rows, k) \in [DOMAIN rows \ {k} -> Nat]
    BY DEF Erase, Restrict, Summable
  <2> QED BY <2>1, <2>2, <2>3 DEF Summable
<1>2. At(Erase(rows, k), k) = 0
  BY DEF Erase, Restrict, At
<1>3. UnitsApartFrom(Erase(rows, k), k) = UnitsApartFrom(rows, k)
  BY DEF UnitsApartFrom, Units, Erase, Restrict
<1> QED BY <1>1, <1>2, <1>3, TotalSplit

(* Two different rows together are at most the total. *)
LEMMA TwoRowsWithinTotal ==
  ASSUME NEW rows, Summable(rows), NEW a, NEW b, a # b
  PROVE  At(rows, a) + At(rows, b) <= Total(rows)
<1>1. Summable(Erase(rows, a)) /\ Total(Erase(rows, a)) = Total(rows) - At(rows, a)
  BY TotalErase
<1>2. At(Erase(rows, a), b) = At(rows, b)
  BY DEF At, Erase, Restrict
<1>3. At(Erase(rows, a), b) <= Total(Erase(rows, a))
  BY <1>1, RowWithinTotal
<1> QED BY <1>1, <1>2, <1>3, TotalSplit, RowWithinTotal

(* Storing and erasing rows keep a table's types. *)
LEMMA PutTyped ==
  ASSUME NEW K, NEW V, NEW rows, IsTable(rows, K, V), NEW k \in K, NEW v \in V
  PROVE  /\ IsTable(Put(rows, k, v), K, V)
         /\ DOMAIN Put(rows, k, v) = DOMAIN rows \cup {k}
         /\ Put(rows, k, v)[k] = v
         /\ \A x \in DOMAIN rows : x # k => Put(rows, k, v)[x] = rows[x]
BY DEF IsTable, Put

LEMMA EraseTyped ==
  ASSUME NEW K, NEW V, NEW rows, IsTable(rows, K, V), NEW k
  PROVE  /\ IsTable(Erase(rows, k), K, V)
         /\ DOMAIN Erase(rows, k) = DOMAIN rows \ {k}
         /\ \A x \in DOMAIN rows \ {k} : Erase(rows, k)[x] = rows[x]
BY DEF IsTable, Erase, Restrict

(* Looking up an amount after a row was stored or erased. *)
LEMMA AtPut ==
  ASSUME NEW rows, NEW k, NEW n
  PROVE  At(Put(rows, k, n), k) = n /\ \A x : x # k => At(Put(rows, k, n), x) = At(rows, x)
BY DEF At, Put

LEMMA AtErase ==
  ASSUME NEW rows, NEW k
  PROVE  At(Erase(rows, k), k) = 0 /\ \A x : x # k => At(Erase(rows, k), x) = At(rows, x)
BY DEF At, Erase, Restrict

(* A part of a table adds up to no more than the table. *)
LEMMA TotalRestrict ==
  ASSUME NEW rows, Summable(rows), NEW S \in SUBSET DOMAIN rows
  PROVE  Summable(Restrict(rows, S)) /\ Total(Restrict(rows, S)) <= Total(rows)
<1>1. IsFiniteSet(S)
  BY FS_Subset DEF Summable
<1>2. DOMAIN Restrict(rows, S) = S /\ Restrict(rows, S) \in [S -> Nat]
  BY DEF Restrict, Summable
<1>3. Units(Restrict(rows, S)) \in SUBSET Units(rows)
  BY DEF Units, Restrict
<1>4. Total(Restrict(rows, S)) <= Total(rows)
  BY <1>3, UnitsFinite, FS_Subset DEF Total
<1> QED BY <1>1, <1>2, <1>4 DEF Summable

(* An empty table adds up to nothing. *)
LEMMA TotalNoRows == Summable(NoRows) /\ Total(NoRows) = 0
<1>1. DOMAIN NoRows = {} /\ Units(NoRows) = {}
  BY DEF NoRows, Units
<1>2. NoRows \in [{} -> Nat]
  BY DEF NoRows
<1> QED BY <1>1, <1>2, FS_EmptySet DEF Total, Summable

----------------------------------------------------------------------------
(* Keys. *)

(* Every set of natural numbers that is not empty has a least element. *)
LEMMA LeastNatural ==
  ASSUME NEW T, T \subseteq Nat, T # {}
  PROVE  \E n \in T : \A m \in T : n <= m
<1>1. PICK n \in T : \A m \in T : ~(<<m, n>> \in OpToRel(<, Nat))
  BY NatLessThanWellFounded, WFMin DEF OpToRel
<1>2. \A m \in T : ~(m < n)
  BY <1>1 DEF OpToRel
<1> QED BY <1>2

(* Min and Max are the least and the greatest element. *)
LEMMA MinIsLeast ==
  ASSUME NEW T, T \subseteq Nat, T # {}
  PROVE  /\ Min(T) \in T
         /\ \A m \in T : Min(T) <= m
BY LeastNatural DEF Min

(***************************************************************************)
(* Of the numbers greater than every key the next key is the least, so it  *)
(* is zero or comes after a key in use.                                    *)
(***************************************************************************)
LEMMA NextKeyFresh ==
  ASSUME NEW rows, NEW n \in Nat, DOMAIN rows \subseteq 0..n
  PROVE  /\ NextKey(rows) \in 0..n + 1
         /\ \A j \in DOMAIN rows : j < NextKey(rows)
         /\ NextKey(rows) = 0 \/ NextKey(rows) - 1 \in DOMAIN rows
<1> DEFINE above == {k \in Nat : \A j \in DOMAIN rows : j < k}
           candidates == {0} \cup {j + 1 : j \in DOMAIN rows}
<1>1. n + 1 \in above
  OBVIOUS
<1>2. PICK k \in above : \A m \in above : k <= m
  <2>1. above \subseteq Nat /\ above # {}
    BY <1>1
  <2> HIDE DEF above
  <2> QED BY <2>1, LeastNatural
<1>3. k \in candidates
  <2>1. CASE k = 0
    BY <2>1
  <2>2. CASE k # 0
    <3>1. k - 1 \in Nat /\ k - 1 \notin above
      BY <1>2, <2>2
    <3>2. PICK j \in DOMAIN rows : ~(j < k - 1)
      BY <3>1
    <3>3. j < k /\ j \in Nat
      BY <1>2
    <3> QED BY <3>1, <3>2, <3>3
  <2> QED BY <2>1, <2>2
<1>4. NextKey(rows) \in candidates /\ \A j \in DOMAIN rows : j < NextKey(rows)
  BY <1>2, <1>3 DEF NextKey
<1> QED BY <1>4

(* When the keys are the first n numbers the next key is the number after. *)
LEMMA NextKeyOfInterval ==
  ASSUME NEW rows, NEW n \in Nat, DOMAIN rows = 1..n
  PROVE  NextKey(rows) = IF n = 0 THEN 0 ELSE n + 1
<1>1. /\ NextKey(rows) \in 0..n + 1
      /\ \A j \in DOMAIN rows : j < NextKey(rows)
      /\ NextKey(rows) = 0 \/ NextKey(rows) - 1 \in DOMAIN rows
  BY NextKeyFresh
<1>2. CASE n = 0
  BY <1>1, <1>2
<1>3. CASE n # 0
  <2>1. n \in DOMAIN rows
    BY <1>3
  <2> QED BY <1>1, <1>3, <2>1
<1> QED BY <1>2, <1>3
----------------------------------------------------------------------------
(***************************************************************************)
(* Folds over sequences.  FoldLeft unfolds to a recursion over the sets of *)
(* positions, which takes the greatest position away from each; its value  *)
(* is the one for all positions.  FoldUnfolds is why that recursion has a  *)
(* solution, and StaysIn an induction along it.                            *)
(***************************************************************************)

(* The greatest of the first n numbers is n. *)
LEMMA MaxOfInterval ==
  ASSUME NEW n \in Nat, n # 0
  PROVE  Max(1..n) = n /\ (1..n) \ {n} = 1..(n - 1)
BY DEF Max

(* The positions up to one, and those before it. *)
LEMMA PrefixOfFold ==
  ASSUME NEW n \in Nat, NEW i \in 1..n
  PROVE  /\ 1..i \in SUBSET (1..n) /\ 1..i # {}
         /\ Max(1..i) = i /\ (1..i) \ {Max(1..i)} = 1..(i - 1)
<1>1. i \in Nat /\ i # 0 /\ i \in 1..i /\ \A j \in 1..i : j \in 1..n
  OBVIOUS
<1> QED BY <1>1, MaxOfInterval

(* Without its greatest element a set of the first n + 1 numbers is one of the first n. *)
LEMMA WithoutMax ==
  ASSUME NEW n \in Nat, NEW s \in SUBSET (1..(n + 1)), s # {}
  PROVE  Max(s) \in s /\ s \ {Max(s)} \in SUBSET (1..n)
<1> DEFINE above == {k \in Nat : \A j \in s : j <= k}
<1>1. n + 1 \in above
  OBVIOUS
<1>2. PICK k \in above : \A m \in above : k <= m
  <2>1. above \subseteq Nat /\ above # {}
    BY <1>1
  <2> HIDE DEF above
  <2> QED BY <2>1, LeastNatural
<1>3. k \in s
  <2>1. k # 0
    <3>1. PICK j \in s : TRUE
      OBVIOUS
    <3>2. j \in 1..(n + 1) /\ j <= k
      BY <1>2
    <3> QED BY <3>2
  <2>2. k - 1 \in Nat /\ k - 1 \notin above
    BY <1>2, <2>1
  <2> QED BY <1>2, <2>2
<1>4. Max(s) \in s /\ \A j \in s : j <= Max(s)
  BY <1>2, <1>3 DEF Max
<1>5. ASSUME NEW j \in s \ {Max(s)} PROVE j \in 1..n
  <2>1. j \in 1..(n + 1) /\ Max(s) \in 1..(n + 1) /\ j <= Max(s) /\ j # Max(s)
    BY <1>4
  <2> QED BY <2>1
<1> QED BY <1>4, <1>5

\* What a fold makes of the elements at the positions of each set of them.
FoldStep(f, s, base, F, seq) ==
  IF s = {} THEN base ELSE F[<<f[s \ {Max(s)}], seq[Max(s)]>>]

IsFold(f, R, base, F, n, seq) ==
  /\ f \in [SUBSET (1..n) -> R]
  /\ \A s \in SUBSET (1..n) : f[s] = FoldStep(f, s, base, F, seq)

(* The recursion has a solution, and its values are those of the function folded. *)
LEMMA FoldSolved ==
  ASSUME NEW R, NEW E, NEW base \in R, NEW F \in [R \X E -> R],
         NEW n \in Nat, NEW seq \in [1..n -> E]
  PROVE  \E f : IsFold(f, R, base, F, n, seq)
<1> DEFINE Solves(f, m) == /\ f \in [SUBSET (1..m) -> R]
                           /\ \A s \in SUBSET (1..m) : f[s] = FoldStep(f, s, base, F, seq)
           Solved(m) == \E f : Solves(f, m)
           unsolved == {m \in 0..n : ~Solved(m)}
<1>1. Solved(0)
  <2> DEFINE g == [s \in SUBSET (1..0) |-> base]
  <2>1. ASSUME NEW s \in SUBSET (1..0) PROVE s = {} /\ g[s] = FoldStep(g, s, base, F, seq)
    <3>1. s = {}
      OBVIOUS
    <3>2. g[s] = base
      OBVIOUS
    <3> QED BY <3>1, <3>2 DEF FoldStep
  <2>2. g \in [SUBSET (1..0) -> R]
    OBVIOUS
  <2>3. Solves(g, 0)
    BY <2>1, <2>2
  <2> HIDE DEF Solves, g
  <2> QED BY <2>3
<1>2. ASSUME NEW m \in 0..(n - 1), Solved(m) PROVE Solved(m + 1)
  <2>1. PICK f : Solves(f, m)
    BY <1>2
  <2> DEFINE g == [s \in SUBSET (1..(m + 1)) |-> FoldStep(f, s, base, F, seq)]
  <2>2. ASSUME NEW s \in SUBSET (1..m) PROVE g[s] = f[s]
    BY <2>1
  <2>3. ASSUME NEW s \in SUBSET (1..(m + 1))
        PROVE  FoldStep(g, s, base, F, seq) = FoldStep(f, s, base, F, seq)
    <3>1. CASE s = {}
      BY <3>1 DEF FoldStep
    <3>2. CASE s # {}
      <4>1. s \ {Max(s)} \in SUBSET (1..m)
        <5>1. m \in Nat
          OBVIOUS
        <5> QED BY <3>2, <5>1, WithoutMax
      <4>2. g[s \ {Max(s)}] = f[s \ {Max(s)}]
        BY <2>2, <4>1
      <4> QED BY <4>2 DEF FoldStep
    <3> QED BY <3>1, <3>2
  <2>4. ASSUME NEW s \in SUBSET (1..(m + 1)) PROVE FoldStep(f, s, base, F, seq) \in R
    <3>1. CASE s = {}
      BY <3>1 DEF FoldStep
    <3>2. CASE s # {}
      <4>1. Max(s) \in 1..(m + 1) /\ s \ {Max(s)} \in SUBSET (1..m)
        <5>1. m \in Nat
          OBVIOUS
        <5> QED BY <3>2, <5>1, WithoutMax
      <4>2. Max(s) \in 1..n
        BY <4>1
      <4>3. f[s \ {Max(s)}] \in R /\ seq[Max(s)] \in E
        BY <2>1, <4>1, <4>2
      <4> QED BY <3>2, <4>3 DEF FoldStep
    <3> QED BY <3>1, <3>2
  <2>5. Solves(g, m + 1)
    BY <2>3, <2>4
  <2> HIDE DEF Solves, g
  <2> QED BY <2>5
<1> HIDE DEF Solved
<1>3. unsolved = {}
  <2> SUFFICES ASSUME unsolved # {} PROVE FALSE
    OBVIOUS
  <2>1. PICK m \in unsolved : \A k \in unsolved : m <= k
    <3>1. unsolved \subseteq Nat
      OBVIOUS
    <3> HIDE DEF unsolved
    <3> QED BY <3>1, LeastNatural
  <2>2. m # 0
    BY <1>1
  <2>3. m - 1 \in 0..(n - 1) /\ Solved(m - 1)
    BY <2>1, <2>2
  <2>4. Solved((m - 1) + 1)
    BY <1>2, <2>3
  <2>5. (m - 1) + 1 = m
    BY <2>1
  <2> QED BY <2>1, <2>4, <2>5
<1>4. Solved(n)
  BY <1>3
<1> QED BY <1>4 DEF Solved, IsFold

\* The recursion, element by element.
Unfolds(f, R, E, base, F, n, seq) ==
  /\ f = [s \in SUBSET (1..n) |-> f[s]]
  /\ f[{}] = base
  /\ \A s \in SUBSET (1..n) : s # {} =>
       /\ f[s \ {Max(s)}] \in R /\ seq[Max(s)] \in E
       /\ f[s] = F[<<f[s \ {Max(s)}], seq[Max(s)]>>]

LEMMA FoldUnfolds ==
  ASSUME NEW R, NEW E, NEW base \in R, NEW F \in [R \X E -> R],
         NEW n \in Nat, NEW seq \in [1..n -> E]
  PROVE  \E f : Unfolds(f, R, E, base, F, n, seq)
<1> PICK f : IsFold(f, R, base, F, n, seq)
  BY FoldSolved
<1>1. f[{}] = base /\ f = [s \in SUBSET (1..n) |-> f[s]]
  BY DEF IsFold, FoldStep
<1>2. ASSUME NEW s \in SUBSET (1..n), s # {}
      PROVE  /\ f[s \ {Max(s)}] \in R /\ seq[Max(s)] \in E
             /\ f[s] = F[<<f[s \ {Max(s)}], seq[Max(s)]>>]
  <2>1. s \in SUBSET (1..(n + 1))
    OBVIOUS
  <2>2. Max(s) \in 1..n /\ s \ {Max(s)} \in SUBSET (1..n)
    BY <1>2, <2>1, WithoutMax
  <2>3. f[s] = F[<<f[s \ {Max(s)}], seq[Max(s)]>>]
    BY <1>2 DEF IsFold, FoldStep
  <2> QED BY <2>2, <2>3 DEF IsFold
<1>3. Unfolds(f, R, E, base, F, n, seq)
  BY <1>1, <1>2 DEF Unfolds
<1> QED BY <1>3

(* What holds at the start of a fold and is kept by each element holds at its end. *)
LEMMA StaysIn ==
  ASSUME NEW R, NEW f, NEW n \in Nat, f[{}] \in R,
         \A i \in 1..n : f[1..(i - 1)] \in R => f[1..i] \in R
  PROVE  f[1..n] \in R
<1> DEFINE outside == {i \in 0..n : f[1..i] \notin R}
<1>1. 0 \notin outside
  <2>1. 1..0 = {}
    OBVIOUS
  <2> QED BY <2>1
<1>2. outside = {}
  <2> SUFFICES ASSUME outside # {} PROVE FALSE
    OBVIOUS
  <2>1. PICK i \in outside : \A k \in outside : i <= k
    <3>1. outside \subseteq Nat
      OBVIOUS
    <3> HIDE DEF outside
    <3> QED BY <3>1, LeastNatural
  <2>2. i \in 1..n /\ i - 1 \in 0..n /\ i - 1 \notin outside
    BY <1>1, <2>1
  <2> QED BY <2>1, <2>2
<1> QED BY <1>2

(* What holds of zero and, with each number, of the next one holds up to n. *)
LEMMA ReachedAll ==
  ASSUME NEW good, NEW n \in Nat, 0 \in good, \A i \in 1..n : i - 1 \in good => i \in good
  PROVE  \A i \in 0..n : i \in good
<1> DEFINE missing == {i \in 0..n : i \notin good}
<1>1. missing = {}
  <2> SUFFICES ASSUME missing # {} PROVE FALSE
    OBVIOUS
  <2>1. PICK i \in missing : \A k \in missing : i <= k
    <3>1. missing \subseteq Nat
      OBVIOUS
    <3> HIDE DEF missing
    <3> QED BY <3>1, LeastNatural
  <2>2. i \in 1..n /\ i - 1 \in 0..n /\ i - 1 \notin missing
    BY <2>1
  <2> QED BY <2>1, <2>2
<1> QED BY <1>1
=============================================================================
