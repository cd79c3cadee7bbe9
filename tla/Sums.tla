--------------------------------- MODULE Sums ---------------------------------
(***************************************************************************)
(* Facts about SumFunctionOnSet of the community modules, the sum that     *)
(* Quota states its balance sheet with: what a sum over a finite set is    *)
(* made of, and what becomes of it when one summand changes.               *)
(*                                                                         *)
(* The induction over the size of the set is done by hand, on the smallest *)
(* size for which a claim would fail.                                      *)
(***************************************************************************)
EXTENDS Integers, FiniteSets, Functions, FiniteSetTheorems,
        WellFoundedInduction, TLAPS

(* The element by which a sum over s goes on to a smaller set.             *)
Pick(s) == CHOOSE x \in s : TRUE

(* g is a table of the sums of f over the subsets of S.                    *)
IsTable(g, f, S) ==
  g = [s \in SUBSET S |-> IF s = {} THEN 0 ELSE f[Pick(s)] + g[s \ {Pick(s)}]]

(* A set of numbers that is not empty has a least element.                 *)
LEMMA LeastNumber ==
  ASSUME NEW N, N \subseteq Nat, N # {}
  PROVE  \E n \in N : \A m \in N : ~ (m < n)
<1>1. \E n \in N : \A m \in N : ~ (<<m, n>> \in OpToRel(<, Nat))
  BY NatLessThanWellFounded, WFMin
<1> QED
  BY <1>1 DEF OpToRel

(* Taking an element out of a finite set makes it smaller by one.          *)
LEMMA PickFacts ==
  ASSUME NEW s, IsFiniteSet(s), s # {}
  PROVE  /\ Pick(s) \in s
         /\ IsFiniteSet(s \ {Pick(s)})
         /\ Cardinality(s) \in Nat
         /\ Cardinality(s \ {Pick(s)}) \in Nat
         /\ Cardinality(s \ {Pick(s)}) = Cardinality(s) - 1
<1>1. Pick(s) \in s
  BY DEF Pick
<1> QED
  BY <1>1, FS_RemoveElement, FS_CardinalityType

(* The tables of sums exist: one that is right for the sets of up to n     *)
(* elements gives one that is right for the sets of up to n + 1.           *)
LEMMA TableExists ==
  ASSUME NEW f, NEW S, IsFiniteSet(S)
  PROVE  \E g : IsTable(g, f, S)
<1> DEFINE Step(g) ==
      [s \in SUBSET S |-> IF s = {} THEN 0 ELSE f[Pick(s)] + g[s \ {Pick(s)}]]
<1> DEFINE Upto(n) ==
      \E g : /\ g = [s \in SUBSET S |-> g[s]]
             /\ \A s \in SUBSET S : Cardinality(s) <= n => g[s] = Step(g)[s]
<1>f. \A s \in SUBSET S : IsFiniteSet(s) /\ Cardinality(s) \in Nat
  BY FS_Subset, FS_CardinalityType
<1>0. Upto(0)
  <2> DEFINE z == [s \in SUBSET S |-> 0]
  <2>1. \A s \in SUBSET S : Cardinality(s) <= 0 => s = {}
    BY <1>f, FS_EmptySet
  <2>2. \A s \in SUBSET S : Cardinality(s) <= 0 => z[s] = Step(z)[s]
    BY <2>1
  <2> QED
    BY <2>2
<1>1. ASSUME NEW n \in Nat, Upto(n) PROVE Upto(n + 1)
  <2>1. PICK g : \A s \in SUBSET S : Cardinality(s) <= n => g[s] = Step(g)[s]
    BY <1>1
  <2> DEFINE h == Step(g)
  <2>2. ASSUME NEW s \in SUBSET S, Cardinality(s) <= n + 1, s # {}
        PROVE  g[s \ {Pick(s)}] = h[s \ {Pick(s)}]
    <3>1. Cardinality(s \ {Pick(s)}) = Cardinality(s) - 1 /\ Cardinality(s) \in Nat
      BY <1>f, <2>2, PickFacts
    <3>2. Cardinality(s \ {Pick(s)}) <= n
      BY <2>2, <3>1
    <3>3. s \ {Pick(s)} \in SUBSET S
      OBVIOUS
    <3> HIDE DEF h
    <3> QED
      BY <2>1, <3>2, <3>3 DEF h
  <2>3. ASSUME NEW s \in SUBSET S, Cardinality(s) <= n + 1
        PROVE  h[s] = Step(h)[s]
    <3>1. CASE s = {}
      BY <3>1
    <3>2. CASE s # {}
      BY <2>2, <2>3, <3>2
    <3> QED
      BY <3>1, <3>2
  <2> QED
    BY <2>3
<1> HIDE DEF Upto
<1>2. \A n \in Nat : Upto(n)
  <2> DEFINE N == {n \in Nat : ~ Upto(n)}
  <2>1. SUFFICES ASSUME N # {} PROVE FALSE
    OBVIOUS
  <2>2. PICK n \in N : \A m \in N : ~ (m < n)
    BY <2>1, LeastNumber
  <2>3. n # 0
    BY <1>0
  <2>4. n - 1 \in Nat /\ n - 1 \notin N
    BY <2>2, <2>3
  <2>5. Upto((n - 1) + 1)
    BY <1>1, <2>4
  <2>6. (n - 1) + 1 = n
    OBVIOUS
  <2> QED
    BY <2>5, <2>6
<1>3. Cardinality(S) \in Nat
  BY FS_CardinalityType
<1>4. PICK g : /\ g = [s \in SUBSET S |-> g[s]]
               /\ \A s \in SUBSET S : Cardinality(s) <= Cardinality(S) => g[s] = Step(g)[s]
  BY <1>2, <1>3 DEF Upto
<1>5. \A s \in SUBSET S : Cardinality(s) <= Cardinality(S)
  BY FS_Subset
<1>6. g = Step(g)
  BY <1>4, <1>5
<1> QED
  BY <1>6 DEF IsTable

(* A sum is an entry of a table of sums.                                   *)
LEMMA SumFromTable ==
  ASSUME NEW f, NEW S, IsFiniteSet(S)
  PROVE  \E g : IsTable(g, f, S) /\ SumFunctionOnSet(f, S) = g[S]
<1>1. SumFunctionOnSet(f, S) = (CHOOSE g : IsTable(g, f, S))[S]
  BY DEF SumFunctionOnSet, FoldFunctionOnSet, MapThenFoldSet, IsTable, Pick
<1>2. \E g : IsTable(g, f, S)
  BY TableExists
<1>3. IsTable(CHOOSE g : IsTable(g, f, S), f, S)
  BY <1>2
<1> QED
  BY <1>1, <1>3

(* Two tables whose functions differ in the summand j at most: the sums    *)
(* that contain j differ by what that summand changed, the others do not.  *)
LEMMA TablesDiffer ==
  ASSUME NEW S, IsFiniteSet(S), NEW j,
         NEW f, \A x \in S : f[x] \in Int,
         NEW h, \A x \in S : h[x] \in Int,
         \A x \in S \ {j} : h[x] = f[x],
         NEW F, IsTable(F, f, S),
         NEW H, IsTable(H, h, S)
  PROVE  \A s \in SUBSET S :
            /\ F[s] \in Int
            /\ H[s] = F[s] + IF j \in s THEN h[j] - f[j] ELSE 0
<1> DEFINE Right(s) ==
      /\ F[s] \in Int
      /\ H[s] = F[s] + IF j \in s THEN h[j] - f[j] ELSE 0
<1> DEFINE Wrong == {s \in SUBSET S : ~ Right(s)}
<1> DEFINE N == {Cardinality(s) : s \in Wrong}
<1>f. \A s \in SUBSET S : IsFiniteSet(s) /\ Cardinality(s) \in Nat
  BY FS_Subset, FS_CardinalityType
<1>1. SUFFICES ASSUME N # {} PROVE FALSE
  OBVIOUS
<1>2. PICK n \in N : \A m \in N : ~ (m < n)
  BY <1>f, <1>1, LeastNumber
<1>3. PICK s \in SUBSET S : ~ Right(s) /\ Cardinality(s) = n
  BY <1>2
<1>4. CASE s = {}
  <2>1. F[s] = 0 /\ H[s] = 0
    BY <1>4 DEF IsTable
  <2> QED
    BY <1>3, <1>4, <2>1
<1>5. CASE s # {}
  <2> DEFINE c == Pick(s)
  <2> DEFINE t == s \ {c}
  <2>1. /\ c \in s
        /\ Cardinality(s) \in Nat
        /\ Cardinality(t) \in Nat
        /\ Cardinality(t) = Cardinality(s) - 1
    BY <1>5, <1>f, PickFacts
  <2>2. Cardinality(t) < n
    BY <1>3, <2>1
  <2>3. t \in SUBSET S /\ c \in S
    BY <2>1
  <2>4. Right(t)
    BY <1>2, <2>2, <2>3
  <2>5. F[s] = f[c] + F[t] /\ H[s] = h[c] + H[t]
    BY <1>5 DEF IsTable
  <2>6. f[c] \in Int /\ h[c] \in Int
    BY <2>3
  <2>7. c # j => h[c] = f[c]
    BY <2>3
  <2>8. j \in s <=> (j = c \/ j \in t)
    BY <2>1
  <2>9. j = c => j \notin t
    OBVIOUS
  <2>10. j \in t => f[j] \in Int /\ h[j] \in Int
    BY <2>3
  <2> HIDE DEF c, t
  <2>11. CASE j = c
    BY <1>3, <2>4, <2>5, <2>6, <2>8, <2>9, <2>11
  <2>12. CASE j # c /\ j \in t
    BY <1>3, <2>4, <2>5, <2>6, <2>7, <2>8, <2>10, <2>12
  <2>13. CASE j # c /\ j \notin t
    BY <1>3, <2>4, <2>5, <2>6, <2>7, <2>8, <2>13
  <2> QED
    BY <2>11, <2>12, <2>13
<1> QED
  BY <1>4, <1>5

(* The sum of a finite set of integers is an integer, and when the summand *)
(* j changes, the sum changes by as much, provided j is summed at all.     *)
THEOREM SumOfChanged ==
  ASSUME NEW S, IsFiniteSet(S), NEW j,
         NEW f, \A x \in S : f[x] \in Int,
         NEW h, \A x \in S : h[x] \in Int,
         \A x \in S \ {j} : h[x] = f[x]
  PROVE  /\ SumFunctionOnSet(f, S) \in Int
         /\ SumFunctionOnSet(h, S) =
              SumFunctionOnSet(f, S) + IF j \in S THEN h[j] - f[j] ELSE 0
<1>1. PICK F : IsTable(F, f, S) /\ SumFunctionOnSet(f, S) = F[S]
  BY SumFromTable
<1>2. PICK H : IsTable(H, h, S) /\ SumFunctionOnSet(h, S) = H[S]
  BY SumFromTable
<1>3. \A s \in SUBSET S :
         /\ F[s] \in Int
         /\ H[s] = F[s] + IF j \in s THEN h[j] - f[j] ELSE 0
  BY <1>1, <1>2, TablesDiffer
<1>4. S \in SUBSET S
  OBVIOUS
<1> QED
  BY <1>1, <1>2, <1>3, <1>4

(* A sum of zeros is zero.                                                 *)
THEOREM SumOfZeros ==
  ASSUME NEW S, IsFiniteSet(S), NEW f, \A x \in S : f[x] = 0
  PROVE  SumFunctionOnSet(f, S) = 0
<1>1. PICK F : IsTable(F, f, S) /\ SumFunctionOnSet(f, S) = F[S]
  BY SumFromTable
<1> DEFINE N == {n \in Nat : \E s \in SUBSET S : Cardinality(s) = n /\ F[s] # 0}
<1>f. \A s \in SUBSET S : IsFiniteSet(s) /\ Cardinality(s) \in Nat
  BY FS_Subset, FS_CardinalityType
<1>2. SUFFICES ASSUME F[S] # 0 PROVE FALSE
  BY <1>1
<1>3. Cardinality(S) \in N
  BY <1>f, <1>2
<1>4. PICK n \in N : \A m \in N : ~ (m < n)
  BY <1>3, LeastNumber
<1>5. PICK s \in SUBSET S : Cardinality(s) = n /\ F[s] # 0
  BY <1>4
<1>6. s # {}
  BY <1>1, <1>5 DEF IsTable
<1>7. /\ Pick(s) \in s
      /\ Cardinality(s \ {Pick(s)}) \in Nat
      /\ Cardinality(s \ {Pick(s)}) = n - 1
  BY <1>5, <1>6, <1>f, PickFacts
<1>8. F[s \ {Pick(s)}] = 0
  BY <1>4, <1>7
<1>9. F[s] = f[Pick(s)] + F[s \ {Pick(s)}]
  BY <1>1, <1>6 DEF IsTable
<1>10. f[Pick(s)] = 0
  BY <1>7
<1> QED
  BY <1>5, <1>8, <1>9, <1>10
===============================================================================
