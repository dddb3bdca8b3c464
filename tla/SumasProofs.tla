----------------------------- MODULE SumasProofs -----------------------------
(* What the sum of a function over a finite set is.  Stock, ledgers and       *)
(* balances are sums in the models (SumFunction of the community module       *)
(* Functions), and their proofs need how a sum changes when one element does. *)
(* SumFunctionOnSet is a recursive function over the subsets of a set; the    *)
(* lemmas below derive its equation and its facts from the least-element      *)
(* principle of the naturals, by induction over sets of sets and of numbers.  *)
EXTENDS Integers, Functions, FiniteSetTheorems, TLAPS

----------------------------------------------------------------------------
(* Induction.                                                                 *)

(* Every non-empty set of naturals has a least element. *)
LEMMA Minimo ==
  ASSUME NEW T \in SUBSET Nat, T # {}
  PROVE  \E n \in T : \A m \in T : n <= m
<1> DEFINE R == OpToRel(<, Nat)
<1>1. IsWellFoundedOn(R, Nat)
  BY NatLessThanWellFounded
<1>2. \A a \in Nat, b \in Nat : a < b => <<a, b>> \in R
  BY DEF OpToRel
<1> HIDE DEF R
<1>3. PICK n \in T : \A m \in T : ~ (<<m, n>> \in R)
  BY <1>1, WFMin
<1>4. \A m \in T : ~ (m < n)
  BY <1>3, <1>2
<1> QED BY <1>3, <1>4

(* A set of naturals that holds 0 and the successor of each of its members    *)
(* holds every natural.                                                       *)
LEMMA InduccionNat ==
  ASSUME NEW M, 0 \in M, \A n \in Nat : n \in M => n + 1 \in M
  PROVE  \A n \in Nat : n \in M
<1> SUFFICES ASSUME NEW k \in Nat, k \notin M PROVE FALSE
  OBVIOUS
<1> DEFINE T == {n \in Nat : n \notin M}
<1>1. T \in SUBSET Nat /\ T # {}
  OBVIOUS
<1>2. PICK n \in T : \A m \in T : n <= m
  BY <1>1, Minimo
<1>3. n \in Nat /\ n \notin M /\ n # 0
  BY <1>2
<1>4. n - 1 \in Nat /\ n - 1 \in M
  BY <1>2, <1>3
<1>5. (n - 1) + 1 = n
  BY <1>3
<1>6. (n - 1) + 1 \in M
  BY <1>4
<1> QED BY <1>3, <1>5, <1>6

(* A set of subsets of a finite set that holds the empty set, and with each   *)
(* of its members every set of one element more, holds the whole set.         *)
LEMMA InduccionConjunto ==
  ASSUME NEW S, IsFiniteSet(S), NEW Q, {} \in Q,
         \A T \in SUBSET S : \A x \in S \ T : T \in Q => T \cup {x} \in Q
  PROVE  \A T \in SUBSET S : T \in Q
<1> DEFINE M == {n \in Nat : \A T \in SUBSET S : Cardinality(T) = n => T \in Q}
<1>1. \A T \in SUBSET S : IsFiniteSet(T) /\ Cardinality(T) \in Nat
  BY FS_Subset, FS_CardinalityType
<1>2. 0 \in M
  <2>1. \A T \in SUBSET S : Cardinality(T) = 0 => T = {}
    BY <1>1, FS_EmptySet
  <2> QED BY <2>1
<1>3. ASSUME NEW n \in Nat, n \in M PROVE n + 1 \in M
  <2>1. ASSUME NEW T \in SUBSET S, Cardinality(T) = n + 1 PROVE T \in Q
    <3>1. T # {}
      <4>1. Cardinality({}) = 0
        BY FS_EmptySet
      <4> QED BY <2>1, <4>1
    <3>2. PICK x \in T : TRUE
      BY <3>1
    <3>3. Cardinality(T \ {x}) = Cardinality(T) - 1
      BY <1>1, <3>2, FS_RemoveElement
    <3>4. T \ {x} \in SUBSET S /\ x \in S \ (T \ {x}) /\ Cardinality(T \ {x}) = n
      BY <2>1, <3>2, <3>3
    <3>5. T \ {x} \in Q
      BY <1>3, <3>4
    <3>6. (T \ {x}) \cup {x} \in Q
      BY <3>4, <3>5
    <3>7. (T \ {x}) \cup {x} = T
      BY <3>2
    <3> QED BY <3>6, <3>7
  <2> QED BY <2>1
<1> HIDE DEF M
<1>4. \A n \in Nat : n \in M
  BY <1>2, <1>3, InduccionNat
<1> QED BY <1>1, <1>4 DEF M

----------------------------------------------------------------------------
(* The sum.                                                                   *)

(* The element the fold takes out of a set.                                   *)
Elemento(s) == CHOOSE x \in s : TRUE

(* One step of the recursion: the sum over s from the sums g of smaller sets. *)
PasoSuma(f, g, s) == IF s = {} THEN 0 ELSE f[Elemento(s)] + g[s \ {Elemento(s)}]

(* The recursion that defines the sum has a solution on every finite set.     *)
LEMMA SumaExiste ==
  ASSUME NEW f, NEW S, IsFiniteSet(S)
  PROVE  \E g : g = [s \in SUBSET S |-> PasoSuma(f, g, s)]
<1> DEFINE Sub(n) == {s \in SUBSET S : Cardinality(s) <= n}
           M == {n \in Nat : \E g : g = [s \in Sub(n) |-> PasoSuma(f, g, s)]}
<1>1. \A s \in SUBSET S : IsFiniteSet(s) /\ Cardinality(s) \in Nat
  BY FS_Subset, FS_CardinalityType
<1>2. \A s \in SUBSET S : s # {} => Elemento(s) \in s
  BY DEF Elemento
<1>3. 0 \in M
  <2>1. \A s \in Sub(0) : s = {}
    BY <1>1, FS_EmptySet
  <2> DEFINE g == [s \in Sub(0) |-> 0]
  <2>2. \A s \in Sub(0) : PasoSuma(f, g, s) = 0
    BY <2>1 DEF PasoSuma
  <2>3. g = [s \in Sub(0) |-> PasoSuma(f, g, s)]
    BY <2>2
  <2> QED BY <2>3
<1>4. ASSUME NEW n \in Nat, n \in M PROVE n + 1 \in M
  <2>1. PICK g : g = [s \in Sub(n) |-> PasoSuma(f, g, s)]
    BY <1>4
  <2>2. \A s \in Sub(n) : g[s] = PasoSuma(f, g, s)
    <3> DEFINE gg == [s \in Sub(n) |-> PasoSuma(f, g, s)]
    <3>1. \A s \in Sub(n) : gg[s] = PasoSuma(f, g, s)
      OBVIOUS
    <3> HIDE DEF gg
    <3> QED BY <2>1, <3>1 DEF gg
  <2> DEFINE h == [s \in Sub(n + 1) |-> PasoSuma(f, g, s)]
  <2>3. \A s \in Sub(n) : s \in Sub(n + 1) /\ h[s] = g[s]
    BY <1>1, <2>2
  <2>4. ASSUME NEW s \in Sub(n + 1) PROVE h[s] = PasoSuma(f, h, s)
    <3>1. h[s] = PasoSuma(f, g, s)
      OBVIOUS
    <3>2. CASE s = {}
      BY <3>1, <3>2 DEF PasoSuma
    <3>3. CASE s # {}
      <4>1. Elemento(s) \in s /\ s \in SUBSET S
        BY <1>2, <3>3
      <4>2. s \ {Elemento(s)} \in SUBSET S
        BY <4>1
      <4>3. Cardinality(s \ {Elemento(s)}) = Cardinality(s) - 1
        BY <1>1, <4>1, FS_RemoveElement
      <4>4. s \ {Elemento(s)} \in Sub(n)
        BY <1>1, <4>1, <4>2, <4>3
      <4>5. h[s \ {Elemento(s)}] = g[s \ {Elemento(s)}]
        BY <2>3, <4>4
      <4> HIDE DEF h
      <4> QED BY <3>1, <3>3, <4>5 DEF PasoSuma
    <3> QED BY <3>2, <3>3
  <2>5. h = [s \in Sub(n + 1) |-> PasoSuma(f, h, s)]
    <3>1. h = [s \in Sub(n + 1) |-> h[s]]
      OBVIOUS
    <3> HIDE DEF h
    <3>2. [s \in Sub(n + 1) |-> h[s]] = [s \in Sub(n + 1) |-> PasoSuma(f, h, s)]
      BY <2>4
    <3> QED BY <3>1, <3>2
  <2> HIDE DEF h
  <2> QED BY <2>5
<1>5. \A n \in Nat : n \in M
  <2> HIDE DEF M
  <2> QED BY <1>3, <1>4, InduccionNat
<1>6. Cardinality(S) \in M
  BY <1>1, <1>5
<1>7. Sub(Cardinality(S)) = SUBSET S
  BY <1>1, FS_Subset
<1> QED BY <1>6, <1>7

(* The equation of the sum: nothing sums to 0, and the sum over a non-empty   *)
(* set is its chosen element and the sum over the others.                     *)
LEMMA SumaEcuacion ==
  ASSUME NEW f, NEW S, IsFiniteSet(S)
  PROVE  SumFunctionOnSet(f, S)
           = IF S = {} THEN 0
             ELSE f[Elemento(S)] + SumFunctionOnSet(f, S \ {Elemento(S)})
<1> DEFINE Sol(T) == CHOOSE g : g = [s \in SUBSET T |-> PasoSuma(f, g, s)]
<1>1. \A T : SumFunctionOnSet(f, T) = Sol(T)[T]
  BY DEF SumFunctionOnSet, FoldFunctionOnSet, MapThenFoldSet, PasoSuma, Elemento
<1>2. ASSUME NEW T, IsFiniteSet(T)
      PROVE  Sol(T) = [s \in SUBSET T |-> PasoSuma(f, Sol(T), s)]
  <2>1. \E g : g = [s \in SUBSET T |-> PasoSuma(f, g, s)]
    BY <1>2, SumaExiste
  <2> QED BY <2>1, Zenon
<1> HIDE DEF Sol
<1>3. ASSUME NEW T, IsFiniteSet(T), NEW s \in SUBSET T
      PROVE  Sol(T)[s] = PasoSuma(f, Sol(T), s)
  <2> DEFINE G == [r \in SUBSET T |-> PasoSuma(f, Sol(T), r)]
  <2>1. G[s] = PasoSuma(f, Sol(T), s)
    OBVIOUS
  <2>2. Sol(T) = G
    BY <1>2, <1>3
  <2> HIDE DEF G
  <2> QED BY <2>1, <2>2
<1>4. CASE S = {}
  BY <1>1, <1>3, <1>4 DEF PasoSuma
<1>5. CASE S # {}
  <2> DEFINE x == Elemento(S)
             R == S \ {x}
  <2>1. x \in S
    BY <1>5 DEF Elemento
  <2>2. R \in SUBSET S /\ IsFiniteSet(R)
    BY FS_Subset
  <2> DEFINE Q == {s \in SUBSET R : Sol(S)[s] = Sol(R)[s]}
  <2>3. ASSUME NEW n \in Nat,
               \A s \in SUBSET R : Cardinality(s) <= n => s \in Q
        PROVE  \A s \in SUBSET R : Cardinality(s) <= n + 1 => s \in Q
    <3> SUFFICES ASSUME NEW s \in SUBSET R, Cardinality(s) <= n + 1
                 PROVE  Sol(S)[s] = Sol(R)[s]
      OBVIOUS
    <3>1. Sol(S)[s] = PasoSuma(f, Sol(S), s) /\ Sol(R)[s] = PasoSuma(f, Sol(R), s)
      BY <1>3, <2>2
    <3>2. CASE s = {}
      BY <3>1, <3>2 DEF PasoSuma
    <3>3. CASE s # {}
      <4>1. Elemento(s) \in s
        BY <3>3 DEF Elemento
      <4>2. IsFiniteSet(s) /\ Cardinality(s) \in Nat
        BY <2>2, FS_Subset, FS_CardinalityType
      <4>3. Cardinality(s \ {Elemento(s)}) = Cardinality(s) - 1
        BY <4>1, <4>2, FS_RemoveElement
      <4>4. s \ {Elemento(s)} \in SUBSET R /\ Cardinality(s \ {Elemento(s)}) <= n
        BY <4>2, <4>3
      <4>5. s \ {Elemento(s)} \in Q
        BY <2>3, <4>4
      <4>6. Sol(S)[s \ {Elemento(s)}] = Sol(R)[s \ {Elemento(s)}]
        BY <4>5
      <4> QED BY <3>1, <3>3, <4>6 DEF PasoSuma
    <3> QED BY <3>2, <3>3
  <2>4. \A s \in SUBSET R : s \in Q
    <3> DEFINE M == {n \in Nat : \A s \in SUBSET R : Cardinality(s) <= n => s \in Q}
    <3>1. 0 \in M
      <4>1. \A s \in SUBSET R : IsFiniteSet(s) /\ Cardinality(s) \in Nat
        BY <2>2, FS_Subset, FS_CardinalityType
      <4>2. \A s \in SUBSET R : Cardinality(s) <= 0 => s = {}
        BY <4>1, FS_EmptySet
      <4>3. {} \in SUBSET S /\ {} \in SUBSET R
        OBVIOUS
      <4>4. Sol(S)[{}] = 0 /\ Sol(R)[{}] = 0
        BY <1>3, <2>2, <4>3 DEF PasoSuma
      <4> QED BY <4>2, <4>4
    <3>2. \A n \in Nat : n \in M => n + 1 \in M
      <4> HIDE DEF Q, R
      <4> QED BY <2>3
    <3>3. \A n \in Nat : n \in M
      <4> HIDE DEF M
      <4> QED BY <3>1, <3>2, InduccionNat
    <3>4. \A s \in SUBSET R : Cardinality(s) \in Nat
      BY <2>2, FS_Subset, FS_CardinalityType
    <3>5. \A s \in SUBSET R : Cardinality(s) \in M
      BY <3>3, <3>4
    <3> HIDE DEF Q, R
    <3> QED BY <3>4, <3>5
  <2>5. Sol(S)[R] = Sol(R)[R]
    BY <2>4
  <2> HIDE DEF Q
  <2>6. Sol(S)[S] = PasoSuma(f, Sol(S), S)
    BY <1>3
  <2>7. Sol(S)[S] = f[x] + Sol(S)[R]
    BY <1>5, <2>6 DEF PasoSuma
  <2> QED BY <1>1, <1>5, <2>5, <2>7
<1> QED BY <1>4, <1>5

(* A sum of integers is an integer.                                           *)
LEMMA SumaEntera ==
  ASSUME NEW S, IsFiniteSet(S), NEW f \in [S -> Int]
  PROVE  \A T \in SUBSET S : SumFunctionOnSet(f, T) \in Int
<1> DEFINE M == {n \in Nat : \A T \in SUBSET S :
                   Cardinality(T) <= n => SumFunctionOnSet(f, T) \in Int}
<1>1. \A T \in SUBSET S : IsFiniteSet(T) /\ Cardinality(T) \in Nat
  BY FS_Subset, FS_CardinalityType
<1>2. 0 \in M
  <2>1. \A T \in SUBSET S : Cardinality(T) <= 0 => T = {}
    BY <1>1, FS_EmptySet
  <2>2. SumFunctionOnSet(f, {}) = 0
    BY SumaEcuacion, FS_EmptySet
  <2> QED BY <2>1, <2>2
<1>3. ASSUME NEW n \in Nat, n \in M PROVE n + 1 \in M
  <2>1. ASSUME NEW T \in SUBSET S, Cardinality(T) <= n + 1, T # {}
        PROVE  SumFunctionOnSet(f, T) \in Int
    <3> DEFINE x == Elemento(T)
    <3>1. x \in T /\ f[x] \in Int
      BY <2>1 DEF Elemento
    <3>2. Cardinality(T \ {x}) = Cardinality(T) - 1
      BY <1>1, <3>1, FS_RemoveElement
    <3>3. SumFunctionOnSet(f, T \ {x}) \in Int
      BY <1>1, <1>3, <2>1, <3>2
    <3>4. SumFunctionOnSet(f, T) = f[x] + SumFunctionOnSet(f, T \ {x})
      BY <1>1, <2>1, SumaEcuacion
    <3> QED BY <3>1, <3>3, <3>4
  <2>2. SumFunctionOnSet(f, {}) = 0
    BY SumaEcuacion, FS_EmptySet
  <2> QED BY <2>1, <2>2
<1>4. \A n \in Nat : n \in M
  <2> HIDE DEF M
  <2> QED BY <1>2, <1>3, InduccionNat
<1> QED BY <1>1, <1>4

(* Any element, not only the chosen one, may be taken out of a sum first.     *)
LEMMA SumaSin ==
  ASSUME NEW S, IsFiniteSet(S), NEW f \in [S -> Int]
  PROVE  \A T \in SUBSET S : \A x \in T :
           SumFunctionOnSet(f, T) = f[x] + SumFunctionOnSet(f, T \ {x})
<1> DEFINE Sum(T) == SumFunctionOnSet(f, T)
           Vale(T) == \A x \in T : Sum(T) = f[x] + Sum(T \ {x})
           M == {n \in Nat : \A T \in SUBSET S : Cardinality(T) <= n => Vale(T)}
<1>1. \A T \in SUBSET S : IsFiniteSet(T) /\ Cardinality(T) \in Nat
  BY FS_Subset, FS_CardinalityType
<1>2. \A T \in SUBSET S : Sum(T) \in Int
  BY SumaEntera
<1>3. \A T \in SUBSET S : T # {} =>
        Elemento(T) \in T /\ Sum(T) = f[Elemento(T)] + Sum(T \ {Elemento(T)})
  BY <1>1, SumaEcuacion DEF Elemento
<1> HIDE DEF Sum
<1>4. 0 \in M
  <2>1. \A T \in SUBSET S : Cardinality(T) <= 0 => T = {}
    BY <1>1, FS_EmptySet
  <2> QED BY <2>1
<1>5. ASSUME NEW n \in Nat, n \in M PROVE n + 1 \in M
  <2>1. ASSUME NEW T \in SUBSET S, Cardinality(T) <= n + 1, NEW x \in T
        PROVE  Sum(T) = f[x] + Sum(T \ {x})
    <3> DEFINE c == Elemento(T)
    <3>1. c \in T /\ Sum(T) = f[c] + Sum(T \ {c})
      BY <1>3
    <3> HIDE DEF c
    <3>2. CASE c = x
      BY <3>1, <3>2
    <3>3. CASE c # x
      <4>1. Cardinality(T \ {c}) = Cardinality(T) - 1
            /\ Cardinality(T \ {x}) = Cardinality(T) - 1
        BY <1>1, <3>1, FS_RemoveElement
      <4>2. Vale(T \ {c}) /\ Vale(T \ {x})
        <5>1. T \ {c} \in SUBSET S /\ T \ {x} \in SUBSET S
          OBVIOUS
        <5>2. Cardinality(T \ {c}) <= n /\ Cardinality(T \ {x}) <= n
          BY <1>1, <2>1, <4>1
        <5> HIDE DEF Vale
        <5>3. \A U \in SUBSET S : Cardinality(U) <= n => Vale(U)
          BY <1>5
        <5> QED BY <5>1, <5>2, <5>3
      <4>3. x \in T \ {c} /\ c \in T \ {x}
        BY <3>1, <3>3
      <4>4. Sum(T \ {c}) = f[x] + Sum((T \ {c}) \ {x})
            /\ Sum(T \ {x}) = f[c] + Sum((T \ {x}) \ {c})
        BY <4>2, <4>3
      <4>5. (T \ {c}) \ {x} = (T \ {x}) \ {c}
        OBVIOUS
      <4>6. Sum((T \ {x}) \ {c}) \in Int /\ f[x] \in Int /\ f[c] \in Int
        BY <1>2, <3>1
      <4>7. \A r \in Int, a \in Int, b \in Int : a + (b + r) = b + (a + r)
        OBVIOUS
      <4>8. Sum(T) = f[c] + (f[x] + Sum((T \ {x}) \ {c}))
        BY <3>1, <4>4, <4>5
      <4>9. f[c] + (f[x] + Sum((T \ {x}) \ {c})) = f[x] + (f[c] + Sum((T \ {x}) \ {c}))
        BY <4>6, <4>7
      <4> QED BY <4>4, <4>8, <4>9
    <3> QED BY <3>2, <3>3
  <2> QED BY <2>1
<1>6. \A n \in Nat : n \in M
  <2> HIDE DEF M
  <2> QED BY <1>4, <1>5, InduccionNat
<1>7. \A T \in SUBSET S : Vale(T)
  <2> HIDE DEF Vale
  <2> QED BY <1>1, <1>6
<1> QED BY <1>7 DEF Sum

----------------------------------------------------------------------------
(* The facts the proofs of the models use: sums of a whole function.          *)

(* The sum of a function of integers over a finite domain is an integer.      *)
LEMMA SumaTipo ==
  ASSUME NEW S, IsFiniteSet(S), NEW f \in [S -> Int]
  PROVE  SumFunction(f) \in Int
BY SumaEntera DEF SumFunction

(* A part of the domain with only zeros sums to 0.                            *)
LEMMA SumaParteCero ==
  ASSUME NEW S, IsFiniteSet(S), NEW f \in [S -> Int], NEW T \in SUBSET S,
         \A x \in T : f[x] = 0
  PROVE  SumFunctionOnSet(f, T) = 0
<1> DEFINE Q == {U \in SUBSET S : (\A x \in U : f[x] = 0) => SumFunctionOnSet(f, U) = 0}
<1>1. {} \in Q
  BY SumaEcuacion, FS_EmptySet
<1>2. ASSUME NEW U \in SUBSET S, NEW x \in S \ U, U \in Q
      PROVE  U \cup {x} \in Q
  <2>1. SumFunctionOnSet(f, U \cup {x})
          = f[x] + SumFunctionOnSet(f, (U \cup {x}) \ {x})
    BY SumaSin
  <2>2. (U \cup {x}) \ {x} = U
    OBVIOUS
  <2> QED BY <1>2, <2>1, <2>2
<1>3. \A U \in SUBSET S : U \in Q
  <2> HIDE DEF Q
  <2> QED BY <1>1, <1>2, InduccionConjunto
<1> QED BY <1>3

(* A function that is 0 everywhere sums to 0.                                 *)
LEMMA SumaCero ==
  ASSUME NEW S, IsFiniteSet(S), NEW f \in [S -> Int], \A x \in S : f[x] = 0
  PROVE  SumFunction(f) = 0
BY SumaParteCero DEF SumFunction

(* Sums add: if h is f plus g, its sum is the sum of f plus the sum of g.     *)
LEMMA SumaMas ==
  ASSUME NEW S, IsFiniteSet(S), NEW f \in [S -> Int], NEW g \in [S -> Int],
         NEW h \in [S -> Int], \A x \in S : h[x] = f[x] + g[x]
  PROVE  SumFunction(h) = SumFunction(f) + SumFunction(g)
<1> DEFINE Sum(k, U) == SumFunctionOnSet(k, U)
           Q == {U \in SUBSET S : Sum(h, U) = Sum(f, U) + Sum(g, U)}
<1>1. \A U \in SUBSET S : Sum(f, U) \in Int /\ Sum(g, U) \in Int /\ Sum(h, U) \in Int
  BY SumaEntera
<1>2. Sum(f, {}) = 0 /\ Sum(g, {}) = 0 /\ Sum(h, {}) = 0
  BY SumaEcuacion, FS_EmptySet
<1>3. \A U \in SUBSET S : \A x \in S \ U :
        /\ Sum(f, U \cup {x}) = f[x] + Sum(f, U)
        /\ Sum(g, U \cup {x}) = g[x] + Sum(g, U)
        /\ Sum(h, U \cup {x}) = h[x] + Sum(h, U)
  <2> SUFFICES ASSUME NEW U \in SUBSET S, NEW x \in S \ U
               PROVE  /\ Sum(f, U \cup {x}) = f[x] + Sum(f, U)
                      /\ Sum(g, U \cup {x}) = g[x] + Sum(g, U)
                      /\ Sum(h, U \cup {x}) = h[x] + Sum(h, U)
    OBVIOUS
  <2>1. (U \cup {x}) \ {x} = U /\ U \cup {x} \in SUBSET S /\ x \in U \cup {x}
    OBVIOUS
  <2>2. Sum(f, U \cup {x}) = f[x] + Sum(f, (U \cup {x}) \ {x})
    BY <2>1, SumaSin
  <2>3. Sum(g, U \cup {x}) = g[x] + Sum(g, (U \cup {x}) \ {x})
    BY <2>1, SumaSin
  <2>4. Sum(h, U \cup {x}) = h[x] + Sum(h, (U \cup {x}) \ {x})
    BY <2>1, SumaSin
  <2> QED BY <2>1, <2>2, <2>3, <2>4
<1> HIDE DEF Sum
<1>4. {} \in Q
  BY <1>2
<1>5. ASSUME NEW U \in SUBSET S, NEW x \in S \ U, U \in Q
      PROVE  U \cup {x} \in Q
  BY <1>1, <1>3, <1>5
<1>6. \A U \in SUBSET S : U \in Q
  <2> HIDE DEF Q
  <2> QED BY <1>4, <1>5, InduccionConjunto
<1>7. Sum(h, S) = Sum(f, S) + Sum(g, S)
  BY <1>6
<1> QED BY <1>7 DEF SumFunction, Sum

(* A function that is 0 off one point sums to its value there.                *)
LEMMA SumaUno ==
  ASSUME NEW S, IsFiniteSet(S), NEW f \in [S -> Int], NEW x \in S,
         \A y \in S \ {x} : f[y] = 0
  PROVE  SumFunction(f) = f[x]
<1>1. SumFunctionOnSet(f, S) = f[x] + SumFunctionOnSet(f, S \ {x})
  BY SumaSin
<1>2. SumFunctionOnSet(f, S \ {x}) = 0
  BY SumaParteCero
<1> QED BY <1>1, <1>2 DEF SumFunction

(* Changing a function at one point changes its sum by the difference there.  *)
LEMMA SumaCambia ==
  ASSUME NEW S, IsFiniteSet(S), NEW f \in [S -> Int], NEW g \in [S -> Int],
         NEW x \in S, \A y \in S \ {x} : g[y] = f[y]
  PROVE  SumFunction(g) = SumFunction(f) + (g[x] - f[x])
<1> DEFINE d == [y \in S |-> g[y] - f[y]]
<1>1. d \in [S -> Int] /\ d[x] = g[x] - f[x] /\ (\A y \in S : g[y] = f[y] + d[y])
  OBVIOUS
<1>2. \A y \in S \ {x} : d[y] = 0
  OBVIOUS
<1> HIDE DEF d
<1>3. SumFunction(d) = d[x]
  BY <1>1, <1>2, SumaUno
<1>4. d \in [S -> Int] /\ (\A y \in S : g[y] = f[y] + d[y])
  BY <1>1
<1>5. SumFunction(g) = SumFunction(f) + SumFunction(d)
  BY <1>4, SumaMas
<1> QED BY <1>1, <1>3, <1>5

(* A sum of naturals is at least each of its terms.                           *)
LEMMA SumaCota ==
  ASSUME NEW S, IsFiniteSet(S), NEW f \in [S -> Nat]
  PROVE  SumFunction(f) \in Nat /\ \A x \in S : f[x] <= SumFunction(f)
<1> DEFINE Q == {U \in SUBSET S : SumFunctionOnSet(f, U) >= 0}
<1>1. f \in [S -> Int]
  OBVIOUS
<1>2. \A U \in SUBSET S : SumFunctionOnSet(f, U) \in Int
  BY <1>1, SumaEntera
<1>3. {} \in Q
  <2>1. SumFunctionOnSet(f, {}) = 0
    BY SumaEcuacion, FS_EmptySet
  <2> QED BY <2>1
<1>4. ASSUME NEW U \in SUBSET S, NEW x \in S \ U, U \in Q
      PROVE  U \cup {x} \in Q
  <2>1. SumFunctionOnSet(f, U \cup {x})
          = f[x] + SumFunctionOnSet(f, (U \cup {x}) \ {x})
    BY <1>1, SumaSin
  <2>2. (U \cup {x}) \ {x} = U
    OBVIOUS
  <2>3. f[x] \in Nat
    OBVIOUS
  <2> QED BY <1>2, <1>4, <2>1, <2>2, <2>3
<1>5. \A U \in SUBSET S : U \in Q
  <2> HIDE DEF Q
  <2> QED BY <1>3, <1>4, InduccionConjunto
<1>6. \A x \in S : SumFunctionOnSet(f, S) = f[x] + SumFunctionOnSet(f, S \ {x})
  BY <1>1, SumaSin
<1>7. \A x \in S : f[x] <= SumFunctionOnSet(f, S)
  <2> SUFFICES ASSUME NEW x \in S PROVE f[x] <= SumFunctionOnSet(f, S)
    OBVIOUS
  <2>1. SumFunctionOnSet(f, S \ {x}) >= 0 /\ SumFunctionOnSet(f, S \ {x}) \in Int
    BY <1>2, <1>5
  <2> QED BY <1>6, <2>1
<1>8. SumFunctionOnSet(f, S) \in Nat
  BY <1>2, <1>5
<1> QED BY <1>7, <1>8 DEF SumFunction

=============================================================================
