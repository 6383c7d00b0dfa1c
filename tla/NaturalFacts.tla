---------------------------- MODULE NaturalFacts ----------------------------
(***************************************************************************)
(* Facts about natural numbers that the proofs of several components need: *)
(* induction, division by a number that is not known, and finite sums.     *)
(***************************************************************************)
EXTENDS Integers, FiniteSetTheorems, TLAPS

(***************************************************************************)
(* Induction.  The library's theorems on it take an operator; a set does   *)
(* as well, with the well-foundedness of < on Nat.                         *)
(***************************************************************************)
LEMMA NatMinimum ==
  ASSUME NEW T \in SUBSET Nat, T # {}
  PROVE  \E x \in T : \A y \in T : x <= y
<1> DEFINE R == OpToRel(<, Nat)
<1>1. \A a, b \in Nat : a < b => <<a, b>> \in R
  BY DEF OpToRel
<1>2. IsWellFoundedOn(R, Nat)
  BY NatLessThanWellFounded
<1> HIDE DEF R
<1>3. PICK x \in T : \A y \in T : ~(<<y, x>> \in R)
  BY <1>2, WFMin, Zenon
<1>4. ASSUME NEW y \in T PROVE x <= y
  <2>1. x \in Nat /\ y \in Nat
    OBVIOUS
  <2>2. ~(y < x)
    BY <2>1, <1>3, <1>1
  <2> QED
    BY <2>1, <2>2
<1> QED
  BY <1>4

LEMMA SetInduction ==
  ASSUME NEW S \in SUBSET Nat, 0 \in S, \A n \in S : n + 1 \in S
  PROVE  S = Nat
<1> DEFINE T == Nat \ S
<1> SUFFICES ASSUME T # {} PROVE FALSE
  OBVIOUS
<1>1. PICK x \in T : \A y \in T : x <= y
  <2>1. T \subseteq Nat
    OBVIOUS
  <2> HIDE DEF T
  <2> QED
    BY <2>1, NatMinimum
<1>2. x # 0 /\ x - 1 \in Nat /\ x - 1 \in S
  BY <1>1
<1> QED
  BY <1>2

-----------------------------------------------------------------------------
(* Division by a number that is not known. *)
LEMMA ProductOrder ==
  ASSUME NEW b \in Nat, NEW p \in Int, NEW q \in Int, p < q
  PROVE  b * p + b <= b * q
<1> DEFINE d == q - p - 1
<1>1. d \in Nat /\ q = p + 1 + d
  OBVIOUS
<1>2. b * d \in Nat
  BY <1>1
<1>3. b * q = b * p + b + b * d
  BY <1>1
<1> QED
  BY <1>2, <1>3

LEMMA QuotientRemainder ==
  ASSUME NEW a \in Int, NEW b \in Nat \ {0}
  PROVE  /\ a % b \in 0 .. b - 1 /\ a \div b \in Int
         /\ a = b * (a \div b) + (a % b)
OBVIOUS

LEMMA RemainderUnique ==
  ASSUME NEW b \in Nat \ {0}, NEW q \in Int, NEW r \in 0 .. b - 1
  PROVE  (b * q + r) % b = r
<1> DEFINE a == b * q + r
           p == a \div b
           s == a % b
<1>1. a \in Int /\ b * q \in Int
  OBVIOUS
<1>2. s \in 0 .. b - 1 /\ p \in Int /\ a = b * p + s
  BY <1>1, QuotientRemainder
<1>3. b * p \in Int
  BY <1>2
<1> HIDE DEF p, s
<1>4. CASE p < q
  BY <1>1, <1>2, <1>3, <1>4, ProductOrder
<1>5. CASE q < p
  BY <1>1, <1>2, <1>3, <1>5, ProductOrder
<1>6. CASE p = q
  BY <1>1, <1>2, <1>3, <1>6
<1>7. s = r
  BY <1>2, <1>4, <1>5, <1>6
<1> QED
  BY <1>7 DEF s

LEMMA RemainderMoved ==
  ASSUME NEW a \in Int, NEW b \in Nat \ {0}, NEW d \in Int
  PROVE  ((a % b) + d) % b = (a + d) % b
<1> DEFINE r == ((a % b) + d) % b
           p == ((a % b) + d) \div b
           q == a \div b
<1>1. a % b \in 0 .. b - 1 /\ q \in Int /\ a = b * q + (a % b)
  BY QuotientRemainder
<1>2. r \in 0 .. b - 1 /\ p \in Int /\ (a % b) + d = b * p + r
  BY <1>1, QuotientRemainder
<1> HIDE DEF p, q, r
<1>3. b * (p + q) = b * p + b * q /\ b * p \in Int /\ b * q \in Int
  BY <1>1, <1>2
<1>4. a + d = b * (p + q) + r
  BY <1>1, <1>2, <1>3
<1>5. \A s \in Int : (b * s + r) % b = r
  BY <1>2, RemainderUnique
<1>6. p + q \in Int
  BY <1>1, <1>2
<1> QED
  BY <1>4, <1>5, <1>6 DEF r

-----------------------------------------------------------------------------
(***************************************************************************)
(* Sums.  SumFunction adds the values up in an order nobody knows: a set   *)
(* loses one chosen element after the other.  IsSum is what its recursive  *)
(* function is; that any element may be the first to go (SumTaken) is      *)
(* proved by induction on the size of the set.                             *)
(***************************************************************************)
Chosen(t) == CHOOSE n \in t : TRUE

IsSum(g, f, B) ==
  g = [t \in SUBSET B |-> IF t = {} THEN 0 ELSE f[Chosen(t)] + g[t \ {Chosen(t)}]]

Sized(B, n) == {t \in SUBSET B : Cardinality(t) <= n}

LEMMA ChosenIn == \A t : t # {} => Chosen(t) \in t
BY DEF Chosen

LEMMA SmallerSet ==
  ASSUME NEW B, IsFiniteSet(B), NEW t \in SUBSET B, NEW x \in t
  PROVE  /\ t \ {x} \in SUBSET B
         /\ Cardinality(t) \in Nat /\ Cardinality(t \ {x}) \in Nat
         /\ Cardinality(t) = Cardinality(t \ {x}) + 1
<1>1. IsFiniteSet(t)
  BY FS_Subset
<1>2. IsFiniteSet(t \ {x}) /\ Cardinality(t \ {x}) = Cardinality(t) - 1
  BY <1>1, FS_RemoveElement
<1>3. Cardinality(t) \in Nat /\ Cardinality(t \ {x}) \in Nat
  BY <1>1, <1>2, FS_CardinalityType
<1> QED
  BY <1>2, <1>3

LEMMA SumExists ==
  ASSUME NEW f, NEW B, IsFiniteSet(B)
  PROVE  \E g : IsSum(g, f, B)
<1> DEFINE On(g, n) ==
             g = [t \in Sized(B, n) |->
                    IF t = {} THEN 0 ELSE f[Chosen(t)] + g[t \ {Chosen(t)}]]
           S == {n \in Nat : \E g : On(g, n)}
<1>1. 0 \in S
  <2> DEFINE g == [t \in Sized(B, 0) |-> 0]
  <2>1. \A t \in Sized(B, 0) : t = {}
    <3> SUFFICES ASSUME NEW t \in Sized(B, 0) PROVE t = {}
      OBVIOUS
    <3>1. IsFiniteSet(t) /\ Cardinality(t) <= 0
      BY FS_Subset DEF Sized
    <3>2. Cardinality(t) = 0
      BY <3>1, FS_CardinalityType
    <3> QED
      BY <3>1, <3>2, FS_EmptySet
  <2>2. On(g, 0)
    BY <2>1
  <2> QED
    BY <2>2
<1>2. ASSUME NEW n \in S PROVE n + 1 \in S
  <2>1. PICK g : On(g, n)
    OBVIOUS
  <2> DEFINE h == [t \in Sized(B, n + 1) |->
                     IF t = {} THEN 0 ELSE f[Chosen(t)] + g[t \ {Chosen(t)}]]
  <2>2. \A t \in Sized(B, n) : t \in Sized(B, n + 1) /\ h[t] = g[t]
    <3> SUFFICES ASSUME NEW t \in Sized(B, n)
                 PROVE  t \in Sized(B, n + 1) /\ h[t] = g[t]
      OBVIOUS
    <3>1. IsFiniteSet(t) /\ Cardinality(t) <= n /\ t \in SUBSET B
      BY FS_Subset DEF Sized
    <3>2. t \in Sized(B, n + 1)
      BY <3>1, FS_CardinalityType DEF Sized
    <3>3. h[t] = IF t = {} THEN 0 ELSE f[Chosen(t)] + g[t \ {Chosen(t)}]
      BY <3>2
    <3>4. g[t] = IF t = {} THEN 0 ELSE f[Chosen(t)] + g[t \ {Chosen(t)}]
      BY <2>1
    <3> QED
      BY <3>2, <3>3, <3>4
  <2>3. \A t \in Sized(B, n + 1) : t # {} => t \ {Chosen(t)} \in Sized(B, n)
    BY ChosenIn, SmallerSet DEF Sized
  <2>4. On(h, n + 1)
    <3> SUFFICES ASSUME NEW t \in Sized(B, n + 1), t # {}
                 PROVE  h[t \ {Chosen(t)}] = g[t \ {Chosen(t)}]
      BY Zenon
    <3> QED
      BY <2>2, <2>3
  <2>5. n + 1 \in Nat
    OBVIOUS
  <2> QED
    BY <2>4, <2>5, Zenon
<1>3. S = Nat
  <2> HIDE DEF S
  <2>1. S \in SUBSET Nat
    BY DEF S
  <2> QED
    BY <1>1, <1>2, <2>1, SetInduction
<1>4. Cardinality(B) \in Nat
  BY FS_CardinalityType
<1>5. PICK g : On(g, Cardinality(B))
  BY <1>3, <1>4
<1>6. Sized(B, Cardinality(B)) = SUBSET B
  BY FS_Subset DEF Sized
<1> QED
  BY <1>5, <1>6, Zenon DEF IsSum

LEMMA SumIsSum ==
  ASSUME NEW f, IsFiniteSet(DOMAIN f)
  PROVE  \E g : IsSum(g, f, DOMAIN f) /\ SumFunction(f) = g[DOMAIN f]
<1> DEFINE D == DOMAIN f
           s == CHOOSE g : IsSum(g, f, D)
<1>1. IsSum(s, f, D)
  BY SumExists, Zenon
<1>2. SumFunction(f) = s[D]
  BY Zenon DEF SumFunction, SumFunctionOnSet, FoldFunctionOnSet, MapThenFoldSet, IsSum, Chosen
<1> QED
  BY <1>1, <1>2

LEMMA SumTaken ==
  ASSUME NEW B, IsFiniteSet(B), NEW f \in [B -> Nat], NEW g, IsSum(g, f, B)
  PROVE  /\ g[{}] = 0
         /\ \A t \in SUBSET B :
              g[t] \in Nat /\ \A x \in t : g[t] = f[x] + g[t \ {x}]
<1> DEFINE P(t) == g[t] \in Nat /\ \A x \in t : g[t] = f[x] + g[t \ {x}]
           S == {n \in Nat : \A t \in SUBSET B : Cardinality(t) <= n => P(t)}
<1>0. \A t \in SUBSET B : g[t] = IF t = {} THEN 0 ELSE f[Chosen(t)] + g[t \ {Chosen(t)}]
  BY Zenon DEF IsSum
<1>a. P({})
  <2>1. g[{}] = 0
    BY <1>0, Zenon
  <2> QED
    BY <2>1
<1>b. \A t \in SUBSET B :
        /\ IsFiniteSet(t) /\ Cardinality(t) \in Nat
        /\ Cardinality(t) = 0 => t = {}
  BY FS_Subset, FS_CardinalityType, FS_EmptySet
<1>1. 0 \in S
  <2>1. ASSUME NEW t \in SUBSET B, Cardinality(t) <= 0 PROVE P(t)
    <3>1. t = {}
      BY <2>1, <1>b
    <3> QED
      BY <3>1, <1>a
  <2> QED
    BY <2>1
<1>2. ASSUME NEW n \in S PROVE n + 1 \in S
  <2>1. ASSUME NEW t \in SUBSET B, Cardinality(t) <= n + 1, t # {} PROVE P(t)
    <3> DEFINE c == Chosen(t)
    <3>0. n \in Nat
      OBVIOUS
    <3>2. c \in t /\ g[t] = f[c] + g[t \ {c}]
      BY <1>0, <2>1, ChosenIn
    <3>3. \A x \in t : t \ {x} \in SUBSET B /\ Cardinality(t \ {x}) <= n
      BY <2>1, <3>0, SmallerSet
    <3>4. \A x \in t : P(t \ {x})
      BY <3>3
    <3>5. f[c] \in Nat /\ g[t \ {c}] \in Nat /\ g[t] \in Nat
      <4>1. c \in B /\ P(t \ {c})
        BY <3>2, <3>4
      <4>2. f[c] \in Nat /\ g[t \ {c}] \in Nat
        BY <4>1
      <4> HIDE DEF c, P
      <4> QED
        BY <3>2, <4>2
    <3>6. ASSUME NEW x \in t, x # c PROVE g[t] = f[x] + g[t \ {x}]
      <4>1. x \in t \ {c} /\ c \in t \ {x} /\ (t \ {c}) \ {x} = (t \ {x}) \ {c}
        BY <3>2, <3>6
      <4> DEFINE r == g[(t \ {x}) \ {c}]
      <4>2. g[t \ {c}] = f[x] + r /\ g[t \ {x}] = f[c] + r
        BY <3>2, <3>4, <4>1
      <4>3. f[x] \in Nat
        OBVIOUS
      <4>4. r \in Nat
        <5>1. (t \ {x}) \ {c} \in SUBSET B /\ Cardinality((t \ {x}) \ {c}) <= n
          <6>1. Cardinality(t \ {x}) \in Nat /\ Cardinality((t \ {x}) \ {c}) \in Nat
            BY <1>b
          <6>2. Cardinality(t \ {x}) = Cardinality((t \ {x}) \ {c}) + 1
            <7>1. t \ {x} \in SUBSET B /\ c \in t \ {x}
              BY <3>3, <4>1
            <7> HIDE DEF c
            <7> QED
              BY <7>1, SmallerSet
          <6> QED
            BY <3>0, <3>3, <6>1, <6>2
        <5>2. P((t \ {x}) \ {c})
          BY <5>1
        <5> QED
          BY <5>2
      <4> HIDE DEF r, c
      <4> QED
        BY <3>2, <3>5, <4>2, <4>3, <4>4
    <3> QED
      BY <3>2, <3>5, <3>6
  <2>2. \A t \in SUBSET B : Cardinality(t) <= n + 1 => P(t)
    BY <2>1, <1>a
  <2>3. n + 1 \in Nat
    OBVIOUS
  <2> QED
    BY <2>2, <2>3, Zenon
<1>3. S = Nat
  <2> HIDE DEF S
  <2>1. S \in SUBSET Nat
    BY DEF S
  <2> QED
    BY <1>1, <1>2, <2>1, SetInduction
<1>5. ASSUME NEW t \in SUBSET B PROVE P(t)
  <2>1. Cardinality(t) \in S /\ Cardinality(t) <= Cardinality(t)
    BY <1>b, <1>3
  <2> QED
    BY <2>1
<1> QED
  BY <1>0, <1>5

LEMMA SumsAgree ==
  ASSUME NEW B, IsFiniteSet(B), NEW C, B \subseteq C,
         NEW f, NEW e, \A x \in B : e[x] = f[x],
         NEW g, IsSum(g, f, B), NEW h, IsSum(h, e, C)
  PROVE  \A t \in SUBSET B : g[t] = h[t]
<1> DEFINE S == {n \in Nat : \A t \in SUBSET B : Cardinality(t) = n => g[t] = h[t]}
<1>0. \A t \in SUBSET B :
        /\ g[t] = IF t = {} THEN 0 ELSE f[Chosen(t)] + g[t \ {Chosen(t)}]
        /\ h[t] = IF t = {} THEN 0 ELSE e[Chosen(t)] + h[t \ {Chosen(t)}]
  <2>1. \A t \in SUBSET B : t \in SUBSET C
    OBVIOUS
  <2> QED
    BY <2>1, Zenon DEF IsSum
<1>1. 0 \in S
  <2>1. ASSUME NEW t \in SUBSET B, Cardinality(t) = 0 PROVE g[t] = h[t]
    <3>1. t = {}
      BY <2>1, FS_Subset, FS_EmptySet
    <3> QED
      BY <1>0, <3>1
  <2> QED
    BY <2>1
<1>2. ASSUME NEW n \in S PROVE n + 1 \in S
  <2>1. ASSUME NEW t \in SUBSET B, Cardinality(t) = n + 1 PROVE g[t] = h[t]
    <3>0. n \in Nat /\ n + 1 # 0
      OBVIOUS
    <3>a. t # {}
      BY <2>1, <3>0, FS_EmptySet, Zenon
    <3>1. t # {} /\ Chosen(t) \in t
      BY <3>a, ChosenIn, Zenon
    <3>2. t \ {Chosen(t)} \in SUBSET B /\ Cardinality(t \ {Chosen(t)}) = n
      BY <2>1, <3>1, SmallerSet
    <3>3. g[t \ {Chosen(t)}] = h[t \ {Chosen(t)}]
      BY <3>2
    <3> QED
      BY <1>0, <3>1, <3>3
  <2> QED
    BY <2>1
<1>3. S = Nat
  <2> HIDE DEF S
  <2>1. S \in SUBSET Nat
    BY DEF S
  <2> QED
    BY <1>1, <1>2, <2>1, SetInduction
<1>4. \A t \in SUBSET B : Cardinality(t) \in Nat
  BY FS_Subset, FS_CardinalityType
<1> QED
  BY <1>3, <1>4

LEMMA SumType ==
  ASSUME NEW D, IsFiniteSet(D), NEW f \in [D -> Nat]
  PROVE  SumFunction(f) \in Nat
<1>1. PICK g : IsSum(g, f, D) /\ SumFunction(f) = g[D]
  BY SumIsSum
<1> QED
  BY <1>1, SumTaken

LEMMA SumEmpty == ASSUME NEW f, DOMAIN f = {} PROVE SumFunction(f) = 0
<1>1. PICK g : IsSum(g, f, DOMAIN f) /\ SumFunction(f) = g[DOMAIN f]
  BY SumIsSum, FS_EmptySet
<1>2. g[{}] = 0
  BY <1>1, Zenon DEF IsSum
<1> QED
  BY <1>1, <1>2

(* One more element adds its value. *)
LEMMA SumGrows ==
  ASSUME NEW D, IsFiniteSet(D), NEW n, n \notin D, NEW f \in [D -> Nat],
         NEW e \in [D \cup {n} -> Nat], \A x \in D : e[x] = f[x]
  PROVE  SumFunction(f) \in Nat /\ SumFunction(e) = SumFunction(f) + e[n]
<1> DEFINE E == D \cup {n}
<1>1. DOMAIN f = D /\ DOMAIN e = E /\ IsFiniteSet(E)
  BY FS_AddElement
<1>2. PICK g : IsSum(g, f, D) /\ SumFunction(f) = g[D]
  BY <1>1, SumIsSum
<1>3. PICK h : IsSum(h, e, E) /\ SumFunction(e) = h[E]
  BY <1>1, SumIsSum
<1>4. g[D] \in Nat
  BY <1>2, SumTaken
<1>5. h[E] = e[n] + h[E \ {n}]
  <2>1. n \in E /\ E \in SUBSET E
    OBVIOUS
  <2> HIDE DEF E
  <2> QED
    BY <1>1, <1>3, <2>1, SumTaken
<1>6. E \ {n} = D
  OBVIOUS
<1>7. g[D] = h[D]
  BY <1>2, <1>3, SumsAgree
<1>8. e[n] \in Nat
  OBVIOUS
<1> HIDE DEF E
<1> QED
  BY <1>2, <1>3, <1>4, <1>5, <1>6, <1>7, <1>8

=============================================================================
