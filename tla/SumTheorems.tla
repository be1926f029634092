----------------------------- MODULE SumTheorems -----------------------------
(***************************************************************************)
(* What the proofs about stake and rewards need to know of sums, whatever  *)
(* is summed up: parts, updates, sums of sums, and that proportional       *)
(* shares that are rounded down never exceed what they are shares of.      *)
(***************************************************************************)
EXTENDS Sums, FiniteSetTheorems, WellFoundedInduction, TLAPS

On(f, T) == [x \in T |-> f[x]]
Put(f, x, v) == [f EXCEPT ![x] = v]

-----------------------------------------------------------------------------
(* Induction without operator parameters: over a set of numbers, and over  *)
(* a set of subsets                                                        *)

LEMMA LeastNat ==
    ASSUME NEW S, S \subseteq Nat, S # {}
    PROVE  \E x \in S : \A y \in S : x <= y
<1> DEFINE Less == {ss \in Nat \X Nat : ss[1] < ss[2]}
<1>1. IsWellFoundedOn(Less, Nat)
  BY NatLessThanWellFounded, Zenon DEF OpToRel
<1>2. PICK x \in S : \A y \in S : ~ (<<y, x>> \in Less)
  <2> HIDE DEF Less
  <2> QED  BY <1>1, WFMin, Zenon
<1>3. ASSUME NEW y \in S  PROVE x <= y
  <2>1. x \in Nat /\ y \in Nat
    OBVIOUS
  <2>2. ~ (y < x)
    BY <1>2, <2>1
  <2> QED  BY <2>1, <2>2
<1> QED  BY <1>3

LEMMA SubsetInduction ==
    ASSUME NEW S, IsFiniteSet(S), NEW Good, {} \in Good,
           \A T \in SUBSET S, x \in S : T \in Good /\ x \notin T => T \cup {x} \in Good
    PROVE  S \in Good
<1> SUFFICES ASSUME S \notin Good PROVE FALSE
  OBVIOUS
<1> DEFINE N == {n \in Nat : \E T \in SUBSET S : Cardinality(T) = n /\ T \notin Good}
<1>1. Cardinality(S) \in N
  BY FS_CardinalityType
<1>2. PICK n \in N : \A m \in N : n <= m
  <2>1. N \subseteq Nat
    OBVIOUS
  <2> HIDE DEF N
  <2> QED  BY <1>1, <2>1, LeastNat
<1>3. PICK T \in SUBSET S : Cardinality(T) = n /\ T \notin Good
  BY <1>2
<1>4. PICK x \in T : TRUE
  BY <1>3
<1>5. IsFiniteSet(T) /\ IsFiniteSet(T \ {x}) /\ Cardinality(T \ {x}) = n - 1
  <2>1. IsFiniteSet(T)
    BY FS_Subset
  <2> QED  BY <1>3, <1>4, <2>1, FS_RemoveElement
<1>6. n - 1 \in Nat /\ n \in Nat
  BY <1>2, <1>5, FS_CardinalityType
<1>7. n - 1 \notin N
  BY <1>2, <1>6
<1>8. T \ {x} \in Good
  BY <1>5, <1>6, <1>7
<1>9. (T \ {x}) \cup {x} = T
  BY <1>4
<1>10. T \ {x} \in SUBSET S /\ x \in S /\ x \notin T \ {x}
  BY <1>4
<1>11. (T \ {x}) \cup {x} \in Good
  BY <1>8, <1>10
<1> QED  BY <1>3, <1>9, <1>11

-----------------------------------------------------------------------------
(* Parts of a sum                                                          *)

LEMMA SumType ==
    ASSUME NEW S, IsFiniteSet(S), NEW f \in [S -> Nat]
    PROVE  IsFiniteSet(Units(f)) /\ SumOf(f) \in Nat
<1> DEFINE u == [x \in S |-> {x} \X (1 .. f[x])]
           T == {{x} \X (1 .. f[x]) : x \in S}
<1>1. u \in Surjection(S, T)
  BY DEF Surjection
<1>2. IsFiniteSet(T)
  <2> HIDE DEF u, T
  <2> QED  BY <1>1, FS_Surjection
<1>3. ASSUME NEW x \in S  PROVE IsFiniteSet({x} \X (1 .. f[x]))
  <2>1. f[x] \in Int /\ 1 \in Int
    OBVIOUS
  <2>2. \A a, b \in Int : IsFiniteSet(a .. b)
    BY FS_Interval
  <2>3. IsFiniteSet(1 .. f[x]) /\ IsFiniteSet({x})
    BY <2>1, <2>2, FS_Singleton
  <2> QED  BY <2>3, FS_Product
<1>4. IsFiniteSet(UNION T)
  <2>1. \A t \in T : IsFiniteSet(t)
    BY <1>3
  <2> HIDE DEF T
  <2> QED  BY <1>2, <2>1, FS_UNION
<1>5. Units(f) = UNION T
  BY DEF Units
<1> QED  BY <1>4, <1>5, FS_CardinalityType DEF SumOf

LEMMA SumZero ==
    ASSUME NEW S, NEW f, f = [x \in S |-> f[x]], \A x \in S : f[x] = 0
    PROVE  SumOf(f) = 0
<1>1. Units(f) = {}
  BY DEF Units
<1> QED  BY <1>1, FS_EmptySet DEF SumOf

LEMMA SumSingle ==
    ASSUME NEW x, NEW f \in [{x} -> Nat]
    PROVE  SumOf(f) = f[x]
<1>1. Units(f) = {x} \X (1 .. f[x]) /\ f[x] \in Nat
  BY DEF Units
<1>2. \A n \in Nat : IsFiniteSet(1 .. n) /\ Cardinality(1 .. n) = n
  BY FS_Interval, SMTT(30)
<1>3. IsFiniteSet({x}) /\ Cardinality({x}) = 1
  BY FS_Singleton
<1>4. IsFiniteSet(1 .. f[x]) /\ Cardinality(1 .. f[x]) = f[x]
  BY <1>1, <1>2
<1>5. Cardinality({x} \X (1 .. f[x])) = 1 * f[x]
  <2> DEFINE A == 1 .. f[x]
  <2>1. IsFiniteSet(A) /\ Cardinality(A) = f[x]
    BY <1>4
  <2> HIDE DEF A
  <2>2. Cardinality({x} \X A) = Cardinality({x}) * Cardinality(A)
    BY <1>3, <2>1, FS_Product
  <2> QED  BY <1>3, <2>1, <2>2 DEF A
<1> QED  BY <1>1, <1>5 DEF SumOf

\* A sum is the sum over a part and the sum over the rest.
LEMMA SumSplit ==
    ASSUME NEW S, IsFiniteSet(S), NEW f \in [S -> Nat], NEW T \in SUBSET S
    PROVE  /\ SumOf(f) = SumOf(On(f, T)) + SumOf(On(f, S \ T))
           /\ SumOf(On(f, T)) \in Nat /\ SumOf(On(f, S \ T)) \in Nat
           /\ SumOf(On(f, T)) <= SumOf(f)
<1> DEFINE a == On(f, T)
           b == On(f, S \ T)
<1>1. a \in [T -> Nat] /\ b \in [S \ T -> Nat] /\ IsFiniteSet(T) /\ IsFiniteSet(S \ T)
  BY FS_Subset DEF On
<1>2. /\ IsFiniteSet(Units(a)) /\ Cardinality(Units(a)) \in Nat
      /\ IsFiniteSet(Units(b)) /\ Cardinality(Units(b)) \in Nat
  BY <1>1, SumType DEF SumOf
<1>3. Units(f) = Units(a) \cup Units(b)
  BY DEF Units, On
<1>4. Units(a) \cap Units(b) = {}
  BY DEF Units, On
<1> HIDE DEF a, b
<1>5. Cardinality(Units(a) \cup Units(b))
        = Cardinality(Units(a)) + Cardinality(Units(b)) - Cardinality({})
  BY <1>2, <1>4, FS_Union
<1>6. Cardinality(Units(a) \cup Units(b)) = Cardinality(Units(a)) + Cardinality(Units(b))
  BY <1>2, <1>5, FS_EmptySet
<1>7. SumOf(f) = SumOf(a) + SumOf(b) /\ SumOf(a) \in Nat /\ SumOf(b) \in Nat
  BY <1>2, <1>3, <1>6 DEF SumOf
<1> QED  BY <1>7 DEF a, b

LEMMA SumParts ==
    ASSUME NEW S, IsFiniteSet(S), NEW f \in [S -> Nat], NEW B \in SUBSET S, NEW A \in SUBSET B
    PROVE  /\ SumOf(On(f, B)) = SumOf(On(f, A)) + SumOf(On(f, B \ A))
           /\ SumOf(On(f, A)) \in Nat /\ SumOf(On(f, B \ A)) \in Nat /\ SumOf(On(f, B)) \in Nat
           /\ SumOf(On(f, A)) <= SumOf(On(f, B))
<1> DEFINE h == On(f, B)
<1>1. h \in [B -> Nat] /\ IsFiniteSet(B)
  BY FS_Subset DEF On
<1>2. On(h, A) = On(f, A) /\ On(h, B \ A) = On(f, B \ A)
  BY DEF On
<1> HIDE DEF h
<1>3. /\ SumOf(h) = SumOf(On(h, A)) + SumOf(On(h, B \ A))
      /\ SumOf(On(h, A)) \in Nat /\ SumOf(On(h, B \ A)) \in Nat
      /\ SumOf(On(h, A)) <= SumOf(h)
  BY <1>1, SumSplit
<1> QED  BY <1>2, <1>3 DEF h

\* The same, quantified for the first-order prover.
LEMMA SumPartsAll ==
    \A S : IsFiniteSet(S) => \A f \in [S -> Nat] : \A B \in SUBSET S : \A A \in SUBSET B :
        /\ SumOf(On(f, B)) = SumOf(On(f, A)) + SumOf(On(f, B \ A))
        /\ SumOf(On(f, A)) \in Nat /\ SumOf(On(f, B \ A)) \in Nat
<1> SUFFICES ASSUME NEW S, IsFiniteSet(S), NEW f \in [S -> Nat], NEW B \in SUBSET S, NEW A \in SUBSET B
             PROVE  /\ SumOf(On(f, B)) = SumOf(On(f, A)) + SumOf(On(f, B \ A))
                    /\ SumOf(On(f, A)) \in Nat /\ SumOf(On(f, B \ A)) \in Nat
  OBVIOUS
<1>1. /\ SumOf(On(f, B)) = SumOf(On(f, A)) + SumOf(On(f, B \ A))
      /\ SumOf(On(f, A)) \in Nat /\ SumOf(On(f, B \ A)) \in Nat /\ SumOf(On(f, B)) \in Nat
      /\ SumOf(On(f, A)) <= SumOf(On(f, B))
  BY SumParts
<1> QED  BY <1>1, Zenon

\* One summand and the others.
LEMMA SumTake ==
    ASSUME NEW S, IsFiniteSet(S), NEW f \in [S -> Nat], NEW x \in S
    PROVE  SumOf(f) = f[x] + SumOf(On(f, S \ {x})) /\ SumOf(On(f, S \ {x})) \in Nat /\ f[x] \in Nat
           /\ f[x] <= SumOf(f)
<1>1. On(f, {x}) \in [{x} -> Nat] /\ On(f, {x})[x] = f[x]
  BY DEF On
<1>2. SumOf(On(f, {x})) = f[x]
  BY <1>1, SumSingle
<1>3. {x} \in SUBSET S
  OBVIOUS
<1> QED  BY <1>2, <1>3, SumSplit

LEMMA SumMonotone ==
    ASSUME NEW S, IsFiniteSet(S), NEW f \in [S -> Nat], NEW h \in [S -> Nat],
           \A x \in S : f[x] <= h[x]
    PROVE  SumOf(f) <= SumOf(h)
<1>1. Units(f) \subseteq Units(h)
  <2> SUFFICES ASSUME NEW x \in S, NEW i \in 1 .. f[x]
               PROVE  i \in 1 .. h[x]
    BY DEF Units
  <2> QED  OBVIOUS
<1>2. IsFiniteSet(Units(h))
  BY SumType
<1> QED  BY <1>1, <1>2, FS_Subset DEF SumOf

\* A payment changes one summand.
LEMMA SumUpdate ==
    ASSUME NEW S, IsFiniteSet(S), NEW f \in [S -> Nat], NEW h \in [S -> Nat], NEW x \in S,
           \A y \in S : y # x => h[y] = f[y]
    PROVE  SumOf(h) = SumOf(f) - f[x] + h[x] /\ SumOf(f) \in Nat /\ SumOf(h) \in Nat /\ f[x] <= SumOf(f)
<1>1. On(h, S \ {x}) = On(f, S \ {x})
  BY DEF On
<1>2. SumOf(h) = h[x] + SumOf(On(h, S \ {x})) /\ h[x] \in Nat
  BY SumTake
<1>3. /\ SumOf(f) = f[x] + SumOf(On(f, S \ {x})) /\ f[x] \in Nat
      /\ SumOf(On(f, S \ {x})) \in Nat /\ f[x] <= SumOf(f)
  BY SumTake
<1> QED  BY <1>1, <1>2, <1>3

LEMMA SumUpdateAll ==
    ASSUME NEW S, IsFiniteSet(S)
    PROVE  \A f, h \in [S -> Nat], x \in S :
              (\A y \in S : y # x => h[y] = f[y])
              => SumOf(h) = SumOf(f) - f[x] + h[x] /\ SumOf(f) \in Nat /\ SumOf(h) \in Nat /\ f[x] <= SumOf(f)
<1> SUFFICES ASSUME NEW f \in [S -> Nat], NEW h \in [S -> Nat], NEW x \in S,
                    \A y \in S : y # x => h[y] = f[y]
             PROVE  SumOf(h) = SumOf(f) - f[x] + h[x] /\ SumOf(f) \in Nat /\ SumOf(h) \in Nat /\ f[x] <= SumOf(f)
  OBVIOUS
<1> QED  BY SumUpdate

LEMMA SumPut ==
    ASSUME NEW S, IsFiniteSet(S), NEW f \in [S -> Nat], NEW x \in S, NEW v \in Nat
    PROVE  /\ Put(f, x, v) \in [S -> Nat]
           /\ SumOf(Put(f, x, v)) = SumOf(f) - f[x] + v
           /\ SumOf(f) \in Nat /\ f[x] \in Nat /\ f[x] <= SumOf(f)
<1> DEFINE h == Put(f, x, v)
<1>1. h \in [S -> Nat] /\ h[x] = v /\ f[x] \in Nat /\ \A y \in S : y # x => h[y] = f[y]
  BY DEF Put
<1> HIDE DEF h
<1>2. SumOf(h) = SumOf(f) - f[x] + h[x] /\ SumOf(f) \in Nat /\ f[x] <= SumOf(f)
  BY <1>1, SumUpdate
<1> QED  BY <1>1, <1>2 DEF h

-----------------------------------------------------------------------------
(* Sums of sums                                                            *)

LEMMA OnFacts ==
    ASSUME NEW f, NEW T, NEW x, x \notin T
    PROVE  /\ DOMAIN On(f, T) = T /\ \A y \in T : On(f, T)[y] = f[y]
           /\ On(On(f, T \cup {x}), T) = On(f, T)
           /\ (T \cup {x}) \ {x} = T
BY DEF On

\* The summand of x added to a sum.
LEMMA SumAdd ==
    ASSUME NEW S, IsFiniteSet(S), NEW f \in [S -> Nat], NEW T \in SUBSET S, NEW x \in S, x \notin T
    PROVE  /\ SumOf(On(f, T \cup {x})) = SumOf(On(f, T)) + f[x]
           /\ SumOf(On(f, T)) \in Nat /\ f[x] \in Nat
<1> DEFINE U == T \cup {x}
           g == On(f, U)
<1>1. IsFiniteSet(U) /\ g \in [U -> Nat] /\ x \in U /\ g[x] = f[x]
  BY FS_Subset DEF On
<1>2. On(g, U \ {x}) = On(f, T)
  BY OnFacts
<1> HIDE DEF U, g
<1>3. SumOf(g) = g[x] + SumOf(On(g, U \ {x})) /\ SumOf(On(g, U \ {x})) \in Nat /\ g[x] \in Nat
  BY <1>1, SumTake
<1> QED  BY <1>1, <1>2, <1>3 DEF g, U

LEMMA SumAddAll ==
    ASSUME NEW S, IsFiniteSet(S), NEW T, NEW x
    PROVE  T \subseteq S /\ x \in S /\ x \notin T =>
               \A g \in [S -> Nat] : /\ SumOf(On(g, T \cup {x})) = SumOf(On(g, T)) + g[x]
                                     /\ SumOf(On(g, T)) \in Nat
<1> SUFFICES ASSUME T \in SUBSET S, x \in S, x \notin T, NEW g \in [S -> Nat]
             PROVE  /\ SumOf(On(g, T \cup {x})) = SumOf(On(g, T)) + g[x]
                    /\ SumOf(On(g, T)) \in Nat
  OBVIOUS
<1> QED  BY SumAdd

LEMMA SumPlus ==
    ASSUME NEW S, IsFiniteSet(S), NEW f \in [S -> Nat], NEW h \in [S -> Nat],
           NEW p, p = [x \in S |-> f[x] + h[x]]
    PROVE  SumOf(p) = SumOf(f) + SumOf(h) /\ p \in [S -> Nat]
<1> DEFINE Good == {T \in SUBSET S : SumOf(On(p, T)) = SumOf(On(f, T)) + SumOf(On(h, T))}
<1>1. p \in [S -> Nat]
  OBVIOUS
<1>2. {} \in Good
  <2>1. ASSUME NEW k  PROVE SumOf(On(k, {})) = 0
    <3>1. On(k, {}) = [x \in {} |-> On(k, {})[x]]
      BY DEF On
    <3> QED  BY <3>1, SumZero
  <2>2. SumOf(On(p, {})) = 0 /\ SumOf(On(f, {})) = 0 /\ SumOf(On(h, {})) = 0
    BY <2>1
  <2> QED  BY <2>2
<1>3. ASSUME NEW T \in SUBSET S, NEW x \in S, T \in Good, x \notin T
      PROVE  T \cup {x} \in Good
  <2>0. \A g \in [S -> Nat] : /\ SumOf(On(g, T \cup {x})) = SumOf(On(g, T)) + g[x]
                              /\ SumOf(On(g, T)) \in Nat
    <3>1. T \subseteq S /\ x \in S /\ x \notin T
      BY <1>3
    <3> HIDE DEF Good
    <3> QED  BY <3>1, SumAddAll, Zenon
  <2>1. /\ SumOf(On(p, T \cup {x})) = SumOf(On(p, T)) + p[x]
        /\ SumOf(On(f, T \cup {x})) = SumOf(On(f, T)) + f[x]
        /\ SumOf(On(h, T \cup {x})) = SumOf(On(h, T)) + h[x]
        /\ SumOf(On(f, T)) \in Nat /\ SumOf(On(h, T)) \in Nat
    BY <1>1, <2>0
  <2>2. p[x] = f[x] + h[x] /\ f[x] \in Nat /\ h[x] \in Nat
    OBVIOUS
  <2>3. SumOf(On(p, T)) = SumOf(On(f, T)) + SumOf(On(h, T))
    BY <1>3
  <2>4. SumOf(On(p, T \cup {x})) = SumOf(On(f, T \cup {x})) + SumOf(On(h, T \cup {x}))
    BY <2>1, <2>2, <2>3
  <2> QED  BY <2>4
<1>4. S \in Good
  <2> HIDE DEF Good
  <2> QED  BY <1>2, <1>3, SubsetInduction
<1>5. On(p, S) = p /\ On(f, S) = f /\ On(h, S) = h
  BY <1>1 DEF On
<1> QED  BY <1>1, <1>4, <1>5

LEMMA SumScale ==
    ASSUME NEW S, IsFiniteSet(S), NEW f \in [S -> Nat], NEW c \in Nat,
           NEW p, p = [x \in S |-> c * f[x]]
    PROVE  SumOf(p) = c * SumOf(f) /\ p \in [S -> Nat]
<1> DEFINE Good == {T \in SUBSET S : SumOf(On(p, T)) = c * SumOf(On(f, T))}
<1>1. p \in [S -> Nat]
  <2>1. \A x \in S : c * f[x] \in Nat
    OBVIOUS
  <2> QED  BY <2>1
<1>2. {} \in Good
  <2>1. ASSUME NEW k  PROVE SumOf(On(k, {})) = 0
    <3>1. On(k, {}) = [x \in {} |-> On(k, {})[x]]
      BY DEF On
    <3> QED  BY <3>1, SumZero
  <2>2. SumOf(On(p, {})) = 0 /\ SumOf(On(f, {})) = 0
    BY <2>1
  <2> QED  BY <2>2
<1>3. ASSUME NEW T \in SUBSET S, NEW x \in S, T \in Good, x \notin T
      PROVE  T \cup {x} \in Good
  <2>0. \A g \in [S -> Nat] : /\ SumOf(On(g, T \cup {x})) = SumOf(On(g, T)) + g[x]
                              /\ SumOf(On(g, T)) \in Nat
    <3>1. T \subseteq S /\ x \in S /\ x \notin T
      BY <1>3
    <3> HIDE DEF Good
    <3> QED  BY <3>1, SumAddAll, Zenon
  <2>1. /\ SumOf(On(p, T \cup {x})) = SumOf(On(p, T)) + p[x]
        /\ SumOf(On(f, T \cup {x})) = SumOf(On(f, T)) + f[x]
        /\ SumOf(On(f, T)) \in Nat
    BY <1>1, <2>0
  <2>2. p[x] = c * f[x] /\ f[x] \in Nat
    OBVIOUS
  <2>3. SumOf(On(p, T)) = c * SumOf(On(f, T))
    BY <1>3
  <2>4. \A a, b \in Nat : c * a + c * b = c * (a + b)
    OBVIOUS
  <2>5. SumOf(On(p, T \cup {x})) = c * SumOf(On(f, T \cup {x}))
    BY <2>1, <2>2, <2>3, <2>4
  <2> QED  BY <2>5
<1>4. S \in Good
  <2> HIDE DEF Good
  <2> QED  BY <1>2, <1>3, SubsetInduction
<1>5. On(p, S) = p /\ On(f, S) = f
  BY <1>1 DEF On
<1> QED  BY <1>1, <1>4, <1>5

\* What is summed up by kinds is summed up once: k[x] is the kind of x.
LEMMA SumByKind ==
    ASSUME NEW S, IsFiniteSet(S), NEW f \in [S -> Nat],
           NEW K, IsFiniteSet(K), NEW k \in [S -> K],
           NEW q, q = [r \in K |-> SumOf(On(f, {x \in S : k[x] = r}))]
    PROVE  SumOf(q) = SumOf(f) /\ q \in [K -> Nat]
<1> DEFINE part(T) == [r \in K |-> SumOf(On(f, {x \in T : k[x] = r}))]
           Good == {T \in SUBSET S : SumOf(part(T)) = SumOf(On(f, T))}
<1>1. ASSUME NEW T \in SUBSET S  PROVE part(T) \in [K -> Nat]
  <2>1. ASSUME NEW r \in K  PROVE SumOf(On(f, {x \in T : k[x] = r})) \in Nat
    <3>1. {x \in T : k[x] = r} \in SUBSET S
      OBVIOUS
    <3> QED  BY <3>1, SumSplit
  <2> QED  BY <2>1
<1>2. {} \in Good
  <2>1. On(f, {}) = [x \in {} |-> On(f, {})[x]]
    BY DEF On
  <2>2. SumOf(On(f, {})) = 0
    BY <2>1, SumZero
  <2>3. \A r \in K : {x \in {} : k[x] = r} = {}
    OBVIOUS
  <2>4. part({}) = [r \in K |-> part({})[r]] /\ \A r \in K : part({})[r] = 0
    BY <2>2, <2>3
  <2>5. SumOf(part({})) = 0
    <3> HIDE DEF part
    <3> QED  BY <2>4, SumZero
  <2> QED  BY <2>2, <2>5
<1>3. ASSUME NEW T \in SUBSET S, NEW x \in S, T \in Good, x \notin T
      PROVE  T \cup {x} \in Good
  <2> DEFINE U == T \cup {x}
             r == k[x]
             A == {y \in T : k[y] = r}
  <2>1. {y \in U : k[y] = r} = A \cup {x} /\ A \in SUBSET S /\ x \notin A
    BY <1>3
  <2>2. \A s \in K : s # r => {y \in U : k[y] = s} = {y \in T : k[y] = s}
    OBVIOUS
  <2>3. /\ SumOf(On(f, A \cup {x})) = SumOf(On(f, A)) + f[x]
        /\ SumOf(On(f, U)) = SumOf(On(f, T)) + f[x]
        /\ SumOf(On(f, A)) \in Nat /\ SumOf(On(f, T)) \in Nat /\ f[x] \in Nat
    <3> HIDE DEF A
    <3> QED  BY <1>3, <2>1, SumAdd
  <2>4. r \in K /\ part(T) \in [K -> Nat] /\ part(T)[r] = SumOf(On(f, A))
    BY <1>1
  <2>5. part(U) = [part(T) EXCEPT ![r] = SumOf(On(f, A)) + f[x]]
    BY <2>1, <2>2, <2>3
  <2>6. SumOf(part(U)) = SumOf(part(T)) - part(T)[r] + (SumOf(On(f, A)) + f[x])
    <3>1. SumOf(On(f, A)) + f[x] \in Nat
      BY <2>3
    <3> DEFINE g == part(T)
               h == part(U)
    <3>2. g \in [K -> Nat] /\ r \in K /\ h = [g EXCEPT ![r] = SumOf(On(f, A)) + f[x]]
      BY <2>4, <2>5
    <3> HIDE DEF g, h, r
    <3>3. h \in [K -> Nat] /\ h[r] = SumOf(On(f, A)) + f[x] /\ \A s \in K : s # r => h[s] = g[s]
      BY <3>1, <3>2
    <3>4. SumOf(h) = SumOf(g) - g[r] + h[r]
      <4>1. \A a, b \in [K -> Nat], i \in K :
               (\A s \in K : s # i => b[s] = a[s]) => SumOf(b) = SumOf(a) - a[i] + b[i]
        BY SumUpdateAll
      <4>2. g \in [K -> Nat] /\ h \in [K -> Nat] /\ r \in K /\ \A s \in K : s # r => h[s] = g[s]
        BY <3>2, <3>3
      <4> QED  BY <4>1, <4>2, Zenon
    <3> QED  BY <3>3, <3>4 DEF g, h, r
  <2>7. SumOf(part(T)) = SumOf(On(f, T))
    BY <1>3
  <2>8. SumOf(part(U)) = SumOf(On(f, U))
    <3> HIDE DEF part, r, A, U
    <3> QED  BY <2>3, <2>4, <2>6, <2>7
  <2>9. U \in SUBSET S
    OBVIOUS
  <2> QED  BY <2>8, <2>9
<1>4. S \in Good
  <2> HIDE DEF Good
  <2> QED  BY <1>2, <1>3, SubsetInduction
<1>5. On(f, S) = f /\ q = part(S)
  BY DEF On
<1>6. q \in [K -> Nat]
  BY <1>1, <1>5
<1> QED  BY <1>4, <1>5, <1>6

-----------------------------------------------------------------------------
(* Shares                                                                  *)

LEMMA DivBounds ==
    ASSUME NEW x \in Nat, NEW y \in Nat \ {0}
    PROVE  x \div y \in Nat /\ y * (x \div y) <= x
<1>1. x \div y \in Int /\ y * (x \div y) <= x /\ x \div y >= 0
  BY SMT
<1> QED  BY <1>1

\* Shares of an amount, rounded down, in proportion to weights: together they
\* are at most the amount.
LEMMA SharesFit ==
    ASSUME NEW S, IsFiniteSet(S), NEW w \in [S -> Nat], NEW total \in Nat, SumOf(w) <= total,
           NEW amount \in Nat,
           NEW f, f = [x \in S |-> IF w[x] = 0 THEN 0 ELSE (amount * w[x]) \div total]
    PROVE  f \in [S -> Nat] /\ SumOf(f) <= amount
<1>1. ASSUME NEW x \in S
      PROVE  f[x] \in Nat /\ total * f[x] <= amount * w[x]
  <2>1. CASE w[x] = 0
    BY <2>1
  <2>2. CASE w[x] # 0
    <3>1. w[x] <= total /\ w[x] \in Nat
      <4>1. w[x] \in Nat /\ w[x] <= SumOf(w) /\ SumOf(w) \in Nat
        BY SumTake, SumType
      <4> QED  BY <4>1
    <3>2. total \in Nat \ {0} /\ amount * w[x] \in Nat
      BY <2>2, <3>1
    <3>3. (amount * w[x]) \div total \in Nat
          /\ total * ((amount * w[x]) \div total) <= amount * w[x]
      BY <3>2, DivBounds
    <3> QED  BY <2>2, <3>3
  <2> QED  BY <2>1, <2>2
<1>2. f \in [S -> Nat]
  BY <1>1
<1> DEFINE a == [x \in S |-> total * f[x]]
           b == [x \in S |-> amount * w[x]]
<1>3. SumOf(a) = total * SumOf(f) /\ a \in [S -> Nat]
  BY <1>2, SumScale, SMTT(30)
<1>4. SumOf(b) = amount * SumOf(w) /\ b \in [S -> Nat]
  BY SumScale
<1>5. SumOf(a) <= SumOf(b)
  <2>1. \A x \in S : a[x] <= b[x]
    BY <1>1
  <2> HIDE DEF a, b
  <2> QED  BY <1>3, <1>4, <2>1, SumMonotone
<1>6. SumOf(f) \in Nat /\ SumOf(w) \in Nat
  BY <1>2, SumType
<1>7. total * SumOf(f) <= amount * total
  <2>1. amount * SumOf(w) <= amount * total
    BY <1>6
  <2> HIDE DEF a, b
  <2> QED  BY <1>3, <1>4, <1>5, <1>6, <2>1
<1>8. CASE total = 0
  <2>1. \A x \in S : f[x] = 0
    <3>1. ASSUME NEW x \in S  PROVE w[x] = 0
      <4>1. w[x] \in Nat /\ w[x] <= SumOf(w) /\ SumOf(w) \in Nat
        BY SumTake, SumType
      <4> QED  BY <1>8, <4>1
    <3> QED  BY <3>1
  <2>2. SumOf(f) = 0
    BY <1>2, <2>1, SumZero
  <2> QED  BY <1>2, <2>2
<1>9. CASE total # 0
  <2>1. ASSUME SumOf(f) > amount  PROVE FALSE
    <3>1. total * (amount + 1) <= total * SumOf(f)
      BY <1>6, <2>1
    <3>2. total * (amount + 1) = amount * total + total
      OBVIOUS
    <3> QED  BY <1>6, <1>7, <1>9, <3>1, <3>2
  <2> QED  BY <1>2, <1>6, <2>1
<1> QED  BY <1>8, <1>9
=============================================================================
