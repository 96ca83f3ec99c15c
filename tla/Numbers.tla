------------------------------ MODULE Numbers -------------------------------
(***************************************************************************)
(* Facts about numbers that the proofs of several components need: a set   *)
(* of numbers has a smallest, so that the least counterexample stands in   *)
(* for an induction; and the sum of a function over a finite set, which    *)
(* simulate.py takes with sum(), adds up one element after the other.      *)
(***************************************************************************)
EXTENDS Integers, FiniteSetsExt, FiniteSetTheorems, WellFoundedInduction, TLAPS

(* Every set of numbers has a smallest. *)
LEMMA SmallestNumber ==
    ASSUME NEW T, T \subseteq Nat, T # {}
    PROVE  \E x \in T : \A y \in T : x <= y
<1> DEFINE R == {p \in Nat \X Nat : p[1] < p[2]}
<1>1. OpToRel(<, Nat) = R
    BY Zenon DEF OpToRel
<1>2. IsWellFoundedOn(R, Nat)
    BY <1>1, NatLessThanWellFounded
<1> HIDE DEF R
<1>3. PICK x \in T : \A y \in T : ~ (<<y, x>> \in R)
    BY <1>2, WFMin, Zenon
<1> USE DEF R
<1>4. ASSUME NEW y \in T PROVE x <= y
    <2>1. x \in Nat /\ y \in Nat
        OBVIOUS
    <2>2. ~ (y < x)
        BY <1>3, <2>1
    <2> QED
        BY <2>1, <2>2
<1> QED
    BY <1>3, <1>4

(* A set of numbers with a bound below has a smallest too. *)
LEMMA SmallestAbove ==
    ASSUME NEW low \in Int, NEW T, T \subseteq Int, T # {}, \A x \in T : low <= x
    PROVE  \E x \in T : \A y \in T : x <= y
<1> DEFINE U == {x - low : x \in T}
<1>1. U \subseteq Nat /\ U # {}
    <2>1. \A x \in T : x - low \in Nat
        OBVIOUS
    <2> QED
        BY <2>1
<1> HIDE DEF U
<1>2. PICK u \in U : \A w \in U : u <= w
    BY <1>1, SmallestNumber
<1> USE DEF U
<1>3. PICK x \in T : u = x - low
    BY <1>2
<1>4. ASSUME NEW y \in T PROVE x <= y
    <2>1. x - low <= y - low
        BY <1>2, <1>3
    <2>2. x \in Int /\ y \in Int
        OBVIOUS
    <2> QED
        BY <2>1, <2>2
<1> QED
    BY <1>4

(* And one with a bound above a largest. *)
LEMMA LargestBelow ==
    ASSUME NEW high \in Int, NEW T, T \subseteq Int, T # {}, \A x \in T : x <= high
    PROVE  \E x \in T : \A y \in T : y <= x
<1> DEFINE U == {0 - x : x \in T}
<1>1. U \subseteq Int /\ U # {} /\ 0 - high \in Int /\ \A u \in U : 0 - high <= u
    <2>1. \A x \in T : 0 - x \in Int /\ 0 - high <= 0 - x
        OBVIOUS
    <2>2. U \subseteq Int /\ \A u \in U : 0 - high <= u
        BY <2>1
    <2>3. U # {}
        OBVIOUS
    <2> QED
        BY <2>2, <2>3
<1> HIDE DEF U
<1>2. PICK u \in U : \A w \in U : u <= w
    BY <1>1, SmallestAbove
<1> USE DEF U
<1>3. PICK x \in T : u = 0 - x
    BY <1>2
<1>4. ASSUME NEW y \in T PROVE y <= x
    <2>1. 0 - x <= 0 - y
        BY <1>2, <1>3
    <2>2. x \in Int /\ y \in Int
        OBVIOUS
    <2> QED
        BY <2>1, <2>2
<1> QED
    BY <1>4

-----------------------------------------------------------------------------
(* Sums. *)

(* The sum of a function picks one element after the other. *)
Picked(s) == CHOOSE x \in s : TRUE

Summed(fun, f, s) == IF s = {} THEN 0 ELSE fun[Picked(s)] + f[s \ {Picked(s)}]

LEMMA SumIs ==
    ASSUME NEW S, NEW fun
    PROVE  SumFunctionOnSet(fun, S) = (CHOOSE f : f = [s \in SUBSET S |-> Summed(fun, f, s)])[S]
BY DEF SumFunctionOnSet, FoldFunctionOnSet, MapThenFoldSet, Summed, Picked

(* What is left is smaller by one. *)
LEMMA Rest ==
    ASSUME NEW S, IsFiniteSet(S), NEW s \in SUBSET S, s # {}
    PROVE  /\ Picked(s) \in s /\ s \ {Picked(s)} \in SUBSET S
           /\ Cardinality(s) \in Nat /\ Cardinality(s) > 0
           /\ Cardinality(s \ {Picked(s)}) = Cardinality(s) - 1
<1>1. Picked(s) \in s
    BY DEF Picked
<1>2. IsFiniteSet(s)
    BY FS_Subset
<1>3. Cardinality(s) \in Nat /\ Cardinality(s \ {Picked(s)}) = Cardinality(s) - 1
    BY <1>1, <1>2, FS_RemoveElement, FS_CardinalityType
<1>4. Cardinality(s) # 0
    BY <1>2, FS_EmptySet
<1> QED
    BY <1>1, <1>3, <1>4

SumsBy(fun, S, f) ==
    /\ f[S] = SumFunctionOnSet(fun, S)
    /\ \A s \in SUBSET S : f[s] = Summed(fun, f, s) /\ f[s] \in Nat

LEMMA SumUnfolds ==
    ASSUME NEW S, IsFiniteSet(S), NEW fun, \A x \in S : fun[x] \in Nat
    PROVE  \E f : SumsBy(fun, S, f)
<1> DEFINE Works(f, n) ==
            \A s \in SUBSET S : Cardinality(s) <= n => f[s] = Summed(fun, f, s)
           Bad == {n \in Nat : ~ \E f : Works(f, n)}
<1>1. Bad = {}
    <2> SUFFICES ASSUME Bad # {} PROVE FALSE
        OBVIOUS
    <2>1. PICK m \in Bad : \A n \in Bad : m <= n
        BY SmallestNumber
    <2>2. CASE m = 0
        <3> DEFINE f == [s \in SUBSET S |-> 0]
        <3>1. Works(f, 0)
            <4> SUFFICES ASSUME NEW s \in SUBSET S, Cardinality(s) <= 0
                         PROVE  f[s] = Summed(fun, f, s)
                OBVIOUS
            <4>1. ASSUME s # {} PROVE FALSE
                <5>1. Cardinality(s) \in Nat /\ Cardinality(s) > 0
                    BY <4>1, Rest
                <5> QED
                    BY <5>1
            <4> QED
                BY <4>1 DEF Summed
        <3> HIDE DEF f
        <3>2. \E h : Works(h, 0)
            BY <3>1
        <3> HIDE DEF Works
        <3>3. ~ \E h : Works(h, 0)
            BY <2>1, <2>2
        <3> QED
            BY <3>2, <3>3
    <2>3. CASE m # 0
        <3>1. m - 1 \in Nat /\ m - 1 \notin Bad
            BY <2>1, <2>3
        <3>2. PICK f : Works(f, m - 1)
            BY <3>1
        <3> DEFINE g == [s \in SUBSET S |-> Summed(fun, f, s)]
        <3>3. Works(g, m)
            <4> SUFFICES ASSUME NEW s \in SUBSET S, Cardinality(s) <= m
                         PROVE  g[s] = Summed(fun, g, s)
                OBVIOUS
            <4>1. CASE s = {}
                BY <4>1 DEF Summed
            <4>2. CASE s # {}
                <5> DEFINE t == s \ {Picked(s)}
                <5>1. t \in SUBSET S /\ Cardinality(t) <= m - 1
                    BY <2>1, <4>2, Rest
                <5> HIDE DEF t
                <5>2. f[t] = Summed(fun, f, t)
                    BY <3>2, <5>1
                <5>3. g[t] = f[t]
                    BY <5>1, <5>2
                <5> QED
                    BY <4>2, <5>3 DEF Summed, t
            <4> QED
                BY <4>1, <4>2
        <3> HIDE DEF g, Works
        <3>4. ~ \E h : Works(h, m)
            BY <2>1
        <3> QED
            BY <3>3, <3>4
    <2> QED
        BY <2>2, <2>3
<1>2. \E f : f = [s \in SUBSET S |-> Summed(fun, f, s)]
    <2>1. Cardinality(S) \in Nat
        BY FS_CardinalityType
    <2>2. PICK f : Works(f, Cardinality(S))
        BY <1>1, <2>1
    <2> DEFINE g == [s \in SUBSET S |-> f[s]]
    <2>3. ASSUME NEW s \in SUBSET S PROVE g[s] = Summed(fun, g, s)
        <3>1. Cardinality(s) <= Cardinality(S)
            BY FS_Subset
        <3>2. f[s] = Summed(fun, f, s)
            BY <2>2, <3>1
        <3>3. s # {} => s \ {Picked(s)} \in SUBSET S
            BY Rest
        <3> QED
            BY <3>2, <3>3 DEF Summed
    <2>4. g = [s \in SUBSET S |-> Summed(fun, g, s)]
        BY <2>3
    <2> QED
        BY <2>4
<1> DEFINE f == CHOOSE f : f = [s \in SUBSET S |-> Summed(fun, f, s)]
<1>3. f = [s \in SUBSET S |-> Summed(fun, f, s)]
    BY <1>2
<1>4. f[S] = SumFunctionOnSet(fun, S)
    BY SumIs
<1> HIDE DEF f
<1>5. \A s \in SUBSET S : f[s] = Summed(fun, f, s)
    BY <1>3
<1>6. \A s \in SUBSET S : f[s] \in Nat
    <2> DEFINE Odd == {n \in Nat : \E s \in SUBSET S : Cardinality(s) = n /\ f[s] \notin Nat}
    <2> SUFFICES ASSUME NEW s0 \in SUBSET S, f[s0] \notin Nat PROVE FALSE
        OBVIOUS
    <2>1. Cardinality(s0) \in Odd
        BY FS_Subset, FS_CardinalityType
    <2>2. PICK n \in Odd : \A k \in Odd : n <= k
        BY <2>1, SmallestNumber
    <2>3. PICK s \in SUBSET S : Cardinality(s) = n /\ f[s] \notin Nat
        BY <2>2
    <2>4. CASE s = {}
        <3> HIDE DEF Odd
        <3>1. f[s] = Summed(fun, f, s)
            BY <1>5
        <3>2. f[s] = 0
            BY <2>4, <3>1 DEF Summed
        <3> QED
            BY <2>3, <3>2
    <2>5. CASE s # {}
        <3> DEFINE t == s \ {Picked(s)}
        <3>1. t \in SUBSET S /\ Cardinality(t) = n - 1 /\ n - 1 \in Nat /\ Picked(s) \in S
            <4>1. /\ Picked(s) \in s /\ t \in SUBSET S
                  /\ Cardinality(s) \in Nat /\ Cardinality(s) > 0
                  /\ Cardinality(t) = Cardinality(s) - 1
                BY <2>5, Rest
            <4> HIDE DEF t, Odd
            <4> QED
                BY <2>3, <4>1
        <3>2. n - 1 \notin Odd
            BY <2>2, <3>1
        <3>3. f[t] \in Nat
            BY <3>1, <3>2
        <3>4. f[s] = fun[Picked(s)] + f[t]
            BY <1>5, <2>5 DEF Summed
        <3> QED
            BY <2>3, <3>1, <3>3, <3>4
    <2> QED
        BY <2>4, <2>5
<1> QED
    BY <1>4, <1>5, <1>6 DEF SumsBy

(* Where everybody gets nothing, all together get nothing. *)
LEMMA NothingAddsUp ==
    ASSUME NEW S, IsFiniteSet(S), NEW given, \A i \in S : given[i] = 0
    PROVE  SumFunctionOnSet(given, S) = 0
<1>1. \A i \in S : given[i] \in Nat
    OBVIOUS
<1>2. PICK g : SumsBy(given, S, g)
    BY <1>1, SumUnfolds
<1>3. /\ g[S] = SumFunctionOnSet(given, S)
      /\ \A s \in SUBSET S : g[s] = Summed(given, g, s) /\ g[s] \in Nat
    BY <1>2 DEF SumsBy
<1> DEFINE Odd == {n \in Nat : \E s \in SUBSET S : Cardinality(s) = n /\ g[s] # 0}
<1>4. ASSUME g[S] # 0 PROVE FALSE
    <2>1. Cardinality(S) \in Odd
        BY <1>4, FS_CardinalityType
    <2>2. PICK n \in Odd : \A k \in Odd : n <= k
        BY <2>1, SmallestNumber
    <2>3. PICK s \in SUBSET S : Cardinality(s) = n /\ g[s] # 0
        BY <2>2
    <2>4. n \in Nat /\ \A k \in Nat : k < n => \A r \in SUBSET S : Cardinality(r) = k => g[r] = 0
        BY <2>2
    <2> HIDE DEF Odd
    <2>5. s # {}
        BY <1>3, <2>3 DEF Summed
    <2> DEFINE x == Picked(s)
               t == s \ {x}
    <2>6. /\ x \in s /\ t \in SUBSET S /\ Cardinality(s) \in Nat /\ Cardinality(s) > 0
          /\ Cardinality(t) = Cardinality(s) - 1
        BY <2>5, Rest
    <2>7. g[s] = given[x] + g[t]
        BY <1>3, <2>5 DEF Summed
    <2> HIDE DEF x, t
    <2>8. g[t] = 0
        BY <2>3, <2>4, <2>6
    <2> QED
        BY <2>3, <2>6, <2>7, <2>8
<1> QED
    BY <1>3, <1>4

LEMMA Distribute ==
    ASSUME NEW k \in Nat, NEW a \in Nat, NEW b \in Nat
    PROVE  k * (a + b) = k * a + k * b /\ k * a \in Nat /\ k * b \in Nat /\ k * (a + b) \in Nat
OBVIOUS

LEMMA Divide ==
    ASSUME NEW k \in Nat \ {0}, NEW a \in Nat, NEW b \in Nat, k * a <= k * b
    PROVE  a <= b
<1> SUFFICES ASSUME b + 1 <= a PROVE FALSE
    OBVIOUS
<1>1. PICK c \in Nat : a = b + 1 + c
    <2>1. a - (b + 1) \in Nat /\ a = b + 1 + (a - (b + 1))
        OBVIOUS
    <2> QED
        BY <2>1
<1>2. k * a = k * b + k * (1 + c)
    BY <1>1
<1>3. k * (1 + c) = k + k * c /\ k * c \in Nat /\ k * a \in Nat /\ k * b \in Nat
    OBVIOUS
<1> QED
    BY <1>2, <1>3

LEMMA OneMoreShare ==
    ASSUME NEW a \in Nat, NEW b \in Nat, NEW c \in Nat,
           NEW x \in Nat, NEW y \in Nat, NEW z \in Nat,
           2 * a <= 2 * b + c, 2 * x <= 2 * y + z
    PROVE  2 * (x + a) <= 2 * (y + b) + (c + z)
OBVIOUS

(* When everybody in P gets no more than a share of `made`, by what was     *)
(* used and rounded by half, and nobody else anything, then all together    *)
(* get no more than was made and half for each.                             *)
LEMMA SharesAddUp ==
    ASSUME NEW S, IsFiniteSet(S), NEW P \in SUBSET S, NEW given, NEW used,
           \A i \in S : given[i] \in Nat /\ used[i] \in Nat,
           NEW total \in Nat \ {0}, NEW made \in Nat,
           total = SumFunctionOnSet(used, S),
           \A i \in P : 2 * (total * given[i]) <= 2 * (made * used[i]) + total,
           \A i \in S \ P : given[i] = 0
    PROVE  2 * SumFunctionOnSet(given, S) <= 2 * made + Cardinality(P)
<1>0. (\A i \in S : given[i] \in Nat) /\ (\A i \in S : used[i] \in Nat)
    OBVIOUS
<1>a. PICK g : SumsBy(given, S, g)
    BY <1>0, SumUnfolds
<1>b. PICK u : SumsBy(used, S, u)
    BY <1>0, SumUnfolds
<1>1. /\ g[S] = SumFunctionOnSet(given, S)
      /\ \A s \in SUBSET S : g[s] = Summed(given, g, s) /\ g[s] \in Nat
    BY <1>a DEF SumsBy
<1>2. /\ u[S] = SumFunctionOnSet(used, S)
      /\ \A s \in SUBSET S : u[s] = Summed(used, u, s) /\ u[s] \in Nat
    BY <1>b DEF SumsBy
<1> DEFINE Fits(s) == 2 * (total * g[s]) <= 2 * (made * u[s]) + total * Cardinality(s \cap P)
           Odd == {n \in Nat : \E s \in SUBSET S : Cardinality(s) = n /\ ~ Fits(s)}
<1>3. \A s \in SUBSET S : IsFiniteSet(s) /\ Cardinality(s) \in Nat
                          /\ IsFiniteSet(s \cap P) /\ Cardinality(s \cap P) \in Nat
    BY FS_Subset, FS_CardinalityType
<1>4. Fits(S)
    <2> SUFFICES ASSUME ~ Fits(S) PROVE FALSE
        OBVIOUS
    <2>1. Cardinality(S) \in Odd
        BY <1>3
    <2>2. PICK n \in Odd : \A k \in Odd : n <= k
        BY <2>1, SmallestNumber
    <2>3. PICK s \in SUBSET S : Cardinality(s) = n /\ ~ Fits(s)
        BY <2>2
    <2>6. n \in Nat /\ \A k \in Nat : k < n => \A r \in SUBSET S : Cardinality(r) = k => Fits(r)
        <3> HIDE DEF Fits
        <3> QED
            BY <2>2
    <2> HIDE DEF Odd
    <2>4. CASE s = {}
        <3>1. g[s] = 0 /\ u[s] = 0
            BY <1>1, <1>2, <2>4 DEF Summed
        <3>2. Cardinality(s \cap P) = 0
            BY <2>4, FS_EmptySet
        <3> QED
            BY <2>3, <3>1, <3>2
    <2>5. CASE s # {}
        <3> DEFINE x == Picked(s)
                   t == s \ {x}
        <3>1. t \in SUBSET S /\ Cardinality(t) = n - 1 /\ n - 1 \in Nat /\ x \in s /\ x \in S
            <4> HIDE DEF Fits
            <4>1. /\ x \in s /\ t \in SUBSET S
                  /\ Cardinality(s) \in Nat /\ Cardinality(s) > 0
                  /\ Cardinality(t) = Cardinality(s) - 1
                BY <2>5, Rest
            <4> HIDE DEF x, t
            <4> QED
                BY <2>3, <4>1
        <3>3. g[s] = given[x] + g[t] /\ u[s] = used[x] + u[t]
            BY <1>1, <1>2, <2>5 DEF Summed
        <3> HIDE DEF x
        <3>4. Fits(t)
            <4> HIDE DEF Fits, t
            <4> QED
                BY <2>6, <3>1
        <3>5. /\ given[x] \in Nat /\ used[x] \in Nat /\ g[t] \in Nat /\ u[t] \in Nat
              /\ Cardinality(t \cap P) \in Nat
            BY <1>1, <1>2, <1>3, <3>1
        <3> HIDE DEF t
        <3>6. /\ total * g[s] = total * given[x] + total * g[t]
              /\ made * u[s] = made * used[x] + made * u[t]
              /\ total * given[x] \in Nat /\ total * g[t] \in Nat
              /\ made * used[x] \in Nat /\ made * u[t] \in Nat
            BY <3>3, <3>5, Distribute
        <3>7. CASE x \in P
            <4>1. Cardinality(s \cap P) = Cardinality(t \cap P) + 1
                <5>1. s \cap P = (t \cap P) \cup {x} /\ x \notin t \cap P
                    BY <3>1, <3>7 DEF t
                <5>2. IsFiniteSet(t \cap P)
                    BY <1>3, <3>1
                <5> QED
                    BY <5>1, <5>2, FS_AddElement
            <4>2. total * Cardinality(s \cap P) = total * Cardinality(t \cap P) + total
                  /\ total * Cardinality(t \cap P) \in Nat
                BY <3>5, <4>1, Distribute
            <4>3. 2 * (total * given[x]) <= 2 * (made * used[x]) + total
                BY <3>7
            <4>4. 2 * (total * g[t]) <= 2 * (made * u[t]) + total * Cardinality(t \cap P)
                BY <3>4
            <4>5. 2 * (total * given[x] + total * g[t])
                    <= 2 * (made * used[x] + made * u[t]) + (total * Cardinality(t \cap P) + total)
                BY <3>6, <4>2, <4>3, <4>4, OneMoreShare
            <4>6. Fits(s)
                BY <3>6, <4>2, <4>5
            <4> HIDE DEF Fits
            <4> QED
                BY <2>3, <4>6
        <3>8. CASE x \notin P
            <4>1. s \cap P = t \cap P
                BY <3>1, <3>8 DEF t
            <4>2. total * given[x] = 0
                BY <3>1, <3>8
            <4>3. total * Cardinality(t \cap P) \in Nat
                BY <3>5, Distribute
            <4>4. 2 * (total * g[t]) <= 2 * (made * u[t]) + total * Cardinality(t \cap P)
                BY <3>4
            <4>5. 2 * (total * given[x] + total * g[t])
                    <= 2 * (made * used[x] + made * u[t]) + (total * Cardinality(t \cap P) + 0)
                <5>1. 2 * (total * given[x]) <= 2 * (made * used[x]) + 0
                    BY <3>6, <4>2
                <5> QED
                    BY <3>6, <4>3, <4>4, <5>1, OneMoreShare
            <4>6. Fits(s)
                <5>1. total * Cardinality(s \cap P) = total * Cardinality(t \cap P)
                    BY <4>1, Zenon
                <5> QED
                    BY <3>6, <4>3, <4>5, <5>1
            <4> HIDE DEF Fits
            <4> QED
                BY <2>3, <4>6
        <3> QED
            BY <3>7, <3>8
    <2> QED
        BY <2>4, <2>5
<1>5. S \cap P = P /\ g[S] \in Nat /\ Cardinality(P) \in Nat
    BY <1>1, <1>3
<1> DEFINE G == g[S]
           c == Cardinality(P)
<1>6. 2 * (total * G) <= 2 * (made * total) + total * c
    BY <1>2, <1>4, <1>5
<1>7. total * (2 * G) <= total * (2 * made + c)
    <2> HIDE DEF G, c
    <2>1. G \in Nat /\ c \in Nat
        BY <1>5 DEF G, c
    <2>2. total * (2 * G) = 2 * (total * G) /\ total * (2 * made + c) = 2 * (made * total) + total * c
        BY <2>1
    <2> QED
        BY <1>6, <2>2
<1> HIDE DEF G, c
<1>8. 2 * G \in Nat /\ 2 * made + c \in Nat
    BY <1>5 DEF G, c
<1>9. 2 * G <= 2 * made + c
    BY <1>7, <1>8, Divide
<1> QED
    BY <1>1, <1>9 DEF G, c
=============================================================================
