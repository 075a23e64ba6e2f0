------------------------- MODULE CommandPathProofs -------------------------
(***************************************************************************)
(* Proofs about Wallet and CommandPath, for any commands, balances, queue  *)
(* sizes and number of rounds: money, answers and bets are accounted for   *)
(* between the players and the engine.                                     *)
(*                                                                         *)
(* Balances are sums over bets and answers are numbers of elements of a    *)
(* sequence.  The first part proves what is needed of sums and counts, by  *)
(* induction on finite sets; the induction hypothesis is a set of sets.    *)
(***************************************************************************)
EXTENDS CommandPath, GameLoopProofs, FiniteSetTheorems, TLAPS

-----------------------------------------------------------------------------
(* Induction *)

\* A set of naturals that is not empty has a least element.
LEMMA LeastElement ==
  ASSUME NEW T \in SUBSET Nat, T # {}
  PROVE  \E n \in T : \A m \in T : n <= m
<1> DEFINE R == {ss \in Nat \X Nat : ss[1] < ss[2]}
<1>1. IsWellFoundedOn(R, Nat)
  BY NatLessThanWellFounded, Zenon DEF OpToRel
<1> HIDE DEF R
<1>2. PICK n \in T : \A m \in T : ~ (<<m, n>> \in R)
  BY <1>1, WFMin
<1>3. \A m \in T : ~ (m < n)
  BY <1>2 DEF R
<1> QED
  BY <1>3

LEMMA NaturalsInduct ==
  ASSUME NEW good, 0 \in good, \A n \in Nat : n \in good => n + 1 \in good
  PROVE  \A n \in Nat : n \in good
<1> SUFFICES ASSUME NEW k \in Nat, k \notin good PROVE FALSE
  OBVIOUS
<1>1. PICK n \in Nat \ good : \A m \in Nat \ good : n <= m
  BY LeastElement
<1>2. n # 0 /\ n - 1 \in Nat /\ n = (n - 1) + 1
  OBVIOUS
<1> QED
  BY <1>1, <1>2

LEMMA SetInduct ==
  ASSUME NEW S, IsFiniteSet(S), NEW good,
         \A T \in SUBSET S : (\A x \in T : T \ {x} \in good) => T \in good
  PROVE  \A T \in SUBSET S : T \in good
<1> DEFINE bad == {T \in SUBSET S : T \notin good}
<1> SUFFICES ASSUME bad # {} PROVE FALSE
  OBVIOUS
<1>1. \A T \in SUBSET S : IsFiniteSet(T) /\ Cardinality(T) \in Nat
  BY FS_Subset, FS_CardinalityType
<1> DEFINE sizes == {Cardinality(T) : T \in bad}
<1>2. PICK n \in sizes : \A m \in sizes : n <= m
  <2>1. sizes # {} /\ sizes \in SUBSET Nat
    BY <1>1
  <2> HIDE DEF sizes
  <2> QED
    BY <2>1, LeastElement
<1>3. PICK T \in bad : n = Cardinality(T)
  OBVIOUS
<1>4. PICK x \in T : T \ {x} \notin good
  BY <1>3
<1>5. T \ {x} \in bad
  BY <1>4
<1>6. Cardinality(T \ {x}) = Cardinality(T) - 1
  BY <1>1, <1>4, FS_RemoveElement
<1>7. Cardinality(T) - 1 \in sizes /\ Cardinality(T) \in Nat
  BY <1>1, <1>5, <1>6
<1> HIDE DEF sizes
<1> QED
  BY <1>2, <1>3, <1>7

-----------------------------------------------------------------------------
(* Sums *)

Picked(s) == CHOOSE x \in s : TRUE

\* The function that SumFunctionOnSet takes its value from.
SumsTo(g, f, D) ==
  g = [s \in D |-> IF s = {} THEN 0 ELSE f[Picked(s)] + g[s \ {Picked(s)}]]

LEMMA SumIs ==
  ASSUME NEW f, NEW S
  PROVE  SumFunctionOnSet(f, S) = (CHOOSE g : SumsTo(g, f, SUBSET S))[S]
BY DEF SumFunctionOnSet, FoldFunctionOnSet, MapThenFoldSet, SumsTo, Picked

\* There is one: by induction on the size of the sets it is defined for.
LEMMA SumExists ==
  ASSUME NEW f, NEW S, IsFiniteSet(S)
  PROVE  \E g : SumsTo(g, f, SUBSET S)
<1> DEFINE Upto(n) == {s \in SUBSET S : Cardinality(s) <= n}
           good == {n \in Nat : \E g : SumsTo(g, f, Upto(n))}
<1>0. \A T \in SUBSET S : IsFiniteSet(T) /\ Cardinality(T) \in Nat /\ Cardinality(T) <= Cardinality(S)
  BY FS_Subset, FS_CardinalityType
<1>1. 0 \in good
  <2>1. Upto(0) \subseteq {{}}
    BY <1>0, FS_EmptySet
  <2>2. SumsTo([s \in Upto(0) |-> 0], f, Upto(0))
    BY <2>1 DEF SumsTo
  <2> QED
    BY <2>2
<1>2. ASSUME NEW n \in Nat, n \in good PROVE n + 1 \in good
  <2>1. PICK g : SumsTo(g, f, Upto(n))
    BY <1>2
  <2> DEFINE F(s) == IF s = {} THEN 0 ELSE f[Picked(s)] + g[s \ {Picked(s)}]
             h == [s \in Upto(n + 1) |-> F(s)]
             G(s) == IF s = {} THEN 0 ELSE f[Picked(s)] + h[s \ {Picked(s)}]
  <2>2. \A s \in Upto(n) : s \in Upto(n + 1)
    BY <1>0
  <2>3. g = [s \in Upto(n) |-> F(s)]
    BY <2>1 DEF SumsTo
  <2>4. \A s \in Upto(n) : h[s] = g[s]
    <3> HIDE DEF F, Upto
    <3> QED
      BY <2>2, <2>3
  <2>5. \A s \in Upto(n + 1) : s # {} => s \ {Picked(s)} \in Upto(n)
    <3> SUFFICES ASSUME NEW s \in Upto(n + 1), s # {} PROVE s \ {Picked(s)} \in Upto(n)
      OBVIOUS
    <3>1. Picked(s) \in s
      BY DEF Picked
    <3>2. Cardinality(s \ {Picked(s)}) = Cardinality(s) - 1
      BY <1>0, <3>1, FS_RemoveElement
    <3> QED
      BY <1>0, <3>2
  <2>6. \A s \in Upto(n + 1) : F(s) = G(s)
    <3> HIDE DEF h, Upto
    <3> QED
      BY <2>4, <2>5
  <2>7. h = [s \in Upto(n + 1) |-> G(s)]
    <3> HIDE DEF F, G, Upto
    <3> QED
      BY <2>6
  <2>8. SumsTo(h, f, Upto(n + 1))
    <3> HIDE DEF h, Upto
    <3> QED
      BY <2>7 DEF SumsTo
  <2> QED
    BY <2>8
<1>3. Cardinality(S) \in good
  BY <1>0, <1>1, <1>2, NaturalsInduct
<1>4. Upto(Cardinality(S)) = SUBSET S
  BY <1>0
<1> QED
  BY <1>3, <1>4

\* And it does not depend on the set it is defined for.
LEMMA SumUnique ==
  ASSUME NEW f, NEW S, NEW T \in SUBSET S, NEW g, NEW h,
         IsFiniteSet(S), SumsTo(g, f, SUBSET S), SumsTo(h, f, SUBSET T)
  PROVE  g[T] = h[T]
<1> DEFINE good == {s \in SUBSET T : g[s] = h[s]}
<1>1. IsFiniteSet(T)
  BY FS_Subset
<1>2. ASSUME NEW s \in SUBSET T, \A x \in s : s \ {x} \in good PROVE s \in good
  <2>0. s \in SUBSET S
    OBVIOUS
  <2>1. CASE s = {}
    BY <2>0, <2>1 DEF SumsTo
  <2>2. CASE s # {}
    <3>1. Picked(s) \in s
      BY <2>2 DEF Picked
    <3>2. g[s \ {Picked(s)}] = h[s \ {Picked(s)}]
      BY <1>2, <3>1
    <3> QED
      BY <2>0, <2>2, <3>2 DEF SumsTo
  <2> QED
    BY <2>1, <2>2
<1>3. T \in good
  BY <1>1, <1>2, SetInduct
<1> QED
  BY <1>3

LEMMA SumEmpty == \A f : SumFunctionOnSet(f, {}) = 0
<1> SUFFICES ASSUME NEW f PROVE SumFunctionOnSet(f, {}) = 0
  OBVIOUS
<1>1. PICK g : g = CHOOSE k : SumsTo(k, f, SUBSET {})
  OBVIOUS
<1>2. SumsTo(g, f, SUBSET {})
  BY <1>1, SumExists, FS_EmptySet
<1> QED
  BY <1>1, <1>2, SumIs DEF SumsTo

LEMMA SumPicked ==
  ASSUME NEW f, NEW S, IsFiniteSet(S), S # {}
  PROVE  SumFunctionOnSet(f, S) = f[Picked(S)] + SumFunctionOnSet(f, S \ {Picked(S)})
<1> DEFINE T == S \ {Picked(S)}
<1>1. PICK g : g = CHOOSE k : SumsTo(k, f, SUBSET S)
  OBVIOUS
<1>2. PICK h : h = CHOOSE k : SumsTo(k, f, SUBSET T)
  OBVIOUS
<1>3. IsFiniteSet(T)
  BY FS_RemoveElement
<1>4. SumsTo(g, f, SUBSET S)
  BY <1>1, SumExists
<1>5. SumsTo(h, f, SUBSET T)
  BY <1>2, <1>3, SumExists
<1>6. g[T] = h[T]
  <2>1. T \in SUBSET S
    OBVIOUS
  <2> HIDE DEF T
  <2> QED
    BY <1>4, <1>5, <2>1, SumUnique
<1>7. g[S] = f[Picked(S)] + g[T]
  BY <1>4 DEF SumsTo
<1> QED
  BY <1>1, <1>2, <1>6, <1>7, SumIs

LEMMA SumNat ==
  ASSUME NEW f, NEW S, IsFiniteSet(S), \A x \in S : f[x] \in Nat
  PROVE  \A T \in SUBSET S : IsFiniteSet(T) /\ SumFunctionOnSet(f, T) \in Nat
<1> DEFINE good == {T \in SUBSET S : SumFunctionOnSet(f, T) \in Nat}
<1>1. \A T \in SUBSET S : IsFiniteSet(T)
  BY FS_Subset
<1>2. ASSUME NEW T \in SUBSET S, \A x \in T : T \ {x} \in good PROVE T \in good
  <2>1. CASE T = {}
    BY <2>1, SumEmpty
  <2>2. CASE T # {}
    <3>1. Picked(T) \in T
      BY <2>2 DEF Picked
    <3>2. f[Picked(T)] \in Nat /\ SumFunctionOnSet(f, T \ {Picked(T)}) \in Nat
      BY <1>2, <3>1
    <3>3. SumFunctionOnSet(f, T) = f[Picked(T)] + SumFunctionOnSet(f, T \ {Picked(T)})
      BY <1>1, <2>2, SumPicked
    <3> QED
      BY <3>2, <3>3
  <2> QED
    BY <2>1, <2>2
<1>3. \A T \in SUBSET S : T \in good
  <2> HIDE DEF good
  <2> QED
    BY <1>2, SetInduct
<1> QED
  BY <1>1, <1>3

\* Any element may be the one that is added last.
LEMMA SumRemove ==
  ASSUME NEW f, NEW S, IsFiniteSet(S), \A x \in S : f[x] \in Nat
  PROVE  \A x \in S : SumFunctionOnSet(f, S) = f[x] + SumFunctionOnSet(f, S \ {x})
<1> DEFINE sum(T) == SumFunctionOnSet(f, T)
           good == {T \in SUBSET S : \A x \in T : sum(T) = f[x] + sum(T \ {x})}
<1>1. \A T \in SUBSET S : IsFiniteSet(T) /\ sum(T) \in Nat
  BY SumNat
<1>2. ASSUME NEW T \in SUBSET S, \A x \in T : T \ {x} \in good PROVE T \in good
  <2> SUFFICES ASSUME NEW x \in T PROVE sum(T) = f[x] + sum(T \ {x})
    OBVIOUS
  <2>1. PICK y \in T : sum(T) = f[y] + sum(T \ {y})
    <3>1. Picked(T) \in T
      BY DEF Picked
    <3> QED
      BY <1>1, <3>1, SumPicked
  <2>2. CASE x # y
    <3>1. (T \ {y}) \ {x} = (T \ {x}) \ {y} /\ (T \ {x}) \ {y} \in SUBSET S
      OBVIOUS
    <3>2. sum(T \ {y}) = f[x] + sum((T \ {y}) \ {x})
      BY <1>2, <2>2
    <3>3. sum(T \ {x}) = f[y] + sum((T \ {x}) \ {y})
      BY <1>2, <2>2
    <3>4. f[x] \in Nat /\ f[y] \in Nat /\ sum((T \ {x}) \ {y}) \in Nat
      BY <1>1, <3>1
    <3>5. PICK n \in Nat : n = sum((T \ {y}) \ {x}) /\ n = sum((T \ {x}) \ {y})
      BY <3>1, <3>4
    <3>6. sum(T) = f[y] + (f[x] + n)
      BY <2>1, <3>2, <3>5
    <3>7. sum(T \ {x}) = f[y] + n
      BY <3>3, <3>5
    <3> HIDE DEF sum
    <3> QED
      BY <3>4, <3>6, <3>7
  <2> QED
    BY <2>1, <2>2
<1>3. \A T \in SUBSET S : T \in good
  <2> HIDE DEF good
  <2> QED
    BY <1>2, SetInduct
<1> QED
  BY <1>3

LEMMA SumPlus ==
  ASSUME NEW f, NEW g, NEW h, NEW S, IsFiniteSet(S),
         \A x \in S : f[x] \in Nat /\ g[x] \in Nat /\ h[x] = f[x] + g[x]
  PROVE  SumFunctionOnSet(h, S) = SumFunctionOnSet(f, S) + SumFunctionOnSet(g, S)
<1> DEFINE good == {T \in SUBSET S : SumFunctionOnSet(h, T) =
                                       SumFunctionOnSet(f, T) + SumFunctionOnSet(g, T)}
<1>1. \A T \in SUBSET S :
        IsFiniteSet(T) /\ SumFunctionOnSet(f, T) \in Nat /\ SumFunctionOnSet(g, T) \in Nat
  BY SumNat
<1>2. ASSUME NEW T \in SUBSET S, \A x \in T : T \ {x} \in good PROVE T \in good
  <2>1. CASE T = {}
    BY <2>1, SumEmpty
  <2>2. CASE T # {}
    <3>1. PICK x \in T : x = Picked(T)
      BY <2>2 DEF Picked
    <3>2. \A k \in {f, g, h} : SumFunctionOnSet(k, T) = k[x] + SumFunctionOnSet(k, T \ {x})
      BY <1>1, <3>1, SumPicked
    <3>3. SumFunctionOnSet(h, T \ {x}) =
            SumFunctionOnSet(f, T \ {x}) + SumFunctionOnSet(g, T \ {x})
      BY <1>2
    <3>4. T \ {x} \in SUBSET S /\ h[x] = f[x] + g[x] /\ f[x] \in Nat /\ g[x] \in Nat
      OBVIOUS
    <3> QED
      BY <1>1, <3>2, <3>3, <3>4
  <2> QED
    BY <2>1, <2>2
<1>3. \A T \in SUBSET S : T \in good
  <2> HIDE DEF good
  <2> QED
    BY <1>2, SetInduct
<1> QED
  BY <1>3

LEMMA SumSame ==
  ASSUME NEW f, NEW g, NEW S, IsFiniteSet(S), \A x \in S : f[x] = g[x]
  PROVE  SumFunctionOnSet(f, S) = SumFunctionOnSet(g, S)
<1> DEFINE good == {T \in SUBSET S : SumFunctionOnSet(f, T) = SumFunctionOnSet(g, T)}
<1>1. ASSUME NEW T \in SUBSET S, \A x \in T : T \ {x} \in good PROVE T \in good
  <2>1. CASE T = {}
    BY <2>1, SumEmpty
  <2>2. CASE T # {}
    <3>1. PICK x \in T : x = Picked(T)
      BY <2>2 DEF Picked
    <3>2. \A k \in {f, g} : SumFunctionOnSet(k, T) = k[x] + SumFunctionOnSet(k, T \ {x})
      BY <3>1, FS_Subset, SumPicked
    <3> QED
      BY <1>1, <3>2
  <2> QED
    BY <2>1, <2>2
<1>2. \A T \in SUBSET S : T \in good
  <2> HIDE DEF good
  <2> QED
    BY <1>1, SetInduct
<1> QED
  BY <1>2

LEMMA SumZero ==
  ASSUME NEW f, NEW S, IsFiniteSet(S), \A x \in S : f[x] = 0
  PROVE  SumFunctionOnSet(f, S) = 0
<1>1. SumFunctionOnSet(f, S) = SumFunctionOnSet(f, S) + SumFunctionOnSet(f, S)
  BY SumPlus
<1>2. SumFunctionOnSet(f, S) \in Nat
  BY SumNat
<1>3. \A n \in Nat : n = n + n => n = 0
  OBVIOUS
<1> QED
  BY <1>1, <1>2, <1>3, Zenon

-----------------------------------------------------------------------------
(* Counts *)

\* Where a sequence has an element of E, and how often.
Places(s, E) == {i \in DOMAIN s : s[i] \in E}
Count(s, E) == Cardinality(Places(s, E))

LEMMA CountNat ==
  ASSUME NEW A, NEW s \in Seq(A), NEW E
  PROVE  IsFiniteSet(Places(s, E)) /\ Count(s, E) \in Nat
<1>1. Len(s) \in Nat /\ DOMAIN s = 1..Len(s) /\ 1 \in Int /\ Len(s) \in Int
  OBVIOUS
<1>2. IsFiniteSet(1..Len(s))
  BY <1>1, FS_Interval
<1>3. Places(s, E) \in SUBSET (1..Len(s))
  BY <1>1 DEF Places
<1>4. IsFiniteSet(Places(s, E))
  BY <1>2, <1>3, FS_Subset
<1> QED
  BY <1>4, FS_CardinalityType DEF Count

LEMMA CountConcat ==
  ASSUME NEW A, NEW s \in Seq(A), NEW t \in Seq(A), NEW E
  PROVE  /\ s \o t \in Seq(A)
         /\ Count(s \o t, E) = Count(s, E) + Count(t, E)
<1> DEFINE n == Len(s)
           S == Places(s, E)
           T == Places(t, E)
           moved == {i \in (n + 1)..(n + Len(t)) : i - n \in T}
<1>1. /\ n \in Nat /\ Len(t) \in Nat /\ s \o t \in Seq(A)
      /\ DOMAIN s = 1..n /\ DOMAIN t = 1..Len(t)
      /\ DOMAIN (s \o t) = 1..(n + Len(t))
      /\ \A i \in 1..n : (s \o t)[i] = s[i]
      /\ \A i \in (n + 1)..(n + Len(t)) : (s \o t)[i] = t[i - n]
  OBVIOUS
<1>2. S \subseteq 1..n /\ T \subseteq 1..Len(t)
  BY <1>1 DEF Places
<1>3. Places(s \o t, E) = S \cup moved /\ S \cap moved = {}
  <2>1. \A i \in 1..n : i \in 1..(n + Len(t)) /\ i \notin (n + 1)..(n + Len(t))
    BY <1>1
  <2>2. \A i \in (n + 1)..(n + Len(t)) : i - n \in 1..Len(t) /\ i \in 1..(n + Len(t)) /\ i \notin 1..n
    BY <1>1
  <2>3. \A i \in 1..(n + Len(t)) : i \in 1..n \/ i \in (n + 1)..(n + Len(t))
    BY <1>1
  <2>4. ASSUME NEW i PROVE i \in Places(s \o t, E) <=> i \in S \cup moved
    <3>1. CASE i \in 1..n
      BY <1>1, <2>1, <3>1 DEF Places
    <3>2. CASE i \in (n + 1)..(n + Len(t))
      BY <1>1, <2>2, <3>2 DEF Places
    <3>3. CASE i \notin 1..n /\ i \notin (n + 1)..(n + Len(t))
      BY <1>1, <2>3, <3>3 DEF Places
    <3> QED
      BY <3>1, <3>2, <3>3
  <2> QED
    BY <1>2, <2>1, <2>4
<1>4. IsFiniteSet(S) /\ IsFiniteSet(T) /\ Cardinality(S) \in Nat /\ Cardinality(T) \in Nat
  BY CountNat, FS_CardinalityType
<1>5. IsFiniteSet(moved) /\ Cardinality(moved) = Cardinality(T)
  <2> DEFINE shift == [i \in T |-> i + n]
  <2>1. shift \in [T -> moved]
    BY <1>1, <1>2
  <2>2. \A i, j \in T : shift[i] = shift[j] => i = j
    BY <1>1, <1>2
  <2>3. \A k \in moved : k - n \in T /\ shift[k - n] = k
    BY <1>1, <1>2
  <2>4. shift \in Bijection(T, moved)
    <3> HIDE DEF moved, shift
    <3> QED
      BY <2>1, <2>2, <2>3 DEF Bijection, Injection, Surjection, IsInjective
  <2>5. ExistsBijection(T, moved)
    BY <2>4 DEF ExistsBijection
  <2> QED
    BY <1>4, <2>5, FS_Bijection
<1>6. Cardinality(S \cup moved) = Cardinality(S) + Cardinality(moved) - Cardinality({})
  <2> HIDE DEF S, T, moved
  <2> QED
    BY <1>3, <1>4, <1>5, FS_Union
<1> QED
  BY <1>1, <1>3, <1>4, <1>5, <1>6, FS_EmptySet DEF Count

LEMMA CountOne ==
  ASSUME NEW x, NEW E
  PROVE  Count(<<x>>, E) = IF x \in E THEN 1 ELSE 0
<1>1. Places(<<x>>, E) = IF x \in E THEN {1} ELSE {}
  BY DEF Places
<1> QED
  BY <1>1, FS_Singleton, FS_EmptySet DEF Count

LEMMA CountNone ==
  ASSUME NEW E
  PROVE  Count(<<>>, E) = 0
<1>1. Places(<<>>, E) = {}
  BY DEF Places
<1> QED
  BY <1>1, FS_EmptySet DEF Count

LEMMA CountTail ==
  ASSUME NEW A, NEW s \in Seq(A), NEW E, s # <<>>
  PROVE  Count(s, E) = Count(Tail(s), E) + (IF Head(s) \in E THEN 1 ELSE 0)
<1>1. s = <<Head(s)>> \o Tail(s) /\ <<Head(s)>> \in Seq(A) /\ Tail(s) \in Seq(A)
  OBVIOUS
<1>2. PICK h, t : h = <<Head(s)>> /\ t = Tail(s)
  OBVIOUS
<1>3. s = h \o t /\ h \in Seq(A) /\ t \in Seq(A)
  BY <1>1, <1>2
<1>4. Count(h \o t, E) = Count(h, E) + Count(t, E)
  BY <1>3, CountConcat
<1>5. Count(h, E) = IF Head(s) \in E THEN 1 ELSE 0
  BY <1>2, CountOne
<1>6. Count(t, E) \in Nat
  BY <1>3, CountNat
<1>7. Count(s, E) = Count(t, E) + (IF Head(s) \in E THEN 1 ELSE 0)
  BY <1>3, <1>4, <1>5, <1>6
<1> QED
  BY <1>2, <1>7

LEMMA CountAppend ==
  ASSUME NEW A, NEW s \in Seq(A), NEW x \in A, NEW E
  PROVE  Count(Append(s, x), E) = Count(s, E) + (IF x \in E THEN 1 ELSE 0)
<1>1. Append(s, x) = s \o <<x>> /\ <<x>> \in Seq(A)
  OBVIOUS
<1>2. PICK t : t = <<x>>
  OBVIOUS
<1>3. t \in Seq(A) /\ Append(s, x) = s \o t
  BY <1>1, <1>2
<1>4. Count(s \o t, E) = Count(s, E) + Count(t, E)
  BY <1>3, CountConcat
<1>5. Count(t, E) = IF x \in E THEN 1 ELSE 0
  BY <1>2, CountOne
<1> QED
  BY <1>3, <1>4, <1>5

-----------------------------------------------------------------------------
(* The loop within the path *)

LEMMA CommandsTypedStep ==
  ASSUME toEngine \in Seq(PlaceBetCommands), [PathNext]_pathVars
  PROVE  toEngine' \in Seq(PlaceBetCommands)
<1>1. CASE \E cmd \in PlaceBetCommands : ForwardBet(cmd)
  <2>1. PICK cmd \in PlaceBetCommands : toEngine' = Append(toEngine, cmd)
    BY <1>1 DEF ForwardBet
  <2> QED
    BY <2>1, SeqAppend
<1>2. CASE CommandArrives \/ CommandDropped \/ CommandLost
  <2>1. toEngine # <<>> /\ toEngine' = Tail(toEngine)
    BY <1>2 DEF CommandArrives, CommandDropped, CommandLost, Forget
  <2> QED
    BY <2>1, SeqTail
<1>3. CASE \/ OpensRound \/ Announces \/ PlacesBets \/ AnswersBet \/ StartsTicking \/ Ticking
           \/ CashoutArrives \/ CreditComesBack \/ Flushes \/ AnswerDelivered \/ AnswerLost
           \/ RealtimeCloses \/ RealtimeDrains \/ EngineDrains \/ LoopStops
  BY <1>3 DEF OpensRound, Announces, PlacesBets, AnswersBet, StartsTicking, Ticking,
     CashoutArrives, CreditComesBack, Flushes, AnswerDelivered, AnswerLost, RealtimeCloses,
     RealtimeDrains, EngineDrains, LoopStops, linkVars
<1>4. CASE UNCHANGED pathVars
  BY <1>4 DEF pathVars, linkVars
<1> QED
  BY <1>1, <1>2, <1>3, <1>4 DEF PathNext

\* A step of the path is a step of the loop, or the loop does not see it.
LEMMA PathStepsLoop ==
  ASSUME toEngine \in Seq(PlaceBetCommands), [PathNext]_pathVars
  PROVE  [Next]_vars
<1>1. CASE CommandArrives
  <2>1. Head(toEngine) \in PlaceBetCommands
    BY <1>1, SeqTail DEF CommandArrives
  <2> QED
    BY <1>1, <2>1 DEF CommandArrives, Next
<1>2. CASE OpensRound \/ Announces \/ PlacesBets \/ AnswersBet \/ StartsTicking \/ Flushes \/ LoopStops
  BY <1>2 DEF OpensRound, Announces, PlacesBets, DebitCalled, NoDebitCalled, AnswersBet,
     DebitReturns, StartsTicking, Flushes, LoopStops, Next
<1>3. CASE Ticking \/ CashoutArrives \/ CreditComesBack
  BY <1>3 DEF Ticking, TickCredits, CashoutArrives, CreditComesBack, CreditResolves,
     CreditReturned, Next
<1>4. CASE \/ \E cmd \in PlaceBetCommands : ForwardBet(cmd)
           \/ CommandDropped \/ CommandLost \/ AnswerDelivered \/ AnswerLost
           \/ RealtimeCloses \/ RealtimeDrains \/ EngineDrains
  <2>1. UNCHANGED vars
    BY <1>4 DEF ForwardBet, CommandDropped, CommandLost, Forget, AnswerDelivered, AnswerLost,
       RealtimeCloses, RealtimeDrains, EngineDrains
  <2> QED
    BY <2>1
<1>5. CASE UNCHANGED pathVars
  BY <1>5 DEF pathVars
<1> QED
  BY <1>1, <1>2, <1>3, <1>4, <1>5 DEF PathNext

LEMMA CommandsTyped == PathSafety => [](toEngine \in Seq(PlaceBetCommands))
<1>1. PathInit => toEngine \in Seq(PlaceBetCommands)
  BY DEF PathInit
<1>2. toEngine \in Seq(PlaceBetCommands) /\ [PathNext]_pathVars
      => (toEngine \in Seq(PlaceBetCommands))'
  BY CommandsTypedStep
<1> QED
  BY <1>1, <1>2, PTL DEF PathSafety

\* With the wallet adapter and the messages around it the loop still behaves as
\* GameLoop says, for which the wallet answers anything at any time; so all that
\* is proved of the loop holds in the composition.
THEOREM PathRunsLoop == PathSafety => Safety
<1>1. PathInit => Init
  BY DEF PathInit, WalletInit
<1>2. toEngine \in Seq(PlaceBetCommands) /\ [PathNext]_pathVars => [Next]_vars
  BY PathStepsLoop
<1> QED
  BY <1>1, <1>2, CommandsTyped, PTL DEF PathSafety, Safety

-----------------------------------------------------------------------------
(* Answers under way *)

Answer == [to : Players, bet : Nat]

Of(p) == {cmd \in PlaceBetCommands : cmd.playerId = p}
To(p) == {answer \in Answer : answer.to = p}

AnswersTyped == toRealtime \in Seq(Answer) /\ awaiting \in [Players -> Int]

\* AnswersAccounted as a sum of counts, sequence by sequence.
LEMMA Counts ==
  ASSUME NEW p, NEW e \in Seq(PlaceBetCommands), NEW q \in Seq(PlaceBetCommands),
         NEW u \in Seq(PlaceBetCommands), NEW r \in Seq(Answer)
  PROVE  /\ CommandsOf(p, e \o q \o u) = Count(e, Of(p)) + Count(q, Of(p)) + Count(u, Of(p))
         /\ CountOf(p, r) = Count(r, To(p))
<1>1. PICK eq : eq = e \o q
  OBVIOUS
<1>2. eq \in Seq(PlaceBetCommands) /\ Count(eq, Of(p)) = Count(e, Of(p)) + Count(q, Of(p))
  BY <1>1, CountConcat
<1>3. PICK all : all = eq \o u
  OBVIOUS
<1>4. /\ all \in Seq(PlaceBetCommands)
      /\ Count(all, Of(p)) = Count(e, Of(p)) + Count(q, Of(p)) + Count(u, Of(p))
  BY <1>2, <1>3, CountConcat
<1>5. Places(all, Of(p)) = {i \in DOMAIN all : all[i].playerId = p}
  BY <1>4 DEF Places, Of
<1>6. CommandsOf(p, all) = Count(all, Of(p))
  BY <1>5 DEF CommandsOf, Count
<1>7. Places(r, To(p)) = {i \in DOMAIN r : r[i].to = p}
  BY DEF Places, To
<1>8. CountOf(p, r) = Count(r, To(p))
  BY <1>7 DEF CountOf, Count
<1> QED
  BY <1>1, <1>3, <1>4, <1>6, <1>8

LEMMA BetsInConcat ==
  ASSUME NEW s \in Seq(Answer), NEW t \in Seq(Answer)
  PROVE  BetsIn(s \o t) = BetsIn(s) \cup BetsIn(t)
<1>1. /\ DOMAIN s = 1..Len(s) /\ DOMAIN t = 1..Len(t) /\ Len(s) \in Nat /\ Len(t) \in Nat
      /\ DOMAIN (s \o t) = 1..(Len(s) + Len(t))
      /\ \A i \in 1..Len(s) : (s \o t)[i] = s[i]
      /\ \A i \in 1..Len(t) : i + Len(s) \in 1..(Len(s) + Len(t)) /\ (s \o t)[i + Len(s)] = t[i]
      /\ \A i \in 1..Len(s) : i \in 1..(Len(s) + Len(t))
      /\ \A i \in 1..(Len(s) + Len(t)) :
           i \in 1..Len(s) \/ (i - Len(s) \in 1..Len(t) /\ (s \o t)[i] = t[i - Len(s)])
  OBVIOUS
<1>2. {(s \o t)[i].bet : i \in DOMAIN (s \o t)} =
        {s[i].bet : i \in DOMAIN s} \cup {t[i].bet : i \in DOMAIN t}
  <2>1. ASSUME NEW i \in DOMAIN (s \o t)
        PROVE  (s \o t)[i].bet \in {s[j].bet : j \in DOMAIN s} \cup {t[j].bet : j \in DOMAIN t}
    BY <1>1
  <2>2. ASSUME NEW i \in DOMAIN s PROVE s[i].bet \in {(s \o t)[j].bet : j \in DOMAIN (s \o t)}
    BY <1>1
  <2>3. ASSUME NEW i \in DOMAIN t PROVE t[i].bet \in {(s \o t)[j].bet : j \in DOMAIN (s \o t)}
    BY <1>1
  <2> QED
    BY <2>1, <2>2, <2>3
<1> QED
  BY <1>2 DEF BetsIn

LEMMA BetsInOne ==
  ASSUME NEW a \in Answer
  PROVE  BetsIn(<<a>>) = {a.bet} \ {0} /\ <<a>> \in Seq(Answer)
BY DEF BetsIn

LEMMA BetsInNone == BetsIn(<<>>) = {}
BY DEF BetsIn

\* What publishing does to the answers under way and to those still awaited.
LEMMA PublishStep ==
  ASSUME AnswersTyped, NEW answers \in Seq(Answer), Publish(answers)
  PROVE  /\ AnswersTyped'
         /\ told' \cup missed' \cup BetsIn(toRealtime') =
              told \cup missed \cup BetsIn(toRealtime) \cup BetsIn(answers)
         /\ \A p \in Players :
              awaiting'[p] - Count(toRealtime', To(p)) =
                awaiting[p] - Count(toRealtime, To(p)) - Count(answers, To(p))
<1>1. toRealtime \in Seq(Answer) /\ awaiting \in [Players -> Int]
  BY DEF AnswersTyped
<1>2. \A p : Count(toRealtime, To(p)) \in Nat /\ Count(answers, To(p)) \in Nat
             /\ CountOf(p, answers) = Count(answers, To(p))
  <2>1. <<>> \in Seq(PlaceBetCommands)
    OBVIOUS
  <2> QED
    BY <1>1, <2>1, CountNat, Counts
<1>3. CASE toRealtime' = toRealtime \o answers /\ UNCHANGED <<awaiting, missed, told>>
  <2>1. PICK r : r = toRealtime \o answers
    OBVIOUS
  <2>2. r \in Seq(Answer) /\ \A p : Count(r, To(p)) = Count(toRealtime, To(p)) + Count(answers, To(p))
    BY <1>1, <2>1, CountConcat
  <2>3. BetsIn(r) = BetsIn(toRealtime) \cup BetsIn(answers)
    BY <1>1, <2>1, BetsInConcat
  <2>4. AnswersTyped'
    BY <1>1, <1>3, <2>1, <2>2 DEF AnswersTyped
  <2> QED
    BY <1>1, <1>2, <1>3, <2>1, <2>2, <2>3, <2>4
<1>4. CASE /\ awaiting' = [p \in Players |-> awaiting[p] - CountOf(p, answers)]
           /\ missed' = missed \cup (BetsIn(answers) \ told)
           /\ UNCHANGED <<toRealtime, told>>
  <2>1. \A p \in Players : awaiting'[p] = awaiting[p] - Count(answers, To(p)) /\ awaiting[p] \in Int
    BY <1>1, <1>2, <1>4
  <2>2. AnswersTyped'
    BY <1>1, <1>2, <1>4 DEF AnswersTyped
  <2> QED
    BY <1>2, <1>4, <2>1, <2>2
<1> QED
  BY <1>3, <1>4 DEF Publish

LEMMA UnansweredIs ==
  /\ task.at = "debit" => Unanswered = task.todo
  /\ task.at = "reply" => Unanswered = Tail(task.todo)
  /\ task.at \notin {"debit", "reply"} => Unanswered = <<>>
  /\ task'.at = "debit" => Unanswered' = task'.todo
  /\ task'.at = "reply" => Unanswered' = Tail(task'.todo)
  /\ task'.at \notin {"debit", "reply"} => Unanswered' = <<>>
BY Zenon DEF Unanswered

LEMMA UnansweredTyped ==
  ASSUME TypeOK, CommandsGenuine
  PROVE  Unanswered \in Seq(PlaceBetCommands)
<1>1. task.todo \in Seq(PlaceBetCommands) /\ (task.at \in {"debit", "reply"} => task.todo # <<>>)
  BY DEF TypeOK, LoopTypeOK, CommandsGenuine
<1>2. task.at = "reply" => Tail(task.todo) \in Seq(PlaceBetCommands)
  BY <1>1, SeqTail
<1>3. <<>> \in Seq(PlaceBetCommands)
  OBVIOUS
<1>4. CASE task.at \in {"debit", "reply"}
  BY <1>1, <1>2, <1>4, UnansweredIs
<1>5. CASE task.at \notin {"debit", "reply"}
  BY <1>3, <1>5, UnansweredIs
<1> QED
  BY <1>4, <1>5

\* A bet has the key and the player of a command.
BetsOfCommands ==
  \A b \in DOMAIN bets : \E cmd \in PlaceBetCommands :
    cmd.idempotencyKey = bets[b].idempotencyKey /\ cmd.playerId = bets[b].playerId

\* The bet that a debit adds.
LEMMA DebitedBet ==
  ASSUME TypeOK, DebitOk
  PROVE  /\ bets'[Len(bets) + 1].idempotencyKey = Head(task.todo).idempotencyKey
         /\ bets'[Len(bets) + 1].playerId = Head(task.todo).playerId
<1>1. PICK bet : /\ bets' = Append(bets, bet)
                 /\ bet.idempotencyKey = Head(task.todo).idempotencyKey
                 /\ bet.playerId = Head(task.todo).playerId
  <2>1. PICK status :
          bets' = Append(bets,
                    [playerId |-> Head(task.todo).playerId, roundId |-> Head(task.todo).roundId,
                     round |-> task.round, amountCents |-> Head(task.todo).amountCents,
                     autoCashout |-> Head(task.todo).autoCashout,
                     idempotencyKey |-> Head(task.todo).idempotencyKey,
                     status |-> status, cashoutMultiplier |-> 0, payoutCents |-> 0])
    BY Zenon DEF DebitOk
  <2> QED
    BY <2>1
<1>2. bets \in Seq(Bet) /\ Len(bets) \in Nat
  BY DEF TypeOK, BetTypeOK
<1>3. bets'[Len(bets) + 1] = bet
  BY <1>1, <1>2
<1> QED
  BY <1>1, <1>3

LEMMA BetsOfCommandsStep ==
  ASSUME TypeOK, CommandsGenuine, BetsOfCommands, [Next]_vars
  PROVE  BetsOfCommands'
<1>1. CASE UNCHANGED bets
  BY <1>1 DEF BetsOfCommands
<1>2. CASE DebitOk
  <2>1. /\ DOMAIN bets' = DOMAIN bets \cup {Len(bets) + 1}
        /\ \A b \in DOMAIN bets : bets'[b] = bets[b]
    BY <1>2, DebitAddsBet
  <2>2. Head(task.todo) \in PlaceBetCommands
    BY <1>2, SeqTail DEF CommandsGenuine, DebitOk, TypeOK, LoopTypeOK
  <2> QED
    BY <1>2, <2>1, <2>2, DebitedBet DEF BetsOfCommands
<1>3. CASE OnTick
  <2>1. PICK m \in Multipliers : TickFlies(m) \/ TickCrashes(m)
    BY <1>3 DEF OnTick
  <2>2. PICK won, lost \in SUBSET ActiveBets(current) :
          won \cap lost = {} /\ Settle(won, lost, rounds[current].currentMultiplier)
    BY <2>1, TickSettles
  <2>3. PICK paidAt \in Nat : paidAt = rounds[current].currentMultiplier
    <3>1. current \in DOMAIN rounds /\ rounds \in Seq(Round)
      BY <2>1, TickStep DEF TypeOK, LoopTypeOK
    <3> QED
      BY <3>1, RoundNumbers
  <2>4. /\ DOMAIN bets' = DOMAIN bets
        /\ \A b \in DOMAIN bets :
             /\ bets[b] \in Bet
             /\ b \in won => bets'[b] = Cashout(bets[b], paidAt)
             /\ b \in lost => bets'[b] = Lose(bets[b])
             /\ b \notin won \cup lost => bets'[b] = bets[b]
    BY <2>2, <2>3, SettleStep DEF TypeOK, BetTypeOK
  <2>5. ASSUME NEW b \in DOMAIN bets
        PROVE  /\ bets'[b].idempotencyKey = bets[b].idempotencyKey
               /\ bets'[b].playerId = bets[b].playerId
    BY <2>4, CashoutBet, LoseBet
  <2> QED
    BY <2>4, <2>5 DEF BetsOfCommands
<1> QED
  BY <1>1, <1>2, <1>3, BetsChange

LEMMA BetsOfCommandsInvariant == Safety => []BetsOfCommands
<1>1. Init => BetsOfCommands
  BY DEF Init, BetsOfCommands
<1>2. TypeOK /\ CommandsGenuine /\ BetsOfCommands /\ [Next]_vars => BetsOfCommands'
  BY BetsOfCommandsStep
<1> QED
  BY <1>1, <1>2, TypeCorrect, GenuineInvariant, PTL DEF Safety

\* As players have keys of their own, a known key is of a bet of the same player.
LEMMA RepeatOfOwnBet ==
  ASSUME TypeOK, BetsOfCommands, NEW cmd \in PlaceBetCommands, IsRepeat(cmd)
  PROVE  /\ BetWithKey(cmd.idempotencyKey) \in betStore
         /\ bets[BetWithKey(cmd.idempotencyKey)].playerId = cmd.playerId
<1>1. PICK b : b = BetWithKey(cmd.idempotencyKey)
  OBVIOUS
<1>2. b \in betStore /\ bets[b].idempotencyKey = cmd.idempotencyKey
  BY <1>1 DEF IsRepeat, HasKey, BetWithKey
<1>3. b \in DOMAIN bets
  BY <1>2 DEF TypeOK, BetTypeOK
<1>4. bets[b].playerId = cmd.playerId
  BY <1>2, <1>3, KeysAssumption DEF BetsOfCommands
<1> QED
  BY <1>1, <1>2, <1>4

\* All that is known of the loop within the path.
LoopFacts ==
  /\ TypeOK /\ LoopInv /\ BetsInv /\ CommandsGenuine /\ BetsOfCommands
  /\ toEngine \in Seq(PlaceBetCommands)

LEMMA LoopFactsInvariant == PathSafety => []LoopFacts
BY PathRunsLoop, TypeCorrect, LoopInvariant, BetsInvariant, GenuineInvariant,
   BetsOfCommandsInvariant, CommandsTyped, PTL DEF LoopFacts

\* The commands that have no answer yet.
Pending(p) ==
  Count(toEngine, Of(p)) + Count(placeBetQueue, Of(p)) + Count(Unanswered, Of(p))

PathInv == AnswersTyped /\ AnswersAccounted /\ BetsKnown

Bookkeeping ==
  /\ AnswersAccounted <=>
       \A p \in Players : awaiting[p] = Pending(p) + Count(toRealtime, To(p))
  /\ \A p : /\ Count(toEngine, Of(p)) \in Nat /\ Count(placeBetQueue, Of(p)) \in Nat
            /\ Count(Unanswered, Of(p)) \in Nat /\ Count(toRealtime, To(p)) \in Nat
            /\ Pending(p) \in Nat

LEMMA Booked == LoopFacts /\ AnswersTyped => Bookkeeping
<1> SUFFICES ASSUME LoopFacts, AnswersTyped PROVE Bookkeeping
  OBVIOUS
<1>1. /\ toEngine \in Seq(PlaceBetCommands) /\ placeBetQueue \in Seq(PlaceBetCommands)
      /\ Unanswered \in Seq(PlaceBetCommands) /\ toRealtime \in Seq(Answer)
  BY UnansweredTyped DEF LoopFacts, CommandsGenuine, AnswersTyped
<1> QED
  BY <1>1, Counts, CountNat DEF AnswersAccounted, Pending, Bookkeeping

LEMMA BookedNext == LoopFacts' /\ AnswersTyped' => Bookkeeping'
BY Booked, PTL

LEMMA PendingNext ==
  \A p : Pending(p)' = Count(toEngine', Of(p)) + Count(placeBetQueue', Of(p)) + Count(Unanswered', Of(p))
BY DEF Pending

\* A step that answers what it takes from the pending commands, and that places
\* the bets that it announces, keeps the invariant.
LEMMA PathInvPublish ==
  ASSUME LoopFacts, LoopFacts', PathInv, NEW answers \in Seq(Answer), Publish(answers),
         DOMAIN bets' = DOMAIN bets \cup BetsIn(answers),
         \A p \in Players : Pending(p)' + Count(answers, To(p)) = Pending(p)
  PROVE  PathInv'
<1>1. /\ AnswersTyped'
      /\ told' \cup missed' \cup BetsIn(toRealtime') =
           told \cup missed \cup BetsIn(toRealtime) \cup BetsIn(answers)
      /\ \A p \in Players :
           awaiting'[p] - Count(toRealtime', To(p)) =
             awaiting[p] - Count(toRealtime, To(p)) - Count(answers, To(p))
  BY PublishStep DEF PathInv
<1>2. BetsKnown'
  BY <1>1 DEF PathInv, BetsKnown
<1>3. Bookkeeping /\ Bookkeeping'
  BY <1>1, Booked, BookedNext DEF PathInv
<1>4. ASSUME NEW p \in Players
      PROVE  awaiting'[p] = Pending(p)' + Count(toRealtime', To(p))
  <2>1. awaiting[p] = Pending(p) + Count(toRealtime, To(p))
    BY <1>3 DEF PathInv, Bookkeeping
  <2>2. Pending(p) \in Nat /\ Pending(p)' \in Nat /\ Count(toRealtime, To(p)) \in Nat
        /\ Count(toRealtime', To(p)) \in Nat /\ Count(answers, To(p)) \in Nat
    BY <1>3, CountNat DEF Bookkeeping
  <2>3. awaiting'[p] \in Int
    BY <1>1 DEF AnswersTyped
  <2>4. awaiting'[p] - Count(toRealtime', To(p)) =
          awaiting[p] - Count(toRealtime, To(p)) - Count(answers, To(p))
    BY <1>1
  <2> QED
    BY <2>1, <2>2, <2>3, <2>4
<1>5. AnswersAccounted'
  BY <1>3, <1>4 DEF Bookkeeping
<1> QED
  BY <1>1, <1>2, <1>5 DEF PathInv

\* An answer that leaves what is under way, delivered or lost.
LEMMA PathInvAnswer ==
  ASSUME LoopFacts, LoopFacts', PathInv, AnswerDelivered \/ AnswerLost
  PROVE  PathInv'
<1> DEFINE first == Head(toRealtime)
           rest == Tail(toRealtime)
<1>1. /\ toRealtime # <<>> /\ toRealtime' = rest /\ UNCHANGED vars /\ toEngine' = toEngine
      /\ awaiting' = [awaiting EXCEPT ![first.to] = @ - 1]
      /\ told' \cup missed' = told \cup missed \cup BetsIn(<<first>>)
  BY DEF AnswerDelivered, AnswerLost
<1>2. /\ toRealtime \in Seq(Answer) /\ awaiting \in [Players -> Int]
      /\ first \in Answer /\ rest \in Seq(Answer) /\ first.to \in Players
  <2>1. toRealtime \in Seq(Answer) /\ awaiting \in [Players -> Int]
    BY DEF PathInv, AnswersTyped
  <2>2. first \in Answer /\ rest \in Seq(Answer)
    BY <1>1, <2>1, SeqTail
  <2> HIDE DEF first, rest
  <2>3. first.to \in Players
    BY <2>2 DEF Answer
  <2> QED
    BY <2>1, <2>2, <2>3
<1>3. AnswersTyped'
  BY <1>1, <1>2 DEF AnswersTyped
<1>4. BetsIn(toRealtime) = BetsIn(<<first>>) \cup BetsIn(rest)
  <2>1. toRealtime = <<first>> \o rest
    BY <1>1, <1>2
  <2>2. <<first>> \in Seq(Answer)
    BY <1>2
  <2> HIDE DEF first, rest
  <2>3. BetsIn(<<first>> \o rest) = BetsIn(<<first>>) \cup BetsIn(rest)
    BY <1>2, <2>2, BetsInConcat
  <2> QED
    BY <2>1, <2>3
<1>5. bets' = bets /\ placeBetQueue' = placeBetQueue /\ task' = task
  BY <1>1 DEF vars, betVars, driverVars
<1>6. BetsKnown'
  <2>1. told' \cup missed' \cup BetsIn(toRealtime') = told \cup missed \cup BetsIn(toRealtime)
    BY <1>1, <1>4
  <2> QED
    BY <1>5, <2>1 DEF PathInv, BetsKnown
<1>7. Bookkeeping /\ Bookkeeping'
  BY <1>3, Booked, BookedNext DEF PathInv
<1>8. ASSUME NEW p \in Players
      PROVE  awaiting'[p] = Pending(p)' + Count(toRealtime', To(p))
  <2>1. awaiting[p] = Pending(p) + Count(toRealtime, To(p))
    BY <1>7 DEF PathInv, Bookkeeping
  <2>2. Pending(p)' = Pending(p)
    <3>1. Unanswered' = Unanswered
      BY <1>5 DEF Unanswered
    <3> QED
      BY <1>1, <1>5, <3>1, PendingNext DEF Pending
  <2>3. Count(toRealtime, To(p)) = Count(rest, To(p)) + (IF first \in To(p) THEN 1 ELSE 0)
    BY <1>1, <1>2, CountTail
  <2>4. first \in To(p) <=> first.to = p
    BY <1>2 DEF To
  <2>5. Pending(p) \in Nat /\ Count(rest, To(p)) \in Nat
    BY <1>2, <1>7, CountNat DEF Bookkeeping
  <2>6. awaiting'[p] = IF first.to = p THEN awaiting[p] - 1 ELSE awaiting[p]
    BY <1>1, <1>2
  <2>7. awaiting[p] \in Int
    BY <1>2
  <2> HIDE DEF first, rest
  <2> QED
    BY <1>1, <2>1, <2>2, <2>3, <2>4, <2>5, <2>6, <2>7
<1>9. AnswersAccounted'
  BY <1>7, <1>8 DEF Bookkeeping
<1> QED
  BY <1>3, <1>6, <1>9 DEF PathInv

\* A command that is forwarded, or that leaves the way to the engine unheard.
LEMMA PathInvCommand ==
  ASSUME LoopFacts, LoopFacts', PathInv,
         (\E cmd \in PlaceBetCommands : ForwardBet(cmd)) \/ CommandDropped \/ CommandLost
  PROVE  PathInv'
<1>0. toEngine \in Seq(PlaceBetCommands) /\ awaiting \in [Players -> Int]
      /\ toRealtime \in Seq(Answer)
  BY DEF LoopFacts, PathInv, AnswersTyped
<1>1. UNCHANGED <<bets, placeBetQueue, task, toRealtime, told, missed>>
  BY DEF ForwardBet, CommandDropped, CommandLost, Forget, vars, betVars, driverVars
<1>2. \E cmd \in PlaceBetCommands, d \in {-1, 1} :
        /\ awaiting' = [awaiting EXCEPT ![cmd.playerId] = @ + d]
        /\ \A p : Count(toEngine', Of(p)) =
                    Count(toEngine, Of(p)) + (IF cmd.playerId = p THEN d ELSE 0)
  <2>1. CASE \E cmd \in PlaceBetCommands : ForwardBet(cmd)
    <3>1. PICK cmd \in PlaceBetCommands :
            /\ toEngine' = Append(toEngine, cmd)
            /\ awaiting' = [awaiting EXCEPT ![cmd.playerId] = @ + 1]
      BY <2>1 DEF ForwardBet
    <3>2. \A p : cmd \in Of(p) <=> cmd.playerId = p
      BY DEF Of
    <3>3. \A p : Count(toEngine', Of(p)) =
                   Count(toEngine, Of(p)) + (IF cmd \in Of(p) THEN 1 ELSE 0)
      BY <1>0, <3>1, CountAppend
    <3> QED
      BY <3>1, <3>2, <3>3
  <2>2. CASE CommandDropped \/ CommandLost
    <3>1. /\ toEngine # <<>> /\ toEngine' = Tail(toEngine)
          /\ awaiting' = [awaiting EXCEPT ![Head(toEngine).playerId] = @ - 1]
      BY <2>2 DEF CommandDropped, CommandLost, Forget
    <3>2. PICK cmd \in PlaceBetCommands : cmd = Head(toEngine)
      BY <1>0, <3>1, SeqTail
    <3>3. \A p : cmd \in Of(p) <=> cmd.playerId = p
      BY DEF Of
    <3>4. \A p : Count(toEngine, Of(p)) =
                   Count(toEngine', Of(p)) + (IF cmd \in Of(p) THEN 1 ELSE 0)
      BY <1>0, <3>1, <3>2, CountTail
    <3>5. \A p : Count(toEngine', Of(p)) \in Nat
      BY CountNat DEF LoopFacts
    <3>6. awaiting' = [awaiting EXCEPT ![cmd.playerId] = @ + (-1)]
      BY <1>0, <3>1, <3>2 DEF Players
    <3>7. \A p : Count(toEngine', Of(p)) =
                   Count(toEngine, Of(p)) + (IF cmd.playerId = p THEN -1 ELSE 0)
      BY <3>3, <3>4, <3>5
    <3> QED
      BY <3>6, <3>7
  <2> QED
    BY <2>1, <2>2
<1>3. PICK cmd \in PlaceBetCommands, d \in {-1, 1} :
        /\ awaiting' = [awaiting EXCEPT ![cmd.playerId] = @ + d]
        /\ \A p : Count(toEngine', Of(p)) =
                    Count(toEngine, Of(p)) + (IF cmd.playerId = p THEN d ELSE 0)
  BY <1>2
<1>4. AnswersTyped'
  <2>1. cmd.playerId \in Players /\ d \in Int
    BY DEF Players
  <2>2. awaiting' \in [Players -> Int]
    BY <1>0, <1>3, <2>1
  <2> QED
    BY <1>0, <1>1, <2>2 DEF AnswersTyped
<1>5. Bookkeeping /\ Bookkeeping'
  BY <1>4, Booked, BookedNext DEF PathInv
<1>6. ASSUME NEW p \in Players
      PROVE  awaiting'[p] = Pending(p)' + Count(toRealtime', To(p))
  <2>1. awaiting[p] = Pending(p) + Count(toRealtime, To(p))
    BY <1>5 DEF PathInv, Bookkeeping
  <2>2. Unanswered' = Unanswered
    BY <1>1 DEF Unanswered
  <2>3. Count(toEngine, Of(p)) \in Nat /\ Count(placeBetQueue, Of(p)) \in Nat
        /\ Count(Unanswered, Of(p)) \in Nat /\ Count(toRealtime, To(p)) \in Nat
    BY <1>5 DEF Bookkeeping
  <2>4. Pending(p)' = Pending(p) + (IF cmd.playerId = p THEN d ELSE 0)
    BY <1>1, <1>3, <2>2, <2>3, PendingNext DEF Pending
  <2>5. awaiting'[p] = awaiting[p] + (IF cmd.playerId = p THEN d ELSE 0)
    BY <1>0, <1>3
  <2>6. Pending(p) \in Nat
    BY <1>5 DEF Bookkeeping
  <2> QED
    BY <1>1, <2>1, <2>3, <2>4, <2>5, <2>6
<1>7. AnswersAccounted'
  BY <1>5, <1>6 DEF Bookkeeping
<1>8. BetsKnown'
  BY <1>1 DEF PathInv, BetsKnown, BetsIn
<1> QED
  BY <1>4, <1>7, <1>8 DEF PathInv

\* The answers that a command may get.
LEMMA AnswerTo ==
  ASSUME NEW cmd \in PlaceBetCommands, NEW b \in Nat, NEW a,
         (a = Placed(b) /\ bets'[b].playerId = cmd.playerId) \/ a = Rejected(cmd)
  PROVE  /\ <<a>> \in Seq(Answer)
         /\ a = Placed(b) => BetsIn(<<a>>) = {b} \ {0}
         /\ a = Rejected(cmd) => BetsIn(<<a>>) = {}
         /\ \A p : Count(<<a>>, To(p)) = IF cmd \in Of(p) THEN 1 ELSE 0
<1>1. a \in Answer /\ a.to = cmd.playerId
  BY DEF Placed, Rejected, Answer, Players
<1>2. \A p : a \in To(p) <=> cmd \in Of(p)
  BY <1>1 DEF To, Of
<1>3. BetsIn(<<a>>) = {a.bet} \ {0} /\ <<a>> \in Seq(Answer)
  BY <1>1, BetsInOne
<1>4. \A p : Count(<<a>>, To(p)) = IF a \in To(p) THEN 1 ELSE 0
  BY CountOne
<1>5. (a = Placed(b) => a.bet = b) /\ (a = Rejected(cmd) => a.bet = 0)
  BY DEF Placed, Rejected
<1> QED
  BY <1>2, <1>3, <1>4, <1>5

LEMMA NoAnswer ==
  <<>> \in Seq(Answer) /\ BetsIn(<<>>) = {} /\ \A p : Count(<<>>, To(p)) = 0 /\ Count(<<>>, Of(p)) = 0
BY BetsInNone, CountNone

\* A step that sees nothing of commands and answers.
LEMMA PathInvSame ==
  ASSUME PathInv, UNCHANGED <<toEngine, toRealtime, awaiting, told, missed, placeBetQueue>>,
         Unanswered' = Unanswered, DOMAIN bets' = DOMAIN bets
  PROVE  PathInv'
<1>1. AnswersTyped' /\ BetsKnown'
  BY DEF PathInv, AnswersTyped, BetsKnown, BetsIn
<1>2. AnswersAccounted'
  BY DEF PathInv, AnswersAccounted, CommandsOf, CountOf
<1> QED
  BY <1>1, <1>2 DEF PathInv

LEMMA PathInvArrives ==
  ASSUME LoopFacts, LoopFacts', PathInv, CommandArrives
  PROVE  PathInv'
<1>1. /\ toEngine \in Seq(PlaceBetCommands) /\ toEngine # <<>>
      /\ placeBetQueue \in Seq(PlaceBetCommands) /\ answered \in Nat
  BY DEF LoopFacts, CommandsGenuine, TypeOK, QueueTypeOK, CommandArrives
<1>2. PICK cmd \in PlaceBetCommands : cmd = Head(toEngine)
  BY <1>1, SeqTail
<1>3. /\ PlaceBetReceived(cmd) /\ toEngine' = Tail(toEngine)
      /\ Publish(IF answered' = answered THEN <<>> ELSE <<Rejected(cmd)>>)
  BY <1>2 DEF CommandArrives
<1>4. DOMAIN bets' = DOMAIN bets /\ Unanswered' = Unanswered
  BY <1>3 DEF PlaceBetReceived, betVars, driverVars, Unanswered
<1>5. \A p : Count(toEngine, Of(p)) = Count(toEngine', Of(p)) + (IF cmd \in Of(p) THEN 1 ELSE 0)
  BY <1>1, <1>2, <1>3, CountTail
<1>6. \A p : /\ Count(toEngine', Of(p)) \in Nat /\ Count(placeBetQueue, Of(p)) \in Nat
             /\ Count(Unanswered, Of(p)) \in Nat
  BY Booked, CountNat DEF PathInv, Bookkeeping, LoopFacts
<1>7. CASE placeBetQueue' = Append(placeBetQueue, cmd) /\ answered' = answered
  <2>1. \A p : Count(placeBetQueue', Of(p)) =
                 Count(placeBetQueue, Of(p)) + (IF cmd \in Of(p) THEN 1 ELSE 0)
    BY <1>1, <1>7, CountAppend
  <2>2. \A p \in Players : Pending(p)' + Count(<<>>, To(p)) = Pending(p)
    BY <1>4, <1>5, <1>6, <2>1, NoAnswer, PendingNext DEF Pending
  <2>3. DOMAIN bets' = DOMAIN bets \cup BetsIn(<<>>)
    BY <1>4, NoAnswer
  <2> QED
    BY <1>3, <1>7, <2>2, <2>3, NoAnswer, PathInvPublish
<1>8. CASE placeBetQueue' = placeBetQueue /\ answered' = answered + 1
  <2>1. PICK a : a = Rejected(cmd)
    OBVIOUS
  <2>2. /\ <<a>> \in Seq(Answer) /\ BetsIn(<<a>>) = {}
        /\ \A p : Count(<<a>>, To(p)) = IF cmd \in Of(p) THEN 1 ELSE 0
    BY <2>1, AnswerTo
  <2>3. \A p \in Players : Pending(p)' + Count(<<a>>, To(p)) = Pending(p)
    BY <1>4, <1>5, <1>6, <1>8, <2>2, PendingNext DEF Pending
  <2>4. Publish(<<a>>)
    BY <1>1, <1>3, <1>8, <2>1
  <2>5. DOMAIN bets' = DOMAIN bets \cup BetsIn(<<a>>)
    BY <1>4, <2>2
  <2> QED
    BY <2>2, <2>3, <2>4, <2>5, PathInvPublish
<1> QED
  BY <1>3, <1>7, <1>8 DEF PlaceBetReceived

LEMMA PathInvOpens ==
  ASSUME LoopFacts, LoopFacts', PathInv, OpensRound
  PROVE  PathInv'
<1>1. /\ placeBetQueue \in Seq(PlaceBetCommands) /\ answered \in Nat /\ LoopTypeOK
      /\ DOMAIN placeBetQueue = 1..Len(placeBetQueue) /\ Len(placeBetQueue) \in Nat
  BY DEF LoopFacts, CommandsGenuine, TypeOK, QueueTypeOK
<1>2. (Start \/ NewRoundTimer) /\ BeginRound
  BY DEF OpensRound, Start, NewRoundTimer
<1>3. task.at = "idle"
  BY <1>2 DEF Start, NewRoundTimer, LoopFacts, LoopInv, RoundsInv, PhaseInv
<1>4. task'.at = "announcing"
  BY <1>1, <1>2, BeginRoundStep
<1>5. Unanswered = <<>> /\ Unanswered' = <<>>
  BY <1>3, <1>4, UnansweredIs
<1>6. /\ placeBetQueue' = <<>> /\ answered' = answered + Len(placeBetQueue)
      /\ bets' = bets /\ toEngine' = toEngine
  BY <1>2 DEF BeginRound, RejectStaleBets, OpensRound
<1> DEFINE answers == [i \in DOMAIN placeBetQueue |-> Rejected(placeBetQueue[i])]
<1>7. /\ answers \in Seq(Answer) /\ BetsIn(answers) = {}
      /\ \A p : Count(answers, To(p)) = Count(placeBetQueue, Of(p))
  <2>1. /\ DOMAIN answers = DOMAIN placeBetQueue
        /\ \A i \in DOMAIN placeBetQueue :
             /\ placeBetQueue[i] \in PlaceBetCommands
             /\ answers[i] \in Answer /\ answers[i].bet = 0
             /\ answers[i].to = placeBetQueue[i].playerId
    BY <1>1 DEF Rejected, Answer, Players
  <2>2. answers \in [1..Len(placeBetQueue) -> Answer]
    BY <1>1, <2>1
  <2> HIDE DEF answers
  <2>3. answers \in Seq(Answer)
    BY <1>1, <2>2, SeqOfFunction
  <2>4. BetsIn(answers) = {}
    BY <2>1 DEF BetsIn
  <2>5. \A p : Places(answers, To(p)) = Places(placeBetQueue, Of(p))
    BY <2>1 DEF Places, To, Of
  <2> QED
    BY <2>3, <2>4, <2>5 DEF Count
<1>8. Publish(answers)
  <2>1. CASE answered' = answered
    <3>1. answers = <<>>
      BY <1>1, <1>6, <2>1
    <3> QED
      BY <2>1, <3>1 DEF OpensRound
  <2>2. CASE answered' # answered
    BY <2>2 DEF OpensRound
  <2> QED
    BY <2>1, <2>2
<1> HIDE DEF answers
<1>9. \A p \in Players : Pending(p)' + Count(answers, To(p)) = Pending(p)
  <2>1. \A p : Count(toEngine, Of(p)) \in Nat /\ Count(placeBetQueue, Of(p)) \in Nat
    BY Booked DEF PathInv, Bookkeeping
  <2> QED
    BY <1>5, <1>6, <1>7, <2>1, NoAnswer, PendingNext DEF Pending
<1>10. DOMAIN bets' = DOMAIN bets \cup BetsIn(answers)
  BY <1>6, <1>7
<1> QED
  BY <1>7, <1>8, <1>9, <1>10, PathInvPublish

\* endBettingPhase on its way to the next await: what it answers, and what it
\* still has to answer.
LEMMA PlaceNextAnswers ==
  ASSUME LoopFacts, NEW todo \in Seq(PlaceBetCommands), NEW r \in DOMAIN rounds,
         PlaceNext(todo, r), bets' = bets
  PROVE  \E answers \in Seq(Answer) :
           /\ ImmediateAnswer = answers /\ BetsIn(answers) \subseteq DOMAIN bets
           /\ \A p : Count(Unanswered', Of(p)) + Count(answers, To(p)) = Count(todo, Of(p))
<1>0. LoopTypeOK /\ answered \in Nat /\ betStore \subseteq DOMAIN bets /\ DOMAIN bets \subseteq Nat
  <2>1. bets \in Seq(Bet) /\ DOMAIN bets = 1..Len(bets) /\ Len(bets) \in Nat
    BY DEF LoopFacts, TypeOK, BetTypeOK
  <2> QED
    BY <2>1 DEF LoopFacts, TypeOK, QueueTypeOK, BetTypeOK
<1>1. todo \in Seq(PlaceBetCommand)
  BY CommandsAssumption
<1>2. \A p : Count(todo, Of(p)) \in Nat
  BY CountNat
<1>3. PICK none : none = <<>>
  OBVIOUS
<1>4. none \in Seq(Answer) /\ BetsIn(none) = {}
       /\ \A p : Count(none, To(p)) = 0 /\ Count(none, Of(p)) = 0
  BY <1>3, NoAnswer
<1>5. CASE todo = <<>>
  <2>1. task'.at = "starting" /\ answered' = answered
    BY <1>0, <1>1, <1>5, PlaceNextStep
  <2>2. Unanswered' = none /\ ImmediateAnswer = none /\ todo = none
    BY <1>5, <1>3, <2>1, UnansweredIs DEF ImmediateAnswer
  <2> QED
    BY <1>4, <2>2
<1>6. CASE todo # <<>>
  <2>1. task'.todo = todo /\ (\/ task'.at = "debit" /\ answered' = answered
                              \/ task'.at = "reply" /\ answered' = answered + 1)
    BY <1>0, <1>1, <1>6, PlaceNextStep
  <2>2. CASE task'.at = "debit" /\ answered' = answered
    <3>1. Unanswered' = todo /\ ImmediateAnswer = none
      BY <1>3, <2>1, <2>2, UnansweredIs DEF ImmediateAnswer
    <3> QED
      BY <1>2, <1>4, <3>1
  <2>3. CASE task'.at = "reply" /\ answered' = answered + 1
    <3>1. PICK cmd \in PlaceBetCommands : cmd = Head(todo)
      BY <1>6, SeqTail
    <3>2. Unanswered' = Tail(todo)
      BY <2>1, <2>3, UnansweredIs
    <3>3. PICK b \in Nat : /\ IsRepeat(cmd) => /\ b = BetWithKey(cmd.idempotencyKey)
                                              /\ bets'[b].playerId = cmd.playerId
                           /\ b \in DOMAIN bets \cup {0}
      <4>1. CASE IsRepeat(cmd)
        <5>1. /\ BetWithKey(cmd.idempotencyKey) \in betStore
              /\ bets[BetWithKey(cmd.idempotencyKey)].playerId = cmd.playerId
          BY <4>1, RepeatOfOwnBet DEF LoopFacts
        <5> QED
          BY <1>0, <5>1
      <4>2. CASE ~IsRepeat(cmd)
        BY <4>2
      <4> QED
        BY <4>1, <4>2
    <3>4. PICK a : a = IF IsRepeat(cmd) THEN Placed(b) ELSE Rejected(cmd)
      OBVIOUS
    <3>5. (a = Placed(b) /\ bets'[b].playerId = cmd.playerId) \/ a = Rejected(cmd)
      BY <3>3, <3>4
    <3>6. /\ <<a>> \in Seq(Answer) /\ BetsIn(<<a>>) \subseteq DOMAIN bets
          /\ \A p : Count(<<a>>, To(p)) = IF cmd \in Of(p) THEN 1 ELSE 0
      BY <3>3, <3>5, AnswerTo
    <3>7. ImmediateAnswer = <<a>>
      <4>1. Head(task'.todo) = cmd /\ answered' # answered
        BY <1>0, <2>1, <2>3, <3>1
      <4> QED
        BY <3>3, <3>4, <4>1 DEF ImmediateAnswer
    <3>8. \A p : Count(todo, Of(p)) = Count(Tail(todo), Of(p)) + (IF cmd \in Of(p) THEN 1 ELSE 0)
      BY <1>6, <3>1, CountTail
    <3> QED
      BY <3>2, <3>6, <3>7, <3>8
  <2> QED
    BY <2>1, <2>2, <2>3
<1> QED
  BY <1>5, <1>6

LEMMA PathInvPlaces ==
  ASSUME LoopFacts, LoopFacts', PathInv, PlacesBets
  PROVE  PathInv'
<1>1. /\ EndBettingPhase \/ ReplyPublished
      /\ Publish(ImmediateAnswer) /\ toEngine' = toEngine
  BY DEF PlacesBets, DebitCalled, NoDebitCalled
<1>2. /\ LoopTypeOK /\ placeBetQueue \in Seq(PlaceBetCommands) /\ task.todo \in Seq(PlaceBetCommands)
      /\ \A p : /\ Count(toEngine, Of(p)) \in Nat /\ Count(placeBetQueue, Of(p)) \in Nat
                /\ Count(Unanswered, Of(p)) \in Nat
  BY Booked DEF LoopFacts, CommandsGenuine, TypeOK, PathInv, Bookkeeping
<1>3. bets' = bets
  BY <1>1 DEF EndBettingPhase, ReplyPublished, betVars
<1>4. ASSUME NEW todo \in Seq(PlaceBetCommands), NEW r \in DOMAIN rounds, PlaceNext(todo, r),
             \A p : Count(placeBetQueue', Of(p)) + Count(todo, Of(p)) =
                      Count(placeBetQueue, Of(p)) + Count(Unanswered, Of(p))
      PROVE  PathInv'
  <2>1. PICK answers \in Seq(Answer) :
          /\ ImmediateAnswer = answers /\ BetsIn(answers) \subseteq DOMAIN bets
          /\ \A p : Count(Unanswered', Of(p)) + Count(answers, To(p)) = Count(todo, Of(p))
    BY <1>3, <1>4, PlaceNextAnswers
  <2>2. \A p : /\ Count(placeBetQueue', Of(p)) \in Nat /\ Count(Unanswered', Of(p)) \in Nat
               /\ Count(todo, Of(p)) \in Nat /\ Count(answers, To(p)) \in Nat
    <3>1. AnswersTyped'
      BY <1>1, <2>1, PublishStep DEF PathInv
    <3> QED
      BY <3>1, BookedNext, CountNat DEF Bookkeeping
  <2>3. \A p \in Players : Pending(p)' + Count(answers, To(p)) = Pending(p)
    <3> SUFFICES ASSUME NEW p \in Players PROVE Pending(p)' + Count(answers, To(p)) = Pending(p)
      OBVIOUS
    <3>1. Count(Unanswered', Of(p)) + Count(answers, To(p)) = Count(todo, Of(p))
      BY <2>1
    <3>2. Count(placeBetQueue', Of(p)) + Count(todo, Of(p)) =
            Count(placeBetQueue, Of(p)) + Count(Unanswered, Of(p))
      BY <1>4
    <3>3. Pending(p)' = Count(toEngine, Of(p)) + Count(placeBetQueue', Of(p))
                        + Count(Unanswered', Of(p))
      BY <1>1, PendingNext
    <3>4. /\ Count(toEngine, Of(p)) \in Nat /\ Count(placeBetQueue, Of(p)) \in Nat
          /\ Count(Unanswered, Of(p)) \in Nat
      BY <1>2
    <3>5. /\ Count(placeBetQueue', Of(p)) \in Nat /\ Count(Unanswered', Of(p)) \in Nat
          /\ Count(todo, Of(p)) \in Nat /\ Count(answers, To(p)) \in Nat
      BY <2>2
    <3>6. Pending(p) = Count(toEngine, Of(p)) + Count(placeBetQueue, Of(p)) + Count(Unanswered, Of(p))
      BY DEF Pending
    <3>7. PICK e, q, u, t, a, qn, un \in Nat :
            /\ e = Count(toEngine, Of(p)) /\ q = Count(placeBetQueue, Of(p))
            /\ u = Count(Unanswered, Of(p)) /\ t = Count(todo, Of(p)) /\ a = Count(answers, To(p))
            /\ qn = Count(placeBetQueue', Of(p)) /\ un = Count(Unanswered', Of(p))
      BY <3>4, <3>5
    <3>8. un + a = t /\ qn + t = q + u
      BY <3>1, <3>2, <3>7
    <3>9. Pending(p)' = e + qn + un /\ Pending(p) = e + q + u /\ a = Count(answers, To(p))
      BY <3>3, <3>6, <3>7
    <3>10. e + qn + un + a = e + q + u
      BY <3>8
    <3> QED
      BY <3>9, <3>10
  <2>4. DOMAIN bets' = DOMAIN bets \cup BetsIn(answers) /\ Publish(answers)
    BY <1>1, <1>3, <2>1
  <2> QED
    BY <2>3, <2>4, PathInvPublish
<1>5. CASE EndBettingPhase
  <2>1. task.at = "idle"
    BY <1>5 DEF EndBettingPhase, LoopFacts, LoopInv, PhaseInv
  <2>2. Unanswered = <<>>
    BY <2>1, UnansweredIs
  <2>3. CASE Running /\ current # 0
    <3>1. current \in DOMAIN rounds
      BY <1>2, <2>3 DEF LoopTypeOK
    <3>2. PlaceNext(placeBetQueue, current) /\ placeBetQueue' = <<>>
      BY <1>5, <2>3 DEF EndBettingPhase
    <3>3. \A p : Count(placeBetQueue', Of(p)) + Count(placeBetQueue, Of(p)) =
                   Count(placeBetQueue, Of(p)) + Count(Unanswered, Of(p))
      BY <1>2, <2>2, <3>2, NoAnswer
    <3> QED
      BY <1>2, <1>4, <3>1, <3>2, <3>3
  <2>4. CASE ~(Running /\ current # 0)
    <3>1. UNCHANGED <<placeBetQueue, task, answered>>
      BY <1>5, <2>4 DEF EndBettingPhase
    <3>2. ImmediateAnswer = <<>> /\ Unanswered' = Unanswered
      BY <3>1 DEF ImmediateAnswer, Unanswered
    <3>3. \A p \in Players : Pending(p)' + Count(<<>>, To(p)) = Pending(p)
      BY <1>1, <1>2, <3>1, <3>2, NoAnswer, PendingNext DEF Pending
    <3>4. DOMAIN bets' = DOMAIN bets \cup BetsIn(<<>>) /\ Publish(<<>>)
      BY <1>1, <1>3, <3>2, NoAnswer
    <3> QED
      BY <3>3, <3>4, NoAnswer, PathInvPublish
  <2> QED
    BY <2>3, <2>4
<1>6. CASE ReplyPublished
  <2>1. task.at = "reply" /\ PlaceNext(Tail(task.todo), task.round) /\ placeBetQueue' = placeBetQueue
    BY <1>6 DEF ReplyPublished
  <2>2. task.round \in DOMAIN rounds /\ task.todo # <<>>
    BY <1>2, <2>1 DEF LoopTypeOK, Task
  <2>3. Tail(task.todo) \in Seq(PlaceBetCommands) /\ Unanswered = Tail(task.todo)
    BY <1>2, <2>1, <2>2, SeqTail, UnansweredIs
  <2> QED
    BY <1>4, <2>1, <2>2, <2>3
<1> QED
  BY <1>1, <1>5, <1>6

LEMMA PathInvAnswersBet ==
  ASSUME LoopFacts, LoopFacts', PathInv, AnswersBet
  PROVE  PathInv'
<1>1. /\ TypeOK /\ LoopTypeOK /\ task.todo \in Seq(PlaceBetCommands)
      /\ bets \in Seq(Bet) /\ DOMAIN bets = 1..Len(bets) /\ Len(bets) \in Nat
      /\ \A p : /\ Count(toEngine, Of(p)) \in Nat /\ Count(placeBetQueue, Of(p)) \in Nat
                /\ Count(Unanswered, Of(p)) \in Nat
  BY Booked DEF LoopFacts, CommandsGenuine, TypeOK, BetTypeOK, PathInv, Bookkeeping
<1>2. /\ DebitOk \/ DebitRefused
      /\ Publish(<<DebitAnswer(Head(task.todo))>>) /\ toEngine' = toEngine
  BY DEF AnswersBet, DebitReturns
<1>3. /\ task.at = "debit" /\ task'.at = "reply" /\ task'.todo = task.todo
      /\ placeBetQueue' = placeBetQueue
  BY <1>1, <1>2, DebitStep
<1>4. task.todo # <<>>
  BY <1>1, <1>3 DEF LoopTypeOK
<1>5. PICK cmd \in PlaceBetCommands : cmd = Head(task.todo)
  BY <1>1, <1>4, SeqTail
<1>6. Unanswered = task.todo /\ Unanswered' = Tail(task.todo)
  BY <1>3, UnansweredIs
<1>7. \A p : Count(Unanswered, Of(p)) =
               Count(Unanswered', Of(p)) + (IF cmd \in Of(p) THEN 1 ELSE 0)
  BY <1>1, <1>4, <1>5, <1>6, CountTail
<1>8. \E a : /\ a = DebitAnswer(cmd) /\ <<a>> \in Seq(Answer)
             /\ DOMAIN bets' = DOMAIN bets \cup BetsIn(<<a>>)
             /\ \A p : Count(<<a>>, To(p)) = IF cmd \in Of(p) THEN 1 ELSE 0
  <2>1. CASE DebitOk
    <3>1. /\ DOMAIN bets' = DOMAIN bets \cup {Len(bets) + 1}
          /\ bets'[Len(bets) + 1].status \in {"ACTIVE", "PENDING"}
      BY <1>1, <2>1, DebitAddsBet
    <3>2. bets'[Len(bets) + 1].status = "ACTIVE"
      BY <3>1 DEF LoopFacts, BetsInv, NoRefundNeeded
    <3>3. Len(bets') = Len(bets) + 1
      BY <1>1, <2>1 DEF DebitOk
    <3>4. PICK n \in Nat : n = Len(bets) + 1 /\ n # 0
      BY <1>1
    <3>5. PICK a : a = Placed(n) /\ bets'[n].playerId = cmd.playerId
      BY <1>1, <1>5, <2>1, <3>4, DebitedBet
    <3>6. DebitAnswer(cmd) = a
      BY <1>1, <3>2, <3>3, <3>4, <3>5 DEF DebitAnswer
    <3>7. /\ <<a>> \in Seq(Answer) /\ BetsIn(<<a>>) = {n} \ {0}
          /\ \A p : Count(<<a>>, To(p)) = IF cmd \in Of(p) THEN 1 ELSE 0
      BY <3>5, AnswerTo
    <3> QED
      BY <3>1, <3>4, <3>6, <3>7
  <2>2. CASE DebitRefused
    <3>1. bets' = bets
      BY <2>2 DEF DebitRefused, betVars
    <3>2. PICK a : a = Rejected(cmd)
      OBVIOUS
    <3>3. DebitAnswer(cmd) = a
      BY <1>1, <3>1, <3>2 DEF DebitAnswer
    <3>4. /\ <<a>> \in Seq(Answer) /\ BetsIn(<<a>>) = {}
          /\ \A p : Count(<<a>>, To(p)) = IF cmd \in Of(p) THEN 1 ELSE 0
      BY <3>2, AnswerTo
    <3> QED
      BY <3>1, <3>3, <3>4
  <2> QED
    BY <1>2, <2>1, <2>2
<1>9. PICK a : /\ a = DebitAnswer(cmd) /\ <<a>> \in Seq(Answer)
               /\ DOMAIN bets' = DOMAIN bets \cup BetsIn(<<a>>)
               /\ \A p : Count(<<a>>, To(p)) = IF cmd \in Of(p) THEN 1 ELSE 0
  BY <1>8
<1>10. Publish(<<a>>)
  BY <1>2, <1>5, <1>9
<1>11. \A p \in Players : Pending(p)' + Count(<<a>>, To(p)) = Pending(p)
  <2> SUFFICES ASSUME NEW p \in Players PROVE Pending(p)' + Count(<<a>>, To(p)) = Pending(p)
    OBVIOUS
  <2>1. Count(Unanswered', Of(p)) \in Nat
    BY <1>1, <1>4, <1>6, SeqTail, CountNat
  <2>2. Pending(p)' = Count(toEngine, Of(p)) + Count(placeBetQueue, Of(p)) + Count(Unanswered', Of(p))
    BY <1>2, <1>3, PendingNext
  <2> QED
    BY <1>1, <1>7, <1>9, <2>1, <2>2 DEF Pending
<1> QED
  BY <1>9, <1>10, <1>11, PathInvPublish

LEMMA PathInvStep ==
  ASSUME LoopFacts, LoopFacts', PathInv, [PathNext]_pathVars
  PROVE  PathInv'
<1>1. CASE (\E cmd \in PlaceBetCommands : ForwardBet(cmd)) \/ CommandDropped \/ CommandLost
  BY <1>1, PathInvCommand
<1>2. CASE CommandArrives
  BY <1>2, PathInvArrives
<1>3. CASE OpensRound
  BY <1>3, PathInvOpens
<1>4. CASE PlacesBets
  BY <1>4, PathInvPlaces
<1>5. CASE AnswersBet
  BY <1>5, PathInvAnswersBet
<1>6. CASE AnswerDelivered \/ AnswerLost
  BY <1>6, PathInvAnswer
<1>7. CASE Announces \/ StartsTicking
  <2>1. task.at \in {"announcing", "starting"} /\ task' = Idle
        /\ UNCHANGED <<bets, placeBetQueue, linkVars>>
    BY <1>7 DEF Announces, StartsTicking, RoundAnnounced, RoundStarted, betVars
  <2>2. Unanswered = <<>> /\ Unanswered' = <<>>
    BY <2>1, IdleTask, UnansweredIs
  <2> QED
    BY <2>1, <2>2, PathInvSame DEF linkVars
<1>8. CASE Ticking
  <2>1. OnTick /\ UNCHANGED <<task, placeBetQueue, linkVars>>
    BY <1>8 DEF Ticking, TickCredits, OnTick, TickFlies, TickCrashes, Ticks
  <2>2. DOMAIN bets' = DOMAIN bets
    BY <2>1, TickOnBets DEF OnTick, LoopFacts
  <2>3. Unanswered' = Unanswered
    BY <2>1 DEF Unanswered
  <2> QED
    BY <2>1, <2>2, <2>3, PathInvSame DEF linkVars
<1>9. CASE \/ CashoutArrives \/ CreditComesBack \/ Flushes \/ RealtimeCloses \/ RealtimeDrains
           \/ EngineDrains \/ LoopStops \/ UNCHANGED pathVars
  <2>1. UNCHANGED <<bets, task, placeBetQueue, toEngine, toRealtime, awaiting, told, missed>>
    <3>1. CASE CashoutArrives \/ CreditComesBack
      BY <3>1 DEF CashoutArrives, CashoutReceived, CreditComesBack, CreditResolves, CreditReturns,
         driverVars, betVars, linkVars
    <3>2. CASE Flushes \/ LoopStops
      BY <3>2 DEF Flushes, FlushEvents, LoopStops, Stop, driverVars, betVars, linkVars
    <3>3. CASE RealtimeCloses \/ RealtimeDrains \/ EngineDrains \/ UNCHANGED pathVars
      BY <3>3 DEF RealtimeCloses, RealtimeDrains, EngineDrains, pathVars, vars, driverVars,
         betVars, linkVars
    <3> QED
      BY <1>9, <3>1, <3>2, <3>3
  <2>2. Unanswered' = Unanswered
    BY <2>1 DEF Unanswered
  <2> QED
    BY <2>1, <2>2, PathInvSame
<1> QED
  BY <1>1, <1>2, <1>3, <1>4, <1>5, <1>6, <1>7, <1>8, <1>9 DEF PathNext

LEMMA PathInvInit == PathInit => PathInv
<1> SUFFICES ASSUME PathInit PROVE PathInv
  OBVIOUS
<1>1. /\ toEngine = <<>> /\ toRealtime = <<>> /\ placeBetQueue = <<>> /\ bets = <<>>
      /\ awaiting = [p \in Players |-> 0] /\ told = {} /\ missed = {} /\ task.at = "idle"
  BY IdleTask DEF PathInit, WalletInit, Init
<1>2. AnswersTyped
  BY <1>1 DEF AnswersTyped
<1>3. BetsKnown
  BY <1>1, BetsInNone DEF BetsKnown
<1>4. AnswersAccounted
  <2>1. Unanswered = <<>>
    BY <1>1, UnansweredIs
  <2>2. \A p : CommandsOf(p, <<>> \o <<>> \o <<>>) + CountOf(p, <<>>) = 0
    <3>1. PICK none : none = <<>>
      OBVIOUS
    <3>2. none \in Seq(PlaceBetCommands) /\ none \in Seq(Answer) /\ none \o none \o none = none
      BY <3>1
    <3>3. \A p : CommandsOf(p, none \o none \o none) + CountOf(p, none) = 0
      <4>1. \A p : Count(none, Of(p)) = 0 /\ Count(none, To(p)) = 0
        BY <3>1, NoAnswer
      <4>2. \A p : /\ CommandsOf(p, none \o none \o none) =
                        Count(none, Of(p)) + Count(none, Of(p)) + Count(none, Of(p))
                   /\ CountOf(p, none) = Count(none, To(p))
        BY <3>2, Counts
      <4> QED
        BY <4>1, <4>2
    <3> QED
      BY <3>1, <3>3
  <2> QED
    BY <1>1, <2>1, <2>2 DEF AnswersAccounted
<1> QED
  BY <1>2, <1>3, <1>4 DEF PathInv

LEMMA PathInvariant == PathSafety => []PathInv
<1>1. LoopFacts /\ LoopFacts' /\ PathInv /\ [PathNext]_pathVars => PathInv'
  BY PathInvStep
<1> QED
  BY <1>1, PathInvInit, LoopFactsInvariant, PTL DEF PathSafety

\* Each forwarded place-bet command is pending, answered once to its player, or
\* lost: none is answered twice, to somebody else, or forgotten by the engine.
THEOREM AnswersAddUp == PathSafety => []AnswersAccounted
BY PathInvariant, PTL DEF PathInv

\* No bet is placed behind its player's back: bet_placed of every bet has been
\* delivered, is under way, or is known to be lost.
THEOREM BetsAnnounced == PathSafety => []BetsKnown
BY PathInvariant, PTL DEF PathInv

-----------------------------------------------------------------------------
(* Money *)

StakesOf(p) == SumFunctionOnSet(Stake, BetsOf(p))
WinningsOf(p) == SumFunctionOnSet(Winnings, BetsOf(p))

\* Both are sums of naturals over finitely many bets.
MoneyTyped ==
  /\ IsFiniteSet(DOMAIN bets)
  /\ \A b \in DOMAIN bets : Stake[b] \in Nat /\ Winnings[b] \in Nat
  /\ \A p : /\ BetsOf(p) \subseteq DOMAIN bets /\ IsFiniteSet(BetsOf(p))
            /\ StakesOf(p) \in Nat /\ WinningsOf(p) \in Nat

LEMMA MoneyType == TypeOK => MoneyTyped
<1> SUFFICES ASSUME TypeOK PROVE MoneyTyped
  OBVIOUS
<1>1. bets \in Seq(Bet) /\ DOMAIN bets = 1..Len(bets) /\ Len(bets) \in Int /\ 1 \in Int
  BY DEF TypeOK, BetTypeOK
<1>2. IsFiniteSet(DOMAIN bets)
  BY <1>1, FS_Interval
<1>3. ASSUME NEW b \in DOMAIN bets PROVE Stake[b] \in Nat /\ Winnings[b] \in Nat
  <2>1. bets[b] \in Bet
    BY <1>1
  <2>2. bets[b].amountCents \in Nat /\ bets[b].payoutCents \in Nat
    BY <2>1 DEF Bet
  <2> QED
    BY <2>2 DEF Stake, Winnings
<1>4. \A p : BetsOf(p) \subseteq DOMAIN bets
  BY DEF BetsOf
<1>5. \A p : IsFiniteSet(BetsOf(p))
  BY <1>2, <1>4, FS_Subset
<1>6. \A p : StakesOf(p) \in Nat /\ WinningsOf(p) \in Nat
  BY <1>2, <1>3, <1>4, SumNat DEF StakesOf, WinningsOf
<1> QED
  BY <1>2, <1>3, <1>4, <1>5, <1>6 DEF MoneyTyped

LEMMA MoneyTypeNext == TypeOK' => MoneyTyped'
BY MoneyType, PTL

LEMMA MoneyNext ==
  \A p : /\ StakesOf(p)' = SumFunctionOnSet(Stake', BetsOf(p)')
         /\ WinningsOf(p)' = SumFunctionOnSet(Winnings', BetsOf(p)')
         /\ BetsOf(p)' = {b \in DOMAIN bets' : bets'[b].playerId = p}
BY DEF StakesOf, WinningsOf, BetsOf

LEMMA MoneySame ==
  ASSUME UNCHANGED bets
  PROVE  \A p : StakesOf(p)' = StakesOf(p) /\ WinningsOf(p)' = WinningsOf(p)
BY DEF StakesOf, WinningsOf, BetsOf, Stake, Winnings

\* A debit that comes back adds the stake of its command.
LEMMA MoneyDebit ==
  ASSUME LoopFacts, LoopFacts', DebitOk
  PROVE  \A p : /\ WinningsOf(p)' = WinningsOf(p)
                /\ StakesOf(p)' = StakesOf(p) + (IF Head(task.todo).playerId = p
                                                 THEN Head(task.todo).amountCents ELSE 0)
<1>1. /\ bets \in Seq(Bet) /\ DOMAIN bets = 1..Len(bets) /\ Len(bets) \in Nat
      /\ TypeOK /\ TypeOK'
  BY DEF LoopFacts, TypeOK, BetTypeOK
<1>2. PICK n \in Nat : n = Len(bets) + 1 /\ n \notin DOMAIN bets
  BY <1>1
<1>3. PICK bet : /\ bets' = Append(bets, bet) /\ bet.playerId = Head(task.todo).playerId
                 /\ bet.amountCents = Head(task.todo).amountCents
                 /\ bet.status \in {"ACTIVE", "PENDING"}
  BY DEF DebitOk
<1>4. DOMAIN bets' = DOMAIN bets \cup {n} /\ bets'[n] = bet /\ \A b \in DOMAIN bets : bets'[b] = bets[b]
  BY <1>1, <1>2, <1>3
<1>5. /\ Stake'[n] = bet.amountCents /\ Winnings'[n] = 0
      /\ \A b \in DOMAIN bets : Stake'[b] = Stake[b] /\ Winnings'[b] = Winnings[b]
  BY <1>3, <1>4 DEF Stake, Winnings
<1>6. MoneyTyped /\ MoneyTyped'
  BY <1>1, MoneyType, MoneyTypeNext
<1>7. ASSUME NEW p
      PROVE  /\ WinningsOf(p)' = WinningsOf(p)
             /\ StakesOf(p)' = StakesOf(p) + (IF bet.playerId = p THEN bet.amountCents ELSE 0)
  <2>1. PICK S : S = BetsOf(p)
    OBVIOUS
  <2>2. S \subseteq DOMAIN bets /\ IsFiniteSet(S)
    BY <1>6, <2>1 DEF MoneyTyped
  <2>3. /\ SumFunctionOnSet(Stake', S) = SumFunctionOnSet(Stake, S)
        /\ SumFunctionOnSet(Winnings', S) = SumFunctionOnSet(Winnings, S)
    BY <1>5, <2>2, SumSame
  <2>4. SumFunctionOnSet(Stake', S) = StakesOf(p) /\ SumFunctionOnSet(Winnings', S) = WinningsOf(p)
    BY <2>1, <2>3 DEF StakesOf, WinningsOf
  <2>5. StakesOf(p) \in Nat /\ WinningsOf(p) \in Nat
    BY <1>6 DEF MoneyTyped
  <2>6. CASE bet.playerId = p
    <3>1. PICK T : T = S \cup {n}
      OBVIOUS
    <3>2. T \ {n} = S /\ n \in T
      BY <1>2, <2>2, <3>1
    <3>3. BetsOf(p)' = T
      BY <1>4, <2>1, <2>6, <3>1, MoneyNext DEF BetsOf
    <3>4. IsFiniteSet(T) /\ \A b \in T : Stake'[b] \in Nat /\ Winnings'[b] \in Nat
      BY <1>6, <3>3 DEF MoneyTyped
    <3>5. /\ SumFunctionOnSet(Stake', T) = Stake'[n] + SumFunctionOnSet(Stake', S)
          /\ SumFunctionOnSet(Winnings', T) = Winnings'[n] + SumFunctionOnSet(Winnings', S)
      <4>1. PICK s, w : s = Stake' /\ w = Winnings'
        OBVIOUS
      <4>2. IsFiniteSet(T) /\ \A b \in T : s[b] \in Nat /\ w[b] \in Nat
        BY <3>4, <4>1
      <4>3. /\ SumFunctionOnSet(s, T) = s[n] + SumFunctionOnSet(s, T \ {n})
            /\ SumFunctionOnSet(w, T) = w[n] + SumFunctionOnSet(w, T \ {n})
        <5>1. \A b \in T : SumFunctionOnSet(s, T) = s[b] + SumFunctionOnSet(s, T \ {b})
          BY <4>2, SumRemove
        <5>2. \A b \in T : SumFunctionOnSet(w, T) = w[b] + SumFunctionOnSet(w, T \ {b})
          BY <4>2, SumRemove
        <5> QED
          BY <3>2, <5>1, <5>2
      <4> QED
        BY <3>2, <4>1, <4>3
    <3>6. StakesOf(p)' = bet.amountCents + StakesOf(p) /\ WinningsOf(p)' = 0 + WinningsOf(p)
      BY <1>5, <2>4, <3>3, <3>5, MoneyNext
    <3>7. bet.amountCents \in Nat
      BY <1>5, <3>2, <3>4
    <3> QED
      BY <2>5, <2>6, <3>6, <3>7
  <2>7. CASE bet.playerId # p
    <3>1. BetsOf(p)' = S
      BY <1>4, <2>1, <2>7, MoneyNext DEF BetsOf
    <3> QED
      BY <2>4, <2>5, <2>7, <3>1, MoneyNext
  <2> QED
    BY <2>6, <2>7
<1> QED
  BY <1>3, <1>7

\* The credits that a step starts are none unless a tick cashes bets out.
LEMMA NoCredits ==
  ASSUME LoopFacts, LoopFacts', DebitOk \/ DebitRefused
  PROVE  \A p : SumFunctionOnSet(NewCredits, BetsOf(p)') = 0
<1>1. /\ DOMAIN credits = DOMAIN bets /\ DOMAIN bets = 1..Len(bets) /\ Len(bets) \in Nat
      /\ credits \in Seq(Seq(Credit)) /\ Len(credits) = Len(bets) /\ TypeOK /\ TypeOK'
  BY DEF LoopFacts, TypeOK, BetTypeOK
<1>2. \A b \in DOMAIN bets' : NewCredits[b] = 0
  <2>1. CASE DebitOk
    <3>1. /\ DOMAIN bets' = DOMAIN bets \cup {Len(bets) + 1}
          /\ bets'[Len(bets) + 1].status = "ACTIVE"
      BY <1>1, <2>1, DebitAddsBet DEF LoopFacts, BetsInv, NoRefundNeeded
    <3>2. rounds[task.round].state = "BETTING"
      <4>1. PICK bet : /\ bets' = Append(bets, bet)
                       /\ bet.status = IF rounds[task.round].state = "BETTING"
                                       THEN "ACTIVE" ELSE "PENDING"
        BY <2>1 DEF DebitOk
      <4>2. bets'[Len(bets) + 1] = bet
        BY <1>1, <4>1
      <4> QED
        BY <3>1, <4>1, <4>2
    <3>3. credits' = Append(credits, <<>>)
      BY <2>1, <3>2 DEF DebitOk
    <3>4. /\ \A b \in DOMAIN bets : credits'[b] = credits[b] /\ Len(credits[b]) \in Nat
          /\ Len(bets) + 1 \notin DOMAIN credits /\ credits'[Len(bets) + 1] = <<>>
      BY <1>1, <3>3
    <3> QED
      BY <1>1, <3>1, <3>4 DEF NewCredits
  <2>2. CASE DebitRefused
    <3>1. bets' = bets /\ credits' = credits
      BY <2>2 DEF DebitRefused, betVars
    <3>2. \A b \in DOMAIN credits : Len(credits[b]) \in Nat
      BY <1>1
    <3> QED
      BY <1>1, <3>1, <3>2 DEF NewCredits
  <2> QED
    BY <2>1, <2>2
<1>3. \A p : BetsOf(p)' \subseteq DOMAIN bets' /\ IsFiniteSet(BetsOf(p)')
  BY <1>1, MoneyTypeNext DEF MoneyTyped
<1> QED
  BY <1>2, <1>3, SumZero

\* A tick leaves the stakes alone, and what it credits is what the bets win.
LEMMA MoneyTick ==
  ASSUME LoopFacts, LoopFacts', OnTick
  PROVE  \A p : /\ SumFunctionOnSet(NewCredits, BetsOf(p)') \in Nat
                /\ StakesOf(p)' = StakesOf(p)
                /\ WinningsOf(p)' = WinningsOf(p) + SumFunctionOnSet(NewCredits, BetsOf(p)')
<1>1. /\ bets \in Seq(Bet) /\ DOMAIN credits = DOMAIN bets /\ credits \in Seq(Seq(Credit))
      /\ TypeOK /\ TypeOK' /\ BetTypeOK
  <2>1. TypeOK /\ TypeOK'
    BY Zenon DEF LoopFacts
  <2>2. BetTypeOK
    BY <2>1 DEF TypeOK
  <2> QED
    BY <2>1, <2>2 DEF BetTypeOK
<1>2. PICK m \in Multipliers : TickFlies(m) \/ TickCrashes(m)
  BY DEF OnTick
<1>3. PICK won, lost \in SUBSET ActiveBets(current) :
        won \cap lost = {} /\ Settle(won, lost, rounds[current].currentMultiplier)
  BY <1>1, <1>2, TickSettles
<1>4. PICK paidAt \in Nat : paidAt = rounds[current].currentMultiplier
  <2>1. current \in DOMAIN rounds /\ rounds \in Seq(Round)
    BY <1>1, <1>2, TickStep DEF TypeOK, LoopTypeOK
  <2> QED
    BY <2>1, RoundNumbers
<1>5. /\ DOMAIN bets' = DOMAIN bets
      /\ \A b \in DOMAIN bets :
           /\ b \in won => bets'[b] = Cashout(bets[b], paidAt)
           /\ b \in lost => bets'[b] = Lose(bets[b])
           /\ b \notin won \cup lost => bets'[b] = bets[b]
           /\ IF b \in won
              THEN credits'[b] = Append(credits[b], [cents |-> Payout(bets[b].amountCents, paidAt),
                                                     outcome |-> "pending"])
              ELSE credits'[b] = credits[b]
  <2>1. Settle(won, lost, paidAt)
    BY <1>3, <1>4
  <2> QED
    BY <1>1, <1>3, <2>1, SettleStep
<1>6. ASSUME NEW b \in DOMAIN bets
      PROVE  /\ bets'[b].playerId = bets[b].playerId /\ Stake'[b] = Stake[b]
             /\ NewCredits[b] \in Nat /\ Winnings'[b] = Winnings[b] + NewCredits[b]
  <2>1. /\ bets[b] \in Bet /\ credits[b] \in Seq(Credit) /\ b \in DOMAIN credits
        /\ Len(credits[b]) \in Nat /\ b \in DOMAIN bets'
    BY <1>1, <1>5
  <2>5. /\ b \in won => bets'[b] = Cashout(bets[b], paidAt)
        /\ b \in lost => bets'[b] = Lose(bets[b])
        /\ b \notin won => credits'[b] = credits[b]
    BY <1>5
  <2>2. NewCredits[b] = IF Len(credits'[b]) > Len(credits[b])
                        THEN credits'[b][Len(credits[b]) + 1].cents ELSE 0
    BY <2>1 DEF NewCredits
  <2>3. CASE b \in won
    <3>1. bets[b].status = "ACTIVE"
      BY <2>3 DEF ActiveBets
    <3>2. /\ bets'[b].status = "WON" /\ bets'[b].playerId = bets[b].playerId
          /\ bets'[b].amountCents = bets[b].amountCents
          /\ bets'[b].payoutCents = Payout(bets[b].amountCents, paidAt)
      <4>1. bets[b] \in Bet /\ paidAt \in Nat /\ bets'[b] = Cashout(bets[b], paidAt)
        BY <1>1, <2>1, <2>3, <2>5
      <4> QED
        BY <4>1, CashoutBet
    <3>3. PICK pay : pay = Payout(bets[b].amountCents, paidAt)
      OBVIOUS
    <3>4. pay \in Nat
      BY <2>1, <3>3, PayoutNat DEF Bet
    <3>5. PICK credit \in Credit : credit.cents = pay /\ credits'[b] = Append(credits[b], credit)
      <4>1. [cents |-> pay, outcome |-> "pending"] \in Credit
        BY <3>4 DEF Credit
      <4> QED
        BY <1>5, <2>3, <3>3, <4>1
    <3>6. NewCredits[b] = pay
      BY <2>1, <2>2, <3>5
    <3>7. Winnings[b] = 0 /\ Winnings'[b] = pay
      BY <2>1, <3>1, <3>2, <3>3 DEF Winnings
    <3>8. Stake'[b] = Stake[b]
      BY <2>1, <3>2 DEF Stake
    <3> QED
      BY <3>2, <3>4, <3>6, <3>7, <3>8
  <2>4. CASE b \notin won
    <3>1. NewCredits[b] = 0
      BY <2>1, <2>2, <2>4, <2>5
    <3>2. /\ bets'[b].playerId = bets[b].playerId /\ bets'[b].amountCents = bets[b].amountCents
          /\ Winnings'[b] = Winnings[b]
      <4>1. CASE b \in lost
        <5>1. bets[b].status = "ACTIVE" /\ bets'[b].status = "LOST"
              /\ bets'[b].playerId = bets[b].playerId /\ bets'[b].amountCents = bets[b].amountCents
          BY <2>1, <2>5, <4>1, LoseBet DEF ActiveBets
        <5> QED
          BY <2>1, <5>1 DEF Winnings
      <4>2. CASE b \notin lost
        BY <1>5, <2>1, <2>4, <4>2 DEF Winnings
      <4> QED
        BY <4>1, <4>2
    <3>3. Stake'[b] = Stake[b] /\ Winnings[b] \in Nat
      BY <1>1, <2>1, <3>2, MoneyType DEF Stake, MoneyTyped
    <3> QED
      BY <3>1, <3>2, <3>3
  <2> QED
    BY <2>3, <2>4
<1>7. ASSUME NEW p
      PROVE  /\ SumFunctionOnSet(NewCredits, BetsOf(p)') \in Nat
             /\ StakesOf(p)' = StakesOf(p)
             /\ WinningsOf(p)' = WinningsOf(p) + SumFunctionOnSet(NewCredits, BetsOf(p)')
  <2>1. PICK S : S = BetsOf(p)
    OBVIOUS
  <2>2. BetsOf(p)' = S
    BY <1>5, <1>6, <2>1, MoneyNext DEF BetsOf
  <2>3. /\ IsFiniteSet(S) /\ S \subseteq DOMAIN bets
        /\ \A b \in S : Stake[b] \in Nat /\ Winnings[b] \in Nat
    BY <1>1, <2>1, MoneyType DEF MoneyTyped
  <2>4. SumFunctionOnSet(NewCredits, S) \in Nat
    BY <1>6, <2>3, SumNat
  <2>5. SumFunctionOnSet(Stake', S) = SumFunctionOnSet(Stake, S)
    BY <1>6, <2>3, SumSame
  <2>6. SumFunctionOnSet(Winnings', S) =
          SumFunctionOnSet(Winnings, S) + SumFunctionOnSet(NewCredits, S)
    BY <1>6, <2>3, SumPlus
  <2> QED
    BY <2>1, <2>2, <2>4, <2>5, <2>6, MoneyNext DEF StakesOf, WinningsOf
<1> QED
  BY <1>7

-----------------------------------------------------------------------------
(* Balances *)

BalanceInv == balances \in [Players -> Nat] /\ BalancesAccounted

LEMMA BalanceIs ==
  BalancesAccounted <=>
    \A p \in Players :
      balances[p] >= 0 /\ balances[p] + InHand(p) + StakesOf(p) = StartBalance + WinningsOf(p)
BY DEF BalancesAccounted, StakesOf, WinningsOf

LEMMA BalanceIsNext ==
  BalancesAccounted' <=>
    \A p \in Players :
      balances'[p] >= 0 /\ balances'[p] + InHand(p)' + StakesOf(p)' = StartBalance + WinningsOf(p)'
BY DEF BalancesAccounted, StakesOf, WinningsOf, Players

LEMMA InHandIs ==
  /\ task.at # "debit" \/ debitAnswer # "ok" => \A p : InHand(p) = 0
  /\ task'.at # "debit" \/ debitAnswer' # "ok" => \A p : InHand(p)' = 0
  /\ task.at = "debit" /\ debitAnswer = "ok" =>
       \A p : InHand(p) = IF Head(task.todo).playerId = p THEN Head(task.todo).amountCents ELSE 0
  /\ task'.at = "debit" /\ debitAnswer' = "ok" =>
       \A p : InHand(p)' = IF Head(task'.todo).playerId = p THEN Head(task'.todo).amountCents ELSE 0
BY DEF InHand

\* A step that moves no money.
LEMMA BalanceSame ==
  ASSUME BalanceInv, UNCHANGED <<bets, balances>>, \A p \in Players : InHand(p)' = InHand(p)
  PROVE  BalanceInv'
<1>1. BalancesAccounted'
  BY MoneySame, BalanceIs, BalanceIsNext DEF BalanceInv
<1> QED
  BY <1>1 DEF BalanceInv, Players

LEMMA BalanceDebitCalled ==
  ASSUME LoopFacts, LoopFacts', BalanceInv, PlacesBets
  PROVE  BalanceInv'
<1>1. EndBettingPhase \/ ReplyPublished
  BY DEF PlacesBets, DebitCalled, NoDebitCalled
<1>2. task.at # "debit" /\ bets' = bets
  BY <1>1 DEF EndBettingPhase, ReplyPublished, LoopFacts, LoopInv, PhaseInv, betVars
<1>3. \A p : InHand(p) = 0
  BY <1>2, InHandIs
<1>4. CASE NoDebitCalled
  <2>1. task'.at # "debit" /\ UNCHANGED balances
    BY <1>2, <1>4 DEF NoDebitCalled, walletVars
  <2> QED
    BY <1>2, <1>3, <2>1, InHandIs, BalanceSame
<1>5. CASE DebitCalled
  <2>1. task'.at = "debit" /\ SimulateBet(Head(task'.todo))
    BY <1>5 DEF DebitCalled
  <2>2. PICK cmd \in PlaceBetCommands : cmd = Head(task'.todo)
    <3>1. task'.todo \in Seq(PlaceBetCommands) /\ task'.todo # <<>>
      BY <2>1 DEF LoopFacts, CommandsGenuine, TypeOK, LoopTypeOK
    <3> QED
      BY <3>1, SeqTail
  <2>3. CASE debitAnswer' = "refused" /\ UNCHANGED balances
    <3>1. \A p \in Players : InHand(p)' = InHand(p)
      BY <1>3, <2>3, InHandIs
    <3> QED
      BY <1>2, <2>3, <3>1, BalanceSame
  <2>4. CASE /\ cmd.amountCents <= balances[cmd.playerId] /\ debitAnswer' = "ok"
             /\ balances' = [balances EXCEPT ![cmd.playerId] = @ - cmd.amountCents]
    <3>1. cmd.amountCents \in Nat /\ cmd.playerId \in Players /\ balances \in [Players -> Nat]
      BY CommandsAssumption DEF PlaceBetCommand, Players, BalanceInv
    <3>2. balances[cmd.playerId] - cmd.amountCents \in Nat
      BY <2>4, <3>1
    <3>3. balances' \in [Players -> Nat]
      BY <2>4, <3>1, <3>2
    <3>4. ASSUME NEW p \in Players
          PROVE  balances'[p] >= 0
                 /\ balances'[p] + InHand(p)' + StakesOf(p)' = StartBalance + WinningsOf(p)'
      <4>1. balances'[p] = IF cmd.playerId = p THEN balances[p] - cmd.amountCents ELSE balances[p]
        BY <2>4, <3>1
      <4>2. InHand(p)' = IF cmd.playerId = p THEN cmd.amountCents ELSE 0
        BY <2>1, <2>2, <2>4, InHandIs
      <4>3. balances[p] + 0 + StakesOf(p) = StartBalance + WinningsOf(p)
        BY <1>3, BalanceIs DEF BalanceInv
      <4>4. StakesOf(p)' = StakesOf(p) /\ WinningsOf(p)' = WinningsOf(p)
        BY <1>2, MoneySame
      <4>5. /\ balances[p] \in Nat /\ balances'[p] \in Nat
            /\ StakesOf(p) \in Nat /\ WinningsOf(p) \in Nat
        BY <3>1, <3>3, MoneyType DEF LoopFacts, MoneyTyped
      <4> QED
        BY <3>1, <4>1, <4>2, <4>3, <4>4, <4>5, BalanceAssumption
    <3> QED
      BY <3>3, <3>4, BalanceIsNext DEF BalanceInv, Players
  <2> QED
    BY <2>1, <2>2, <2>3, <2>4 DEF SimulateBet
<1> QED
  BY <1>4, <1>5 DEF PlacesBets

\* A step that pays the credits it starts, with the stakes that it takes out of
\* the hand.
LEMMA BalanceCredited ==
  ASSUME LoopFacts, BalanceInv, SimulateWins,
         \A p : /\ SumFunctionOnSet(NewCredits, BetsOf(p)') \in Nat
                /\ InHand(p) \in Nat /\ InHand(p)' \in Nat
                /\ StakesOf(p)' + InHand(p)' = StakesOf(p) + InHand(p)
                /\ StakesOf(p)' \in Nat
                /\ WinningsOf(p)' = WinningsOf(p) + SumFunctionOnSet(NewCredits, BetsOf(p)')
  PROVE  BalanceInv'
<1>1. balances \in [Players -> Nat]
  BY DEF BalanceInv
<1>2. \A p \in Players : balances'[p] = balances[p] + SumFunctionOnSet(NewCredits, BetsOf(p)')
  BY DEF SimulateWins
<1>3. balances' \in [Players -> Nat]
  BY <1>1 DEF SimulateWins
<1>4. ASSUME NEW p \in Players
      PROVE  balances'[p] >= 0
             /\ balances'[p] + InHand(p)' + StakesOf(p)' = StartBalance + WinningsOf(p)'
  <2>1. PICK won, hand, handNext, stakes, wins, stakesNext, balance \in Nat :
          /\ won = SumFunctionOnSet(NewCredits, BetsOf(p)') /\ hand = InHand(p)
          /\ handNext = InHand(p)' /\ stakes = StakesOf(p) /\ wins = WinningsOf(p)
          /\ stakesNext = StakesOf(p)' /\ balance = balances[p]
    BY <1>1, MoneyType DEF LoopFacts, MoneyTyped
  <2>2. balance + hand + stakes = StartBalance + wins
    BY <2>1, BalanceIs DEF BalanceInv
  <2>3. balances'[p] = balance + won /\ WinningsOf(p)' = wins + won
    BY <1>2, <2>1
  <2>4. stakesNext + handNext = stakes + hand
    BY <2>1
  <2>5. balance + won >= 0 /\ balance + won + handNext + stakesNext = StartBalance + (wins + won)
    BY <2>2, <2>4, BalanceAssumption
  <2> QED
    BY <2>1, <2>3, <2>5
<1> QED
  BY <1>3, <1>4, BalanceIsNext DEF BalanceInv, Players

LEMMA BalanceDebitReturns ==
  ASSUME LoopFacts, LoopFacts', BalanceInv, AnswersBet
  PROVE  BalanceInv'
<1>1. /\ \/ debitAnswer = "ok" /\ DebitOk
         \/ debitAnswer = "refused" /\ DebitRefused
      /\ SimulateWins
  BY DEF AnswersBet, DebitReturns
<1>2. /\ TypeOK /\ TypeOK' /\ LoopTypeOK
  BY DEF LoopFacts, TypeOK
<1>3. task.at = "debit" /\ task'.at = "reply"
  BY <1>1, <1>2, DebitStep
<1>4. \A p : InHand(p)' = 0
  BY <1>3, InHandIs
<1>5. \A p : SumFunctionOnSet(NewCredits, BetsOf(p)') = 0
  BY <1>1, NoCredits
<1>6. \A p : StakesOf(p) \in Nat /\ WinningsOf(p) \in Nat
  BY <1>2, MoneyType DEF MoneyTyped
<1>7. CASE debitAnswer = "ok" /\ DebitOk
  <2>1. PICK cmd \in PlaceBetCommands : cmd = Head(task.todo)
    <3>1. task.todo \in Seq(PlaceBetCommands) /\ task.todo # <<>>
      BY <1>2, <1>3 DEF LoopFacts, CommandsGenuine, LoopTypeOK
    <3> QED
      BY <3>1, SeqTail
  <2>2. cmd.amountCents \in Nat
    BY CommandsAssumption DEF PlaceBetCommand
  <2>3. \A p : InHand(p) = IF cmd.playerId = p THEN cmd.amountCents ELSE 0
    BY <1>3, <1>7, <2>1, InHandIs
  <2>4. \A p : /\ WinningsOf(p)' = WinningsOf(p)
               /\ StakesOf(p)' = StakesOf(p) + (IF cmd.playerId = p THEN cmd.amountCents ELSE 0)
    BY <1>7, <2>1, MoneyDebit
  <2>5. \A p : /\ SumFunctionOnSet(NewCredits, BetsOf(p)') \in Nat
               /\ InHand(p) \in Nat /\ InHand(p)' \in Nat
               /\ StakesOf(p)' + InHand(p)' = StakesOf(p) + InHand(p)
               /\ StakesOf(p)' \in Nat
               /\ WinningsOf(p)' = WinningsOf(p) + SumFunctionOnSet(NewCredits, BetsOf(p)')
    BY <1>4, <1>5, <1>6, <2>2, <2>3, <2>4
  <2> QED
    BY <1>1, <2>5, BalanceCredited
<1>8. CASE debitAnswer = "refused" /\ DebitRefused
  <2>1. bets' = bets
    BY <1>8 DEF DebitRefused, betVars
  <2>2. \A p : InHand(p) = 0
    BY <1>8, InHandIs
  <2>3. \A p : StakesOf(p)' = StakesOf(p) /\ WinningsOf(p)' = WinningsOf(p)
    BY <2>1, MoneySame
  <2>4. \A p : /\ SumFunctionOnSet(NewCredits, BetsOf(p)') \in Nat
               /\ InHand(p) \in Nat /\ InHand(p)' \in Nat
               /\ StakesOf(p)' + InHand(p)' = StakesOf(p) + InHand(p)
               /\ StakesOf(p)' \in Nat
               /\ WinningsOf(p)' = WinningsOf(p) + SumFunctionOnSet(NewCredits, BetsOf(p)')
    BY <1>4, <1>5, <1>6, <2>2, <2>3
  <2> QED
    BY <1>1, <2>4, BalanceCredited
<1> QED
  BY <1>1, <1>7, <1>8

LEMMA BalanceTick ==
  ASSUME LoopFacts, LoopFacts', BalanceInv, Ticking
  PROVE  BalanceInv'
<1>1. OnTick /\ SimulateWins /\ UNCHANGED debitAnswer /\ task' = task
  BY DEF Ticking, TickCredits, OnTick, TickFlies, TickCrashes, Ticks
<1>2. \A p : InHand(p)' = InHand(p) /\ InHand(p) \in Nat
  <2>1. CASE task.at = "debit" /\ debitAnswer = "ok"
    <3>1. task.todo \in Seq(PlaceBetCommands) /\ task.todo # <<>>
      BY <2>1 DEF LoopFacts, CommandsGenuine, TypeOK, LoopTypeOK
    <3>2. Head(task.todo) \in PlaceBetCommand
      BY <3>1, SeqTail, CommandsAssumption
    <3>3. Head(task.todo).amountCents \in Nat
      BY <3>2 DEF PlaceBetCommand
    <3> QED
      BY <1>1, <2>1, <3>3, InHandIs
  <2>2. CASE ~(task.at = "debit" /\ debitAnswer = "ok")
    BY <1>1, <2>2, InHandIs
  <2> QED
    BY <2>1, <2>2
<1>3. \A p : /\ SumFunctionOnSet(NewCredits, BetsOf(p)') \in Nat
             /\ StakesOf(p)' = StakesOf(p) /\ StakesOf(p) \in Nat
             /\ WinningsOf(p)' = WinningsOf(p) + SumFunctionOnSet(NewCredits, BetsOf(p)')
  BY <1>1, MoneyTick, MoneyType DEF LoopFacts, MoneyTyped
<1> QED
  BY <1>1, <1>2, <1>3, BalanceCredited

LEMMA BalanceStep ==
  ASSUME LoopFacts, LoopFacts', BalanceInv, [PathNext]_pathVars
  PROVE  BalanceInv'
<1>1. CASE PlacesBets
  BY <1>1, BalanceDebitCalled
<1>2. CASE AnswersBet
  BY <1>2, BalanceDebitReturns
<1>3. CASE Ticking
  BY <1>3, BalanceTick
<1>4. CASE OpensRound \/ Announces \/ StartsTicking
  <2>1. UNCHANGED <<bets, walletVars>>
    BY <1>4 DEF OpensRound, Announces, StartsTicking, Start, NewRoundTimer, BeginRound,
       RoundAnnounced, RoundStarted, betVars
  <2>2. task.at # "debit" /\ task'.at # "debit"
    <3>1. CASE OpensRound
      <4>1. (Start \/ NewRoundTimer) /\ BeginRound
        BY <3>1 DEF OpensRound, Start, NewRoundTimer
      <4>2. task.at = "idle"
        BY <4>1 DEF Start, NewRoundTimer, LoopFacts, LoopInv, RoundsInv, PhaseInv
      <4> QED
        BY <4>1, <4>2, BeginRoundStep DEF LoopFacts, TypeOK
    <3>2. CASE Announces \/ StartsTicking
      BY <3>2, IdleTask DEF Announces, StartsTicking, RoundAnnounced, RoundStarted
    <3> QED
      BY <1>4, <3>1, <3>2
  <2> QED
    BY <2>1, <2>2, InHandIs, BalanceSame DEF walletVars
<1>5. CASE \/ CashoutArrives \/ CreditComesBack \/ Flushes \/ LoopStops \/ CommandArrives
           \/ \E cmd \in PlaceBetCommands : ForwardBet(cmd)
           \/ CommandDropped \/ CommandLost \/ AnswerDelivered \/ AnswerLost
           \/ RealtimeCloses \/ RealtimeDrains \/ EngineDrains \/ UNCHANGED pathVars
  <2>1. UNCHANGED <<bets, task, walletVars>>
    <3>1. CASE CashoutArrives \/ CreditComesBack \/ CommandArrives
      BY <3>1 DEF CashoutArrives, CashoutReceived, CreditComesBack, CreditResolves, CreditReturns,
         CommandArrives, PlaceBetReceived, driverVars, betVars
    <3>2. CASE Flushes \/ LoopStops
      BY <3>2 DEF Flushes, FlushEvents, LoopStops, Stop, driverVars, betVars
    <3>3. CASE \/ \E cmd \in PlaceBetCommands : ForwardBet(cmd)
               \/ CommandDropped \/ CommandLost \/ AnswerDelivered \/ AnswerLost
               \/ RealtimeCloses \/ RealtimeDrains \/ EngineDrains \/ UNCHANGED pathVars
      BY <3>3 DEF ForwardBet, CommandDropped, CommandLost, Forget, AnswerDelivered, AnswerLost,
         RealtimeCloses, RealtimeDrains, EngineDrains, pathVars, vars, driverVars, betVars
    <3> QED
      BY <1>5, <3>1, <3>2, <3>3
  <2>2. \A p : InHand(p)' = InHand(p)
    BY <2>1 DEF InHand, walletVars
  <2> QED
    BY <2>1, <2>2, BalanceSame DEF walletVars
<1> QED
  BY <1>1, <1>2, <1>3, <1>4, <1>5 DEF PathNext

LEMMA BalanceInit == PathInit => BalanceInv
<1> SUFFICES ASSUME PathInit PROVE BalanceInv
  OBVIOUS
<1>1. balances = [p \in Players |-> StartBalance] /\ bets = <<>> /\ task.at = "idle"
  BY IdleTask DEF PathInit, WalletInit, Init
<1>2. \A p : BetsOf(p) = {}
  BY <1>1 DEF BetsOf
<1>3. \A p : InHand(p) = 0 /\ StakesOf(p) = 0 /\ WinningsOf(p) = 0
  BY <1>1, <1>2, InHandIs, SumEmpty DEF StakesOf, WinningsOf
<1> QED
  BY <1>1, <1>3, BalanceIs, BalanceAssumption DEF BalanceInv

\* Every cent is accounted for: a balance is the start balance, less the stakes
\* of the player's bets and one that is in hand, plus the payouts of those won;
\* and it is never negative.
THEOREM MoneyConserved == PathSafety => []BalancesAccounted
<1>1. LoopFacts /\ LoopFacts' /\ BalanceInv /\ [PathNext]_pathVars => BalanceInv'
  BY BalanceStep
<1>2. BalanceInv => BalancesAccounted
  BY DEF BalanceInv
<1> QED
  BY <1>1, <1>2, BalanceInit, LoopFactsInvariant, PTL DEF PathSafety
=============================================================================
