----------------------------- MODULE SiloProofs -----------------------------
(***************************************************************************)
(* Proofs about the silo under a node's own peer: it counts its files      *)
(* right (SiloCounts), and the space it counts as used is the space its    *)
(* files take, within its capacity (SiloSpace).                            *)
(*                                                                         *)
(* The inductive invariant, Roomy, is both at once: a write may only be    *)
(* refused by the space counted, so the files fit because the count is     *)
(* right, and erase gives back a size remembered, not one read.            *)
(***************************************************************************)
EXTENDS LocalPeerProofs, Functions, FiniteSetTheorems, WellFoundedInduction

\* The provers each leaf is tried with in turn, and the seconds each is given.
USE ZenonT(3), SMTT(30), ZenonT(30)

-----------------------------------------------------------------------------
(* The sum of a function over a finite set (SumFunctionOnSet of            *)
(* Functions), for the space that the files of a silo take. Induction is   *)
(* on the number of elements, in the form that a set of natural numbers    *)
(* that is not empty has a least element.                                  *)

\* A set of natural numbers has a least element.
LEMMA LeastNatural ==
  ASSUME NEW T, T \subseteq Nat, T # {}
  PROVE  \E x \in T : \A y \in T : x <= y
<1>1. PICK x \in T : \A y \in T : ~(<<y, x>> \in OpToRel(<, Nat))
  BY WFMin, NatLessThanWellFounded
<1>2. \A y \in T : ~(y < x)
  BY <1>1 DEF OpToRel
<1>3. \A y \in T : x <= y
  BY <1>2
<1> QED BY <1>3

\* What holds of 0, and of a number when it holds of the one before, holds of all.
LEMMA AllNaturals ==
  ASSUME NEW N, N \subseteq Nat, 0 \in N, \A n \in N : n + 1 \in N
  PROVE  N = Nat
<1> SUFFICES ASSUME Nat \ N # {}
             PROVE  FALSE
  OBVIOUS
<1>1. PICK x \in Nat \ N : \A y \in Nat \ N : x <= y
  <2>1. Nat \ N \subseteq Nat
    OBVIOUS
  <2> QED BY <2>1, LeastNatural
<1>2. x # 0 /\ x - 1 \in Nat
  BY <1>1
<1>3. x - 1 \in N
  BY <1>1, <1>2
<1>4. (x - 1) + 1 = x
  BY <1>1
<1> QED BY <1>1, <1>3, <1>4

-----------------------------------------------------------------------------
(* The sum is read from a function on the subsets.                         *)

Pick(s) == CHOOSE x \in s : TRUE

\* A subset's sum, given those of smaller ones.
Step(f, g, s) == IF s = {} THEN 0 ELSE f[Pick(s)] + g[s \ {Pick(s)}]

\* g has the sums of f over the subsets of S.
Sums(g, f, S) == g = [s \in SUBSET S |-> Step(f, g, s)]

Partial(f, S) == CHOOSE g : Sums(g, f, S)

LEMMA SumIsPartial ==
  ASSUME NEW f, NEW S
  PROVE  SumFunctionOnSet(f, S) = Partial(f, S)[S]
BY DEF SumFunctionOnSet, FoldFunctionOnSet, MapThenFoldSet, Partial, Sums, Step, Pick

LEMMA Picked ==
  ASSUME NEW S, IsFiniteSet(S), NEW s \in SUBSET S, s # {}
  PROVE  /\ Pick(s) \in s /\ s \ {Pick(s)} \in SUBSET S
         /\ Cardinality(s) \in Nat /\ Cardinality(s \ {Pick(s)}) = Cardinality(s) - 1
<1>1. Pick(s) \in s
  BY DEF Pick
<1>2. IsFiniteSet(s)
  BY FS_Subset
<1> QED BY <1>1, <1>2, FS_RemoveElement, FS_CardinalityType

LEMMA SumsExist ==
  ASSUME NEW S, IsFiniteSet(S), NEW f, \A x \in S : f[x] \in Int
  PROVE  \E g \in [SUBSET S -> Int] : Sums(g, f, S)
<1> DEFINE Upto(g, n) == \A s \in SUBSET S : Cardinality(s) <= n => g[s] = Step(f, g, s)
           N == {n \in Nat : \E g \in [SUBSET S -> Int] : Upto(g, n)}
<1>1. 0 \in N
  <2> DEFINE g == [s \in SUBSET S |-> 0]
  <2>1. g \in [SUBSET S -> Int]
    OBVIOUS
  <2>2. ASSUME NEW s \in SUBSET S, Cardinality(s) <= 0
        PROVE  g[s] = Step(f, g, s)
    <3>1. IsFiniteSet(s)
      BY FS_Subset
    <3>2. s = {}
      BY <2>2, <3>1, FS_EmptySet, FS_CardinalityType
    <3> QED BY <3>2 DEF Step
  <2> QED BY <2>1, <2>2
<1>2. ASSUME NEW n \in N
      PROVE  n + 1 \in N
  <2>1. PICK g \in [SUBSET S -> Int] : Upto(g, n)
    OBVIOUS
  <2> DEFINE h == [s \in SUBSET S |-> Step(f, g, s)]
  <2>2. h \in [SUBSET S -> Int]
    <3>1. ASSUME NEW s \in SUBSET S
          PROVE  Step(f, g, s) \in Int
      <4>1. CASE s = {}
        BY <4>1 DEF Step
      <4>2. CASE s # {}
        <5>1. Pick(s) \in S /\ s \ {Pick(s)} \in SUBSET S
          BY <4>2, Picked
        <5>2. f[Pick(s)] \in Int /\ g[s \ {Pick(s)}] \in Int
          BY <5>1
        <5> QED BY <4>2, <5>2 DEF Step
      <4> QED BY <4>1, <4>2
    <3> QED BY <3>1
  <2>3. ASSUME NEW s \in SUBSET S, Cardinality(s) <= n + 1
        PROVE  h[s] = Step(f, h, s)
    <3>1. CASE s = {}
      BY <3>1 DEF Step
    <3>2. CASE s # {}
      <4> DEFINE r == s \ {Pick(s)}
      <4>1. r \in SUBSET S /\ Cardinality(r) <= n
        BY <2>3, <3>2, Picked
      <4> HIDE DEF r
      <4>2. g[r] = Step(f, g, r)
        BY <2>1, <4>1
      <4>3. h[r] = g[r]
        BY <4>1, <4>2
      <4>4. h[s] = f[Pick(s)] + g[r] /\ Step(f, h, s) = f[Pick(s)] + h[r]
        BY <3>2 DEF Step, r
      <4> QED BY <4>3, <4>4
    <3> QED BY <3>1, <3>2
  <2> HIDE DEF h
  <2>4. Upto(h, n + 1)
    BY <2>3
  <2> QED BY <2>2, <2>4
<1>3. N = Nat
  <2> HIDE DEF N
  <2>1. N \subseteq Nat
    BY DEF N
  <2> QED BY <1>1, <1>2, <2>1, AllNaturals
<1>4. Cardinality(S) \in Nat
  BY FS_CardinalityType
<1>5. PICK g \in [SUBSET S -> Int] : Upto(g, Cardinality(S))
  BY <1>3, <1>4
<1>6. ASSUME NEW s \in SUBSET S
      PROVE  g[s] = Step(f, g, s)
  <2>1. Cardinality(s) <= Cardinality(S)
    BY FS_Subset
  <2> QED BY <1>5, <2>1
<1>7. Sums(g, f, S)
  BY <1>5, <1>6 DEF Sums
<1> QED BY <1>7

LEMMA PartialSums ==
  ASSUME NEW S, IsFiniteSet(S), NEW f, \A x \in S : f[x] \in Int
  PROVE  /\ Sums(Partial(f, S), f, S)
         /\ \A s \in SUBSET S : Partial(f, S)[s] = Step(f, Partial(f, S), s)
<1>1. Sums(Partial(f, S), f, S)
  BY SumsExist DEF Partial
<1> QED BY <1>1 DEF Sums

\* Sums agree where the functions do.
LEMMA SumsAgree ==
  ASSUME NEW S, IsFiniteSet(S), NEW T \in SUBSET S, NEW f, NEW h, NEW F, NEW H,
         Sums(F, f, S), Sums(H, h, T), \A x \in T : f[x] = h[x]
  PROVE  \A s \in SUBSET T : F[s] = H[s]
<1> DEFINE N == {n \in Nat : \A s \in SUBSET T : Cardinality(s) <= n => F[s] = H[s]}
<1>0. /\ \A s \in SUBSET T : F[s] = Step(f, F, s)
      /\ \A s \in SUBSET T : H[s] = Step(h, H, s)
      /\ IsFiniteSet(T)
  BY FS_Subset DEF Sums
<1>1. 0 \in N
  <2>1. ASSUME NEW s \in SUBSET T, Cardinality(s) <= 0
        PROVE  F[s] = H[s]
    <3>1. IsFiniteSet(s)
      BY <1>0, FS_Subset
    <3>2. s = {}
      BY <2>1, <3>1, FS_EmptySet, FS_CardinalityType
    <3>3. F[s] = Step(f, F, s) /\ H[s] = Step(h, H, s)
      BY <1>0
    <3> QED BY <3>2, <3>3 DEF Step
  <2> QED BY <2>1
<1>2. ASSUME NEW n \in N
      PROVE  n + 1 \in N
  <2>1. ASSUME NEW s \in SUBSET T, Cardinality(s) <= n + 1
        PROVE  F[s] = H[s]
    <3>1. CASE s = {}
      <4>1. F[s] = Step(f, F, s) /\ H[s] = Step(h, H, s)
        BY <1>0
      <4> QED BY <3>1, <4>1 DEF Step
    <3>2. CASE s # {}
      <4> DEFINE p == Pick(s)
                 r == s \ {p}
      <4>1. p \in T /\ r \in SUBSET T /\ Cardinality(r) <= n
        BY <1>0, <2>1, <3>2, Picked
      <4>2. F[s] = f[p] + F[r] /\ H[s] = h[p] + H[r]
        BY <1>0, <3>2 DEF Step
      <4> HIDE DEF p, r
      <4>3. F[r] = H[r] /\ f[p] = h[p]
        BY <4>1
      <4> QED BY <4>2, <4>3
    <3> QED BY <3>1, <3>2
  <2> QED BY <2>1
<1>3. N = Nat
  <2> HIDE DEF N
  <2>1. N \subseteq Nat
    BY DEF N
  <2> QED BY <1>1, <1>2, <2>1, AllNaturals
<1>4. ASSUME NEW s \in SUBSET T
      PROVE  F[s] = H[s]
  <2>1. IsFiniteSet(s)
    BY <1>0, FS_Subset
  <2>2. Cardinality(s) \in Nat
    BY <2>1, FS_CardinalityType
  <2>3. Cardinality(s) \in N
    BY <1>3, <2>2
  <2> QED BY <2>2, <2>3
<1> QED BY <1>4

\* Any element may be the first.
AnyFirst(g, f, S) == \A s \in SUBSET S : \A x \in s : g[s] = f[x] + g[s \ {x}]

LEMMA SumsAnyFirst ==
  ASSUME NEW S, IsFiniteSet(S), NEW f, NEW g \in [SUBSET S -> Int], Sums(g, f, S),
         \A x \in S : f[x] \in Int
  PROVE  AnyFirst(g, f, S)
<1> DEFINE N == {n \in Nat : \A s \in SUBSET S : Cardinality(s) <= n =>
                               \A x \in s : g[s] = f[x] + g[s \ {x}]}
<1>0. \A s \in SUBSET S : g[s] = Step(f, g, s)
  BY DEF Sums
<1>1. 0 \in N
  <2>1. ASSUME NEW s \in SUBSET S, Cardinality(s) <= 0
        PROVE  s = {}
    <3>1. IsFiniteSet(s)
      BY FS_Subset
    <3> QED BY <2>1, <3>1, FS_EmptySet, FS_CardinalityType
  <2> QED BY <2>1
<1>2. ASSUME NEW n \in N
      PROVE  n + 1 \in N
  <2>1. ASSUME NEW s \in SUBSET S, Cardinality(s) <= n + 1, NEW x \in s
        PROVE  g[s] = f[x] + g[s \ {x}]
    <3> DEFINE p == Pick(s)
               r == s \ {p}
               u == s \ {x}
    <3>1. p \in s /\ r \in SUBSET S /\ Cardinality(s) \in Nat /\ Cardinality(r) <= n
      <4>1. s # {} /\ n \in Nat
        OBVIOUS
      <4>2. /\ Pick(s) \in s /\ s \ {Pick(s)} \in SUBSET S
            /\ Cardinality(s) \in Nat /\ Cardinality(s \ {Pick(s)}) = Cardinality(s) - 1
        BY <4>1, Picked
      <4> QED BY <2>1, <4>1, <4>2
    <3>2. g[s] = f[p] + g[r]
      BY <1>0 DEF Step
    <3>3. u \in SUBSET S /\ Cardinality(u) <= n
      <4>1. IsFiniteSet(s)
        BY FS_Subset
      <4> QED BY <2>1, <3>1, <4>1, FS_RemoveElement
    <3>4. CASE x = p
      BY <3>2, <3>4
    <3>5. CASE x # p
      <4> HIDE DEF p
      <4>1. x \in r /\ p \in u /\ r \ {x} = u \ {p} /\ r \ {x} \in SUBSET S
        BY <3>1, <3>5
      <4> HIDE DEF r, u
      <4>2. g[r] = f[x] + g[r \ {x}]
        BY <3>1, <4>1
      <4>3. g[u] = f[p] + g[u \ {p}]
        BY <3>3, <4>1
      <4>4. f[x] \in Int /\ f[p] \in Int /\ g[r \ {x}] \in Int
        BY <3>1, <4>1
      <4>5. g[s] = f[x] + g[u]
        <5> DEFINE i == f[x]
                   j == f[p]
                   k == g[r \ {x}]
        <5>1. g[s] = j + (i + k) /\ g[u] = j + k /\ i \in Int /\ j \in Int /\ k \in Int
          BY <3>2, <4>1, <4>2, <4>3, <4>4
        <5> HIDE DEF i, j, k
        <5>2. j + (i + k) = i + (j + k)
          BY <5>1
        <5> QED BY <5>1, <5>2 DEF i
      <4> QED BY <4>5 DEF u
    <3> QED BY <3>4, <3>5
  <2> QED BY <2>1
<1>3. N = Nat
  <2> HIDE DEF N
  <2>1. N \subseteq Nat
    BY DEF N
  <2> QED BY <1>1, <1>2, <2>1, AllNaturals
<1>4. ASSUME NEW s \in SUBSET S, NEW x \in s
      PROVE  g[s] = f[x] + g[s \ {x}]
  <2>1. IsFiniteSet(s)
    BY FS_Subset
  <2>2. Cardinality(s) \in Nat
    BY <2>1, FS_CardinalityType
  <2>3. Cardinality(s) \in N
    BY <1>3, <2>2
  <2> QED BY <2>2, <2>3
<1> QED BY <1>4 DEF AnyFirst

-----------------------------------------------------------------------------
(* The facts.                                                              *)

\* No files take no space.
THEOREM SumEmpty ==
  ASSUME NEW f
  PROVE  SumFunctionOnSet(f, {}) = 0
<1>1. IsFiniteSet({})
  BY FS_EmptySet
<1>2. Partial(f, {})[{}] = Step(f, Partial(f, {}), {})
  BY <1>1, PartialSums
<1> QED BY <1>2, SumIsPartial DEF Step

\* Any element may be taken out of a sum: the space of the files is that of one
\* of them, whichever is written or erased, and that of the others.
THEOREM SumStep ==
  ASSUME NEW S, IsFiniteSet(S), NEW f, \A x \in S : f[x] \in Int, NEW x \in S
  PROVE  /\ SumFunctionOnSet(f, S) = f[x] + SumFunctionOnSet(f, S \ {x})
         /\ SumFunctionOnSet(f, S \ {x}) \in Int
<1> DEFINE T == S \ {x}
<1>1. PICK g \in [SUBSET S -> Int] : Sums(g, f, S)
  BY SumsExist
<1>2. Sums(Partial(f, S), f, S)
  BY PartialSums
<1>3. T \in SUBSET S /\ IsFiniteSet(T) /\ \A y \in T : f[y] \in Int
  BY FS_Subset
<1> HIDE DEF T
<1>4. Sums(Partial(f, T), f, T)
  BY <1>3, PartialSums
<1>5. g[S] = Partial(f, S)[S]
  BY <1>1, <1>2, SumsAgree
<1>6. g[T] = Partial(f, T)[T]
  BY <1>1, <1>3, <1>4, SumsAgree
<1>7. g[S] = f[x] + g[S \ {x}]
  <2>1. AnyFirst(g, f, S)
    BY <1>1, SumsAnyFirst
  <2> QED BY <2>1 DEF AnyFirst
<1>8. g[T] \in Int
  BY <1>1, <1>3
<1> QED BY <1>5, <1>6, <1>7, <1>8, SumIsPartial DEF T

\* A sum depends on nothing but the values summed: files left alone take the
\* space they took.
THEOREM SumSame ==
  ASSUME NEW S, IsFiniteSet(S), NEW f, NEW h,
         \A x \in S : f[x] \in Int, \A x \in S : f[x] = h[x]
  PROVE  SumFunctionOnSet(f, S) = SumFunctionOnSet(h, S)
<1>1. Sums(Partial(f, S), f, S)
  BY PartialSums
<1>2. \A x \in S : h[x] \in Int
  OBVIOUS
<1>3. Sums(Partial(h, S), h, S)
  BY <1>2, PartialSums
<1>4. Partial(f, S)[S] = Partial(h, S)[S]
  BY <1>1, <1>3, SumsAgree
<1> QED BY <1>4, SumIsPartial

\* A sum of naturals, as the sizes of files are, is one.
THEOREM SumNat ==
  ASSUME NEW S, IsFiniteSet(S), NEW f, \A x \in S : f[x] \in Nat
  PROVE  SumFunctionOnSet(f, S) \in Nat
<1> DEFINE N == {n \in Nat : \A T \in SUBSET S : Cardinality(T) <= n =>
                               SumFunctionOnSet(f, T) \in Nat}
<1>1. 0 \in N
  <2>1. ASSUME NEW T \in SUBSET S, Cardinality(T) <= 0
        PROVE  SumFunctionOnSet(f, T) \in Nat
    <3>1. IsFiniteSet(T)
      BY FS_Subset
    <3>2. T = {}
      BY <2>1, <3>1, FS_EmptySet, FS_CardinalityType
    <3> QED BY <3>2, SumEmpty
  <2> QED BY <2>1
<1>2. ASSUME NEW n \in N
      PROVE  n + 1 \in N
  <2>1. ASSUME NEW T \in SUBSET S, Cardinality(T) <= n + 1
        PROVE  SumFunctionOnSet(f, T) \in Nat
    <3>1. CASE T = {}
      BY <3>1, SumEmpty
    <3>2. CASE T # {}
      <4>1. PICK x \in T : TRUE
        BY <3>2
      <4>2. IsFiniteSet(T) /\ Cardinality(T) \in Nat
        BY FS_Subset, FS_CardinalityType
      <4>3. Cardinality(T \ {x}) = Cardinality(T) - 1
        BY <4>2, FS_RemoveElement
      <4>4. n \in Nat /\ Cardinality(T \ {x}) <= n /\ T \ {x} \in SUBSET S
        BY <2>1, <4>2, <4>3
      <4>5. SumFunctionOnSet(f, T \ {x}) \in Nat
        BY <4>4
      <4>6. \A y \in T : f[y] \in Int
        OBVIOUS
      <4>7. SumFunctionOnSet(f, T) = f[x] + SumFunctionOnSet(f, T \ {x})
        BY <4>2, <4>6, SumStep
      <4>8. f[x] \in Nat
        OBVIOUS
      <4> QED BY <4>5, <4>7, <4>8
    <3> QED BY <3>1, <3>2
  <2> QED BY <2>1
<1>3. N = Nat
  <2> HIDE DEF N
  <2>1. N \subseteq Nat
    BY DEF N
  <2> QED BY <1>1, <1>2, <2>1, AllNaturals
<1>4. Cardinality(S) \in Nat
  BY FS_CardinalityType
<1>5. Cardinality(S) \in N
  BY <1>3, <1>4
<1> QED BY <1>4, <1>5

-----------------------------------------------------------------------------
(* The operations on a silo, and what it remembers of its files.           *)

Booked(s) ==
  /\ s = [files |-> s.files, sizes |-> s.sizes, usage |-> s.usage, count |-> s.count]
  /\ s.files = [k \in DOMAIN s.files |-> s.files[k]]
  /\ DOMAIN s.files \subseteq Addresses
  /\ Accounted(s)

\* A file is added, or written over; the others are left alone.
LEMMA SetBooked ==
  ASSUME NEW s, Booked(s), NEW k \in Addresses, NEW data, NEW size
  PROVE  LET t == Set(s, k, data, size)
         IN  /\ Booked(t)
             /\ DOMAIN t.files = DOMAIN s.files \cup {k}
             /\ t.files[k].data = data
             /\ \A j \in DOMAIN s.files \ {k} : t.files[j] = s.files[j]
<1> DEFINE t == Set(s, k, data, size)
<1>1. /\ t.files = [j \in DOMAIN s.files \cup {k} |->
                     IF j = k THEN [data |-> data, size |-> size] ELSE s.files[j]]
      /\ t.sizes = [j \in DOMAIN s.sizes \cup {k} |-> IF j = k THEN size ELSE s.sizes[j]]
      /\ t.count = s.count + (IF k \in DOMAIN s.files THEN 0 ELSE 1)
      /\ t = [files |-> t.files, sizes |-> t.sizes, usage |-> t.usage, count |-> t.count]
  BY DEF Set, Filed, Exists
<1>2. s.sizes = [j \in DOMAIN s.files |-> s.files[j].size]
  BY DEF Booked, Accounted
<1>3. t.sizes = [j \in DOMAIN t.files |-> t.files[j].size]
  BY <1>1, <1>2
<1>4. t.count = Cardinality(DOMAIN t.files)
  <2>1. IsFiniteSet(DOMAIN s.files)
    BY FS_Subset, CapacityAssumption DEF Booked
  <2>2. DOMAIN t.files = DOMAIN s.files \cup {k}
    BY <1>1
  <2>3. s.count = Cardinality(DOMAIN s.files) /\ Cardinality(DOMAIN s.files) \in Nat
    BY <2>1, FS_CardinalityType DEF Booked, Accounted
  <2>4. CASE k \in DOMAIN s.files
    <3>1. DOMAIN t.files = DOMAIN s.files
      BY <2>2, <2>4
    <3>2. t.count = s.count + 0 /\ s.count \in Nat
      BY <1>1, <2>3, <2>4
    <3> HIDE DEF t
    <3> QED BY <2>3, <3>1, <3>2
  <2>5. CASE k \notin DOMAIN s.files
    <3>1. Cardinality(DOMAIN s.files \cup {k}) = Cardinality(DOMAIN s.files) + 1
      BY <2>1, <2>5, FS_AddElement
    <3>2. t.count = s.count + 1 /\ s.count \in Nat
      BY <1>1, <2>3, <2>5
    <3> HIDE DEF t
    <3> QED BY <2>2, <2>3, <3>1, <3>2
  <2> QED BY <2>4, <2>5
<1>5. Booked(t)
  BY <1>1, <1>3, <1>4 DEF Booked, Accounted
<1> HIDE DEF t
<1> QED BY <1>1, <1>5 DEF t

\* The file goes, the others are left alone.
LEMMA EraseBooked ==
  ASSUME NEW s, Booked(s), NEW k \in DOMAIN s.files
  PROVE  LET t == Erase(s, k)
         IN  /\ Booked(t)
             /\ DOMAIN t.files = DOMAIN s.files \ {k}
             /\ \A j \in DOMAIN t.files : t.files[j] = s.files[j]
<1> DEFINE t == Erase(s, k)
<1>1. /\ t.files = [j \in DOMAIN s.files \ {k} |-> s.files[j]]
      /\ t.sizes = [j \in DOMAIN s.sizes \ {k} |-> s.sizes[j]]
      /\ t.count = s.count - 1
      /\ t = [files |-> t.files, sizes |-> t.sizes, usage |-> t.usage, count |-> t.count]
  BY DEF Erase, Unfiled
<1>2. s.sizes = [j \in DOMAIN s.files |-> s.files[j].size]
  BY DEF Booked, Accounted
<1>3. t.sizes = [j \in DOMAIN t.files |-> t.files[j].size]
  BY <1>1, <1>2
<1>4. t.count = Cardinality(DOMAIN t.files)
  <2>1. IsFiniteSet(DOMAIN s.files)
    BY FS_Subset, CapacityAssumption DEF Booked
  <2>2. Cardinality(DOMAIN s.files \ {k}) = Cardinality(DOMAIN s.files) - 1
    BY <2>1, FS_RemoveElement
  <2> QED BY <1>1, <2>2 DEF Booked, Accounted
<1>5. Booked(t)
  BY <1>1, <1>3, <1>4 DEF Booked, Accounted
<1> HIDE DEF t
<1> QED BY <1>1, <1>5 DEF t

\* The constructor counts what it reads.
LEMMA RecoverBooked ==
  ASSUME NEW files, files = [k \in DOMAIN files |-> files[k]],
         DOMAIN files \subseteq Addresses
  PROVE  Booked(Recover(files)) /\ Recover(files).files = files
BY DEF Recover, Booked, Accounted

-----------------------------------------------------------------------------
(* The space of the files.                                                 *)

\* A file is what it holds and its size.
File(x) == x = [data |-> x.data, size |-> x.size]

\* What the silo is to be: the files have sizes, their sum is the usage, and
\* there is room for it.
Roomy(s) ==
  /\ Booked(s)
  /\ \A k \in DOMAIN s.files : s.files[k].size \in Nat
  /\ \A k \in DOMAIN s.files : File(s.files[k])
  /\ s.usage = Space(s.files)
  /\ s.usage <= Capacity

LEMMA SpaceSum ==
  ASSUME NEW f, NEW g, g = [k \in DOMAIN f |-> f[k].size]
  PROVE  Space(f) = SumFunctionOnSet(g, DOMAIN f)
BY DEF Space, SumFunction

\* The space of files but one, and with one more or another.
LEMMA SpaceWithout ==
  ASSUME NEW f, IsFiniteSet(DOMAIN f), \A j \in DOMAIN f : f[j].size \in Nat, NEW k
  PROVE  /\ Space(f) \in Nat /\ Space(Unfiled(f, k)) \in Nat
         /\ k \in DOMAIN f => Space(f) = f[k].size + Space(Unfiled(f, k))
         /\ k \notin DOMAIN f => Space(f) = Space(Unfiled(f, k))
<1> DEFINE g == [j \in DOMAIN f |-> f[j].size]
           u == Unfiled(f, k)
           h == [j \in DOMAIN u |-> u[j].size]
<1>1. DOMAIN u = DOMAIN f \ {k} /\ \A j \in DOMAIN u : u[j] = f[j]
  BY DEF Unfiled
<1>2. Space(f) = SumFunctionOnSet(g, DOMAIN f) /\ Space(u) = SumFunctionOnSet(h, DOMAIN u)
  BY SpaceSum
<1>3. (\A j \in DOMAIN f : g[j] = f[j].size) /\ \A j \in DOMAIN u : h[j] = g[j]
  BY <1>1
<1>4. IsFiniteSet(DOMAIN u)
  BY <1>1, FS_Subset
<1> HIDE DEF g, h, u
<1>5. (\A j \in DOMAIN f : g[j] \in Nat /\ g[j] \in Int) /\ (\A j \in DOMAIN u : h[j] \in Nat /\ h[j] \in Int)
  BY <1>1, <1>3
<1>6. SumFunctionOnSet(h, DOMAIN u) = SumFunctionOnSet(g, DOMAIN u)
  BY <1>3, <1>4, <1>5, SumSame
<1>7. Space(f) \in Nat /\ Space(u) \in Nat
  BY <1>2, <1>4, <1>5, SumNat
<1>8. ASSUME k \in DOMAIN f PROVE Space(f) = f[k].size + Space(u)
  <2>1. SumFunctionOnSet(g, DOMAIN f) = g[k] + SumFunctionOnSet(g, DOMAIN f \ {k})
    BY <1>5, <1>8, SumStep
  <2> QED BY <1>1, <1>2, <1>3, <1>6, <1>8, <2>1
<1>9. ASSUME k \notin DOMAIN f PROVE Space(f) = Space(u)
  <2>1. DOMAIN u = DOMAIN f
    BY <1>1, <1>9
  <2> QED BY <1>2, <1>6, <2>1
<1> QED BY <1>7, <1>8, <1>9 DEF u

LEMMA SpaceWith ==
  ASSUME NEW f, IsFiniteSet(DOMAIN f), \A j \in DOMAIN f : f[j].size \in Nat,
         NEW k, NEW x, x.size \in Nat
  PROVE  /\ Space(Filed(f, k, x)) = x.size + Space(Unfiled(f, k))
         /\ \A j \in DOMAIN Filed(f, k, x) : Filed(f, k, x)[j].size \in Nat
<1> DEFINE e == Filed(f, k, x)
<1>1. /\ DOMAIN e = DOMAIN f \cup {k} /\ e[k] = x
      /\ \A j \in DOMAIN f \ {k} : e[j] = f[j]
      /\ Unfiled(e, k) = Unfiled(f, k)
  BY DEF Filed, Unfiled
<1> HIDE DEF e
<1>2. IsFiniteSet(DOMAIN e) /\ \A j \in DOMAIN e : e[j].size \in Nat
  BY <1>1, FS_AddElement
<1>3. Space(e) = e[k].size + Space(Unfiled(e, k))
  BY <1>1, <1>2, SpaceWithout
<1> QED BY <1>1, <1>2, <1>3 DEF e

LEMMA RoomySilo ==
  ASSUME NEW s, Roomy(s)
  PROVE  IsFiniteSet(DOMAIN s.files) /\ s.usage \in Nat
<1>1. IsFiniteSet(DOMAIN s.files)
  BY FS_Subset, CapacityAssumption DEF Roomy, Booked
<1> QED BY <1>1, SpaceWithout DEF Roomy

\* A write that fits leaves room.
LEMMA SetRoomy ==
  ASSUME NEW s, Roomy(s), NEW k \in Addresses, NEW data, NEW size \in Nat, Fits(s, k, size)
  PROVE  Roomy(Set(s, k, data, size))
<1> DEFINE x == [data |-> data, size |-> size]
           t == Set(s, k, data, size)
<1>1. t.files = Filed(s.files, k, x) /\ t.usage = s.usage + Delta(s, k, size)
  BY DEF Set
<1>2. x.size = size
  OBVIOUS
<1>3. Booked(t)
  BY SetBooked DEF Roomy
<1> HIDE DEF x, t
<1>4. IsFiniteSet(DOMAIN s.files) /\ s.usage \in Nat /\ s.usage = Space(s.files)
  BY RoomySilo DEF Roomy
<1>5. /\ Space(t.files) = size + Space(Unfiled(s.files, k))
      /\ \A j \in DOMAIN t.files : t.files[j].size \in Nat
  BY <1>1, <1>2, <1>4, SpaceWith DEF Roomy
<1>6. /\ Space(s.files) \in Nat /\ Space(Unfiled(s.files, k)) \in Nat
      /\ k \in DOMAIN s.files => Space(s.files) = s.files[k].size + Space(Unfiled(s.files, k))
      /\ k \notin DOMAIN s.files => Space(s.files) = Space(Unfiled(s.files, k))
  BY <1>4, SpaceWithout DEF Roomy
<1>7. t.usage = Space(t.files)
  <2>1. CASE k \in DOMAIN s.files
    <3>1. Delta(s, k, size) = size - s.files[k].size /\ s.files[k].size \in Nat
      BY <2>1 DEF Delta, Exists, Roomy
    <3> QED BY <1>1, <1>4, <1>5, <1>6, <2>1, <3>1
  <2>2. CASE k \notin DOMAIN s.files
    <3>1. Delta(s, k, size) = size - 0
      BY <2>2 DEF Delta, Exists
    <3> QED BY <1>1, <1>4, <1>5, <1>6, <2>2, <3>1
  <2> QED BY <2>1, <2>2
<1>8. t.usage <= Capacity
  BY <1>1 DEF Fits
<1>9. \A j \in DOMAIN t.files : File(t.files[j])
  <2>1. File(x)
    BY DEF x, File
  <2> QED BY <1>1, <2>1 DEF Filed, Roomy
<1> QED BY <1>3, <1>5, <1>7, <1>8, <1>9 DEF Roomy, t

\* A file erased gives its space back.
LEMMA EraseRoomy ==
  ASSUME NEW s, Roomy(s), NEW k \in DOMAIN s.files
  PROVE  Roomy(Erase(s, k))
<1> DEFINE t == Erase(s, k)
<1>1. t.files = Unfiled(s.files, k) /\ t.usage = s.usage - s.sizes[k]
  BY DEF Erase
<1>2. Booked(t)
  BY EraseBooked DEF Roomy
<1>3. s.sizes[k] = s.files[k].size /\ s.files[k].size \in Nat
  BY DEF Roomy, Booked, Accounted
<1> HIDE DEF t
<1>4. IsFiniteSet(DOMAIN s.files) /\ s.usage \in Nat /\ s.usage = Space(s.files) /\ s.usage <= Capacity
  BY RoomySilo DEF Roomy
<1>5. /\ Space(t.files) \in Nat /\ Space(s.files) = s.files[k].size + Space(t.files)
  BY <1>1, <1>4, SpaceWithout DEF Roomy
<1>6. t.usage = Space(t.files) /\ t.usage <= Capacity
  BY <1>1, <1>3, <1>4, <1>5, CapacityAssumption
<1>7. \A j \in DOMAIN t.files : t.files[j].size \in Nat /\ File(t.files[j])
  BY <1>1 DEF Unfiled, Roomy
<1> QED BY <1>2, <1>6, <1>7 DEF Roomy, t

\* A silo that starts with the files it had, or one more that fitted.
LEMMA RecoverRoomy ==
  ASSUME NEW f, f = [k \in DOMAIN f |-> f[k]], DOMAIN f \subseteq Addresses,
         \A k \in DOMAIN f : f[k].size \in Nat /\ File(f[k]), Space(f) <= Capacity
  PROVE  Roomy(Recover(f))
<1>1. Booked(Recover(f)) /\ Recover(f).files = f
  BY RecoverBooked
<1>2. Recover(f).usage = Space(f)
  BY DEF Recover
<1> QED BY <1>1, <1>2 DEF Roomy

-----------------------------------------------------------------------------
(* The steps of the peer.                                                  *)

\* What a step may do to the silo: nothing, a write that fits, the removal of a
\* file, a write then a removal, or a restart with the files it had and, if a
\* write was cut short, what it left.
Written(s, a) ==
  \E data, size : size \in Nat /\ Fits(silo, a, size) /\ s = Set(silo, a, data, size)

SiloStep ==
  \/ silo' = silo
  \/ \E a \in Addresses : Written(silo', a)
  \/ \E a \in DOMAIN silo.files : silo' = Erase(silo, a)
  \/ \E a \in Addresses : \E s : Written(s, a) /\ silo' = Erase(s, a)
  \/ silo' = Recover(silo.files)
  \/ \E a \in Addresses, size \in 0..1 :
       /\ Fits(silo, a, size)
       /\ silo' = Recover(Filed(silo.files, a, [data |-> Torn, size |-> size]))

LEMMA SizeNat == \A s : Size(s) \in Nat
BY DEF Size

LEMMA SaveSilo ==
  ASSUME NEW a \in Addresses, NEW m, NEW s, NEW w, Save(m, a, s, w)
  PROVE  SiloStep
<1>1. CASE UNCHANGED silo
  BY <1>1 DEF SiloStep
<1>2. CASE Fits(silo, a, Size(s)) /\ silo' = Set(silo, a, s, Size(s))
  <2>1. Written(silo', a)
    BY <1>2, SizeNat DEF Written
  <2> QED BY <2>1 DEF SiloStep
<1> QED BY <1>1, <1>2 DEF Save

LEMMA OnlySilo ==
  ASSUME NEW m, Only(m)
  PROVE  SiloStep
BY DEF Only, SiloStep

LEMMA RemovedSilo ==
  ASSUME NEW a, NEW m, Exists(silo, a), Removed(m, silo, a)
  PROVE  SiloStep
<1>1. a \in DOMAIN silo.files /\ silo' = Erase(silo, a)
  BY DEF Exists, Removed
<1> QED BY <1>1 DEF SiloStep

LEMMA ConfirmSilo ==
  ASSUME NEW a \in Addresses, NEW q, NEW p, Confirm(a, q, p)
  PROVE  SiloStep
<1> DEFINE s == Decision(a)
           t == ConfirmState(s, q, p)
           m == Put(Loaded(a), a, t)
           w == Set(silo, a, t, Size(t))
<1>1. \/ silo' = silo
      \/ Fits(silo, a, Size(t)) /\ silo' = w
      \/ Fits(silo, a, Size(t)) /\ silo' = Erase(w, a)
  BY DEF Confirm, Only, Removed
<1>2. Size(t) \in Nat
  BY SizeNat
<1> HIDE DEF t
<1>3. Fits(silo, a, Size(t)) => Written(w, a)
  BY <1>2 DEF Written
<1> HIDE DEF w
<1> QED BY <1>1, <1>3 DEF SiloStep

LEMMA ClientSilo ==
  ASSUME ClientStep
  PROVE  SiloStep
<1>1. ASSUME NEW a \in Mutable, NEW p, NEW q, NEW insert, Propose(a, q, p, insert)
      PROVE  SiloStep
  <2>1. \/ \E m : Only(m)
        \/ \E m, t, w : Save(m, a, t, w)
    BY <1>1 DEF Propose
  <2> QED BY <2>1, OnlySilo, SaveSilo, ImmutableAddresses
<1>2. ASSUME NEW a \in Mutable, NEW p, NEW q, NEW v, NEW valid, Accept(a, q, p, v, valid)
      PROVE  SiloStep
  <2>1. \/ \E m : Only(m)
        \/ \E m, t, w : Save(m, a, t, w)
    BY <1>2 DEF Accept
  <2> QED BY <2>1, OnlySilo, SaveSilo, ImmutableAddresses
<1>3. ASSUME NEW a \in Mutable, NEW p, NEW q, NEW v, Propagate(a, q, v, p)
      PROVE  SiloStep
  <2>1. \/ \E m : Only(m)
        \/ \E m, t, w : Save(m, a, t, w)
    BY <1>3 DEF Propagate
  <2> QED BY <2>1, OnlySilo, SaveSilo, ImmutableAddresses
<1>4. ASSUME NEW a \in Mutable, NEW p, NEW q, Confirm(a, q, p)
      PROVE  SiloStep
  BY <1>4, ConfirmSilo, ImmutableAddresses
<1>5. ASSUME NEW a \in Mutable, NEW valid \in BOOLEAN,
             Get(a) \/ Reconcile(a) \/ Remove(a, valid) \/ Reconciled(a, valid)
      PROVE  SiloStep
  <2>1. (\E m : Only(m)) \/ (\E m : Exists(silo, a) /\ Removed(m, silo, a))
    BY <1>5 DEF Get, Reconcile, Remove, Reconciled
  <2> QED BY <2>1, OnlySilo, RemovedSilo
<1>6. ASSUME NEW a \in Immutable, Store(a)
      PROVE  SiloStep
  <2>1. Fits(silo, a, 1) /\ silo' = Set(silo, a, Block, 1)
    BY <1>6 DEF Store
  <2>2. Written(silo', a)
    BY <2>1 DEF Written
  <2> QED BY <2>2, ImmutableAddresses DEF SiloStep
<1>7. ASSUME NEW a \in Immutable, LookUp(a)
      PROVE  SiloStep
  BY <1>7 DEF LookUp, SiloStep
<1>8. ASSUME NEW a \in Immutable, NEW found, NEW q,
             ConfirmBlock(a, found, q) \/ RemoveBlock(a, found)
      PROVE  SiloStep
  <2>1. (\E m : Only(m)) \/ (\E m : Exists(silo, a) /\ Removed(m, silo, a))
    BY <1>8 DEF ConfirmBlock, RemoveBlock
  <2> QED BY <2>1, OnlySilo, RemovedSilo
<1> QED BY <1>1, <1>2, <1>3, <1>4, <1>5, <1>6, <1>7, <1>8 DEF ClientStep

LEMMA ThreadSilo ==
  ASSUME ThreadStep
  PROVE  silo' = silo
<1>1. ASSUME NEW a \in Addresses, NEW found, Inspect(a, found) \/ RebalanceBlock(a) \/ Spread(a)
      PROVE  silo' = silo
  BY <1>1 DEF Inspect, InspectPaxos, InspectBlock, InspectFails, RebalanceBlock, Spread, Only
<1>2. ASSUME NEW n \in Nodes,
             \/ Discovered(n) \/ Disappeared(n) \/ Expire(n) \/ StartEviction(n)
             \/ Elected(n) \/ EvictionDone(n) \/ RebalanceNode(n)
      PROVE  silo' = silo
  BY <1>2 DEF Discovered, Disappeared, Expire, StartEviction, Elected, EvictionDone,
              RebalanceNode, Only
<1>3. ASSUME NEW n \in Nodes, NEW a \in Addresses, Evict(n, a)
      PROVE  silo' = silo
  BY <1>3 DEF Evict, Only
<1> QED BY <1>1, <1>2, <1>3 DEF ThreadStep

LEMMA NextSilo ==
  ASSUME [Next]_vars
  PROVE  SiloStep
<1>1. CASE ClientStep
  BY <1>1, ClientSilo
<1>2. CASE ThreadStep
  BY <1>2, ThreadSilo DEF SiloStep
<1>3. CASE Crash
  BY <1>3 DEF Crash, Restart, SiloStep
<1>4. CASE \E a \in Addresses, size \in 0..1 : CrashInSet(a, size)
  BY <1>4 DEF CrashInSet, Restart, SiloStep
<1>5. CASE UNCHANGED vars
  BY <1>5 DEF vars, SiloStep
<1> QED BY <1>1, <1>2, <1>3, <1>4, <1>5 DEF Next

LEMMA WrittenRoomy ==
  ASSUME NEW s, Roomy(silo), NEW a \in Addresses, Written(s, a)
  PROVE  Roomy(s) /\ a \in DOMAIN s.files
<1>1. PICK data, size : size \in Nat /\ Fits(silo, a, size) /\ s = Set(silo, a, data, size)
  BY DEF Written
<1>2. Roomy(s)
  BY <1>1, SetRoomy
<1>3. a \in DOMAIN s.files
  BY <1>1 DEF Set, Filed
<1> QED BY <1>2, <1>3

LEMMA StepRoomy ==
  ASSUME Roomy(silo), SiloStep
  PROVE  Roomy(silo')
<1>1. CASE silo' = silo
  BY <1>1
<1>2. ASSUME NEW a \in Addresses, Written(silo', a)
      PROVE  Roomy(silo')
  BY <1>2, WrittenRoomy
<1>3. ASSUME NEW a \in DOMAIN silo.files, silo' = Erase(silo, a)
      PROVE  Roomy(silo')
  BY <1>3, EraseRoomy
<1>4. ASSUME NEW a \in Addresses, NEW s, Written(s, a), silo' = Erase(s, a)
      PROVE  Roomy(silo')
  BY <1>4, WrittenRoomy, EraseRoomy
<1>5. CASE silo' = Recover(silo.files)
  BY <1>5, RecoverRoomy DEF Roomy, Booked
<1>6. ASSUME NEW a \in Addresses, NEW size \in 0..1, Fits(silo, a, size),
             silo' = Recover(Filed(silo.files, a, [data |-> Torn, size |-> size]))
      PROVE  Roomy(silo')
  <2> DEFINE t == Set(silo, a, Torn, size)
  <2>1. t.files = Filed(silo.files, a, [data |-> Torn, size |-> size])
    BY DEF Set
  <2>2. Roomy(t)
    BY <1>6, SetRoomy
  <2> HIDE DEF t
  <2>3. Roomy(Recover(t.files))
    BY <2>2, RecoverRoomy DEF Roomy, Booked
  <2> QED BY <1>6, <2>1, <2>3
<1> QED BY <1>1, <1>2, <1>3, <1>4, <1>5, <1>6 DEF SiloStep

\* The inductive invariant holds of the empty silo and of every step.
LEMMA InitRoomy == Init => Roomy(silo)
<1> DEFINE f == [k \in {} |-> 0]
<1>1. f = [k \in DOMAIN f |-> f[k]] /\ DOMAIN f = {}
  OBVIOUS
<1> HIDE DEF f
<1>2. Space(f) = 0
  <2>1. Space(f) = SumFunctionOnSet([k \in DOMAIN f |-> f[k].size], {})
    BY <1>1, SpaceSum
  <2> QED BY <2>1, SumEmpty
<1>3. Roomy(Recover(f))
  <2>1. Space(f) <= Capacity
    BY <1>2, CapacityAssumption
  <2>2. DOMAIN f \subseteq Addresses /\ \A k \in DOMAIN f : f[k].size \in Nat /\ File(f[k])
    BY <1>1
  <2> QED BY <1>1, <2>1, <2>2, RecoverRoomy
<1> QED BY <1>3 DEF Init, Empty, f

LEMMA NextRoomy == Roomy(silo) /\ [Next]_vars => Roomy(silo)'
<1> SUFFICES ASSUME Roomy(silo), [Next]_vars PROVE Roomy(silo')
  BY DEF Roomy, Booked, Accounted, File
<1> QED BY NextSilo, StepRoomy

LEMMA RoomyHolds == Spec => []Roomy(silo)
BY InitRoomy, NextRoomy, PTL DEF Spec

\* The sizes and the number of files the silo remembers are those of the files
\* it holds, after every write over a file, removal, and crash in a write.
THEOREM PeerSiloCounts == Spec => []SiloCounts
<1>1. Roomy(silo) => SiloCounts
  BY DEF Roomy, Booked, SiloCounts
<1> QED BY <1>1, RoomyHolds, PTL

\* The space counted as used is the sum of the sizes of the files, and the
\* silo never holds more than its capacity, whatever the calls, the files
\* written over or removed, and the crashes in the middle of a write.
THEOREM PeerSiloSpace == Spec => []SiloSpace
<1>1. Roomy(silo) => SiloSpace
  <2> SUFFICES ASSUME Roomy(silo) PROVE SiloSpace
    OBVIOUS
  <2>1. silo.usage \in Nat
    BY RoomySilo
  <2> QED BY <2>1, CapacityAssumption DEF Roomy, SiloSpace
<1> QED BY <1>1, RoomyHolds, PTL

-----------------------------------------------------------------------------
(* The types.                                                              *)

\* The order of use and the channel have their types.
Neat(m) == m.use \in Seq(Addresses) /\ m.rebalancable \subseteq Addresses \cup Nodes

LEMMA WithoutType ==
  ASSUME NEW s \in Seq(Addresses), NEW x
  PROVE  Without(s, x) \in Seq(Addresses)
<1> DEFINE At == {i \in 1..Len(s) : s[i] = x}
           i == CHOOSE j \in At : TRUE
<1>1. CASE At = {}
  BY <1>1 DEF Without
<1>2. CASE At # {}
  <2>1. i \in At
    BY <1>2
  <2>2. i \in 1..Len(s) /\ Len(s) \in Nat
    BY <2>1
  <2>3. Without(s, x) = SubSeq(s, 1, i - 1) \o SubSeq(s, i + 1, Len(s))
    BY <1>2 DEF Without
  <2> HIDE DEF i
  <2>4. SubSeq(s, 1, i - 1) \in Seq(Addresses) /\ SubSeq(s, i + 1, Len(s)) \in Seq(Addresses)
    BY <2>2
  <2> QED BY <2>3, <2>4
<1> QED BY <1>1, <1>2

\* What the operations on the memory do to these.
LEMMA NeatOperations ==
  ASSUME NEW m, Whole(m), Neat(m), NEW a \in Addresses, NEW s, NEW q, NEW x
  PROVE  /\ Neat(Touch(m, a)) /\ Neat(Put(m, a, s)) /\ Neat(Taken(m, x))
         /\ Neat(Schedule(m, a, q)) /\ Neat(Dropped(m, a)) /\ Neat(Forget(m, a))
<1> DEFINE w == Without(m.use, a)
<1>0. w \in Seq(Addresses) /\ Append(w, a) \in Seq(Addresses)
  BY WithoutType DEF Neat
<1>1. Touch(m, a) = [m EXCEPT !.use = Append(w, a)]
  BY DEF Touch
<1>2. Dropped(m, a) = [m EXCEPT
        !.decisions = [b \in Addresses |-> IF b \in {a} THEN None ELSE m.decisions[b]],
        !.use = w]
  BY DEF Dropped, Drop
<1> HIDE DEF w
<1>3. Neat(Touch(m, a))
  BY <1>0, <1>1 DEF Whole, Neat
<1>4. /\ Dropped(m, a).use = w /\ Dropped(m, a).rebalancable = m.rebalancable
      /\ Whole(Dropped(m, a))
  BY <1>2 DEF Whole
<1>5. Forget(m, a).use = w /\ Forget(m, a).rebalancable = m.rebalancable
  BY <1>4 DEF Forget, Whole
<1>6. Put(m, a, s) = [m EXCEPT !.decisions = [m.decisions EXCEPT ![a] = s]]
  BY DEF Put, Whole
<1>7. Neat(Put(m, a, s))
  BY <1>6 DEF Whole, Neat
<1>8. Neat(Taken(m, x))
  BY DEF Taken, Whole, Neat
<1>9. Neat(Schedule(m, a, q))
  BY DEF Schedule, Whole, Neat
<1> QED BY <1>0, <1>3, <1>4, <1>5, <1>7, <1>8, <1>9 DEF Neat

LEMMA CacheNeat ==
  ASSUME NEW m, Indexed(m), Neat(m), NEW a \in Addresses, NEW q \in Quorums
  PROVE  /\ Indexed(Cache(m, a, q)) /\ Neat(Cache(m, a, q))
         /\ Neat(Schedule(Cache(m, a, q), a, q))
<1>1. /\ Indexed(Cache(m, a, q)) /\ Cache(m, a, q).use = m.use
      /\ Cache(m, a, q).rebalancable = m.rebalancable
  BY CacheIndexed
<1>2. Neat(Cache(m, a, q))
  BY <1>1 DEF Neat
<1> QED BY <1>1, <1>2, NeatOperations DEF Indexed

LEMMA UnloadNeat ==
  ASSUME NEW m, Whole(m), Neat(m)
  PROVE  Neat(Unload(m))
<1> DEFINE excess == Len(m.use) - MaxAddresses
           Free(i) == \A j \in 1..i : m.use[j] \notin reconciling
           F == {i \in 1..((excess + 1) \div 2) : Free(i)}
           n == Cardinality(F)
           gone == {m.use[i] : i \in 1..n}
           left == SubSeq(m.use, n + 1, Len(m.use))
<1>1. Unload(m) = Drop(m, gone, left)
  BY DEF Unload
<1>2. m.use \in Seq(Addresses) /\ Len(m.use) \in Nat
  BY DEF Neat
<1>3. n \in Nat
  <2>1. excess \in Int
    BY <1>2, PeerAssumption
  <2>2. (excess + 1) \div 2 \in Int
    BY <2>1
  <2> HIDE DEF excess
  <2>3. IsFiniteSet(1..((excess + 1) \div 2))
    BY <2>2, FS_Interval
  <2>4. IsFiniteSet(F)
    BY <2>3, FS_Subset
  <2> QED BY <2>4, FS_CardinalityType
<1> HIDE DEF n
<1>4. left \in Seq(Addresses)
  BY <1>2, <1>3
<1> HIDE DEF left, gone
<1> DEFINE d == [b \in Addresses |-> IF b \in gone THEN None ELSE m.decisions[b]]
<1>5. Drop(m, gone, left) = [m EXCEPT !.decisions = d, !.use = left]
  BY DEF Drop
<1> HIDE DEF d
<1> QED BY <1>1, <1>4, <1>5 DEF Whole, Neat

LEMMA InsertNeat ==
  ASSUME NEW m, Indexed(m), Neat(m), NEW a \in Addresses, NEW s, CurrentQuorum(s) \in Quorums
  PROVE  Neat(Insert(m, a, s))
<1> DEFINE q == CurrentQuorum(s)
           c == Cache(m, a, q)
           d == IF CurrentValue(s) # None THEN Schedule(c, a, q) ELSE c
           p == Put(d, a, s)
           e == Touch(p, a)
<1>1. Insert(m, a, s) = Unload(e)
  BY DEF Insert
<1>2. Indexed(c) /\ Row(c, a) /\ Neat(c) /\ Neat(Schedule(c, a, q))
  BY CacheNeat, CacheIndexed
<1>3. Indexed(d) /\ Row(d, a) /\ Neat(d)
  <2> DEFINE n == Schedule(c, a, q)
  <2> HIDE DEF c
  <2>1. Indexed(n) /\ n.quorums = c.quorums /\ n.node_blocks = c.node_blocks
    BY <1>2, ScheduleIndexed
  <2>2. Row(n, a)
    BY <1>2, <2>1 DEF Row
  <2>3. d \in {c, n}
    OBVIOUS
  <2> HIDE DEF n, d
  <2>4. Neat(n)
    BY <1>2 DEF n
  <2> QED BY <1>2, <2>1, <2>2, <2>3, <2>4
<1> HIDE DEF d
<1>4. Indexed(p)
  BY <1>3, PutIndexed
<1>5. Neat(p)
  BY <1>3, NeatOperations DEF Indexed
<1> HIDE DEF p
<1>6. Indexed(e)
  BY <1>4, TouchIndexed
<1>7. Neat(e)
  BY <1>4, <1>5, NeatOperations DEF Indexed
<1> HIDE DEF e
<1> QED BY <1>1, <1>6, <1>7, UnloadNeat DEF Indexed

LEMMA LoadNeat ==
  ASSUME Kept, NEW m, Indexed(m), Neat(m), NEW a \in Addresses, HasPaxos(a)
  PROVE  Neat(Load(m, a))
<1>1. CurrentQuorum(Decision(a)) \in Quorums
  BY DecisionGood
<1> QED BY <1>1, InsertNeat, NeatOperations DEF Load, Indexed

LEMMA LoadedNeat ==
  ASSUME Kept, Neat(mem), NEW a \in Addresses, HasPaxos(a)
  PROVE  /\ Neat(Loaded(a)) /\ \A s : Neat(Put(Loaded(a), a, s))
         /\ Neat(Forget(Loaded(a), a)) /\ Neat(Dropped(Loaded(a), a))
<1>1. Neat(Loaded(a))
  BY LoadNeat DEF Loaded, Kept
<1>2. Whole(Loaded(a))
  BY LoadedGood DEF Derived, Indexed
<1> QED BY <1>1, <1>2, NeatOperations

LEMMA ClientNeat ==
  ASSUME Kept, Neat(mem), ClientStep
  PROVE  Neat(mem)'
<1>0. SUFFICES Neat(mem')
  BY DEF Neat
<1>1. \A a \in Addresses : \A q \in Quora[a] : q \in Quorums
  BY PeerAssumption
<1>2. \A a \in Mutable : a \in Addresses
  BY ImmutableAddresses
<1>3. ASSUME NEW a \in Mutable, NEW s, CurrentQuorum(s) \in Quorums, NEW t,
             mem' = Insert(mem, a, s) \/ mem' = Put(Insert(mem, a, s), a, t)
      PROVE  Neat(mem')
  <2>1. a \in Addresses /\ Indexed(mem)
    BY <1>2 DEF Kept
  <2>2. Neat(Insert(mem, a, s))
    BY <1>3, <2>1, InsertNeat
  <2>3. Whole(Insert(mem, a, s))
    BY <1>3, <2>1, InsertDerived DEF Derived, Indexed
  <2> QED BY <1>3, <2>1, <2>2, <2>3, NeatOperations
<1>4. ASSUME NEW a \in Mutable, HasPaxos(a), NEW t,
             \/ mem' = Loaded(a) \/ mem' = Put(Loaded(a), a, t)
             \/ mem' = Forget(Loaded(a), a)
      PROVE  Neat(mem')
  BY <1>2, <1>4, LoadedNeat
<1>5. ASSUME NEW a \in Mutable, NEW p \in Calls[a], NEW q \in Requested(a), NEW insert,
             Propose(a, q, p, insert)
      PROVE  Neat(mem')
  <2>1. q \in Quorums
    BY <1>1, <1>2 DEF Requested
  <2>2. CASE HasPaxos(a)
    <3>1. mem' = Loaded(a) \/ \E t : mem' = Put(Loaded(a), a, t)
      BY <1>5, <2>2 DEF Propose, Only, Save
    <3> QED BY <1>4, <2>2, <3>1
  <2>3. CASE ~HasPaxos(a)
    <3> DEFINE s == NewServer(q, None)
    <3>1. mem' = Insert(mem, a, s) \/ \E t : mem' = Put(Insert(mem, a, s), a, t)
      BY <1>5, <2>3 DEF Propose, Only, Save
    <3>2. CurrentQuorum(s) \in Quorums
      BY <2>1, NewGood
    <3> HIDE DEF s
    <3> QED BY <1>3, <3>1, <3>2
  <2> QED BY <2>2, <2>3
<1>6. ASSUME NEW a \in Mutable, NEW p, NEW q, NEW v, NEW valid, Accept(a, q, p, v, valid)
      PROVE  Neat(mem')
  <2>1. HasPaxos(a) /\ (mem' = Loaded(a) \/ \E t : mem' = Put(Loaded(a), a, t))
    BY <1>6 DEF Accept, Only, Save
  <2> QED BY <1>4, <2>1
<1>7. ASSUME NEW a \in Mutable, NEW p \in Calls[a], NEW q \in Requested(a), Confirm(a, q, p)
      PROVE  Neat(mem')
  <2> DEFINE s == Decision(a)
             t == ConfirmState(s, q, p)
             m == Put(Loaded(a), a, t)
             new == NewQuorum(s, t)
  <2>0. a \in Addresses /\ HasPaxos(a) /\ q \in Quorums /\ p \in Proposal /\ told[a] \in Answer
    BY <1>1, <1>2, <1>7, PeerAssumption DEF Requested, Confirm, Kept
  <2>1. \/ mem' = Loaded(a) \/ mem' = m \/ mem' = Forget(m, a)
        \/ /\ new # None
           /\ mem' = Cache(m, a, new) \/ mem' = Schedule(Cache(m, a, new), a, new)
    BY <1>7 DEF Confirm, Only, Removed
  <2>2. t \in Server
    BY <1>7, <2>0, DecisionGood, ConfirmGood DEF Confirm, Good
  <2>3. new # None => new \in Quorums
    <3> HIDE DEF t, s
    <3>1. CurrentQuorum(t) \in Quorums
      BY <2>2, CurrentQuorumType
    <3>2. t.accepted # None /\ IsQuorum(t.accepted.value) => t.accepted.value \in Quorums
      BY <2>2 DEF Server, Accepted, Value, IsQuorum
    <3> QED BY <3>1, <3>2 DEF NewQuorum
  <2> HIDE DEF t, new
  <2>4. Neat(Loaded(a)) /\ Neat(m)
    BY <2>0, LoadedNeat
  <2>5. Indexed(m)
    BY <2>0, LoadedGood, PutIndexed DEF Derived
  <2> HIDE DEF m
  <2>6. Neat(Forget(m, a))
    BY <2>0, <2>4, <2>5, NeatOperations DEF Indexed
  <2> QED BY <2>0, <2>1, <2>3, <2>4, <2>5, <2>6, CacheNeat
<1>8. ASSUME NEW a \in Mutable, NEW p, NEW q \in Requested(a), NEW v \in Values,
             Propagate(a, q, v, p)
      PROVE  Neat(mem')
  <2> DEFINE s == IF HasPaxos(a) THEN Decision(a) ELSE NewServer(q, v)
  <2>1. CurrentQuorum(s) \in Quorums
    <3>1. q \in Quorums
      BY <1>1, <1>2 DEF Requested
    <3>2. CASE HasPaxos(a)
      BY <1>2, <3>2, DecisionGood
    <3>3. CASE ~HasPaxos(a)
      BY <3>1, <3>3, NewGood
    <3> QED BY <3>2, <3>3
  <2>2. mem' = Insert(mem, a, s) \/ \E t : mem' = Put(Insert(mem, a, s), a, t)
    BY <1>8 DEF Propagate, Only, Save
  <2> HIDE DEF s
  <2> QED BY <1>3, <2>1, <2>2
<1>9. ASSUME NEW a \in Mutable, NEW b \in BOOLEAN,
             Get(a) \/ Reconcile(a) \/ Remove(a, b) \/ Reconciled(a, b)
      PROVE  Neat(mem')
  <2>1. CASE Get(a) \/ Reconcile(a) \/ Remove(a, b)
    <3>1. HasPaxos(a) /\ (mem' = Loaded(a) \/ mem' = Forget(Loaded(a), a))
      BY <2>1 DEF Get, Reconcile, Remove, Only, Removed
    <3> QED BY <1>4, <3>1
  <2>2. CASE Reconciled(a, b)
    <3>1. mem' = mem \/ mem' = Forget(mem, a)
      BY <2>2 DEF Reconciled, Only, Removed
    <3> QED BY <1>2, <3>1, NeatOperations DEF Kept, Indexed
  <2> QED BY <1>9, <2>1, <2>2
<1>10. ASSUME NEW a \in Immutable, Store(a) \/ LookUp(a)
       PROVE  Neat(mem')
  BY <1>10 DEF Store, LookUp
<1>11. ASSUME NEW a \in Immutable, NEW found \in Owners(a),
              (\E q \in Quora[a] : ConfirmBlock(a, found, q)) \/ RemoveBlock(a, found)
       PROVE  Neat(mem')
  <2> DEFINE m == LoadedBlock(a, found)
  <2>0. a \in Addresses /\ found \in Quorums \cup {None} /\ Indexed(mem)
    BY <1>1, ImmutableAddresses DEF Kept, Owners
  <2>1. \/ mem' = m \/ mem' = Forget(m, a)
        \/ \E q \in Quorums : mem' = Schedule(Cache(m, a, q), a, q)
    BY <1>1, <1>11, <2>0 DEF ConfirmBlock, RemoveBlock, Only, Removed
  <2>2. Indexed(m)
    BY <2>0, LoadedBlockDerived DEF Derived
  <2>3. Neat(m)
    BY <2>0, CacheNeat DEF LoadedBlock
  <2> HIDE DEF m
  <2>4. \A q \in Quorums : Neat(Schedule(Cache(m, a, q), a, q))
    BY <2>0, <2>2, <2>3, CacheNeat
  <2> QED BY <2>0, <2>1, <2>2, <2>3, <2>4, NeatOperations DEF Indexed
<1>12. \A a : Requested(a) \subseteq Quora[a]
  BY DEF Requested
<1> QED BY <1>5, <1>6, <1>7, <1>8, <1>9, <1>10, <1>11, <1>12 DEF ClientStep

\* The types of what the threads keep.
Threaded ==
  /\ reconciling \subseteq Mutable /\ inspecting \subseteq Addresses
  /\ nodes \subseteq Nodes /\ timers \subseteq Nodes /\ expired \subseteq Nodes
  /\ spreading \in Target \cup {None}
  /\ running \in BOOLEAN
  /\ crashes \in 0..MaxCrashes /\ churn \in 0..MaxChurn

LEMMA ThreadNeat ==
  ASSUME Kept, Known, Neat(mem), ThreadStep
  PROVE  Neat(mem)'
<1>0. SUFFICES Neat(mem')
  BY DEF Neat
<1>1. Whole(mem) /\ Indexed(mem)
  BY DEF Kept, Indexed
<1>2. ASSUME NEW a \in Addresses, NEW found \in Owners(a), Inspect(a, found)
      PROVE  Neat(mem')
  <2>1. CASE InspectPaxos(a)
    <3>1. HasPaxos(a) /\ (mem' = Loaded(a) \/ mem' = Dropped(Loaded(a), a))
      BY <2>1 DEF InspectPaxos, Only
    <3> QED BY <3>1, LoadedNeat
  <2>2. CASE InspectBlock(a, found)
    <3>1. mem' = mem \/ mem' = Schedule(Cache(mem, a, found), a, found)
      BY <2>2 DEF InspectBlock, LoadedBlock, Only
    <3>2. found \in Quorums \cup {None} /\ (found = None => mem' = mem)
      BY <2>2, PeerAssumption DEF Owners, InspectBlock, LoadedBlock, Only
    <3> QED BY <1>1, <3>1, <3>2, CacheNeat
  <2>3. CASE InspectFails(a)
    BY <2>3 DEF InspectFails
  <2> QED BY <1>2, <2>1, <2>2, <2>3 DEF Inspect
<1>3. ASSUME NEW a \in Addresses, RebalanceBlock(a)
      PROVE  Neat(mem')
  <2> DEFINE m == Taken(mem, a)
  <2>1. Indexed(m)
    BY <1>1, TakenIndexed
  <2>2. Neat(m)
    BY <1>1, NeatOperations
  <2>3. mem' = IF HasPaxos(a) THEN Load(m, a) ELSE m
    BY <1>3 DEF RebalanceBlock, Only
  <2> HIDE DEF m
  <2> QED BY <2>1, <2>2, <2>3, LoadNeat
<1>4. ASSUME NEW a \in Addresses, Spread(a)
      PROVE  Neat(mem')
  BY <1>4 DEF Spread
<1>5. ASSUME NEW n \in Nodes,
             \/ Disappeared(n) \/ Expire(n) \/ StartEviction(n) \/ Elected(n) \/ EvictionDone(n)
      PROVE  Neat(mem')
  BY <1>5 DEF Disappeared, Expire, StartEviction, Elected, EvictionDone
<1>6. ASSUME NEW n \in Nodes, Discovered(n) \/ RebalanceNode(n)
      PROVE  Neat(mem')
  <2>1. \/ mem' = [mem EXCEPT !.rebalancable = mem.rebalancable \cup {n}]
        \/ mem' = [mem EXCEPT !.rebalancable = mem.rebalancable \ {n}]
    BY <1>6 DEF Discovered, RebalanceNode, Only, Taken
  <2> QED BY <1>1, <2>1 DEF Whole, Neat
<1>7. ASSUME NEW n \in Nodes, NEW a \in Addresses, Evict(n, a)
      PROVE  Neat(mem')
  <2>1. CASE HasPaxos(a) /\ Only(Loaded(a))
    BY <2>1, LoadedNeat DEF Only
  <2>2. CASE Only(EvictFromBlock(a, n))
    <3> DEFINE q == mem.quorums[a] \ {n}
    <3>1. q \in Quorums
      BY <1>1, <1>7 DEF Evict, Known, Whole, Quorums
    <3>2. mem' = mem \/ mem' = Schedule(Cache(mem, a, q), a, q)
      BY <2>2 DEF Only, EvictFromBlock
    <3> HIDE DEF q
    <3> QED BY <1>1, <3>1, <3>2, CacheNeat
  <2>3. CASE UNCHANGED mem
    BY <2>3
  <2> QED BY <1>7, <2>1, <2>2, <2>3 DEF Evict
<1> QED BY <1>2, <1>3, <1>4, <1>5, <1>6, <1>7 DEF ThreadStep

LEMMA ClientThreaded ==
  ASSUME Threaded, ClientStep
  PROVE  Threaded'
<1>1. ASSUME UNCHANGED <<reconciling, inspecting, nodes, timers, expired, spreading, running, crashes, churn>>
      PROVE  Threaded'
  BY <1>1 DEF Threaded
<1>2. ASSUME NEW a \in Mutable, NEW p, NEW q, NEW v, NEW b,
             \/ Propose(a, q, p, b) \/ Accept(a, q, p, v, b) \/ Confirm(a, q, p)
             \/ Propagate(a, q, v, p) \/ Get(a) \/ Remove(a, b)
      PROVE  Threaded'
  <2>1. UNCHANGED <<threads, bounds>>
    BY <1>2 DEF Propose, Accept, Confirm, Propagate, Get, Remove
  <2> QED BY <1>1, <2>1 DEF threads, bounds, waits, churned, jobs
<1>3. ASSUME NEW a \in Mutable, NEW b, Reconcile(a) \/ Reconciled(a, b)
      PROVE  Threaded'
  BY <1>3 DEF Reconcile, Reconciled, Threaded, churned, jobs, bounds
<1>4. ASSUME NEW a \in Immutable, NEW found, NEW q,
             Store(a) \/ LookUp(a) \/ ConfirmBlock(a, found, q) \/ RemoveBlock(a, found)
      PROVE  Threaded'
  <2>1. UNCHANGED <<reconciling, churned, jobs, bounds>>
    BY <1>4 DEF Store, LookUp, ConfirmBlock, RemoveBlock, threads, waits
  <2> QED BY <1>1, <2>1 DEF bounds, churned, jobs
<1>5. ASSUME NEW a \in Mutable, NEW p, NEW q, NEW b, Propose(a, q, p, b)
      PROVE  Threaded'
  BY <1>2, <1>5
<1>6. ASSUME NEW a \in Mutable, NEW p, NEW q, NEW v, NEW b, Accept(a, q, p, v, b)
      PROVE  Threaded'
  BY <1>2, <1>6
<1>7. ASSUME NEW a \in Mutable, NEW p, NEW q, NEW v, Confirm(a, q, p) \/ Propagate(a, q, v, p)
      PROVE  Threaded'
  BY <1>2, <1>7
<1>8. ASSUME NEW a \in Mutable, NEW b, Get(a) \/ Remove(a, b)
      PROVE  Threaded'
  BY <1>2, <1>8
<1> QED BY <1>3, <1>4, <1>5, <1>6, <1>7, <1>8 DEF ClientStep

LEMMA SpreadingType ==
  ASSUME NEW n \in Nodes, NEW left \in SUBSET Addresses
  PROVE  Spreading(n, left) \in Target \cup {None}
BY DEF Spreading, Target

LEMMA ThreadThreaded ==
  ASSUME Threaded, ThreadStep
  PROVE  Threaded'
<1>1. ASSUME NEW a \in Addresses, NEW found, Inspect(a, found)
      PROVE  Threaded'
  <2>1. /\ UNCHANGED <<reconciling, churned, evicting, spreading, running, bounds>>
        /\ inspecting' \subseteq Addresses
    BY <1>1 DEF Inspect, InspectPaxos, InspectBlock, InspectFails, waits, Threaded
  <2> QED BY <2>1 DEF Threaded, churned, bounds
<1>2. ASSUME NEW a \in Addresses, RebalanceBlock(a)
      PROVE  Threaded'
  BY <1>2 DEF RebalanceBlock, threads, waits, churned, jobs, bounds, Threaded
<1>3. ASSUME NEW a \in Addresses, Spread(a)
      PROVE  Threaded'
  <2>1. spreading \in Target
    BY <1>3 DEF Spread, Threaded
  <2>2. spreading' \in Target \cup {None}
    BY <1>3, <2>1, SpreadingType DEF Spread, Target
  <2> QED BY <1>3, <2>2 DEF Spread, waits, churned, bounds, Threaded
<1>4. ASSUME NEW n \in Nodes, Discovered(n)
      PROVE  Threaded'
  <2>1. churn \in Nat /\ crashes \in Nat /\ churn + 2 * crashes < MaxChurn /\ churn' = churn + 1
    BY <1>4 DEF Discovered, Threaded
  <2>2. churn' \in 0..MaxChurn
    BY <2>1, PeerAssumption
  <2> QED BY <1>4, <2>2 DEF Discovered, waits, jobs, Threaded
<1>5. ASSUME NEW n \in Nodes, Disappeared(n) \/ Expire(n)
      PROVE  Threaded'
  BY <1>5 DEF Disappeared, Expire, waits, jobs, bounds, Threaded
<1>6. ASSUME NEW n \in Nodes, StartEviction(n) \/ Elected(n) \/ EvictionDone(n)
      PROVE  Threaded'
  <2>1. /\ UNCHANGED <<waits, nodes, timers, inspecting, spreading, running, bounds>>
        /\ expired' \subseteq expired
    BY <1>6 DEF StartEviction, Elected, EvictionDone, churned
  <2> QED BY <2>1 DEF waits, bounds, Threaded
<1>7. ASSUME NEW n \in Nodes, RebalanceNode(n)
      PROVE  Threaded'
  <2>1. spreading' \in Target \cup {None}
    BY <1>7, SpreadingType DEF RebalanceNode, Targets
  <2> QED BY <1>7, <2>1 DEF RebalanceNode, waits, churned, bounds, Threaded
<1>8. ASSUME NEW n \in Nodes, NEW a \in Addresses, Evict(n, a)
      PROVE  Threaded'
  <2>1. running' \in BOOLEAN /\ UNCHANGED <<waits, churned, inspecting, spreading, bounds>>
    BY <1>8 DEF Evict, Threaded
  <2> QED BY <2>1 DEF waits, churned, bounds, Threaded
<1> QED BY <1>1, <1>2, <1>3, <1>4, <1>5, <1>6, <1>7, <1>8 DEF ThreadStep

LEMMA RestartTyped ==
  ASSUME Threaded, NEW files, DOMAIN files \subseteq Addresses, Restart(files)
  PROVE  Threaded' /\ Neat(mem)'
<1>1. crashes' \in 0..MaxCrashes
  BY PeerAssumption DEF Restart, Threaded
<1>2. Neat(mem')
  BY DEF Restart, Blank, Neat
<1> QED BY <1>1, <1>2 DEF Restart, Threaded, Neat

\* Every variable always has its type, whatever the calls and the crashes.
THEOREM PeerTypes == Spec => []TypeOK
<1> DEFINE All == Roomy(silo) /\ Neat(mem) /\ Threaded
<1>1. Init => All
  <2>1. Init => Roomy(silo)
    BY InitRoomy
  <2>2. Init => Neat(mem) /\ Threaded
    BY PeerAssumption DEF Init, Blank, Neat, Threaded
  <2> QED BY <2>1, <2>2
<1>2. Invariant /\ All /\ [Next]_vars => All'
  <2> SUFFICES ASSUME Invariant, All, [Next]_vars PROVE All'
    OBVIOUS
  <2>0. Kept /\ Known
    BY DEF Invariant
  <2>1. Roomy(silo)'
    BY NextRoomy
  <2>2. CASE ClientStep
    BY <2>0, <2>1, <2>2, ClientNeat, ClientThreaded
  <2>3. CASE ThreadStep
    BY <2>0, <2>1, <2>3, ThreadNeat, ThreadThreaded
  <2>4. CASE Crash
    BY <2>0, <2>1, <2>4, RestartTyped DEF Crash, Kept, Shaped
  <2>5. ASSUME NEW a \in Addresses, NEW size \in 0..1, CrashInSet(a, size)
        PROVE  All'
    <3> DEFINE files == Filed(silo.files, a, [data |-> Torn, size |-> size])
    <3>1. Restart(files) /\ DOMAIN files \subseteq Addresses
      BY <2>0, <2>5 DEF CrashInSet, Filed, Kept, Shaped
    <3> HIDE DEF files
    <3> QED BY <2>1, <3>1, RestartTyped
  <2>6. CASE UNCHANGED vars
    BY <2>1, <2>6 DEF vars, threads, waits, churned, jobs, bounds, Neat, Threaded
  <2> QED BY <2>2, <2>3, <2>4, <2>5, <2>6 DEF Next
<1>3. Invariant /\ All => TypeOK
  <2> SUFFICES ASSUME Invariant, All PROVE TypeOK
    OBVIOUS
  <2>0. Kept /\ Known /\ Roomy(silo) /\ Neat(mem) /\ Threaded
    BY DEF Invariant
  <2>1. SiloType(silo, Data)
    <3>1. silo.usage \in Int
      BY <2>0, RoomySilo
    <3>2. ASSUME NEW k \in DOMAIN silo.files
          PROVE  silo.files[k] \in [data : Data, size : Nat]
      <4>1. silo.files[k].data \in Data
        BY <2>0, AddressKinds DEF Kept, Shaped, Data, Good
      <4>2. silo.files[k].size \in Nat /\ File(silo.files[k])
        BY <2>0 DEF Roomy
      <4> QED BY <4>1, <4>2 DEF File
    <3> QED BY <2>0, <3>1, <3>2 DEF SiloType, Kept, Shaped
  <2>2. mem \in Memory
    <3>1. mem.decisions \in [Addresses -> Server \cup {None}]
      <4>1. \A a \in Addresses : mem.decisions[a] \in Server \cup {None}
        BY <2>0, AddressKinds DEF Kept, Good
      <4> QED BY <2>0, <4>1 DEF Kept, Indexed, Whole
    <3> QED BY <2>0, <3>1 DEF Kept, Indexed, Whole, Neat, Memory
  <2> QED BY <2>0, <2>1, <2>2 DEF TypeOK, Kept, Known, Threaded
<1> QED BY <1>1, <1>2, <1>3, InvariantHolds, PTL DEF Spec

=============================================================================
