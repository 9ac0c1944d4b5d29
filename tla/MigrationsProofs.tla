--------------------------- MODULE MigrationsProofs ---------------------------
(***************************************************************************)
(* Proofs about Migrations for any number of revisions, any graph of       *)
(* down_revisions and any number of processes that upgrade.  What is       *)
(* proved of the order, a recursive function, goes by the least number at  *)
(* which it would fail.                                                    *)
(***************************************************************************)
EXTENDS Migrations, FiniteSetTheorems, SequenceTheorems, WellFoundedInduction, TLAPS

USE MigrationsAssumption

-----------------------------------------------------------------------------
(* Numbers and recursion.                                                  *)

\* A set of numbers that is not empty has a least one.
LEMMA LeastNumber ==
  ASSUME NEW T \in SUBSET Nat, T # {} PROVE \E x \in T : \A y \in T : x <= y
<1> DEFINE Less == OpToRel(<, Nat)
<1>1. IsWellFoundedOn(Less, Nat)
  BY NatLessThanWellFounded
<1>2. \A x, y \in Nat : x < y => <<x, y>> \in Less
  BY DEF OpToRel
<1> HIDE DEF Less
<1>3. \E x \in T : \A y \in T : <<y, x>> \notin Less
  BY <1>1, WFMin
<1>4. \A x, y \in Nat : ~(x < y) => y <= x
  OBVIOUS
<1> QED
  BY <1>2, <1>3, <1>4

\* What holds of 0 and passes from each number to the next holds of all.
LEMMA AllNumbers ==
  ASSUME NEW N \in Nat, NEW T, 0 \in T, \A n \in 1 .. N : n - 1 \in T => n \in T
  PROVE  0 .. N \subseteq T
<1> SUFFICES ASSUME (0 .. N) \ T # {} PROVE FALSE
  OBVIOUS
<1>1. PICK x \in (0 .. N) \ T : \A y \in (0 .. N) \ T : x <= y
  <2> DEFINE U == (0 .. N) \ T
  <2>1. U \in SUBSET Nat /\ U # {}
    OBVIOUS
  <2> HIDE DEF U
  <2>2. \E x \in U : \A y \in U : x <= y
    BY <2>1, LeastNumber
  <2> QED
    BY <2>2 DEF U
<1>2. x \in 1 .. N /\ x - 1 \in 0 .. N
  BY <1>1
<1>3. x - 1 \notin (0 .. N) \ T
  BY <1>1, <1>2
<1> QED
  BY <1>1, <1>2, <1>3

\* The N-fold iteration of a step function, from a on.
Iteration(N, S, a, g) ==
  {f \in [0 .. N -> S] : f[0] = a /\ \A n \in 1 .. N : f[n] = g[f[n - 1]]}

LEMMA Iterates ==
  ASSUME NEW N \in Nat, NEW S, NEW a \in S, NEW g \in [S -> S]
  PROVE  \E f : f \in Iteration(N, S, a, g)
<1> USE DEF Iteration
<1> DEFINE Iter(n) == Iteration(n, S, a, g)
           T == {n \in Nat : Iter(n) # {}}
<1>1. 0 \in T
  <2>1. [i \in 0 .. 0 |-> a] \in Iter(0)
    OBVIOUS
  <2> QED
    BY <2>1
<1>2. ASSUME NEW n \in 1 .. N, n - 1 \in T PROVE n \in T
  <2>1. PICK f : f \in Iter(n - 1)
    BY <1>2
  <2> DEFINE h == [i \in 0 .. n |-> IF i = n THEN g[f[n - 1]] ELSE f[i]]
  <2>2. f \in [0 .. n - 1 -> S] /\ f[0] = a /\ \A i \in 1 .. n - 1 : f[i] = g[f[i - 1]]
    BY <2>1
  <2>3. \A i \in 0 .. n - 1 : i \in 0 .. n /\ i # n /\ h[i] = f[i] /\ f[i] \in S
    BY <2>2
  <2>4. n - 1 \in 0 .. n - 1 /\ h[n] = g[f[n - 1]]
    OBVIOUS
  <2>5. h \in [0 .. n -> S]
    BY <2>2, <2>3, <2>4
  <2>6. h[0] = a
    BY <2>2, <2>3
  <2>7. \A i \in 1 .. n : h[i] = g[h[i - 1]]
    <3> TAKE i \in 1 .. n
    <3>1. i - 1 \in 0 .. n - 1
      OBVIOUS
    <3> QED
      BY <3>1, <2>2, <2>3, <2>4
  <2>8. h \in Iter(n)
    <3> HIDE DEF h
    <3> QED
      BY <2>5, <2>6, <2>7
  <2> QED
    BY <2>8
<1>3. N \in T
  <2> HIDE DEF T
  <2>1. 0 .. N \subseteq T
    BY <1>1, <1>2, AllNumbers
  <2> QED
    BY <2>1
<1> QED
  BY <1>3

-----------------------------------------------------------------------------
(* The order of the files.                                                 *)

LEMMA LowestOfSet ==
  ASSUME NEW S \in SUBSET Nat, S # {}
  PROVE  Lowest(S) \in S /\ \A q \in S : Lowest(S) <= q
BY LeastNumber DEF Lowest

\* The graphs that down_revisions make of a set of files.
Parents == [Revisions -> Revisions \cup {None}]

\* The rounds in which the order grows.
Rounds(D, down) ==
  {f \in [0 .. Cardinality(D) -> Seq(D)] :
     /\ f[0] = <<>>
     /\ \A n \in 1 .. Cardinality(D) : f[n] = Round(D, down, f[n - 1])
     /\ OrderOf(D, down) = f[Cardinality(D)]}

LEMMA RoundsOfOrder ==
  ASSUME NEW D \in SUBSET Revisions, NEW down \in Parents
  PROVE  /\ IsFiniteSet(D) /\ Cardinality(D) \in Nat
         /\ \E f : f \in Rounds(D, down)
<1> DEFINE N == Cardinality(D)
           Body(g) == [n \in 0 .. N |-> IF n = 0 THEN <<>> ELSE Round(D, down, g[n - 1])]
<1>1. IsFiniteSet(D) /\ N \in Nat
  BY FS_Subset, FS_CardinalityType
<1>2. \A s \in Seq(D) : Round(D, down, s) \in Seq(D)
  <2> TAKE s \in Seq(D)
  <2>1. CASE Ready(D, down, s) # {}
    <3>1. Lowest(Ready(D, down, s)) \in D
      BY <2>1, LowestOfSet DEF Ready
    <3> QED
      BY <2>1, <3>1, AppendProperties DEF Round
  <2>2. CASE Ready(D, down, s) = {}
    BY <2>2 DEF Round
  <2> QED
    BY <2>1, <2>2
<1>3. PICK f \in [0 .. N -> Seq(D)] : f[0] = <<>> /\ \A n \in 1 .. N : f[n] = Round(D, down, f[n - 1])
  <2> DEFINE step == [s \in Seq(D) |-> Round(D, down, s)]
  <2>1. step \in [Seq(D) -> Seq(D)] /\ <<>> \in Seq(D)
    BY <1>2, EmptySeq
  <2>2. \E f \in [0 .. N -> Seq(D)] : f[0] = <<>> /\ \A n \in 1 .. N : f[n] = step[f[n - 1]]
    <3>1. \E f : f \in Iteration(N, Seq(D), <<>>, step)
      <4> HIDE DEF step, N
      <4> QED
        BY <1>1, <2>1, Iterates
    <3> QED
      BY <3>1 DEF Iteration
  <2>3. \A n \in 1 .. N : n - 1 \in 0 .. N
    BY <1>1
  <2> QED
    BY <2>2, <2>3
<1>4. f = Body(f)
  BY <1>1, <1>3
<1> DEFINE sorted == CHOOSE g : g = Body(g)
<1>5. sorted = Body(sorted)
  <2> HIDE DEF Body
  <2> QED
    BY <1>4
<1>6. OrderOf(D, down) = sorted[N]
  BY DEF OrderOf
<1>7. sorted[N] = f[N]
  <2> DEFINE T == {n \in 0 .. N : sorted[n] = f[n]}
  <2> HIDE DEF N, sorted
  <2>1. 0 \in T
    BY <1>1, <1>3, <1>5
  <2>2. ASSUME NEW n \in 1 .. N, n - 1 \in T PROVE n \in T
    <3>1. n \in 0 .. N /\ n # 0 /\ sorted[n - 1] = f[n - 1]
      BY <1>1, <2>2
    <3>2. sorted[n] = Round(D, down, sorted[n - 1])
      BY <1>5, <3>1
    <3> QED
      BY <1>3, <3>1, <3>2
  <2>3. 0 .. N \subseteq T
    <3> HIDE DEF T
    <3> QED
      BY <1>1, <2>1, <2>2, AllNumbers
  <2>4. N \in 0 .. N
    BY <1>1
  <2> QED
    BY <2>3, <2>4
<1> HIDE DEF sorted
<1>8. f \in Rounds(D, down)
  BY <1>3, <1>6, <1>7 DEF Rounds
<1> QED
  BY <1>1, <1>8

\* No file comes twice, and none before the one it depends on.
WellOrdered(s, down) ==
  /\ \A i, k \in 1 .. Len(s) : s[i] = s[k] => i = k
  /\ \A i \in 1 .. Len(s) : down[s[i]] = None \/ \E k \in 1 .. i - 1 : s[k] = down[s[i]]

\* At every place the lowest file of D that is ready there.
LowestFirst(D, down, s) ==
  \A i \in 1 .. Len(s), q \in D :
    /\ \A j \in 1 .. i - 1 : s[j] # q
    /\ down[q] = None \/ \E j \in 1 .. i - 1 : s[j] = down[q]
    => s[i] <= q

\* The files of a well-ordered sequence are as many as its places.
LEMMA SizeOfOrder ==
  ASSUME NEW D, NEW s \in Seq(D), NEW down, WellOrdered(s, down)
  PROVE  Cardinality(SeqSet(s)) = Len(s) /\ SeqSet(s) \subseteq D
<1>1. Len(s) \in Nat /\ DOMAIN s = 1 .. Len(s) /\ \A i \in 1 .. Len(s) : s[i] \in D
  BY ElementOfSeq
<1>2. s \in [1 .. Len(s) -> SeqSet(s)]
  BY <1>1 DEF SeqSet
<1>3. s \in Bijection(1 .. Len(s), SeqSet(s))
  <2>1. \A i, k \in 1 .. Len(s) : s[i] = s[k] => i = k
    BY DEF WellOrdered
  <2>2. \A x \in SeqSet(s) : \E i \in 1 .. Len(s) : s[i] = x
    BY <1>1 DEF SeqSet
  <2> QED
    BY <1>2, <2>1, <2>2 DEF Bijection, Injection, IsInjective, Surjection
<1>4. ExistsBijection(1 .. Len(s), SeqSet(s))
  BY <1>3 DEF ExistsBijection
<1> QED
  BY <1>1, <1>4, FS_CountingElements DEF SeqSet

\* What a round makes of a well-ordered sequence.
LEMMA RoundGrows ==
  ASSUME NEW D \in SUBSET Revisions, NEW down \in Parents, NEW s \in Seq(D), WellOrdered(s, down)
  PROVE  /\ WellOrdered(Round(D, down, s), down)
         /\ Ready(D, down, s) = {} => Round(D, down, s) = s
         /\ Ready(D, down, s) # {} => Len(Round(D, down, s)) = Len(s) + 1
         /\ LowestFirst(D, down, s) => LowestFirst(D, down, Round(D, down, s))
<1>1. Len(s) \in Nat /\ DOMAIN s = 1 .. Len(s)
  OBVIOUS
<1>2. CASE Ready(D, down, s) = {}
  BY <1>2 DEF Round
<1>3. CASE Ready(D, down, s) # {}
  <2> DEFINE r == Lowest(Ready(D, down, s))
  <2>1. /\ r \in D /\ r \notin SeqSet(s) /\ (down[r] = None \/ down[r] \in SeqSet(s))
        /\ \A q \in Ready(D, down, s) : r <= q
    BY <1>3, LowestOfSet DEF Ready
  <2> HIDE DEF r
  <2>2. Round(D, down, s) = Append(s, r)
    BY <1>3 DEF Round, r
  <2> DEFINE t == Append(s, r)
  <2>3. /\ Len(t) = Len(s) + 1 /\ t[Len(s) + 1] = r
        /\ \A i \in 1 .. Len(s) : t[i] = s[i] /\ t[i] # r
    BY <1>1, <2>1, AppendProperties DEF SeqSet
  <2>4. down[r] = None \/ \E k \in 1 .. Len(s) : s[k] = down[r]
    BY <1>1, <2>1 DEF SeqSet
  <2> HIDE DEF t
  <2>5. \A i, k \in 1 .. Len(t) : t[i] = t[k] => i = k
    BY <1>1, <2>3 DEF WellOrdered
  <2>6. ASSUME NEW i \in 1 .. Len(t)
        PROVE  down[t[i]] = None \/ \E k \in 1 .. i - 1 : t[k] = down[t[i]]
    <3>1. CASE i = Len(s) + 1
      BY <1>1, <2>3, <2>4, <3>1
    <3>2. CASE i \in 1 .. Len(s)
      BY <1>1, <2>3, <3>2 DEF WellOrdered
    <3> QED
      BY <1>1, <2>3, <3>1, <3>2
  <2>7. WellOrdered(t, down)
    BY <2>5, <2>6 DEF WellOrdered
  <2>8. ASSUME LowestFirst(D, down, s), NEW i \in 1 .. Len(t), NEW q \in D,
               \A j \in 1 .. i - 1 : t[j] # q, down[q] = None \/ \E j \in 1 .. i - 1 : t[j] = down[q]
        PROVE  t[i] <= q
    <3>1. \A j \in 1 .. i - 1 : j \in 1 .. Len(s)
      BY <1>1, <2>3
    <3>2. CASE i = Len(s) + 1
      <4>1. i - 1 = Len(s)
        BY <1>1, <3>2
      <4>2. q \in Ready(D, down, s)
        BY <1>1, <2>3, <2>8, <4>1 DEF Ready, SeqSet
      <4> QED
        BY <2>1, <2>3, <3>2, <4>2
    <3>3. CASE i \in 1 .. Len(s)
      BY <2>3, <2>8, <3>1, <3>3 DEF LowestFirst
    <3> QED
      BY <1>1, <2>3, <3>2, <3>3
  <2>9. LowestFirst(D, down, s) => LowestFirst(D, down, t)
    BY <2>8 DEF LowestFirst
  <2> QED
    BY <1>3, <2>2, <2>3, <2>7, <2>9 DEF t
<1> QED
  BY <1>2, <1>3

\* The rounds add one file each until none is ready, and nothing after that.
LEMMA RoundsGrow ==
  ASSUME NEW D \in SUBSET Revisions, NEW down \in Parents, NEW f \in Rounds(D, down),
         NEW n \in 0 .. Cardinality(D)
  PROVE  /\ f[n] \in Seq(D) /\ WellOrdered(f[n], down) /\ Len(f[n]) <= n
         /\ LowestFirst(D, down, f[n])
         /\ Len(f[n]) = n \/ Ready(D, down, f[n]) = {}
         /\ \A m \in 0 .. n : Ready(D, down, f[m]) = {} => f[n] = f[m]
<1> DEFINE N == Cardinality(D)
           Grown(i) == /\ WellOrdered(f[i], down) /\ LowestFirst(D, down, f[i]) /\ Len(f[i]) <= i
                       /\ Len(f[i]) = i \/ Ready(D, down, f[i]) = {}
                       /\ \A m \in 0 .. i : Ready(D, down, f[m]) = {} => f[i] = f[m]
           T == {i \in 0 .. N : Grown(i)}
<1>1. N \in Nat /\ f \in [0 .. N -> Seq(D)]
  BY RoundsOfOrder DEF Rounds
<1>2. 0 \in T
  <2>1. f[0] = <<>> /\ Len(f[0]) = 0
    BY DEF Rounds
  <2> QED
    BY <1>1, <2>1 DEF WellOrdered, LowestFirst
<1>3. ASSUME NEW i \in 1 .. N, i - 1 \in T PROVE i \in T
  <2>1. i - 1 \in 0 .. N /\ i \in 0 .. N /\ Grown(i - 1) /\ f[i - 1] \in Seq(D) /\ Len(f[i - 1]) \in Nat
    BY <1>1, <1>3
  <2>2. f[i] = Round(D, down, f[i - 1])
    BY DEF Rounds
  <2>3. WellOrdered(f[i], down) /\ LowestFirst(D, down, f[i])
    BY <2>1, <2>2, RoundGrows
  <2>4. CASE Ready(D, down, f[i - 1]) = {}
    <3>1. f[i] = f[i - 1]
      BY <2>1, <2>2, <2>4, RoundGrows
    <3>2. \A m \in 0 .. i : m = i \/ m \in 0 .. i - 1
      BY <1>1
    <3> QED
      BY <2>1, <2>3, <2>4, <3>1, <3>2
  <2>5. CASE Ready(D, down, f[i - 1]) # {}
    <3>1. Len(f[i]) = i
      BY <2>1, <2>2, <2>5, RoundGrows
    <3>2. \A m \in 0 .. i : m = i \/ (m \in 0 .. i - 1 /\ (Ready(D, down, f[m]) = {} => f[i - 1] = f[m]))
      BY <1>1, <2>1
    <3> QED
      BY <2>1, <2>3, <2>5, <3>1, <3>2
  <2> QED
    BY <2>4, <2>5
<1>4. 0 .. N \subseteq T
  <2> HIDE DEF T, N
  <2> QED
    BY <1>1, <1>2, <1>3, AllNumbers
<1> QED
  BY <1>1, <1>4

\* migrations() returns its files once each, in an order in which nothing
\* precedes what it depends on, and leaves out no file that is ready.
LEMMA OrderIsSound ==
  ASSUME NEW D \in SUBSET Revisions, NEW down \in Parents
  PROVE  /\ OrderOf(D, down) \in Seq(D)
         /\ WellOrdered(OrderOf(D, down), down) /\ LowestFirst(D, down, OrderOf(D, down))
         /\ Len(OrderOf(D, down)) = Cardinality(SeqSet(OrderOf(D, down)))
         /\ Ready(D, down, OrderOf(D, down)) = {}
<1>1. PICK f : f \in Rounds(D, down)
  BY RoundsOfOrder
<1> DEFINE N == Cardinality(D)
           s == OrderOf(D, down)
<1>2. IsFiniteSet(D) /\ N \in Nat /\ N \in 0 .. N /\ s = f[N]
  BY <1>1, RoundsOfOrder DEF Rounds
<1>3. /\ s \in Seq(D) /\ WellOrdered(s, down) /\ LowestFirst(D, down, s)
      /\ Len(s) = N \/ Ready(D, down, s) = {}
  <2> HIDE DEF s
  <2> QED
    BY <1>1, <1>2, RoundsGrow
<1>4. Cardinality(SeqSet(s)) = Len(s) /\ SeqSet(s) \subseteq D
  BY <1>3, SizeOfOrder
<1>5. Len(s) = N => SeqSet(s) = D
  BY <1>2, <1>4, FS_Subset
<1>6. SeqSet(s) = D => Ready(D, down, s) = {}
  BY DEF Ready
<1> QED
  BY <1>3, <1>4, <1>5, <1>6

\* Two orders, each by the lowest file that is ready, have the files they
\* share in the same order: at the first place where they did not, both the
\* files in question were ready in both, and each was the lower one.
LEMMA OrdersOfOneGraphAgree ==
  ASSUME NEW s \in Seq(Revisions), NEW t \in Seq(Revisions), NEW down \in Parents,
         WellOrdered(s, down), LowestFirst(SeqSet(s), down, s),
         WellOrdered(t, down), LowestFirst(SeqSet(t), down, t)
  PROVE  \A i, j \in 1 .. Len(s), k, l \in 1 .. Len(t) :
           s[i] = t[k] /\ s[j] = t[l] => (i < j <=> k < l)
<1>1. /\ Len(s) \in Nat /\ DOMAIN s = 1 .. Len(s) /\ \A i \in 1 .. Len(s) : s[i] \in Nat
      /\ Len(t) \in Nat /\ DOMAIN t = 1 .. Len(t) /\ \A k \in 1 .. Len(t) : t[k] \in Nat
  <2>1. \A x \in Revisions : x \in Nat
    OBVIOUS
  <2>2. (\A i \in 1 .. Len(s) : s[i] \in Revisions) /\ (\A k \in 1 .. Len(t) : t[k] \in Revisions)
    BY ElementOfSeq
  <2>3. Len(s) \in Nat /\ DOMAIN s = 1 .. Len(s) /\ Len(t) \in Nat /\ DOMAIN t = 1 .. Len(t)
    OBVIOUS
  <2> QED
    BY <2>1, <2>2, <2>3
<1> DEFINE Conflict(i, j, k, l) == i < j /\ l < k /\ s[i] = t[k] /\ s[j] = t[l]
           I == {i \in 1 .. Len(s) : \E j \in 1 .. Len(s), k, l \in 1 .. Len(t) : Conflict(i, j, k, l)}
<1>2. I = {}
  <2> SUFFICES ASSUME I # {} PROVE FALSE
    OBVIOUS
  <2>1. PICK i \in I : \A a \in I : i <= a
    <3>1. I \in SUBSET Nat
      OBVIOUS
    <3> HIDE DEF I
    <3> QED
      BY <3>1, LeastNumber
  <2> DEFINE L == {l \in 1 .. Len(t) : \E j \in 1 .. Len(s), k \in 1 .. Len(t) : Conflict(i, j, k, l)}
  <2>2. PICK l \in L : \A b \in L : l <= b
    <3>1. L \in SUBSET Nat
      OBVIOUS
    <3>2. \E l \in 1 .. Len(t) : \E j \in 1 .. Len(s), k \in 1 .. Len(t) : Conflict(i, j, k, l)
      <4> HIDE DEF Conflict
      <4> QED
        BY <2>1
    <3>3. L # {}
      <4> HIDE DEF Conflict
      <4> QED
        BY <3>2
    <3> HIDE DEF L
    <3> QED
      BY <3>1, <3>3, LeastNumber
  <2>3. PICK j \in 1 .. Len(s), k \in 1 .. Len(t) : Conflict(i, j, k, l)
    BY <2>2
  <2>4. i \in 1 .. Len(s) /\ l \in 1 .. Len(t)
    BY <2>1, <2>2
  <2>5. down[s[j]] = None \/ \E a \in 1 .. i - 1 : s[a] = down[s[j]]
    <3> SUFFICES ASSUME down[s[j]] # None PROVE \E a \in 1 .. i - 1 : s[a] = down[s[j]]
      OBVIOUS
    <3>1. PICK a \in 1 .. j - 1 : s[a] = down[s[j]]
      BY DEF WellOrdered
    <3>2. PICK b \in 1 .. l - 1 : t[b] = down[s[j]]
      BY <2>3, <2>4 DEF WellOrdered
    <3>3. a \in 1 .. Len(s) /\ b \in 1 .. Len(t) /\ b < l /\ b < k
      BY <1>1, <2>3, <2>4, <3>1, <3>2
    <3>4. a # i
      <4>1. a = i => t[b] = t[k]
        BY <2>3, <3>1, <3>2
      <4> QED
        BY <3>3, <4>1 DEF WellOrdered
    <3>5. ~(i < a)
      <4>1. i < a => b \in L
        BY <2>3, <3>1, <3>2, <3>3
      <4> QED
        BY <1>1, <2>2, <2>4, <3>3, <4>1
    <3> QED
      <4>1. a \in 1 .. i - 1
        BY <1>1, <2>4, <3>3, <3>4, <3>5
      <4> QED
        BY <3>1, <4>1
  <2>6. down[t[k]] = None \/ \E b \in 1 .. l - 1 : t[b] = down[t[k]]
    <3> SUFFICES ASSUME down[t[k]] # None PROVE \E b \in 1 .. l - 1 : t[b] = down[t[k]]
      OBVIOUS
    <3>1. PICK b \in 1 .. k - 1 : t[b] = down[t[k]]
      BY DEF WellOrdered
    <3>2. PICK a \in 1 .. i - 1 : s[a] = down[t[k]]
      BY <2>3, <2>4 DEF WellOrdered
    <3>3. a \in 1 .. Len(s) /\ b \in 1 .. Len(t) /\ a < i /\ a < j
      BY <1>1, <2>3, <2>4, <3>1, <3>2
    <3>4. b # l
      <4>1. b = l => s[a] = s[j]
        BY <2>3, <3>1, <3>2
      <4> QED
        BY <3>3, <4>1 DEF WellOrdered
    <3>5. ~(l < b)
      <4>1. l < b => a \in I
        BY <2>3, <2>4, <3>1, <3>2, <3>3
      <4>2. a \in I => i <= a
        <5> HIDE DEF I
        <5> QED
          BY <2>1
      <4> QED
        BY <1>1, <2>4, <3>3, <4>1, <4>2
    <3> QED
      <4>1. b \in 1 .. l - 1
        BY <1>1, <2>4, <3>3, <3>4, <3>5
      <4> QED
        BY <3>1, <4>1
  <2>7. s[i] <= s[j]
    <3>0. s[j] \in SeqSet(s)
      BY <1>1, <2>3 DEF SeqSet
    <3>1. ASSUME NEW a \in 1 .. i - 1 PROVE a \in 1 .. Len(s) /\ a # j
      <4>1. i \in 1 .. Len(s) /\ i < j
        BY <2>3, <2>4
      <4> HIDE DEF I, L, Conflict
      <4> QED
        BY <1>1, <4>1
    <3>2. \A a \in 1 .. i - 1 : s[a] # s[j]
      BY <3>1 DEF WellOrdered
    <3> QED
      BY <2>4, <2>5, <3>0, <3>2 DEF LowestFirst
  <2>8. t[l] <= t[k]
    <3>0. t[k] \in SeqSet(t)
      BY <1>1, <2>3 DEF SeqSet
    <3>1. ASSUME NEW b \in 1 .. l - 1 PROVE b \in 1 .. Len(t) /\ b # k
      <4>1. l \in 1 .. Len(t) /\ l < k
        BY <2>3, <2>4
      <4> HIDE DEF I, L, Conflict
      <4> QED
        BY <1>1, <4>1
    <3>2. \A b \in 1 .. l - 1 : t[b] # t[k]
      BY <3>1 DEF WellOrdered
    <3> QED
      BY <2>4, <2>6, <3>0, <3>2 DEF LowestFirst
  <2>9. s[i] = s[j]
    BY <1>1, <2>3, <2>4, <2>7, <2>8
  <2> QED
    BY <1>1, <2>3, <2>4, <2>9 DEF WellOrdered
<1>3. ASSUME NEW i \in 1 .. Len(s), NEW j \in 1 .. Len(s), NEW k \in 1 .. Len(t), NEW l \in 1 .. Len(t),
             s[i] = t[k], s[j] = t[l]
      PROVE  i < j <=> k < l
  <2>1. ~Conflict(i, j, k, l) /\ ~Conflict(j, i, l, k)
    BY <1>2
  <2>2. i = j <=> k = l
    BY <1>3 DEF WellOrdered
  <2> QED
    BY <1>1, <1>3, <2>1, <2>2
<1> QED
  BY <1>3

\* The graphs with a migration that no chain reaches are those whose order
\* is not complete.
LEMMA CompleteIffRooted ==
  ASSUME NEW D \in SUBSET Revisions, NEW down \in Parents
  PROVE  SeqSet(OrderOf(D, down)) = D <=> D \subseteq RootedIn(D, down)
<1> DEFINE N == Cardinality(D)
           S == SUBSET (D \cup {None})
           More(X) == {None} \cup {r \in D : down[r] \in X}
           Body(g) == [n \in 0 .. N |-> IF n = 0 THEN {None} ELSE {None} \cup {r \in D : down[r] \in g[n - 1]}]
           s == OrderOf(D, down)
<1>1. /\ IsFiniteSet(D) /\ N \in Nat
      /\ s \in Seq(D) /\ WellOrdered(s, down) /\ Ready(D, down, s) = {}
      /\ Len(s) = Cardinality(SeqSet(s))
  BY RoundsOfOrder, OrderIsSound
<1>2. PICK f : /\ f[0] = {None} /\ \A n \in 1 .. N : f[n] = More(f[n - 1])
               /\ RootedIn(D, down) = f[N]
  <2> DEFINE step == [X \in S |-> More(X)]
  <2>1. step \in [S -> S] /\ {None} \in S
    OBVIOUS
  <2>2. PICK g : g \in Iteration(N, S, {None}, step)
    <3> HIDE DEF step, S, N
    <3> QED
      BY <1>1, <2>1, Iterates
  <2>3. g = Body(g)
    <3> HIDE DEF N
    <3>1. g \in [0 .. N -> S] /\ g[0] = {None} /\ \A n \in 1 .. N : g[n] = step[g[n - 1]]
      BY <2>2 DEF Iteration
    <3>2. \A n \in 0 .. N : n # 0 => n \in 1 .. N /\ n - 1 \in 0 .. N
      BY <1>1
    <3>3. \A n \in 0 .. N : g[n] = IF n = 0 THEN {None} ELSE More(g[n - 1])
      BY <3>1, <3>2
    <3> QED
      BY <3>1, <3>3
  <2> DEFINE rooted == CHOOSE g_ : g_ = Body(g_)
  <2>4. rooted = Body(rooted)
    <3> HIDE DEF Body
    <3> QED
      BY <2>3
  <2>5. RootedIn(D, down) = rooted[N]
    BY DEF RootedIn
  <2> HIDE DEF rooted, N
  <2>6. rooted[0] = {None} /\ \A n \in 1 .. N : rooted[n] = More(rooted[n - 1])
    BY <1>1, <2>4
  <2> QED
    BY <2>5, <2>6
<1> HIDE DEF N, s
<1>3. ASSUME SeqSet(s) = D PROVE D \subseteq f[N]
  <2>1. Len(s) = N /\ DOMAIN s = 1 .. N
    BY <1>1, <1>3 DEF N
  <2> DEFINE T == {n \in 0 .. N : \A i \in 1 .. n : s[i] \in f[n]}
  <2>2. 0 \in T
    BY <1>1
  <2>3. ASSUME NEW n \in 1 .. N, n - 1 \in T PROVE n \in T
    <3> SUFFICES ASSUME NEW i \in 1 .. n PROVE s[i] \in f[n]
      BY <1>1
    <3>1. i \in 1 .. Len(s) /\ s[i] \in D
      BY <1>1, <2>1
    <3>2. None \in f[n - 1]
      BY <1>1, <1>2, <2>3
    <3>3. down[s[i]] \in f[n - 1]
      <4>1. down[s[i]] = None \/ \E k \in 1 .. i - 1 : s[k] = down[s[i]]
        BY <1>1, <3>1 DEF WellOrdered
      <4>2. \A k \in 1 .. i - 1 : s[k] \in f[n - 1]
        BY <1>1, <2>3
      <4> QED
        BY <3>2, <4>1, <4>2
    <3> QED
      BY <1>2, <3>1, <3>3
  <2>4. 0 .. N \subseteq T
    <3> HIDE DEF T
    <3> QED
      BY <1>1, <2>2, <2>3, AllNumbers
  <2>5. \A i \in 1 .. N : s[i] \in f[N]
    BY <1>1, <2>4
  <2> QED
    BY <1>3, <2>1, <2>5 DEF SeqSet
<1>4. ASSUME D \subseteq f[N] PROVE D = SeqSet(s)
  <2> DEFINE T == {n \in 0 .. N : f[n] \subseteq SeqSet(s) \cup {None}}
  <2>1. 0 \in T
    BY <1>1, <1>2
  <2>2. ASSUME NEW n \in 1 .. N, n - 1 \in T PROVE n \in T
    <3>1. \A r \in D : down[r] \in f[n - 1] => r \in SeqSet(s)
      BY <1>1, <2>2 DEF Ready
    <3>2. f[n] = More(f[n - 1]) /\ n \in 0 .. N
      BY <1>1, <1>2
    <3> QED
      BY <3>1, <3>2
  <2>3. 0 .. N \subseteq T
    <3> HIDE DEF T
    <3> QED
      BY <1>1, <2>1, <2>2, AllNumbers
  <2>4. f[N] \subseteq SeqSet(s) \cup {None}
    BY <1>1, <2>3
  <2>5. SeqSet(s) \subseteq D
    BY <1>1, SizeOfOrder
  <2> QED
    BY <1>4, <2>4, <2>5
<1> QED
  BY <1>2, <1>3, <1>4 DEF s

-----------------------------------------------------------------------------
(* The beginnings of an order.                                             *)

LEMMA FilesOfOrder == ASSUME NEW D, NEW s \in Seq(D) PROVE SeqSet(s) \subseteq D
BY ElementOfSeq DEF SeqSet

\* What is left of WellOrdered when a file has been overwritten: it may
\* depend on itself.
Follows(s, down) ==
  /\ \A i, k \in 1 .. Len(s) : s[i] = s[k] => i = k
  /\ \A i \in 1 .. Len(s) : down[s[i]] = None \/ \E k \in 1 .. i : s[k] = down[s[i]]

LEMMA UpToIsInitial ==
  ASSUME NEW D, NEW s \in Seq(D), NEW down, Follows(s, down), NEW r
  PROVE  /\ UpTo(s, r) \subseteq SeqSet(s)
         /\ r \in SeqSet(s) => r \in UpTo(s, r)
         /\ \A x \in UpTo(s, r) : down[x] = None \/ down[x] \in UpTo(s, r)
<1>1. Len(s) \in Nat /\ DOMAIN s = 1 .. Len(s)
  OBVIOUS
<1>2. ASSUME NEW x \in UpTo(s, r) PROVE down[x] = None \/ down[x] \in UpTo(s, r)
  <2>1. PICK i \in 1 .. Len(s), k \in 1 .. Len(s) : x = s[i] /\ s[k] = r /\ i <= k
    BY <1>1 DEF UpTo
  <2>2. ASSUME NEW j \in 1 .. i PROVE s[j] \in UpTo(s, r)
    <3>1. j \in 1 .. Len(s) /\ j <= k
      BY <1>1, <2>1
    <3> QED
      BY <1>1, <2>1, <3>1 DEF UpTo
  <2> QED
    BY <2>1, <2>2 DEF Follows
<1> QED
  BY <1>1, <1>2 DEF UpTo, SeqSet

\* Of the files that are left, the first is ahead of all of them and depends
\* on no other.
LEMMA FirstOfSet ==
  ASSUME NEW D, NEW s \in Seq(D), NEW down, Follows(s, down),
         NEW T \in SUBSET SeqSet(s), T # {}
  PROVE  /\ FirstOf(s, T) \in T /\ \A q \in T : FirstOf(s, T) \in UpTo(s, q)
         /\ down[FirstOf(s, T)] \in {None, FirstOf(s, T)} \/ down[FirstOf(s, T)] \notin T
<1> DEFINE c == FirstOf(s, T)
<1>1. Len(s) \in Nat /\ DOMAIN s = 1 .. Len(s)
  OBVIOUS
<1>2. \E r \in T : \A q \in T : r \in UpTo(s, q)
  <2> DEFINE I == {i \in 1 .. Len(s) : s[i] \in T}
  <2>1. I # {} /\ I \subseteq Nat
    BY <1>1 DEF SeqSet
  <2>2. PICK i \in I : \A k \in I : i <= k
    <3> HIDE DEF I
    <3> QED
      BY <2>1, LeastNumber
  <2>3. ASSUME NEW q \in T PROVE s[i] \in UpTo(s, q)
    <3>1. PICK k \in 1 .. Len(s) : s[k] = q
      BY <1>1 DEF SeqSet
    <3>2. i <= k
      BY <2>2, <3>1
    <3> QED
      BY <1>1, <3>1, <3>2 DEF UpTo
  <2> QED
    BY <2>3
<1>3. c \in T /\ \A q \in T : c \in UpTo(s, q)
  BY <1>2 DEF FirstOf
<1> HIDE DEF c
<1>4. ASSUME down[c] \notin {None, c}, down[c] \in T PROVE FALSE
  <2>1. PICK i \in 1 .. Len(s), k \in 1 .. Len(s) : c = s[i] /\ s[k] = down[c] /\ i <= k
    BY <1>1, <1>3, <1>4 DEF UpTo
  <2>2. PICK j \in 1 .. i : s[j] = down[c]
    BY <1>4, <2>1 DEF Follows
  <2>3. j \in 1 .. Len(s) /\ j <= i
    BY <1>1, <2>1
  <2>4. j = k
    BY <2>1, <2>2, <2>3 DEF Follows
  <2>5. i = k
    BY <1>1, <2>1, <2>3, <2>4
  <2> QED
    BY <1>4, <2>1, <2>5
<1> QED
  BY <1>3, <1>4 DEF c

-----------------------------------------------------------------------------
(* The inductive invariant.                                                *)

\* What a process has loaded.
Loaded(u) ==
  /\ order[u] \in Seq(disk)
  /\ Follows(order[u], parent)
  /\ target[u] \in SeqSet(order[u]) \cup {None}

\* How far the transaction of a process is, and what it leaves to others.
Session(u) ==
  /\ pc[u] \notin {"seed", "loop", "record"} => recorded[u] = {}
  /\ pc[u] \notin {"loop", "record"} => executed[u] = {}
  /\ pc[u] \in {"loop", "record"} => known[u] \subseteq applied \cup recorded[u]
  /\ pc[u] = "record" => Todo(u) # {}
  /\ executed[u] \subseteq recorded[u] \cup (IF pc[u] = "record" THEN {Current(u)} ELSE {})
  /\ recorded[u] \subseteq SeqSet(order[u])
  /\ \A r \in recorded[u] : parent[r] = None \/ parent[r] \in applied \cup recorded[u]
  /\ pc[u] = "done" =>
       IF target[u] = None THEN SeqSet(order[u]) \subseteq applied ELSE target[u] \in applied

\* The graph that all the processes have loaded parts of: that of the files,
\* but for files that have been overwritten and depend on themselves now.
Graph(down) ==
  /\ \A q \in disk : parent[q] \in {down[q], q}
  /\ \A u \in Upgrades :
       /\ WellOrdered(order[u], down)
       /\ LowestFirst(SeqSet(order[u]), down, order[u])

OneGraph == \E down \in Parents : Graph(down)

\* Open transactions have inserted different rows, and none that is stored.
Apart ==
  /\ \A u \in Upgrades : recorded[u] \cap applied = {}
  /\ \A u, v \in Upgrades : u # v => recorded[u] \cap recorded[v] = {}

Stored == applied \subseteq disk /\ seeded \subseteq applied /\ RunsOnce /\ ParentsFirst

MigrationsInv ==
  /\ TypeOK
  /\ \A u \in Upgrades : Loaded(u) /\ Session(u)
  /\ OneGraph
  /\ Apart
  /\ Stored

LEMMA MigrationsInvInit == Init => MigrationsInv
<1> SUFFICES ASSUME Init PROVE MigrationsInv
  OBVIOUS
<1>1. <<>> \in Seq(Revisions) /\ <<>> \in Seq(disk) /\ Len(<<>>) = 0 /\ SeqSet(<<>>) = {}
  BY EmptySeq DEF SeqSet
<1>2. TypeOK
  <2>1. disk \in SUBSET Revisions
    BY DEF Init
  <2> QED
    BY <1>1, <2>1 DEF Init, TypeOK
<1>3. ASSUME NEW u \in Upgrades PROVE Loaded(u)
  BY <1>1 DEF Init, Loaded, Follows
<1>4. ASSUME NEW u \in Upgrades PROVE Session(u)
  BY DEF Init, Session
<1>5. Apart /\ Stored
  BY DEF Init, Apart, Stored, RunsOnce, ParentsFirst
<1>6. OneGraph
  BY <1>1 DEF Init, OneGraph, Graph, Parents, WellOrdered, LowestFirst
<1> QED
  BY <1>2, <1>3, <1>4, <1>5, <1>6 DEF MigrationsInv

-----------------------------------------------------------------------------
(* The steps.                                                              *)

SameLocal(v) ==
  /\ pc'[v] = pc[v] /\ target'[v] = target[v] /\ known'[v] = known[v] /\ order'[v] = order[v]
  /\ executed'[v] = executed[v] /\ recorded'[v] = recorded[v]

\* What others do to the database does not disturb a process.
LEMMA OthersStand ==
  ASSUME NEW v \in Upgrades, Loaded(v), Session(v), SameLocal(v), UNCHANGED files,
         applied \subseteq applied'
  PROVE  Loaded(v)' /\ Session(v)'
<1>1. UNCHANGED <<disk, parent>>
  BY DEF files
<1>2. Todo(v)' = Todo(v)
  BY DEF SameLocal, Todo, Scope
<1>3. Current(v)' = Current(v)
  BY <1>2 DEF SameLocal, Current
<1>4. Loaded(v)'
  BY <1>1 DEF SameLocal, Loaded
<1>5. Session(v)'
  BY <1>1, <1>2, <1>3 DEF SameLocal, Session
<1> QED
  BY <1>4, <1>5

\* An order that is dropped leaves the others theirs.
LEMMA OneGraphStays ==
  ASSUME MigrationsInv, UNCHANGED files, \A v \in Upgrades : order'[v] \in {order[v], <<>>}
  PROVE  OneGraph'
<1>1. PICK down \in Parents : Graph(down)
  BY DEF MigrationsInv, OneGraph
<1>2. WellOrdered(<<>>, down) /\ LowestFirst(SeqSet(<<>>), down, <<>>)
  BY DEF WellOrdered, LowestFirst
<1>3. Graph(down)'
  BY <1>1, <1>2 DEF Graph, files
<1> QED
  BY <1>3 DEF OneGraph, Parents

\* A step of one process inside its transaction.
LEMMA LocalStep ==
  ASSUME MigrationsInv, NEW u \in Upgrades, UNCHANGED <<files, db>>, TypeOK',
         \A v \in Upgrades \ {u} : SameLocal(v), Loaded(u)', Session(u)',
         order'[u] \in {order[u], <<>>} \/ OneGraph',
         \A r \in recorded'[u] : r \notin applied /\ \A v \in Upgrades \ {u} : r \notin recorded[v]
  PROVE  MigrationsInv'
<1>1. \A v \in Upgrades : Loaded(v)' /\ Session(v)'
  BY OthersStand DEF MigrationsInv, db
<1>2. Apart'
  BY DEF MigrationsInv, Apart, SameLocal, db
<1>3. Stored'
  BY DEF MigrationsInv, Stored, RunsOnce, ParentsFirst, files, db
<1>4. OneGraph'
  <2> SUFFICES ASSUME order'[u] \in {order[u], <<>>} PROVE OneGraph'
    OBVIOUS
  <2>1. \A v \in Upgrades : order'[v] \in {order[v], <<>>}
    BY DEF SameLocal
  <2> QED
    BY <2>1, OneGraphStays
<1> QED
  BY <1>1, <1>2, <1>3, <1>4 DEF MigrationsInv

LEMMA UndoKeepsInv == ASSUME MigrationsInv, NEW u \in Upgrades, Undo(u) PROVE MigrationsInv'
<1> USE DEF MigrationsInv
<1>1. <<>> \in Seq(Revisions) /\ <<>> \in Seq(disk) /\ Len(<<>>) = 0 /\ SeqSet(<<>>) = {}
  BY EmptySeq DEF SeqSet
<1>2. UNCHANGED <<files, db>> /\ UNCHANGED <<disk, parent>>
  BY DEF Undo, files
<1>3. TypeOK'
  BY <1>1 DEF Undo, TypeOK, files, db
<1>4. /\ pc'[u] = "idle" /\ target'[u] = None /\ order'[u] = <<>> /\ executed'[u] = {} /\ recorded'[u] = {}
      /\ \A v \in Upgrades \ {u} : SameLocal(v)
  BY DEF Undo, TypeOK, SameLocal
<1>5. Loaded(u)'
  BY <1>1, <1>2, <1>4 DEF Loaded, Follows
<1>6. Session(u)'
  BY <1>4 DEF Session
<1> QED
  BY <1>2, <1>3, <1>4, <1>5, <1>6, LocalStep

\* Where two graphs are the same, so are their orders.
LEMMA SameGraph ==
  ASSUME NEW D, NEW s \in Seq(D), NEW down, NEW new, \A q \in D : new[q] = down[q]
  PROVE  /\ WellOrdered(s, down) => WellOrdered(s, new)
         /\ LowestFirst(SeqSet(s), down, s) => LowestFirst(SeqSet(s), new, s)
<1>1. \A i \in 1 .. Len(s) : new[s[i]] = down[s[i]]
  BY ElementOfSeq
<1>2. \A q \in SeqSet(s) : new[q] = down[q]
  BY FilesOfOrder
<1> QED
  BY <1>1, <1>2 DEF WellOrdered, LowestFirst

\* Files that load have no file that depends on itself.
LEMMA LoadedGraph ==
  ASSUME MigrationsInv, Loads
  PROVE  /\ DependencyOrder \in Seq(disk) /\ SeqSet(DependencyOrder) = disk
         /\ WellOrdered(DependencyOrder, parent) /\ LowestFirst(disk, parent, DependencyOrder)
         /\ \A q \in disk : parent[q] # q
<1>1. /\ DependencyOrder \in Seq(disk) /\ SeqSet(DependencyOrder) = disk
      /\ WellOrdered(DependencyOrder, parent) /\ LowestFirst(disk, parent, DependencyOrder)
  BY OrderIsSound DEF MigrationsInv, TypeOK, Parents, DependencyOrder, Loads, Blocked
<1> DEFINE t == DependencyOrder
<1> HIDE DEF t
<1>2. ASSUME NEW q \in disk, parent[q] = q PROVE FALSE
  <2>1. Len(t) \in Nat /\ DOMAIN t = 1 .. Len(t)
    BY <1>1 DEF t
  <2>2. PICK i \in 1 .. Len(t) : t[i] = q
    BY <1>1, <2>1 DEF SeqSet, t
  <2>3. q # None
    BY DEF MigrationsInv, TypeOK
  <2>4. PICK k \in 1 .. i - 1 : t[k] = q
    BY <1>1, <1>2, <2>2, <2>3 DEF WellOrdered, t
  <2>5. k \in 1 .. Len(t) /\ k < i
    BY <2>1, <2>2
  <2> QED
    BY <1>1, <2>2, <2>4, <2>5 DEF WellOrdered, t
<1> QED
  BY <1>1, <1>2

LEMMA StartKeepsInv == ASSUME MigrationsInv, NEW u \in Upgrades, Start(u) PROVE MigrationsInv'
<1> USE DEF MigrationsInv
<1> DEFINE t == DependencyOrder
<1>1. UNCHANGED <<files, db>> /\ UNCHANGED <<disk, parent>>
  BY DEF Start, files
<1>2. /\ t \in Seq(disk) /\ SeqSet(t) = disk /\ WellOrdered(t, parent) /\ LowestFirst(disk, parent, t)
      /\ \A q \in disk : parent[q] # q
  BY LoadedGraph DEF Start
<1>3. t \in Seq(Revisions)
  <2>1. disk \subseteq Revisions
    BY DEF TypeOK
  <2> QED
    BY <1>2, <2>1, SeqMonotonic
<1>4. PICK r \in disk \cup {None} : target' = [target EXCEPT ![u] = r]
  BY DEF Start
<1>5. /\ pc[u] = "idle" /\ pc' = [pc EXCEPT ![u] = "ensure"] /\ order' = [order EXCEPT ![u] = t]
      /\ UNCHANGED <<files, db, known, created, executed, recorded>>
  BY DEF Start
<1> HIDE DEF t
<1>6. TypeOK'
  BY <1>3, <1>4, <1>5 DEF TypeOK, files, db
<1>7. /\ pc'[u] = "ensure" /\ target'[u] = r /\ order'[u] = t
      /\ executed'[u] = executed[u] /\ recorded'[u] = recorded[u]
      /\ \A v \in Upgrades \ {u} : SameLocal(v)
  BY <1>4, <1>5 DEF TypeOK, SameLocal
<1>8. Loaded(u)'
  <2>1. Len(t) \in Nat
    BY <1>2
  <2>2. Follows(t, parent)
    BY <1>2, <2>1 DEF WellOrdered, Follows
  <2> QED
    BY <1>1, <1>2, <1>7, <2>2 DEF Loaded
<1>9. Session(u)' /\ recorded'[u] = {}
  BY <1>5, <1>7 DEF Session
<1>10. OneGraph'
  <2>1. PICK down \in Parents : Graph(down)
    BY DEF OneGraph
  <2>2. \A q \in disk : down[q] = parent[q]
    BY <1>2, <2>1 DEF Graph
  <2>3. WellOrdered(t, down) /\ LowestFirst(SeqSet(t), down, t)
    BY <1>2, <2>2, SameGraph
  <2>4. Graph(down)'
    BY <1>1, <1>7, <2>1, <2>3 DEF Graph, SameLocal
  <2> QED
    BY <2>4 DEF OneGraph, Parents
<1> QED
  BY <1>1, <1>6, <1>7, <1>8, <1>9, <1>10, LocalStep

\* Steps that change nothing but where the process is, before it has
\* inserted anything.
LEMMA EarlyStepKeepsInv ==
  ASSUME MigrationsInv, NEW u \in Upgrades,
         pc[u] \in {"ensure", "waiting"}, pc' \in {[pc EXCEPT ![u] = "waiting"], [pc EXCEPT ![u] = "seed"]},
         created' \in {created, [created EXCEPT ![u] = ~table], [created EXCEPT ![u] = TRUE]},
         UNCHANGED <<files, db, target, known, order, executed, recorded>>
  PROVE  MigrationsInv'
<1> USE DEF MigrationsInv
<1>1. TypeOK'
  BY DEF TypeOK, files, db
<1>2. pc'[u] \in {"waiting", "seed"} /\ order'[u] = order[u] /\ \A v \in Upgrades \ {u} : SameLocal(v)
  BY DEF TypeOK, SameLocal
<1>3. recorded[u] = {} /\ executed[u] = {}
  BY DEF Session
<1>4. Loaded(u)'
  BY DEF Loaded, files
<1>5. Session(u)'
  BY <1>2, <1>3 DEF Session
<1> QED
  BY <1>1, <1>2, <1>3, <1>4, <1>5, LocalStep

\* The row that is seeded next, and that its migration depends on none that
\* is still to be seeded.
LEMMA NextSeedOfOrder ==
  ASSUME MigrationsInv, NEW u \in Upgrades, Unseeded(u) # {}
  PROVE  /\ NextSeed(u) \in Unseeded(u) /\ Unseeded(u) \subseteq SeqSet(order[u])
         /\ SeqSet(order[u]) \subseteq disk
         /\ \A q \in Unseeded(u) : NextSeed(u) \in UpTo(order[u], q)
         /\ parent[NextSeed(u)] \in {None, NextSeed(u)} \/ parent[NextSeed(u)] \in applied \cup recorded[u]
<1>1. order[u] \in Seq(disk) /\ Follows(order[u], parent)
  BY DEF MigrationsInv, Loaded
<1>2. /\ Seeds(u) \subseteq SeqSet(order[u])
      /\ \A x \in Seeds(u) : parent[x] = None \/ parent[x] \in Seeds(u)
  BY <1>1, UpToIsInitial DEF Seeds
<1>3. Unseeded(u) \in SUBSET SeqSet(order[u])
  BY <1>2 DEF Unseeded
<1>4. /\ NextSeed(u) \in Unseeded(u) /\ \A q \in Unseeded(u) : NextSeed(u) \in UpTo(order[u], q)
      /\ parent[NextSeed(u)] \in {None, NextSeed(u)} \/ parent[NextSeed(u)] \notin Unseeded(u)
  BY <1>1, <1>3, FirstOfSet DEF NextSeed
<1> QED
  BY <1>1, <1>2, <1>3, <1>4, FilesOfOrder DEF Unseeded, AppliedRevisions

LEMMA SeedKeepsInv == ASSUME MigrationsInv, NEW u \in Upgrades, Seed(u) PROVE MigrationsInv'
<1> USE DEF MigrationsInv
<1> DEFINE c == NextSeed(u)
<1>1. UNCHANGED <<files, db>> /\ UNCHANGED <<disk, parent, applied>>
  BY DEF Seed, files, db
<1>2. /\ c \in Unseeded(u) /\ Unseeded(u) \subseteq SeqSet(order[u]) /\ SeqSet(order[u]) \subseteq disk
      /\ parent[c] \in {None, c} \/ parent[c] \in applied \cup recorded[u]
  BY NextSeedOfOrder DEF Seed
<1>3. c \notin applied /\ \A v \in Upgrades \ {u} : c \notin recorded[v]
  BY <1>2 DEF Seed, Contended, Unseeded, AppliedRevisions
<1>4. recorded' = [recorded EXCEPT ![u] = recorded[u] \cup {c}] /\ pc[u] = "seed"
      /\ UNCHANGED <<files, db, pc, target, known, order, created, executed>>
  BY DEF Seed
<1> HIDE DEF c
<1>5. TypeOK'
  <2>1. recorded[u] \cup {c} \in SUBSET Revisions
    BY <1>2 DEF TypeOK
  <2> QED
    BY <1>4, <2>1 DEF TypeOK, files, db
<1>6. /\ recorded'[u] = recorded[u] \cup {c} /\ executed[u] = {} /\ order'[u] = order[u]
      /\ \A v \in Upgrades \ {u} : SameLocal(v)
  BY <1>4 DEF TypeOK, SameLocal, Session
<1>7. Loaded(u)'
  BY <1>1, <1>4 DEF Loaded
<1>8. Session(u)'
  BY <1>1, <1>2, <1>4, <1>6 DEF Session
<1>9. \A r \in recorded'[u] : r \notin applied /\ \A v \in Upgrades \ {u} : r \notin recorded[v]
  BY <1>3, <1>6 DEF Apart
<1> QED
  BY <1>1, <1>5, <1>6, <1>7, <1>8, <1>9, LocalStep

LEMMA ReadKeepsInv == ASSUME MigrationsInv, NEW u \in Upgrades, ReadApplied(u) PROVE MigrationsInv'
<1> USE DEF MigrationsInv
<1>1. UNCHANGED <<files, db>> /\ UNCHANGED <<disk, parent, applied>>
  BY DEF ReadApplied, files, db
<1>2. TypeOK'
  BY DEF ReadApplied, AppliedRevisions, TypeOK, files, db
<1>3. /\ pc'[u] = "loop" /\ known'[u] = applied \cup recorded[u] /\ recorded'[u] = recorded[u]
      /\ order'[u] = order[u] /\ target'[u] = target[u] /\ executed'[u] = {}
      /\ \A v \in Upgrades \ {u} : SameLocal(v)
  BY DEF ReadApplied, AppliedRevisions, TypeOK, SameLocal, Session
<1>4. Loaded(u)'
  BY <1>1, <1>3 DEF Loaded
<1>5. Session(u)'
  BY <1>1, <1>3 DEF Session
<1>6. \A r \in recorded'[u] : r \notin applied /\ \A v \in Upgrades \ {u} : r \notin recorded[v]
  BY <1>3 DEF Apart
<1> QED
  BY <1>1, <1>2, <1>3, <1>4, <1>5, <1>6, LocalStep

\* The migration the loop is at is on its list, and what it depends on is
\* behind it.
LEMMA CurrentOfLoop ==
  ASSUME MigrationsInv, NEW u \in Upgrades, Todo(u) # {}
  PROVE  /\ Current(u) \in Todo(u) /\ Todo(u) \subseteq SeqSet(order[u]) /\ SeqSet(order[u]) \subseteq disk
         /\ parent[Current(u)] \in {None, Current(u)} \/ parent[Current(u)] \in known[u] \cup recorded[u]
<1>1. order[u] \in Seq(disk) /\ Follows(order[u], parent)
  BY DEF MigrationsInv, Loaded
<1>2. SeqSet(order[u]) \subseteq disk
  BY <1>1, FilesOfOrder
<1>3. Scope(u) \subseteq SeqSet(order[u])
  BY <1>1, UpToIsInitial DEF Scope
<1>4. \A x \in Scope(u) : parent[x] = None \/ parent[x] \in Scope(u)
  <2>1. CASE target[u] = None
    <3> SUFFICES ASSUME NEW x \in SeqSet(order[u]), parent[x] # None PROVE parent[x] \in SeqSet(order[u])
      BY <2>1 DEF Scope
    <3>1. PICK i \in 1 .. Len(order[u]) : x = order[u][i]
      BY <1>1 DEF SeqSet
    <3>2. PICK k \in 1 .. i : order[u][k] = parent[x]
      BY <1>1, <3>1 DEF Follows
    <3>3. k \in 1 .. Len(order[u])
      BY <1>1, <3>1
    <3> QED
      BY <1>1, <3>2, <3>3 DEF SeqSet
  <2>2. CASE target[u] # None
    BY <1>1, <2>2, UpToIsInitial DEF Scope
  <2> QED
    BY <2>1, <2>2
<1>5. Todo(u) \in SUBSET SeqSet(order[u])
  BY <1>3 DEF Todo
<1>6. Current(u) = FirstOf(order[u], Todo(u))
  BY DEF Current
<1>7. /\ Current(u) \in Todo(u)
      /\ parent[Current(u)] \in {None, Current(u)} \/ parent[Current(u)] \notin Todo(u)
  BY <1>1, <1>5, <1>6, FirstOfSet
<1> QED
  BY <1>2, <1>4, <1>5, <1>7 DEF Todo

LEMMA ExecuteKeepsInv == ASSUME MigrationsInv, NEW u \in Upgrades, Execute(u) PROVE MigrationsInv'
<1> USE DEF MigrationsInv
<1>1. UNCHANGED <<files, db>> /\ UNCHANGED <<disk, parent, applied>>
  BY DEF Execute, files, db
<1>2. Todo(u) # {} /\ Current(u) \in disk
  BY CurrentOfLoop DEF Execute
<1>3. TypeOK'
  BY <1>2 DEF Execute, TypeOK, files, db
<1>4. /\ pc[u] = "loop" /\ pc'[u] = "record" /\ executed'[u] = executed[u] \cup {Current(u)}
      /\ known'[u] = known[u] /\ recorded'[u] = recorded[u]
      /\ order'[u] = order[u] /\ target'[u] = target[u]
      /\ \A v \in Upgrades \ {u} : SameLocal(v)
  BY DEF Execute, TypeOK, SameLocal
<1>5. Todo(u)' = Todo(u)
  BY <1>4 DEF Todo, Scope
<1>6. Current(u)' = Current(u)
  BY <1>4, <1>5 DEF Current
<1>7. Loaded(u)'
  BY <1>1, <1>4 DEF Loaded
<1>8. Session(u)'
  BY <1>1, <1>2, <1>4, <1>5, <1>6 DEF Session
<1>9. \A r \in recorded'[u] : r \notin applied /\ \A v \in Upgrades \ {u} : r \notin recorded[v]
  BY <1>4 DEF Apart
<1> QED
  BY <1>1, <1>3, <1>4, <1>7, <1>8, <1>9, LocalStep

LEMMA RecordKeepsInv == ASSUME MigrationsInv, NEW u \in Upgrades, Record(u) PROVE MigrationsInv'
<1> USE DEF MigrationsInv
<1>1. CASE Current(u) \in applied
  BY <1>1, UndoKeepsInv DEF Record
<1>2. CASE Current(u) \notin applied
  <2> DEFINE c == Current(u)
  <2>1. UNCHANGED <<files, db>> /\ UNCHANGED <<disk, parent, applied>>
    BY <1>2 DEF Record, files, db
  <2>2. /\ c \in SeqSet(order[u]) /\ SeqSet(order[u]) \subseteq disk
        /\ parent[c] \in {None, c} \/ parent[c] \in known[u] \cup recorded[u]
    BY CurrentOfLoop DEF Record, Session
  <2> HIDE DEF c
  <2>3. /\ pc[u] = "record" /\ pc'[u] = "loop" /\ recorded'[u] = recorded[u] \cup {c}
        /\ executed'[u] = executed[u] /\ known'[u] = known[u]
        /\ order'[u] = order[u] /\ target'[u] = target[u]
        /\ \A v \in Upgrades \ {u} : SameLocal(v)
    BY <1>2 DEF Record, TypeOK, SameLocal, c
  <2>4. TypeOK'
    <3>1. recorded[u] \cup {c} \in SUBSET Revisions
      BY <2>2 DEF TypeOK
    <3>2. /\ UNCHANGED <<files, db, target, known, order, created, executed>>
          /\ pc' = [pc EXCEPT ![u] = "loop"] /\ recorded' = [recorded EXCEPT ![u] = recorded[u] \cup {c}]
      BY <1>2 DEF Record, c
    <3> QED
      BY <3>1, <3>2 DEF TypeOK, files, db
  <2>5. Loaded(u)'
    BY <2>1, <2>3 DEF Loaded
  <2>6. Session(u)'
    BY <2>1, <2>2, <2>3 DEF Session, c
  <2>7. \A r \in recorded'[u] : r \notin applied /\ \A v \in Upgrades \ {u} : r \notin recorded[v]
    BY <1>2, <2>3 DEF Apart, Record, Contended, c
  <2> QED
    BY <2>1, <2>3, <2>4, <2>5, <2>6, <2>7, LocalStep
<1> QED
  BY <1>1, <1>2

LEMMA CommitKeepsInv == ASSUME MigrationsInv, NEW u \in Upgrades, Commit(u) PROVE MigrationsInv'
<1> USE DEF MigrationsInv
<1>1. /\ UNCHANGED files /\ UNCHANGED <<disk, parent>>
      /\ applied' = applied \cup recorded[u] /\ seeded' = seeded \cup (recorded[u] \ executed[u])
  BY DEF Commit, files
<1>2. /\ pc[u] = "loop" /\ pc'[u] = "done" /\ recorded'[u] = {} /\ executed'[u] = {}
      /\ order'[u] = order[u] /\ target'[u] = target[u]
      /\ \A v \in Upgrades \ {u} : SameLocal(v)
  BY DEF Commit, TypeOK, SameLocal
<1>3. /\ order[u] \in Seq(disk) /\ SeqSet(order[u]) \subseteq disk
      /\ target[u] # None => target[u] \in UpTo(order[u], target[u])
  BY FilesOfOrder, UpToIsInitial DEF Loaded
<1>4. /\ executed[u] \subseteq recorded[u] /\ recorded[u] \subseteq SeqSet(order[u])
      /\ Scope(u) \subseteq applied \cup recorded[u]
  BY <1>2 DEF Session, Commit, Todo
<1>5. TypeOK'
  <2>1. ran' \in [Revisions -> Nat]
    BY DEF Commit, TypeOK
  <2> QED
    BY <1>1, <2>1 DEF Commit, TypeOK, files
<1>6. \A v \in Upgrades : Loaded(v)' /\ Session(v)'
  <2>1. ASSUME NEW v \in Upgrades \ {u} PROVE Loaded(v)' /\ Session(v)'
    BY <1>1, <1>2, OthersStand
  <2>2. Loaded(u)'
    BY <1>1, <1>2 DEF Loaded
  <2>3. Session(u)'
    BY <1>1, <1>2, <1>3, <1>4 DEF Session, Scope
  <2> QED
    BY <2>1, <2>2, <2>3
<1>7. Apart'
  BY <1>1, <1>2 DEF Apart, SameLocal
<1>8. RunsOnce'
  <2> SUFFICES ASSUME NEW r \in Revisions
               PROVE  ran'[r] = IF r \in applied' /\ r \notin seeded' THEN 1 ELSE 0
    BY DEF RunsOnce
  <2>1. ran'[r] = IF r \in executed[u] THEN ran[r] + 1 ELSE ran[r]
    BY DEF Commit
  <2>2. ran[r] = IF r \in applied /\ r \notin seeded THEN 1 ELSE 0
    BY DEF Stored, RunsOnce
  <2>3. r \in recorded[u] => r \notin applied /\ r \notin seeded
    BY DEF Apart, Stored
  <2>4. CASE r \in executed[u]
    BY <1>1, <1>4, <2>1, <2>2, <2>3, <2>4
  <2>5. CASE r \notin executed[u]
    BY <1>1, <2>1, <2>2, <2>3, <2>5
  <2> QED
    BY <2>4, <2>5
<1>9. Stored'
  BY <1>1, <1>3, <1>4, <1>8 DEF Stored, Session, ParentsFirst
<1>10. OneGraph'
  BY <1>1, <1>2, OneGraphStays DEF SameLocal
<1> QED
  BY <1>5, <1>6, <1>7, <1>9, <1>10

\* A new file, of any revision and after any other, disturbs nobody.
LEMMA FileKeepsInv ==
  ASSUME MigrationsInv, NEW r \in Revisions \ disk, NEW p \in Revisions \cup {None},
         disk' = disk \cup {r}, parent' = [parent EXCEPT ![r] = p], UNCHANGED <<clash, db, local>>
  PROVE  MigrationsInv'
<1> USE DEF MigrationsInv
<1>1. /\ parent' \in Parents /\ \A q \in disk : parent'[q] = parent[q]
      /\ parent'[r] = p
  BY DEF TypeOK, Parents
<1>2. UNCHANGED <<pc, target, known, order, executed, recorded, applied>>
  BY DEF local, db
<1>3. TypeOK'
  BY <1>1 DEF TypeOK, Parents, local, db
<1>4. ASSUME NEW v \in Upgrades PROVE Loaded(v)' /\ Session(v)'
  <2>1. /\ order[v] \in Seq(disk) /\ order[v] \in Seq(disk') /\ SeqSet(order[v]) \subseteq disk
        /\ \A i \in 1 .. Len(order[v]) : order[v][i] \in disk
    BY SeqMonotonic, FilesOfOrder, ElementOfSeq DEF Loaded
  <2>2. Loaded(v)'
    BY <1>1, <1>2, <2>1 DEF Loaded, Follows
  <2>3. Todo(v)' = Todo(v)
    BY <1>2 DEF Todo, Scope
  <2>4. Current(v)' = Current(v)
    BY <1>2, <2>3 DEF Current
  <2>5. Session(v)'
    BY <1>1, <1>2, <2>1, <2>3, <2>4 DEF Session
  <2> QED
    BY <2>2, <2>5
<1>5. OneGraph'
  <2>1. PICK down \in Parents : Graph(down)
    BY DEF OneGraph
  <2> DEFINE new == [down EXCEPT ![r] = p]
  <2>2. new \in Parents /\ new[r] = p /\ \A q \in disk : new[q] = down[q]
    BY DEF Parents
  <2> HIDE DEF new
  <2>3. ASSUME NEW v \in Upgrades
        PROVE  WellOrdered(order[v], new) /\ LowestFirst(SeqSet(order[v]), new, order[v])
    BY <2>1, <2>2, SameGraph DEF Graph, Loaded
  <2>4. Graph(new)'
    BY <1>1, <1>2, <2>1, <2>2, <2>3 DEF Graph
  <2> QED
    BY <2>2, <2>4 DEF OneGraph, Parents
<1>6. Apart' /\ Stored'
  BY <1>1, <1>2 DEF Apart, Stored, RunsOnce, ParentsFirst, local, db
<1> QED
  BY <1>3, <1>4, <1>5, <1>6

LEMMA NewestOfFiles ==
  ASSUME MigrationsInv, Loads, disk # {} PROVE Newest \in disk
<1> DEFINE t == DependencyOrder
<1>1. t \in Seq(disk) /\ SeqSet(t) = disk
  BY LoadedGraph
<1> HIDE DEF t
<1>2. Len(t) \in Nat /\ DOMAIN t = 1 .. Len(t)
  BY <1>1
<1>3. Len(t) \in 1 .. Len(t)
  BY <1>1, <1>2 DEF SeqSet
<1> QED
  BY <1>1, <1>3, ElementOfSeq DEF Newest, t

LEMMA NewFileKeepsInv == ASSUME MigrationsInv, NewFile PROVE MigrationsInv'
<1>1. PICK r \in Revisions \ disk, p \in {None} \cup {Newest : q \in disk} :
        disk' = disk \cup {r} /\ parent' = [parent EXCEPT ![r] = p]
  BY DEF NewFile
<1>2. p \in Revisions \cup {None}
  <2>1. CASE p = None
    BY <2>1
  <2>2. CASE p # None
    <3>1. disk # {} /\ p = Newest
      BY <1>1, <2>2
    <3>2. Loads
      BY DEF NewFile
    <3>3. Newest \in disk
      BY <3>1, <3>2, NewestOfFiles
    <3>4. disk \subseteq Revisions
      BY DEF MigrationsInv, TypeOK
    <3> QED
      BY <3>1, <3>3, <3>4
  <2> QED
    BY <2>1, <2>2
<1> QED
  BY <1>1, <1>2, FileKeepsInv DEF NewFile

\* Nor does the last and latest file when it is overwritten: who has loaded
\* it keeps it at its place, and if it depends on itself now, nobody loads
\* it again.
LEMMA OverwriteKeepsInv == ASSUME MigrationsInv, Overwrite PROVE MigrationsInv'
<1> USE DEF MigrationsInv
<1> DEFINE r == Newest
<1>1. /\ r \in disk /\ \A q \in disk : q <= r
      /\ \A q \in disk : parent[q] # q
  BY NewestOfFiles, LoadedGraph DEF Overwrite
<1>2. PICK p \in {r, None} : parent' = [parent EXCEPT ![r] = p]
  BY DEF Overwrite
<1>3. UNCHANGED <<disk, clash, db, local>>
  BY DEF Overwrite
<1> HIDE DEF r
<1>4. /\ parent' \in Parents /\ parent'[r] = p /\ \A q \in disk \ {r} : parent'[q] = parent[q]
  BY <1>1, <1>2 DEF TypeOK, Parents
<1>5. UNCHANGED <<disk, pc, target, known, order, executed, recorded, applied>>
  BY <1>3 DEF local, db
<1>6. TypeOK'
  BY <1>3, <1>4 DEF TypeOK, Parents, local, db
<1>7. ASSUME NEW v \in Upgrades PROVE Loaded(v)' /\ Session(v)'
  <2>1. /\ order[v] \in Seq(disk) /\ SeqSet(order[v]) \subseteq disk /\ Len(order[v]) \in Nat
        /\ \A i \in 1 .. Len(order[v]) : order[v][i] \in disk
    BY FilesOfOrder, ElementOfSeq DEF Loaded
  <2>2. ASSUME NEW i \in 1 .. Len(order[v])
        PROVE  parent'[order[v][i]] = None \/ \E k \in 1 .. i : order[v][k] = parent'[order[v][i]]
    <3>1. CASE order[v][i] = r
      <4>1. i \in 1 .. i
        BY <2>1
      <4> QED
        BY <1>4, <3>1, <4>1
    <3>2. CASE order[v][i] # r
      BY <1>4, <2>1, <3>2 DEF Loaded, Follows
    <3> QED
      BY <3>1, <3>2
  <2>3. Loaded(v)'
    BY <1>5, <2>2 DEF Loaded, Follows
  <2>4. Todo(v)' = Todo(v)
    BY <1>5 DEF Todo, Scope
  <2>5. Current(v)' = Current(v)
    BY <1>5, <2>4 DEF Current
  <2>6. Session(v)'
    BY <1>4, <1>5, <2>1, <2>4, <2>5 DEF Session
  <2> QED
    BY <2>3, <2>6
<1>8. OneGraph'
  <2>1. PICK down \in Parents : Graph(down)
    BY DEF OneGraph
  <2>2. CASE p = r
    <3>1. Graph(down)'
      BY <1>4, <1>5, <2>1, <2>2 DEF Graph
    <3> QED
      BY <3>1 DEF OneGraph, Parents
  <2>3. CASE p = None
    <3>1. PICK new \in Parents : new[r] = None /\ \A q \in disk \ {r} : new[q] = down[q]
      <4>1. /\ [down EXCEPT ![r] = None] \in Parents /\ [down EXCEPT ![r] = None][r] = None
            /\ \A q \in disk \ {r} : [down EXCEPT ![r] = None][q] = down[q]
        BY <1>1 DEF Parents, TypeOK
      <4> QED
        BY <4>1
    <3>2. ASSUME NEW v \in Upgrades
          PROVE  WellOrdered(order[v], new) /\ LowestFirst(SeqSet(order[v]), new, order[v])
      <4>1. /\ SeqSet(order[v]) \subseteq disk
            /\ \A i \in 1 .. Len(order[v]) : order[v][i] \in disk
        BY FilesOfOrder, ElementOfSeq DEF Loaded
      <4>2. WellOrdered(order[v], new)
        BY <2>1, <3>1, <4>1 DEF Graph, WellOrdered
      <4>3. LowestFirst(SeqSet(order[v]), new, order[v])
        BY <1>1, <2>1, <3>1, <4>1 DEF Graph, LowestFirst
      <4> QED
        BY <4>2, <4>3
    <3>3. Graph(new)'
      BY <1>4, <1>5, <2>1, <2>3, <3>1, <3>2 DEF Graph
    <3> QED
      BY <3>1, <3>3 DEF OneGraph, Parents
  <2> QED
    BY <2>2, <2>3
<1>9. Apart' /\ Stored'
  BY <1>3, <1>4, <1>5 DEF Apart, Stored, RunsOnce, ParentsFirst, local, db
<1> QED
  BY <1>6, <1>7, <1>8, <1>9

\* Files with one revision, and nothing at all, disturb nobody.
LEMMA IdleKeepsInv ==
  ASSUME MigrationsInv, UNCHANGED <<disk, parent, db, local>>, clash' \in BOOLEAN
  PROVE  MigrationsInv'
<1> USE DEF MigrationsInv, db, local
<1>1. TypeOK'
  BY DEF TypeOK
<1>2. ASSUME NEW v \in Upgrades PROVE Loaded(v)' /\ Session(v)'
  <2>1. Todo(v)' = Todo(v)
    BY DEF Todo, Scope
  <2>2. Current(v)' = Current(v)
    BY <2>1 DEF Current
  <2> QED
    BY <2>1, <2>2 DEF Loaded, Session
<1>3. Apart' /\ Stored'
  BY DEF Apart, Stored, RunsOnce, ParentsFirst
<1>4. OneGraph'
  BY DEF OneGraph, Graph, Parents
<1> QED
  BY <1>1, <1>2, <1>3, <1>4

LEMMA MigrationsInvNext == MigrationsInv /\ [Next]_vars => MigrationsInv'
<1> SUFFICES ASSUME MigrationsInv, [Next]_vars PROVE MigrationsInv'
  OBVIOUS
<1>1. ASSUME NEW u \in Upgrades, Upgrade(u) PROVE MigrationsInv'
  <2>1. CASE Start(u)
    BY <2>1, StartKeepsInv
  <2>2. CASE EnsureTable(u)
    BY <2>2, EarlyStepKeepsInv DEF EnsureTable
  <2>3. CASE TableDecided(u)
    BY <2>3, EarlyStepKeepsInv, UndoKeepsInv DEF TableDecided
  <2>4. CASE Rollback(u) \/ Exit(u)
    BY <2>4, UndoKeepsInv DEF Rollback, Exit
  <2> QED
    BY <1>1, <2>1, <2>2, <2>3, <2>4, SeedKeepsInv, ReadKeepsInv, ExecuteKeepsInv, RecordKeepsInv,
       CommitKeepsInv DEF Upgrade
<1>2. CASE NewFile
  BY <1>2, NewFileKeepsInv
<1>3. CASE Overwrite
  BY <1>3, OverwriteKeepsInv
<1>4. ASSUME NEW r \in Revisions, NEW p \in Revisions \cup {None}, AddFile(r, p) PROVE MigrationsInv'
  BY <1>4, FileKeepsInv DEF AddFile
<1>5. CASE Duplicate \/ UNCHANGED vars
  BY <1>5, IdleKeepsInv DEF Duplicate, vars, files, MigrationsInv, TypeOK
<1> QED
  BY <1>1, <1>2, <1>3, <1>4, <1>5 DEF Next

LEMMA MigrationsInvAlways == Spec => []MigrationsInv
BY MigrationsInvInit, MigrationsInvNext, PTL DEF Spec

-----------------------------------------------------------------------------
(* What the invariant gives.                                               *)

\* The variables of Migrations keep their types: in particular the loading
\* of the files returns a sequence of files for every graph.
THEOREM MigrationsTypeCorrect == Spec => []TypeOK
BY MigrationsInvAlways, PTL DEF MigrationsInv

\* For any number of revisions and processes, and however upgrades race and
\* fail, the SQL of a migration takes effect exactly once if it is recorded
\* and was not taken over from the predecessor's table, and else never.
THEOREM SqlRunsOnce == Spec => []RunsOnce
BY MigrationsInvAlways, PTL DEF MigrationsInv, Stored

\* No migration is applied before the one it depends on, in any graph of
\* any size, whatever the targets and the row of the predecessor.
THEOREM DependenciesComeFirst == Spec => []ParentsFirst
BY MigrationsInvAlways, PTL DEF MigrationsInv, Stored

\* A process that reports success has brought the database to its target.
THEOREM SuccessReachesTarget == Spec => []TargetReached
<1>1. MigrationsInv => TargetReached
  BY DEF MigrationsInv, Session, TargetReached
<1> QED
  BY <1>1, MigrationsInvAlways, PTL

\* migrations() refuses a set of files exactly if a chain of down_revisions
\* does not end, for any number of files and any down_revisions.
THEOREM RefusedIffUnrooted == Spec => []BlockedIffUnrooted
<1>1. MigrationsInv => BlockedIffUnrooted
  BY CompleteIffRooted DEF MigrationsInv, TypeOK, Parents, BlockedIffUnrooted, Blocked, DependencyOrder
<1> QED
  BY <1>1, MigrationsInvAlways, PTL

\* Processes agree on the order of the files that both have loaded, for any
\* number of files that come between, before or after them.
THEOREM LoadedOrdersAgree == Spec => []OrdersAgree
<1>1. ASSUME MigrationsInv, NEW u \in Upgrades, NEW v \in Upgrades,
             NEW i \in DOMAIN order[u], NEW k \in DOMAIN order[v], order[u][i] = order[v][k],
             NEW j \in DOMAIN order[u], NEW l \in DOMAIN order[v], order[u][j] = order[v][l]
      PROVE  i < j <=> k < l
  <2>1. /\ order[u] \in Seq(Revisions) /\ DOMAIN order[u] = 1 .. Len(order[u])
        /\ order[v] \in Seq(Revisions) /\ DOMAIN order[v] = 1 .. Len(order[v])
    BY <1>1 DEF MigrationsInv, TypeOK
  <2>2. PICK down \in Parents : Graph(down)
    BY <1>1 DEF MigrationsInv, OneGraph
  <2> DEFINE s == order[u]
             t == order[v]
  <2> HIDE DEF s, t
  <2>3. \A a, b \in 1 .. Len(s), c, d \in 1 .. Len(t) : s[a] = t[c] /\ s[b] = t[d] => (a < b <=> c < d)
    BY <2>1, <2>2, OrdersOfOneGraphAgree DEF Graph, s, t
  <2> QED
    BY <1>1, <2>1, <2>3 DEF s, t
<1>2. MigrationsInv => OrdersAgree
  BY <1>1 DEF OrdersAgree
<1> QED
  BY <1>2, MigrationsInvAlways, PTL

-----------------------------------------------------------------------------
(* Upgrades do not deadlock: each inserts its rows in the order of the     *)
(* files, so that what it waits for is behind all that others wait for     *)
(* because of it.                                                          *)

LEMMA GreatestNumber ==
  ASSUME NEW N \in Nat, NEW T \in SUBSET (1 .. N), T # {} PROVE \E x \in T : \A y \in T : y <= x
<1> DEFINE U == {N - x : x \in T}
<1>1. U \in SUBSET Nat /\ U # {}
  <2>1. \A x \in T : N - x \in Nat
    OBVIOUS
  <2> QED
    BY <2>1
<1>2. PICK u \in U : \A v \in U : u <= v
  <2> HIDE DEF U
  <2> QED
    BY <1>1, LeastNumber
<1>3. PICK x \in T : u = N - x
  BY <1>2
<1>4. \A y \in T : N - y \in U
  OBVIOUS
<1> HIDE DEF U
<1> QED
  BY <1>2, <1>3, <1>4

\* What is not in the beginning of an order comes after all that is.
LEMMA BeyondUpTo ==
  ASSUME NEW D, NEW s \in Seq(D), NEW l, NEW r \in UpTo(s, l), NEW q \in SeqSet(s), q \notin UpTo(s, l)
  PROVE  r \in UpTo(s, q)
<1>1. Len(s) \in Nat /\ DOMAIN s = 1 .. Len(s)
  OBVIOUS
<1>2. PICK i \in 1 .. Len(s), k \in 1 .. Len(s) : r = s[i] /\ s[k] = l /\ i <= k
  BY <1>1 DEF UpTo
<1>3. PICK m \in 1 .. Len(s) : s[m] = q
  BY <1>1 DEF SeqSet
<1>4. ~(m <= k)
  BY <1>1, <1>2, <1>3 DEF UpTo
<1> QED
  BY <1>1, <1>2, <1>3, <1>4 DEF UpTo

\* The rows a process has still to insert.
Left(u) == IF pc[u] = "seed" THEN Unseeded(u) ELSE Todo(u)

InOrder(u) ==
  /\ created[u] => pc[u] \in {"seed", "loop", "record"}
  /\ pc[u] = "seed" => recorded[u] \subseteq Seeds(u)
  /\ \A r \in recorded[u], q \in Left(u) : r \in UpTo(order[u], q)

OrderInv == MigrationsInv /\ \A u \in Upgrades : InOrder(u)

LEMMA OrderInvInit == Init => OrderInv
BY MigrationsInvInit DEF Init, OrderInv, InOrder

\* What others do only takes rows off the list of a process.
LEMMA OthersInOrder ==
  ASSUME NEW v \in Upgrades, InOrder(v), SameLocal(v), created'[v] = created[v],
         legacy' = legacy, applied \subseteq applied'
  PROVE  InOrder(v)'
<1>1. Left(v)' \subseteq Left(v) /\ Seeds(v)' = Seeds(v)
  BY DEF SameLocal, Left, Unseeded, AppliedRevisions, Seeds, Todo, Scope
<1> QED
  BY <1>1 DEF SameLocal, InOrder

\* A process that has inserted nothing is in order.
LEMMA NothingInserted ==
  ASSUME NEW u, recorded'[u] = {}, created'[u] => pc'[u] = "seed" PROVE InOrder(u)'
BY DEF InOrder

LEMMA InOrderNext ==
  ASSUME OrderInv, NEW u \in Upgrades, Upgrade(u) PROVE InOrder(u)'
<1> USE DEF OrderInv, MigrationsInv
<1>0. /\ order[u] \in Seq(disk) /\ Follows(order[u], parent) /\ InOrder(u)
      /\ Scope(u) \subseteq SeqSet(order[u])
  BY UpToIsInitial DEF Loaded, Scope
<1>1. CASE Start(u)
  BY <1>0, <1>1, NothingInserted DEF Start, InOrder, Session
<1>2. CASE EnsureTable(u) \/ (TableDecided(u) /\ ~table)
  <2>1. recorded'[u] = {} /\ (created'[u] => pc'[u] = "seed")
    BY <1>0, <1>2 DEF EnsureTable, TableDecided, TypeOK, InOrder, Session
  <2> QED
    BY <2>1, NothingInserted
<1>3. CASE Undo(u)
  BY <1>3, NothingInserted DEF Undo, TypeOK
<1>4. CASE Seed(u)
  <2> DEFINE c == NextSeed(u)
  <2>1. c \in Unseeded(u) /\ \A q \in Unseeded(u) : c \in UpTo(order[u], q)
    BY <1>4, NextSeedOfOrder DEF Seed
  <2>2. /\ pc[u] = "seed" /\ UNCHANGED <<db, pc, order, created>>
        /\ recorded' = [recorded EXCEPT ![u] = recorded[u] \cup {c}]
    BY <1>4 DEF Seed
  <2> HIDE DEF c
  <2>3. recorded'[u] = recorded[u] \cup {c} /\ UNCHANGED <<applied, legacy>>
    BY <2>2 DEF TypeOK, db
  <2>4. Seeds(u)' = Seeds(u) /\ Left(u)' \subseteq Unseeded(u)
    BY <2>2, <2>3 DEF Left, Unseeded, AppliedRevisions, Seeds
  <2> QED
    BY <1>0, <2>1, <2>2, <2>3, <2>4 DEF InOrder, Left, Unseeded
<1>5. CASE ReadApplied(u)
  <2>1. /\ pc[u] = "seed" /\ pc'[u] = "loop" /\ Unseeded(u) = {} /\ known'[u] = applied \cup recorded[u]
        /\ UNCHANGED <<target, order, created, recorded>>
    BY <1>5 DEF ReadApplied, AppliedRevisions, TypeOK
  <2>2. recorded[u] \subseteq Seeds(u) /\ Seeds(u) \subseteq applied \cup recorded[u]
    BY <1>0, <2>1 DEF InOrder, Unseeded, AppliedRevisions
  <2>3. \A q \in Left(u)' : q \in SeqSet(order[u]) /\ q \notin Seeds(u)
    BY <1>0, <2>1, <2>2 DEF Left, Todo, Scope
  <2>4. ASSUME NEW r \in recorded[u], NEW q \in Left(u)' PROVE r \in UpTo(order[u], q)
    BY <1>0, <2>2, <2>3, BeyondUpTo DEF Seeds
  <2> QED
    BY <2>1, <2>4 DEF InOrder
<1>6. CASE Execute(u)
  <2>1. /\ pc[u] = "loop" /\ pc'[u] = "record"
        /\ UNCHANGED <<target, known, order, created, recorded>>
    BY <1>6 DEF Execute, TypeOK
  <2>2. Left(u)' = Left(u)
    BY <2>1 DEF Left, Todo, Scope
  <2> QED
    BY <1>0, <2>1, <2>2 DEF InOrder
<1>7. CASE Record(u) /\ Current(u) \notin applied
  <2> DEFINE c == Current(u)
  <2>1. c \in Todo(u) /\ \A q \in Todo(u) : c \in UpTo(order[u], q)
    <3>1. Todo(u) # {} /\ Todo(u) \in SUBSET SeqSet(order[u])
      BY <1>0, <1>7 DEF Record, Session, Todo
    <3> QED
      BY <1>0, <3>1, FirstOfSet DEF Current
  <2>2. /\ pc[u] = "record" /\ UNCHANGED <<target, known, order, created>>
        /\ pc' = [pc EXCEPT ![u] = "loop"]
        /\ recorded' = [recorded EXCEPT ![u] = recorded[u] \cup {c}]
    BY <1>7 DEF Record
  <2> HIDE DEF c
  <2>3. recorded'[u] = recorded[u] \cup {c} /\ pc'[u] = "loop"
    BY <2>2 DEF TypeOK
  <2>4. Left(u)' \subseteq Todo(u) /\ Left(u) = Todo(u)
    BY <2>2, <2>3 DEF Left, Todo, Scope
  <2> QED
    BY <1>0, <2>1, <2>2, <2>3, <2>4 DEF InOrder
<1>8. CASE Commit(u)
  BY <1>8, NothingInserted DEF Commit, TypeOK
<1> QED
  BY <1>1, <1>2, <1>3, <1>4, <1>5, <1>6, <1>7, <1>8
     DEF Upgrade, EnsureTable, TableDecided, Record, Rollback, Exit

LEMMA OrderInvNext == OrderInv /\ [Next]_vars => OrderInv'
<1> SUFFICES ASSUME OrderInv, [Next]_vars PROVE OrderInv'
  OBVIOUS
<1> USE DEF OrderInv
<1>1. MigrationsInv'
  BY MigrationsInvNext
<1>2. ASSUME NEW u \in Upgrades, Upgrade(u) PROVE \A v \in Upgrades : InOrder(v)'
  <2>1. legacy' = legacy /\ applied \subseteq applied'
    BY <1>2 DEF Upgrade, Start, EnsureTable, TableDecided, Seed, ReadApplied, Execute, Record, Commit,
                Rollback, Exit, Undo, db
  <2>2. ASSUME NEW v \in Upgrades \ {u} PROVE SameLocal(v) /\ created'[v] = created[v]
    BY <1>2 DEF MigrationsInv, TypeOK, SameLocal, Upgrade, Start, EnsureTable, TableDecided, Seed,
                ReadApplied, Execute, Record, Commit, Rollback, Exit, Undo
  <2> QED
    BY <1>2, <2>1, <2>2, InOrderNext, OthersInOrder
<1>3. CASE UNCHANGED <<db, local>>
  <2>1. ASSUME NEW v \in Upgrades
        PROVE  SameLocal(v) /\ created'[v] = created[v] /\ legacy' = legacy /\ applied \subseteq applied'
    BY <1>3 DEF SameLocal, db, local
  <2> QED
    BY <1>1, <2>1, OthersInOrder
<1> QED
  BY <1>1, <1>2, <1>3 DEF Next, NewFile, Overwrite, AddFile, Duplicate, vars

\* The row a process is about to insert is one it has left.
LEMMA WantedIsLeft ==
  ASSUME OrderInv, NEW u \in Upgrades, NEW r \in Wanted(u)
  PROVE  r \in Left(u) /\ r \notin recorded[u] /\ r \in SeqSet(order[u]) /\ pc[u] # "waiting"
<1>1. MigrationsInv
  BY DEF OrderInv
<1>2. CASE pc[u] = "record"
  <2>1. Todo(u) # {} /\ r = Current(u)
    BY <1>1, <1>2 DEF MigrationsInv, Session, Wanted
  <2> QED
    BY <1>1, <1>2, <2>1, CurrentOfLoop DEF Left, Todo
<1>3. CASE pc[u] # "record"
  <2>1. pc[u] = "seed" /\ Unseeded(u) # {} /\ r = NextSeed(u)
    BY <1>3 DEF Wanted
  <2> QED
    BY <1>1, <2>1, NextSeedOfOrder DEF Left, Unseeded, AppliedRevisions
<1> QED
  BY <1>2, <1>3

\* The order of all the files of a graph leaves out nothing that some files
\* of it can be ordered with.
LEMMA OrderIsWhole ==
  ASSUME NEW D \in SUBSET Revisions, NEW down \in Parents, NEW s \in Seq(D), WellOrdered(s, down)
  PROVE  SeqSet(s) \subseteq SeqSet(OrderOf(D, down))
<1> DEFINE t == OrderOf(D, down)
           M == {i \in 1 .. Len(s) : s[i] \notin SeqSet(t)}
<1>1. Ready(D, down, t) = {}
  BY OrderIsSound
<1>2. Len(s) \in Nat /\ DOMAIN s = 1 .. Len(s) /\ \A i \in 1 .. Len(s) : s[i] \in D
  BY ElementOfSeq
<1> HIDE DEF t
<1>3. M = {}
  <2> SUFFICES ASSUME M # {} PROVE FALSE
    OBVIOUS
  <2>1. PICK i \in M : \A k \in M : i <= k
    <3>1. M \in SUBSET Nat
      OBVIOUS
    <3> HIDE DEF M
    <3> QED
      BY <3>1, LeastNumber
  <2>2. down[s[i]] = None \/ down[s[i]] \in SeqSet(t)
    <3> SUFFICES ASSUME down[s[i]] # None PROVE down[s[i]] \in SeqSet(t)
      OBVIOUS
    <3>1. PICK k \in 1 .. i - 1 : s[k] = down[s[i]]
      BY <2>1 DEF WellOrdered
    <3>2. k \in 1 .. Len(s) /\ ~(i <= k)
      BY <1>2, <2>1, <3>1
    <3>3. k \notin M
      <4> HIDE DEF M
      <4> QED
        BY <2>1, <3>2
    <3> QED
      BY <3>1, <3>2, <3>3
  <2>3. s[i] \in Ready(D, down, t)
    BY <1>2, <2>1, <2>2 DEF Ready
  <2> QED
    BY <1>1, <2>3
<1> QED
  BY <1>2, <1>3 DEF SeqSet, t

LEMMA WaitersAreOrdered == OrderInv => NoCircle
<1> SUFFICES ASSUME OrderInv, NEW S \in SUBSET Upgrades, S # {}, \A u \in S : WaitsFor(u) \cap S # {}
             PROVE  FALSE
  BY DEF NoCircle
<1>0. PICK down \in Parents : Graph(down)
  BY DEF OrderInv, MigrationsInv, OneGraph
<1> DEFINE t == OrderOf(disk, down)
<1>1. /\ t \in Seq(disk) /\ t \in Seq(Revisions) /\ Len(t) \in Nat /\ DOMAIN t = 1 .. Len(t)
      /\ WellOrdered(t, down) /\ LowestFirst(SeqSet(t), down, t)
  <2>1. disk \in SUBSET Revisions
    BY DEF OrderInv, MigrationsInv, TypeOK
  <2>2. t \in Seq(disk) /\ WellOrdered(t, down) /\ LowestFirst(disk, down, t)
    BY <2>1, OrderIsSound
  <2>3. SeqSet(t) \subseteq disk /\ t \in Seq(Revisions)
    BY <2>1, <2>2, FilesOfOrder, SeqMonotonic
  <2>4. LowestFirst(SeqSet(t), down, t)
    BY <2>2, <2>3 DEF LowestFirst
  <2> QED
    BY <2>2, <2>3, <2>4
<1>2. ASSUME NEW u \in Upgrades
      PROVE  /\ Len(order[u]) \in Nat /\ DOMAIN order[u] = 1 .. Len(order[u])
             /\ SeqSet(order[u]) \subseteq SeqSet(t)
             /\ \A i, j \in 1 .. Len(order[u]), k, l \in 1 .. Len(t) :
                  order[u][i] = t[k] /\ order[u][j] = t[l] => (i < j <=> k < l)
  <2>1. order[u] \in Seq(disk) /\ order[u] \in Seq(Revisions) /\ disk \in SUBSET Revisions
    BY DEF OrderInv, MigrationsInv, Loaded, TypeOK
  <2>2. WellOrdered(order[u], down) /\ LowestFirst(SeqSet(order[u]), down, order[u])
    BY <1>0 DEF Graph
  <2>3. SeqSet(order[u]) \subseteq SeqSet(t)
    BY <2>1, <2>2, OrderIsWhole
  <2> HIDE DEF t
  <2> QED
    BY <1>1, <2>1, <2>2, <2>3, OrdersOfOneGraphAgree
<1> HIDE DEF t
<1> DEFINE I == {i \in 1 .. Len(t) : \E u \in S : t[i] \in Wanted(u)}
\* Whom somebody of S waits for wants a row itself.
<1>3. ASSUME NEW u \in S, NEW v \in WaitsFor(u) \cap S
      PROVE  \E q \in Wanted(v) : TRUE
  <2>1. created[v] \/ recorded[v] # {}
    BY DEF WaitsFor
  <2>2. pc[v] # "waiting"
    BY <2>1 DEF OrderInv, MigrationsInv, InOrder, Session
  <2> QED
    BY <2>2 DEF WaitsFor
<1>4. ASSUME NEW v \in S, NEW q \in Wanted(v) PROVE \E b \in I : q = t[b]
  <2>1. q \in SeqSet(t)
    BY <1>2, WantedIsLeft
  <2> QED
    BY <1>1, <2>1 DEF SeqSet
<1>5. I # {} /\ I \in SUBSET (1 .. Len(t))
  <2>0. PICK u \in S : TRUE
    OBVIOUS
  <2>1. PICK v \in WaitsFor(u) \cap S : TRUE
    OBVIOUS
  <2>2. PICK q \in Wanted(v) : TRUE
    BY <1>3
  <2> QED
    BY <1>4, <2>1, <2>2
<1>6. PICK i \in I : \A j \in I : j <= i
  <2> HIDE DEF I
  <2> QED
    BY <1>1, <1>5, GreatestNumber
<1>7. PICK u \in S : t[i] \in Wanted(u)
  BY <1>6
<1>8. PICK v \in WaitsFor(u) \cap S : TRUE
  OBVIOUS
<1>9. t[i] \in recorded[v]
  <2>1. pc[u] # "waiting" /\ Wanted(u) = {t[i]}
    BY <1>7, WantedIsLeft DEF Wanted
  <2> QED
    BY <1>8, <2>1 DEF WaitsFor
<1>10. PICK q \in Wanted(v) : TRUE
  BY <1>3, <1>8
<1>11. PICK b \in I : q = t[b]
  BY <1>4, <1>8, <1>10
<1>12. q \in Left(v) /\ q \notin recorded[v] /\ t[i] \in UpTo(order[v], q)
  BY <1>8, <1>9, <1>10, WantedIsLeft DEF OrderInv, InOrder
<1>13. PICK a \in 1 .. Len(order[v]), k \in 1 .. Len(order[v]) :
         order[v][a] = t[i] /\ order[v][k] = t[b] /\ a <= k
  <2>1. DOMAIN order[v] = 1 .. Len(order[v])
    BY <1>2, <1>8
  <2> QED
    BY <1>11, <1>12, <2>1 DEF UpTo
<1>14. ~(b < i)
  <2>1. i \in 1 .. Len(t) /\ b \in 1 .. Len(t)
    BY <1>6, <1>11
  <2>2. k < a <=> b < i
    BY <1>2, <1>8, <1>13, <2>1
  <2>3. ~(k < a)
    BY <1>2, <1>8, <1>13
  <2> QED
    BY <2>2, <2>3
<1>15. q = t[i]
  <2>1. i \in 1 .. Len(t) /\ b \in 1 .. Len(t)
    BY <1>6, <1>11
  <2>2. b <= i
    <3> HIDE DEF I
    <3> QED
      BY <1>6, <1>11
  <2>3. b = i
    BY <1>1, <1>14, <2>1, <2>2
  <2> QED
    BY <1>11, <2>3
<1> QED
  BY <1>9, <1>12, <1>15

\* Upgrades never deadlock in the database, for any number of processes with
\* older and newer files and any targets: no set of them waits in a circle
\* for each other's rows or for the table.
THEOREM UpgradesNeverDeadlock == Spec => []NoCircle
BY OrderInvInit, OrderInvNext, WaitersAreOrdered, PTL DEF Spec
=============================================================================
