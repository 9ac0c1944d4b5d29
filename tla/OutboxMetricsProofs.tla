------------------------- MODULE OutboxMetricsProofs -------------------------
(***************************************************************************)
(* Proofs about OutboxMetrics: what the counter counts, for any number of  *)
(* jobs, workers and crashes, and also if leases expire under their        *)
(* holders.  The sums are folds over sets; what is needed of them goes by  *)
(* the smallest set for which it would fail.                               *)
(***************************************************************************)
EXTENDS OutboxMetrics, OutboxProofs, FiniteSetTheorems, WellFoundedInduction

-----------------------------------------------------------------------------
(* Sums over finite sets.                                                  *)

Pick(T) == CHOOSE x \in T : TRUE

\* The sums over the subsets of S, as a function of the subset.
Sums(f, S) ==
  {g \in [SUBSET S -> Int] :
     /\ g[{}] = 0
     /\ \A T \in SUBSET S : T # {} => g[T] = f[Pick(T)] + g[T \ {Pick(T)}]}

LEMMA LeastNumber ==
  ASSUME NEW T \in SUBSET Nat, T # {} PROVE \E x \in T : \A y \in T : x <= y
<1> DEFINE Less == OpToRel(<, Nat)
<1>1. IsWellFoundedOn(Less, Nat)
  BY NatLessThanWellFounded
<1>2. \A x, y \in Nat : x < y => <<x, y>> \in Less
  BY DEF OpToRel
<1> HIDE DEF Less
<1>3. \E x \in T : \A y \in T : <<y, x>> \notin Less
  BY <1>1, WFMin
<1>4. \A x, y \in Nat : ~(x < y) => y <= x
  OBVIOUS
<1> QED
  BY <1>2, <1>3, <1>4

\* What holds of the empty set, and of a set if it holds of the set without
\* one element, holds of every subset of a finite set.
LEMMA AllSubsets ==
  ASSUME NEW S, IsFiniteSet(S), NEW P, {} \in P,
         \A T \in SUBSET S : T # {} /\ T \ {Pick(T)} \in P => T \in P
  PROVE  SUBSET S \subseteq P
<1> DEFINE Bad == (SUBSET S) \ P
           Size == {Cardinality(T) : T \in Bad}
<1> SUFFICES ASSUME Bad # {} PROVE FALSE
  OBVIOUS
<1>1. \A T \in Bad : IsFiniteSet(T) /\ Cardinality(T) \in Nat
  BY FS_Subset, FS_CardinalityType
<1>2. Size \in SUBSET Nat /\ Size # {}
  BY <1>1
<1>3. PICK n \in Size : \A m \in Size : n <= m
  <2> HIDE DEF Size
  <2> QED
    BY <1>2, LeastNumber
<1>4. PICK T \in Bad : Cardinality(T) = n
  BY <1>3
<1>5. T # {} /\ Pick(T) \in T
  BY <1>4 DEF Pick
<1>6. Cardinality(T \ {Pick(T)}) = Cardinality(T) - 1
  BY <1>1, <1>5, FS_RemoveElement
<1>7. T \ {Pick(T)} \in Bad
  BY <1>4, <1>5
<1>8. Cardinality(T \ {Pick(T)}) \in Size
  BY <1>7
<1> HIDE DEF Size, Bad
<1> QED
  BY <1>1, <1>3, <1>4, <1>6, <1>8

\* There is such a function: it grows with the size of the subsets.
LEMMA SumsExist ==
  ASSUME NEW S, IsFiniteSet(S), NEW f \in [S -> Int] PROVE Sums(f, S) # {}
<1> DEFINE Small(n) == {T \in SUBSET S : Cardinality(T) <= n}
           Partial(n) == {g \in [Small(n) -> Int] :
             /\ g[{}] = 0
             /\ \A T \in Small(n) : T # {} => g[T] = f[Pick(T)] + g[T \ {Pick(T)}]}
           Bad == {n \in Nat : Partial(n) = {}}
<1>1. \A T \in SUBSET S : IsFiniteSet(T) /\ Cardinality(T) \in Nat /\ Cardinality(T) <= Cardinality(S)
  BY FS_Subset, FS_CardinalityType
<1>2. Cardinality({}) = 0
  BY FS_EmptySet
<1>3. \A T \in SUBSET S : T # {} =>
        Pick(T) \in T /\ f[Pick(T)] \in Int /\ Cardinality(T \ {Pick(T)}) = Cardinality(T) - 1
  BY <1>1, FS_RemoveElement DEF Pick
<1>4. 0 \notin Bad
  <2>1. Small(0) = {{}}
    BY <1>1, <1>2, FS_EmptySet
  <2>2. [T \in {{}} |-> 0] \in Partial(0)
    BY <2>1
  <2> QED
    BY <2>2
<1>5. ASSUME NEW n \in Nat, n \notin Bad PROVE n + 1 \notin Bad
  <2>1. PICK g : g \in Partial(n)
    BY <1>5
  <2> DEFINE h == [T \in Small(n + 1) |->
                    IF T \in Small(n) THEN g[T] ELSE f[Pick(T)] + g[T \ {Pick(T)}]]
  <2>2. g \in [Small(n) -> Int] /\ g[{}] = 0
        /\ \A T \in Small(n) : T # {} => g[T] = f[Pick(T)] + g[T \ {Pick(T)}]
    BY <2>1
  <2>3. {} \in Small(n) /\ Small(n) \subseteq Small(n + 1)
    BY <1>1, <1>2
  <2>4. \A T \in Small(n + 1) : T # {} => T \ {Pick(T)} \in Small(n)
    BY <1>1, <1>3
  <2>5. \A T \in Small(n + 1) : T \in SUBSET S
    OBVIOUS
  <2> HIDE DEF Small
  <2>6. \A T \in Small(n) : h[T] = g[T]
    BY <2>3
  <2>7. \A T \in Small(n + 1) : T \notin Small(n) => T # {} /\ h[T] = f[Pick(T)] + g[T \ {Pick(T)}]
    BY <2>3
  <2>8. h \in [Small(n + 1) -> Int]
    <3> SUFFICES ASSUME NEW T \in Small(n + 1) PROVE h[T] \in Int
      OBVIOUS
    <3>1. CASE T \in Small(n)
      BY <2>2, <2>6, <3>1
    <3>2. CASE T \notin Small(n)
      BY <1>3, <2>2, <2>4, <2>5, <2>7, <3>2
    <3> QED
      BY <3>1, <3>2
  <2>9. h[{}] = 0
    BY <2>2, <2>3, <2>6
  <2>10. ASSUME NEW T \in Small(n + 1), T # {} PROVE h[T] = f[Pick(T)] + h[T \ {Pick(T)}]
    BY <2>2, <2>4, <2>6, <2>7, <2>10
  <2>11. h \in Partial(n + 1)
    <3> HIDE DEF h
    <3> QED
      BY <2>8, <2>9, <2>10
  <2> QED
    BY <2>11
<1>6. Cardinality(S) \notin Bad
  <2> SUFFICES ASSUME Bad # {} PROVE FALSE
    BY <1>1
  <2> HIDE DEF Partial
  <2>1. PICK n \in Bad : \A m \in Bad : n <= m
    <3>1. Bad \in SUBSET Nat
      OBVIOUS
    <3> HIDE DEF Bad
    <3> QED
      BY <3>1, LeastNumber
  <2>2. n - 1 \in Nat /\ n - 1 \notin Bad /\ n = (n - 1) + 1
    BY <1>4, <2>1
  <2> HIDE DEF Bad
  <2> QED
    BY <1>5, <2>1, <2>2
<1>7. Small(Cardinality(S)) = SUBSET S
  BY <1>1
<1>8. PICK g : g \in Partial(Cardinality(S))
  <2>1. Cardinality(S) \in Nat
    BY <1>1
  <2> QED
    BY <1>6, <2>1
<1> QED
  BY <1>7, <1>8 DEF Sums

\* SumFunction, a fold, is such a function of its domain.
LEMMA SumIsFold ==
  ASSUME NEW S, IsFiniteSet(S), NEW f \in [S -> Int], NEW g \in Sums(f, S)
  PROVE  SumFunction(f) = g[S]
<1> DEFINE Body(h) == [s \in SUBSET S |-> IF s = {} THEN 0 ELSE f[Pick(s)] + h[s \ {Pick(s)}]]
           iter == CHOOSE h : h = Body(h)
<1>1. SumFunction(f) = iter[S]
  BY DEF SumFunction, SumFunctionOnSet, FoldFunctionOnSet, MapThenFoldSet, Pick
<1>2. g \in [SUBSET S -> Int] /\ g[{}] = 0 /\ \A T \in SUBSET S : T # {} => g[T] = f[Pick(T)] + g[T \ {Pick(T)}]
  BY DEF Sums
<1>3. g = Body(g)
  BY <1>2
<1>4. iter = Body(iter)
  <2> HIDE DEF Body
  <2> QED
    BY <1>3
<1> HIDE DEF iter
<1> DEFINE P == {T \in SUBSET S : iter[T] = g[T]}
<1>5. {} \in P
  BY <1>2, <1>4
<1>6. ASSUME NEW T \in SUBSET S, T # {}, T \ {Pick(T)} \in P PROVE T \in P
  <2>1. iter[T] = f[Pick(T)] + iter[T \ {Pick(T)}]
    BY <1>4, <1>6
  <2> QED
    BY <1>2, <1>6, <2>1
<1>7. S \in P
  <2> HIDE DEF P
  <2> QED
    BY <1>5, <1>6, AllSubsets
<1> QED
  BY <1>1, <1>7

\* Sums add up: what each term grows by, the sum grows by.
LEMMA SumOfSums ==
  ASSUME NEW S, IsFiniteSet(S), NEW e \in [S -> Int], NEW d \in [S -> Int], NEW f \in [S -> Int],
         \A x \in S : f[x] = e[x] + d[x]
  PROVE  /\ SumFunction(f) = SumFunction(e) + SumFunction(d)
         /\ SumFunction(e) \in Int /\ SumFunction(d) \in Int
<1>1. PICK ge \in Sums(e, S), gd \in Sums(d, S), gf \in Sums(f, S) : TRUE
  BY SumsExist
<1> DEFINE P == {T \in SUBSET S : gf[T] = ge[T] + gd[T]}
<1>2. \A T \in SUBSET S : ge[T] \in Int /\ gd[T] \in Int /\ gf[T] \in Int
  BY DEF Sums
<1>3. {} \in P
  BY <1>1 DEF Sums
<1>4. ASSUME NEW T \in SUBSET S, T # {}, T \ {Pick(T)} \in P PROVE T \in P
  <2>1. Pick(T) \in S
    BY <1>4 DEF Pick
  <2>2. /\ ge[T] = e[Pick(T)] + ge[T \ {Pick(T)}]
        /\ gd[T] = d[Pick(T)] + gd[T \ {Pick(T)}]
        /\ gf[T] = f[Pick(T)] + gf[T \ {Pick(T)}]
    BY <1>1, <1>4 DEF Sums
  <2>3. e[Pick(T)] \in Int /\ d[Pick(T)] \in Int
    BY <2>1
  <2> QED
    BY <1>2, <1>4, <2>1, <2>2, <2>3
<1>5. S \in P
  <2> HIDE DEF P
  <2> QED
    BY <1>3, <1>4, AllSubsets
<1>6. SumFunction(e) = ge[S] /\ SumFunction(d) = gd[S] /\ SumFunction(f) = gf[S]
  BY SumIsFold
<1> QED
  BY <1>2, <1>5, <1>6

\* A sum of ones counts.
LEMMA SumOfOnes ==
  ASSUME NEW S, IsFiniteSet(S), NEW A \in SUBSET S
  PROVE  SumFunction([x \in S |-> IF x \in A THEN 1 ELSE 0]) = Cardinality(A)
<1> DEFINE d == [x \in S |-> IF x \in A THEN 1 ELSE 0]
<1>0. d \in [S -> Int]
  OBVIOUS
<1>1. PICK g \in Sums(d, S) : TRUE
  BY <1>0, SumsExist
<1> DEFINE P == {T \in SUBSET S : g[T] = Cardinality(A \cap T)}
<1>2. {} \in P
  BY FS_EmptySet DEF Sums
<1>3. ASSUME NEW T \in SUBSET S, T # {}, T \ {Pick(T)} \in P PROVE T \in P
  <2>1. Pick(T) \in T
    BY <1>3 DEF Pick
  <2>2. g[T] = d[Pick(T)] + g[T \ {Pick(T)}]
    BY <1>3 DEF Sums
  <2>3. IsFiniteSet(A \cap T) /\ Cardinality(A \cap T) \in Nat
    BY FS_Subset, FS_CardinalityType
  <2>4. A \cap (T \ {Pick(T)}) = (A \cap T) \ {Pick(T)}
    OBVIOUS
  <2>5. Cardinality((A \cap T) \ {Pick(T)}) =
          IF Pick(T) \in A THEN Cardinality(A \cap T) - 1 ELSE Cardinality(A \cap T)
    BY <2>1, <2>3, FS_RemoveElement
  <2>6. g[T \ {Pick(T)}] = Cardinality((A \cap T) \ {Pick(T)})
    BY <1>3, <2>4
  <2>7. d[Pick(T)] = IF Pick(T) \in A THEN 1 ELSE 0
    BY <2>1
  <2> HIDE DEF d
  <2>8. g[T] = Cardinality(A \cap T)
    BY <2>2, <2>3, <2>5, <2>6, <2>7
  <2> QED
    BY <2>8
<1>4. S \in P
  <2> HIDE DEF P
  <2> QED
    BY <1>2, <1>3, AllSubsets
<1>5. A \cap S = A
  OBVIOUS
<1> QED
  BY <1>0, <1>4, <1>5, SumIsFold

\* A sum with one term that is not 0.
LEMMA SumOfOne ==
  ASSUME NEW S, IsFiniteSet(S), NEW w \in S, NEW n \in Int
  PROVE  SumFunction([x \in S |-> IF x = w THEN n ELSE 0]) = n
<1> DEFINE d == [x \in S |-> IF x = w THEN n ELSE 0]
<1>0. d \in [S -> Int]
  OBVIOUS
<1>1. PICK g \in Sums(d, S) : TRUE
  BY <1>0, SumsExist
<1> DEFINE P == {T \in SUBSET S : g[T] = IF w \in T THEN n ELSE 0}
<1>2. {} \in P
  BY DEF Sums
<1>3. ASSUME NEW T \in SUBSET S, T # {}, T \ {Pick(T)} \in P PROVE T \in P
  <2>1. Pick(T) \in T
    BY <1>3 DEF Pick
  <2>2. g[T] = d[Pick(T)] + g[T \ {Pick(T)}]
    BY <1>3 DEF Sums
  <2> QED
    BY <1>3, <2>1, <2>2
<1>4. S \in P
  <2> HIDE DEF P
  <2> QED
    BY <1>2, <1>3, AllSubsets
<1> QED
  BY <1>0, <1>4, SumIsFold

-----------------------------------------------------------------------------
(* The counter.                                                            *)

USE MetricsAssumption

\* The jobs each worker has yet to run, counted.
Loads == [w \in Workers |-> Cardinality(Unrun(w))]

MetricsInv ==
  /\ AnyInv
  /\ BatchApart
  /\ NothingAborted
  /\ counted \in [{"done", "failed"} -> Nat]
  /\ AttemptsAreCounted

\* Everything that is added up is a number.
LEMMA CountsAreNumbers ==
  ASSUME TypeOK
  PROVE  /\ attempts \in [Jobs -> Int] /\ Loads \in [Workers -> Nat] /\ Loads \in [Workers -> Int]
         /\ \A w \in Workers : Unrun(w) \in SUBSET Jobs /\ IsFiniteSet(Unrun(w))
         /\ Attempts \in Int /\ Waiting \in Int
<1>1. \A w \in Workers : Unrun(w) \in SUBSET Jobs
  BY DEF TypeOK, Unrun, Held
<1>2. \A w \in Workers : IsFiniteSet(Unrun(w)) /\ Cardinality(Unrun(w)) \in Nat
  BY <1>1, FS_Subset, FS_CardinalityType
<1>3. attempts \in [Jobs -> Int] /\ Loads \in [Workers -> Nat] /\ Loads \in [Workers -> Int]
  BY <1>2 DEF TypeOK, Loads
<1> DEFINE None(S) == [x \in S |-> 0]
<1>4. None(Jobs) \in [Jobs -> Int] /\ None(Workers) \in [Workers -> Int]
  OBVIOUS
<1>5. \A x \in Jobs : attempts[x] = attempts[x] + None(Jobs)[x]
  BY DEF TypeOK
<1>6. \A x \in Workers : Loads[x] = Loads[x] + None(Workers)[x]
  BY <1>3
<1> HIDE DEF None, Loads
<1>7. SumFunction(attempts) \in Int /\ SumFunction(Loads) \in Int
  BY <1>3, <1>4, <1>5, <1>6, SumOfSums
<1> QED
  BY <1>1, <1>2, <1>3, <1>7 DEF Attempts, Waiting, Loads

\* A worker whose load changes by n.
LEMMA WaitingChanges ==
  ASSUME TypeOK, TypeOK', NEW w \in Workers, NEW n \in Int,
         Cardinality(Unrun(w)') = Cardinality(Unrun(w)) + n,
         \A v \in Workers \ {w} : Unrun(v)' = Unrun(v)
  PROVE  Waiting' = Waiting + n
<1> DEFINE d == [v \in Workers |-> IF v = w THEN n ELSE 0]
<1>1. Loads \in [Workers -> Int] /\ Loads' \in [Workers -> Int] /\ d \in [Workers -> Int]
  <2>1. Loads \in [Workers -> Int]
    BY CountsAreNumbers
  <2>2. \A v \in Workers : Cardinality(Unrun(v)') \in Int
    <3>1. \A v \in Workers : Unrun(v)' \in SUBSET Jobs
      BY DEF TypeOK, Unrun, Held
    <3> QED
      BY <3>1, FS_Subset, FS_CardinalityType
  <2> QED
    BY <2>1, <2>2 DEF Loads
<1>2. \A v \in Workers : Loads'[v] = Loads[v] + d[v]
  <2> TAKE v \in Workers
  <2>1. Loads[v] \in Int /\ Loads[v] = Cardinality(Unrun(v)) /\ Loads'[v] = Cardinality(Unrun(v)')
    BY <1>1 DEF Loads
  <2> QED
    BY <2>1
<1>3. SumFunction(d) = n
  BY SumOfOne
<1> HIDE DEF d
<1>4. SumFunction(Loads') = SumFunction(Loads) + SumFunction(d)
  BY <1>1, <1>2, SumOfSums
<1> QED
  BY <1>3, <1>4 DEF Waiting, Loads

\* A batch whose attempts are counted in its rows.
LEMMA AttemptsGrow ==
  ASSUME TypeOK, NEW A \in SUBSET Jobs,
         attempts' = [j \in Jobs |-> IF j \in A THEN attempts[j] + 1 ELSE attempts[j]]
  PROVE  Attempts' = Attempts + Cardinality(A)
<1> DEFINE d == [j \in Jobs |-> IF j \in A THEN 1 ELSE 0]
<1>1. attempts \in [Jobs -> Int] /\ attempts' \in [Jobs -> Int] /\ d \in [Jobs -> Int]
  BY DEF TypeOK
<1>2. \A j \in Jobs : attempts'[j] = attempts[j] + d[j]
  BY <1>1
<1>3. SumFunction(d) = Cardinality(A)
  BY SumOfOnes
<1> HIDE DEF d
<1>4. SumFunction(attempts') = SumFunction(attempts) + SumFunction(d)
  BY <1>1, <1>2, SumOfSums
<1> QED
  BY <1>3, <1>4 DEF Attempts

\* A step that leaves every load and every row's attempts alone.
LEMMA NothingMoves ==
  ASSUME attempts' = attempts, counted' = counted, crashes' = crashes,
         \A v \in Workers : Unrun(v)' = Unrun(v), AttemptsAreCounted
  PROVE  AttemptsAreCounted'
<1>1. Loads' = Loads
  BY DEF Loads
<1>2. Waiting' = Waiting /\ Attempts' = Attempts
  BY <1>1 DEF Waiting, Loads, Attempts
<1> QED
  BY <1>2 DEF AttemptsAreCounted

LEMMA MetricsInvInit == MetricsInit => MetricsInv
<1> SUFFICES ASSUME MetricsInit PROVE MetricsInv
  OBVIOUS
<1>1. Init /\ counted = [result \in {"done", "failed"} |-> 0]
  BY DEF MetricsInit
<1>2. AnyInv /\ BatchApart /\ NothingAborted
  BY <1>1, LeaseInvInit DEF LeaseInv
<1>3. Cardinality({}) = 0
  BY FS_EmptySet
<1>4. \A w \in Workers : Unrun(w) = {}
  BY <1>1 DEF Init, Unrun, Held
<1>5. Loads = [w \in Workers |-> IF w \in {} THEN 1 ELSE 0]
  BY <1>3, <1>4 DEF Loads
<1>6. attempts = [j \in Jobs |-> IF j \in {} THEN 1 ELSE 0]
  BY <1>1 DEF Init
<1>7. Waiting = 0 /\ Attempts = 0
  BY <1>3, <1>5, <1>6, SumOfOnes DEF Waiting, Attempts, Loads
<1> QED
  BY <1>1, <1>2, <1>7 DEF MetricsInv, AttemptsAreCounted

\* A handler that ends is counted, and its job is no longer waiting.
LEMMA CountedStep ==
  ASSUME MetricsInv, AnyInv', NEW w \in Workers, Counted(w)
  PROVE  MetricsInv'
<1> USE ConstantsAssumption DEF MetricsInv, AnyInv
<1>1. /\ pc[w] = "running" /\ pc' = [pc EXCEPT ![w] = "mark"]
      /\ UNCHANGED <<attempts, batch, job, aborted, crashes>>
  BY DEF Counted, HandlerEnds, HandlerReturns, HandlerRaises, row, history
<1>2. BatchApart' /\ NothingAborted'
  BY <1>1 DEF BatchApart, NothingAborted, TypeOK
<1>3. job[w] \in Jobs /\ job[w] \notin batch[w]
  BY <1>1 DEF TypeOK, AtHand, BatchApart
<1>4. Unrun(w) = batch[w] \cup {job[w]} /\ Unrun(w)' = Unrun(w) \ {job[w]}
  BY <1>1, <1>3 DEF Unrun, Held, TypeOK
<1>5. \A v \in Workers \ {w} : Unrun(v)' = Unrun(v)
  BY <1>1 DEF Unrun, Held, TypeOK
<1>6. Cardinality(Unrun(w)') = Cardinality(Unrun(w)) + (-1)
  <2>1. IsFiniteSet(Unrun(w)) /\ Cardinality(Unrun(w)) \in Nat
    BY CountsAreNumbers, FS_CardinalityType
  <2>2. Cardinality(Unrun(w) \ {job[w]}) = Cardinality(Unrun(w)) - 1
    BY <1>4, <2>1, FS_RemoveElement
  <2> QED
    BY <1>4, <2>1, <2>2
<1>7. Waiting' = Waiting + (-1)
  BY <1>5, <1>6, WaitingChanges
<1>8. Waiting \in Int /\ Attempts \in Int /\ Attempts' = Attempts
  BY <1>1, CountsAreNumbers DEF Attempts
<1>9. PICK result \in {"done", "failed"} : counted' = [counted EXCEPT ![result] = @ + 1]
  BY DEF Counted, Result
<1>10. /\ counted' \in [{"done", "failed"} -> Nat]
       /\ counted'["done"] + counted'["failed"] = counted["done"] + counted["failed"] + 1
  BY <1>9
<1>11. AttemptsAreCounted'
  BY <1>1, <1>7, <1>8, <1>10 DEF AttemptsAreCounted
<1> QED
  BY <1>2, <1>10, <1>11

\* Every other step: a claim that commits adds as many attempts as it hands
\* out jobs, a crash drops jobs, and nothing else moves.
LEMMA UncountedStep ==
  ASSUME ShortErrors, MetricsInv, AnyInv', Uncounted
  PROVE  MetricsInv'
<1> USE ConstantsAssumption DEF MetricsInv, AnyInv
<1>0. counted' = counted /\ Next /\ \A w \in Workers : pc[w] = "running" => pc'[w] # "mark"
  BY DEF Uncounted
<1>a. /\ \A j \in Jobs : Fits(last_error[j], TRUE)
      /\ \A w \in Workers : Fits(NextError(w), FALSE)
  BY EveryNotifyFits
<1>1. ASSUME NEW j \in Jobs, Append(j) \/ Expire(j) PROVE MetricsInv'
  <2>1. UNCHANGED <<attempts, pc, batch, job, aborted, crashes>>
    BY <1>1 DEF Append, Expire, locals, history
  <2>2. BatchApart' /\ NothingAborted' /\ \A v \in Workers : Unrun(v)' = Unrun(v)
    BY <2>1 DEF BatchApart, NothingAborted, Unrun, Held
  <2> QED
    BY <1>0, <2>1, <2>2, NothingMoves
<1>2. ASSUME NEW w \in Workers, Claim(w) PROVE MetricsInv'
  <2>1. BatchApart'
    BY <1>2 DEF BatchApart, AtHand, TypeOK, Claim, FirstDue, Candidates
  <2>2. NothingAborted'
    <3>1. FirstDue \subseteq Jobs
      BY DEF FirstDue, Candidates
    <3>2. aborted' = [aborted EXCEPT ![w] = FALSE]
      BY <1>a, <1>2, <3>1 DEF Claim
    <3> QED
      BY <3>2 DEF NothingAborted, TypeOK
  <2>3. \A v \in Workers : Unrun(v)' = Unrun(v)
    BY <1>2 DEF Claim, TypeOK, AtHand, BatchApart, Unrun, Held
  <2> QED
    BY <1>0, <1>2, <2>1, <2>2, <2>3, NothingMoves DEF Claim, row, history
<1>3. ASSUME NEW w \in Workers, ClaimCommit(w) PROVE MetricsInv'
  <2>1. Claimed(w) = batch[w] /\ batch[w] \in SUBSET Jobs /\ job[w] = Null
    BY <1>3 DEF ClaimCommit, Claimed, NothingAborted, TypeOK, AtHand
  <2>2. BatchApart' /\ NothingAborted'
    BY <1>3 DEF ClaimCommit, BatchApart, NothingAborted, TypeOK
  <2>3. Unrun(w) = {} /\ Unrun(w)' = batch[w]
    BY <1>3, <2>1 DEF ClaimCommit, TypeOK, Unrun, Held
  <2>4. \A v \in Workers \ {w} : Unrun(v)' = Unrun(v)
    BY <1>3 DEF ClaimCommit, TypeOK, Unrun, Held
  <2>5. Cardinality({}) = 0 /\ Cardinality(batch[w]) \in Nat
    BY <2>1, FS_EmptySet, FS_Subset, FS_CardinalityType
  <2>6. Waiting' = Waiting + Cardinality(batch[w])
    BY <2>3, <2>4, <2>5, WaitingChanges
  <2>7. Attempts' = Attempts + Cardinality(batch[w])
    BY <1>3, <2>1, AttemptsGrow DEF ClaimCommit
  <2>8. Waiting \in Int /\ Attempts \in Int /\ crashes' = crashes
    BY <1>3, CountsAreNumbers DEF ClaimCommit, history
  <2>9. AttemptsAreCounted'
    BY <1>0, <2>5, <2>6, <2>7, <2>8 DEF AttemptsAreCounted
  <2> QED
    BY <1>0, <2>2, <2>9
<1>4. ASSUME NEW w \in Workers, Dispatch(w) PROVE MetricsInv'
  <2>1. BatchApart' /\ NothingAborted'
    BY <1>4 DEF BatchApart, NothingAborted, TypeOK, Dispatch
  <2>2. \A v \in Workers : Unrun(v)' = Unrun(v)
    BY <1>4 DEF Dispatch, TypeOK, AtHand, Unrun, Held
  <2> QED
    BY <1>0, <1>4, <2>1, <2>2, NothingMoves DEF Dispatch, row, history
<1>5. ASSUME NEW w \in Workers, HandlerEnds(w) PROVE MetricsInv'
  BY <1>0, <1>5 DEF HandlerEnds, HandlerReturns, HandlerRaises, TypeOK
<1>6. ASSUME NEW w \in Workers, MarkRead(w) PROVE MetricsInv'
  <2>1. BatchApart' /\ NothingAborted' /\ \A v \in Workers : Unrun(v)' = Unrun(v)
    BY <1>6 DEF BatchApart, NothingAborted, TypeOK, MarkRead, Unrun, Held
  <2> QED
    BY <1>0, <1>6, <2>1, NothingMoves DEF MarkRead, row, history
<1>7. ASSUME NEW w \in Workers, MarkWrite(w) PROVE MetricsInv'
  <2>1. BatchApart' /\ \A v \in Workers : Unrun(v)' = Unrun(v)
    BY <1>7 DEF BatchApart, TypeOK, MarkWrite, Unrun, Held
  <2>2. NothingAborted'
    <3>1. aborted' = [aborted EXCEPT ![w] = FALSE]
      BY <1>a, <1>7 DEF MarkWrite
    <3> QED
      BY <3>1 DEF NothingAborted, TypeOK
  <2> QED
    BY <1>0, <1>7, <2>1, <2>2, NothingMoves DEF MarkWrite, row, history
<1>8. ASSUME NEW w \in Workers, MarkCommit(w) PROVE MetricsInv'
  <2>1. BatchApart' /\ NothingAborted'
    BY <1>8 DEF BatchApart, NothingAborted, TypeOK, MarkCommit
  <2>2. \A v \in Workers : Unrun(v)' = Unrun(v)
    BY <1>8 DEF MarkCommit, TypeOK, BatchApart, Unrun, Held
  <2> QED
    BY <1>0, <1>8, <2>1, <2>2, NothingMoves DEF MarkCommit, history
<1>9. ASSUME NEW w \in Workers, Crash(w) PROVE MetricsInv'
  <2>1. BatchApart' /\ NothingAborted'
    BY <1>9 DEF BatchApart, NothingAborted, TypeOK, Crash
  <2>2. Unrun(w)' = {} /\ \A v \in Workers \ {w} : Unrun(v)' = Unrun(v)
    BY <1>9 DEF Crash, TypeOK, Unrun, Held
  <2>3. Cardinality({}) = 0 /\ Cardinality(Unrun(w)) \in Nat
    BY CountsAreNumbers, FS_EmptySet, FS_CardinalityType
  <2>4. Waiting' = Waiting + (0 - Cardinality(Unrun(w)))
    <3>1. 0 - Cardinality(Unrun(w)) \in Int
      BY <2>3
    <3>2. Cardinality(Unrun(w)') = Cardinality(Unrun(w)) + (0 - Cardinality(Unrun(w)))
      BY <2>2, <2>3
    <3> QED
      BY <2>2, <3>1, <3>2, WaitingChanges
  <2>5. Waiting \in Int /\ Attempts \in Int /\ Attempts' = Attempts
    BY <1>9, CountsAreNumbers DEF Attempts, Crash, row
  <2>6. crashes' # 0
    BY <1>9 DEF Crash, TypeOK
  <2>7. AttemptsAreCounted'
    BY <1>0, <2>3, <2>4, <2>5, <2>6 DEF AttemptsAreCounted
  <2> QED
    BY <1>0, <2>1, <2>7
<1> QED
  BY <1>0, <1>1, <1>2, <1>3, <1>4, <1>5, <1>6, <1>7, <1>8, <1>9 DEF Next, Poll, HandlerEnds

LEMMA MetricsInvNext ==
  ASSUME ShortErrors PROVE MetricsInv /\ [MetricsNext]_<<vars, counted>> => MetricsInv'
<1> SUFFICES ASSUME MetricsInv, [MetricsNext]_<<vars, counted>> PROVE MetricsInv'
  OBVIOUS
<1>1. [Next]_vars
  BY DEF MetricsNext, Uncounted, Counted, HandlerEnds, Next, Poll
<1>2. AnyInv'
  BY <1>1, AnyInvNext DEF MetricsInv
<1>3. CASE Uncounted
  BY <1>2, <1>3, UncountedStep
<1>4. CASE \E w \in Workers : Counted(w)
  BY <1>2, <1>4, CountedStep
<1>5. CASE UNCHANGED <<vars, counted>>
  <2>1. UNCHANGED <<attempts, pc, batch, job, aborted, crashes>>
    BY <1>5 DEF vars, row, locals, history
  <2>2. BatchApart' /\ NothingAborted' /\ \A v \in Workers : Unrun(v)' = Unrun(v)
    BY <2>1 DEF MetricsInv, BatchApart, NothingAborted, Unrun, Held
  <2> QED
    BY <1>2, <1>5, <2>1, <2>2, NothingMoves DEF MetricsInv
<1> QED
  BY <1>3, <1>4, <1>5 DEF MetricsNext

\* The counter counts every attempt exactly once, when its handler ends, and
\* only a crash makes it fall behind the rows.  Leases may expire under their
\* holders: a job that two workers run has two attempts and is counted twice.
THEOREM CounterFollowsAttempts ==
  ASSUME ShortErrors
  PROVE  MetricsSpec => []AttemptsAreCounted
<1>1. MetricsInv /\ [MetricsNext]_<<vars, counted>> => MetricsInv'
  BY MetricsInvNext
<1>2. MetricsInv => AttemptsAreCounted
  BY DEF MetricsInv
<1> QED
  BY <1>1, <1>2, MetricsInvInit, PTL DEF MetricsSpec
=============================================================================
