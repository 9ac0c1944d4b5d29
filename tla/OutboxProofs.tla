---------------------------- MODULE OutboxProofs ----------------------------
(***************************************************************************)
(* Proofs about Outbox for every set of jobs and workers, every LIMIT and  *)
(* every max_attempts, and for any number of claims and crashes.           *)
(***************************************************************************)
EXTENDS Outbox, TLAPS

(***************************************************************************)
(* Part 1.  What holds for every error size and however late a worker is.  *)
(***************************************************************************)

\* The job a worker has at hand: there is one between Dispatch and the
\* commit of its mark; outcome "ok" means that its handler has returned; the
\* attempts mark has read may be out of date, but they are never too large.
AtHand ==
  \A w \in Workers :
    /\ job[w] # Null <=> pc[w] \in {"running", "mark", "write", "commit"}
    /\ pc[w] \in {"mark", "write", "commit"} /\ outcome[w] = "ok" => job[w] \in succeeded
    /\ pc[w] \in {"write", "commit"} => seen[w] <= attempts[job[w]]

AnyInv == TypeOK /\ AtHand /\ LeaseIffRunning /\ DoneMeansHandled /\ FailedMeansExhausted

LEMMA AnyInvInit == Init => AnyInv
BY ConstantsAssumption
   DEF Init, AnyInv, TypeOK, AtHand, LeaseIffRunning, DoneMeansHandled,
         FailedMeansExhausted, Terminal

LEMMA AnyInvNext == AnyInv /\ [Next]_vars => AnyInv'
<1> SUFFICES ASSUME AnyInv, [Next]_vars PROVE AnyInv'
  OBVIOUS
<1> USE ConstantsAssumption DEF AnyInv
<1>1. ASSUME NEW j \in Jobs, Append(j) PROVE AnyInv'
  <2>1. TypeOK'
    BY <1>1 DEF TypeOK, Append, MoveToEnd, Submitted, locals, history
  <2>2. AtHand'
    BY <1>1 DEF AtHand, Append, locals, history
  <2>3. LeaseIffRunning'
    BY <1>1 DEF LeaseIffRunning, Append
  <2>4. FailedMeansExhausted'
    BY <1>1 DEF FailedMeansExhausted, Append
  <2>5. DoneMeansHandled'
    BY <1>1 DEF DoneMeansHandled, Append, history
  <2> QED
    BY <2>1, <2>2, <2>3, <2>4, <2>5
<1>2. ASSUME NEW j \in Jobs, Expire(j) PROVE AnyInv'
  <2>1. TypeOK'
    BY <1>2 DEF TypeOK, Expire, locals, history
  <2>2. AtHand'
    BY <1>2 DEF AtHand, Expire, locals, history
  <2>3. LeaseIffRunning'
    BY <1>2 DEF LeaseIffRunning, Expire
  <2>4. DoneMeansHandled' /\ FailedMeansExhausted'
    BY <1>2 DEF DoneMeansHandled, FailedMeansExhausted, Expire, history
  <2> QED
    BY <2>1, <2>2, <2>3, <2>4
<1>3. ASSUME NEW w \in Workers, Claim(w) PROVE AnyInv'
  <2>1. TypeOK'
    BY <1>3 DEF TypeOK, Claim, FirstDue, Candidates, row, history
  <2>2. AtHand'
    BY <1>3 DEF AtHand, Claim, row, history
  <2>3. LeaseIffRunning' /\ DoneMeansHandled' /\ FailedMeansExhausted'
    BY <1>3 DEF LeaseIffRunning, DoneMeansHandled, FailedMeansExhausted, Claim, row, history
  <2> QED
    BY <2>1, <2>2, <2>3
<1>4. ASSUME NEW w \in Workers, ClaimCommit(w) PROVE AnyInv'
  <2>1. TypeOK'
    BY <1>4 DEF TypeOK, ClaimCommit, history
  <2>2. AtHand'
    BY <1>4 DEF TypeOK, AtHand, ClaimCommit, history
  <2>3. LeaseIffRunning'
    BY <1>4 DEF LeaseIffRunning, ClaimCommit
  <2>4. FailedMeansExhausted'
    BY <1>4 DEF FailedMeansExhausted, ClaimCommit
  <2>5. DoneMeansHandled'
    BY <1>4 DEF DoneMeansHandled, ClaimCommit, history
  <2> QED
    BY <2>1, <2>2, <2>3, <2>4, <2>5
<1>5. ASSUME NEW w \in Workers, Dispatch(w) PROVE AnyInv'
  <2>1. TypeOK'
    BY <1>5 DEF TypeOK, Dispatch, row, history
  <2>2. AtHand'
    BY <1>5 DEF TypeOK, AtHand, Dispatch, row, history
  <2>3. LeaseIffRunning' /\ DoneMeansHandled' /\ FailedMeansExhausted'
    BY <1>5
      DEF LeaseIffRunning, DoneMeansHandled, FailedMeansExhausted, Dispatch, row, history
  <2> QED
    BY <2>1, <2>2, <2>3
<1>6. ASSUME NEW w \in Workers, HandlerReturns(w) PROVE AnyInv'
  <2>1. TypeOK'
    BY <1>6 DEF TypeOK, AtHand, HandlerReturns, row
  <2>2. AtHand'
    BY <1>6 DEF AtHand, HandlerReturns, row
  <2>3. DoneMeansHandled'
    BY <1>6 DEF DoneMeansHandled, HandlerReturns, row
  <2>4. LeaseIffRunning' /\ FailedMeansExhausted'
    BY <1>6 DEF LeaseIffRunning, FailedMeansExhausted, HandlerReturns, row
  <2> QED
    BY <2>1, <2>2, <2>3, <2>4
<1>7. ASSUME NEW w \in Workers, NEW e \in Errors, HandlerRaises(w, e) PROVE AnyInv'
  <2>1. TypeOK'
    BY <1>7 DEF TypeOK, HandlerRaises, row, history
  <2>2. AtHand'
    BY <1>7 DEF TypeOK, AtHand, HandlerRaises, row, history
  <2>3. LeaseIffRunning' /\ DoneMeansHandled' /\ FailedMeansExhausted'
    BY <1>7
      DEF LeaseIffRunning, DoneMeansHandled, FailedMeansExhausted, HandlerRaises, row,
          history
  <2> QED
    BY <2>1, <2>2, <2>3
<1>8. ASSUME NEW w \in Workers, MarkRead(w) PROVE AnyInv'
  <2>1. TypeOK'
    BY <1>8 DEF TypeOK, AtHand, MarkRead, row, history
  <2>2. AtHand'
    BY <1>8 DEF TypeOK, AtHand, MarkRead, row, history
  <2>3. LeaseIffRunning' /\ DoneMeansHandled' /\ FailedMeansExhausted'
    BY <1>8
      DEF LeaseIffRunning, DoneMeansHandled, FailedMeansExhausted, MarkRead, row, history
  <2> QED
    BY <2>1, <2>2, <2>3
<1>9. ASSUME NEW w \in Workers, MarkWrite(w) PROVE AnyInv'
  <2>1. TypeOK'
    BY <1>9 DEF TypeOK, MarkWrite, row, history
  <2>2. AtHand'
    BY <1>9 DEF AtHand, MarkWrite, row, history
  <2>3. LeaseIffRunning' /\ DoneMeansHandled' /\ FailedMeansExhausted'
    BY <1>9
      DEF LeaseIffRunning, DoneMeansHandled, FailedMeansExhausted, MarkWrite, row, history
  <2> QED
    BY <2>1, <2>2, <2>3
<1>10. ASSUME NEW w \in Workers, MarkCommit(w) PROVE AnyInv'
  <2>1. TypeOK'
    BY <1>10
      DEF TypeOK, MarkCommit, NextLease, NextStatus, NextError, MoveToEnd, Submitted,
          history, Terminal
  <2>2. AtHand'
    BY <1>10 DEF TypeOK, AtHand, MarkCommit, history
  <2>3. LeaseIffRunning'
    BY <1>10 DEF LeaseIffRunning, MarkCommit, NextLease, NextStatus
  <2>4. DoneMeansHandled'
    BY <1>10 DEF AtHand, DoneMeansHandled, MarkCommit, Marked, NextStatus, history
  <2>5. FailedMeansExhausted'
    BY <1>10 DEF TypeOK, AtHand, FailedMeansExhausted, MarkCommit, Marked, NextStatus
  <2> QED
    BY <2>1, <2>2, <2>3, <2>4, <2>5
<1>11. ASSUME NEW w \in Workers, Crash(w) PROVE AnyInv'
  <2>1. TypeOK'
    BY <1>11 DEF TypeOK, Crash, row
  <2>2. AtHand'
    BY <1>11 DEF TypeOK, AtHand, Crash, row
  <2>3. LeaseIffRunning' /\ DoneMeansHandled' /\ FailedMeansExhausted'
    BY <1>11 DEF LeaseIffRunning, DoneMeansHandled, FailedMeansExhausted, Crash, row
  <2> QED
    BY <2>1, <2>2, <2>3
<1>12. CASE UNCHANGED vars
  BY <1>12
    DEF vars, row, locals, history, TypeOK, AtHand, LeaseIffRunning, DoneMeansHandled,
        FailedMeansExhausted
<1> QED
  BY <1>1, <1>2, <1>3, <1>4, <1>5, <1>6, <1>7, <1>8, <1>9, <1>10, <1>11, <1>12
    DEF Next, Poll

LEMMA AnyInvHolds == Spec => []AnyInv
BY AnyInvInit, AnyInvNext, PTL DEF Spec

\* Every variable keeps its type: the columns their domains, each worker its
\* place in poll, whatever interleaving of transactions and crashes.
THEOREM TypeCorrect == Spec => []TypeOK
<1>1. AnyInv => TypeOK
  BY DEF AnyInv
<1> QED
  BY <1>1, AnyInvHolds, PTL

\* A row has a lease exactly while it is running, so no row is ever stranded
\* in "running" where no claim can pick it up again.
THEOREM LeasesMatchStatus == Spec => []LeaseIffRunning
<1>1. AnyInv => LeaseIffRunning
  BY DEF AnyInv
<1> QED
  BY <1>1, AnyInvHolds, PTL

\* A job is reported done only after a handler run for it has returned.
\* This survives expired leases, late marks and doomed transactions.
THEOREM SuccessIsEarned == Spec => []DoneMeansHandled
<1>1. AnyInv => DoneMeansHandled
  BY DEF AnyInv
<1> QED
  BY <1>1, AnyInvHolds, PTL

\* A job is reported failed only after max_attempts claims of it have become
\* durable, even if the worker that says so is late.
THEOREM FailureIsEarned == Spec => []FailedMeansExhausted
<1>1. AnyInv => FailedMeansExhausted
  BY DEF AnyInv
<1> QED
  BY <1>1, AnyInvHolds, PTL

(***************************************************************************)
(* Part 2.  What needs leases that outlive their holders (or one worker    *)
(* only) and errors that fit into every NOTIFY.  Mutual exclusion is not   *)
(* inductive: it rests on which transaction owns which row lock, on claims *)
(* taking only free rows, and on only free rows having an expired lease.   *)
(***************************************************************************)

\* The job at hand has left the batch, and an idle worker has no batch.
BatchApart ==
  \A w \in Workers : job[w] \notin batch[w] /\ (pc[w] = "idle" => batch[w] = {})

\* The row locks are those of the claims and marks in flight.
LocksOwned ==
  \A w \in Workers : \A j \in Jobs :
    row_lock[j] = w <=> \/ pc[w] = "claiming" /\ j \in batch[w]
                        \/ pc[w] = "commit" /\ job[w] = j

\* A claim in flight is for rows that are still due and that nobody holds.
ClaimsAreFree ==
  \A w \in Workers : pc[w] = "claiming" =>
    \A j \in batch[w] : Due(j) /\ \A v \in Workers : j \notin Held(v)

\* A lease that has expired is nobody's, unless a lone worker overran it.
ExpiredAreFree ==
  ~Overrun => \A j \in Jobs : locked_at[j] = "expired" => \A w \in Workers : j \notin Held(w)

\* Every notification fits, so no transaction is doomed.
NothingAborted == \A w \in Workers : ~aborted[w]

\* A running row without a holder lost its holder in a crash, which pays
\* for one more attempt.
BudgetLeft ==
  \A j \in Jobs :
    /\ status[j] = "absent" => attempts[j] = 0
    /\ status[j] = "running" /\ (\A w \in Workers : j \notin Held(w))
         => attempts[j] < MaxAttempts + crashes

LeaseInv ==
  /\ AnyInv
  /\ BatchApart
  /\ LocksOwned
  /\ ClaimsAreFree
  /\ ExpiredAreFree
  /\ NothingAborted
  /\ BudgetLeft
  /\ SingleHolder
  /\ HeldIsRunning
  /\ MarkDecidesOnFreshAttempts
  /\ RetryBudget
  /\ FinishedIffDone

LEMMA LeaseInvInit == Init => LeaseInv
BY AnyInvInit, ConstantsAssumption
   DEF Init, LeaseInv, BatchApart, LocksOwned, ClaimsAreFree, ExpiredAreFree,
         NothingAborted, BudgetLeft,
       SingleHolder, HeldIsRunning, MarkDecidesOnFreshAttempts, RetryBudget, FinishedIffDone, Held

\* Two claims in flight share no row.
LEMMA ClaimsAreDisjoint ==
  ASSUME LeaseInv, NEW v \in Workers, NEW w \in Workers, v # w,
         pc[v] = "claiming", pc[w] = "claiming"
  PROVE  batch[v] \cap batch[w] = {}
BY DEF LeaseInv, LocksOwned, AnyInv, TypeOK

\* While every error is short, every row fits into a NOTIFY.
LEMMA EveryNotifyFits ==
  ASSUME TypeOK, ShortErrors
  PROVE  /\ \A j \in Jobs : Fits(last_error[j], TRUE)
         /\ \A w \in Workers : Fits(NextError(w), FALSE)
BY DEF TypeOK, ShortErrors, Fits, NextError

LEMMA LeaseInvNext ==
  ASSUME Exclusive, ShortErrors
  PROVE  LeaseInv /\ [Next]_vars => LeaseInv'
<1> SUFFICES ASSUME LeaseInv, [Next]_vars PROVE LeaseInv'
  OBVIOUS
<1>0. AnyInv'
  BY AnyInvNext DEF LeaseInv
<1> USE ConstantsAssumption DEF LeaseInv, AnyInv
<1>1. ASSUME NEW j \in Jobs, Append(j) PROVE LeaseInv'
  <2>1. ClaimsAreFree'
    BY <1>1 DEF ClaimsAreFree, Held, Due, Append, locals
  <2>2. BudgetLeft'
    BY <1>1 DEF BudgetLeft, Held, Append, locals, history
  <2>3. HeldIsRunning'
    BY <1>1 DEF HeldIsRunning, Held, Append, locals
  <2>4. RetryBudget'
    BY <1>1 DEF RetryBudget, BudgetLeft, Append, history
  <2>5. FinishedIffDone'
    BY <1>1 DEF FinishedIffDone, Append
  <2>6. /\ BatchApart'
        /\ LocksOwned'
        /\ ExpiredAreFree'
        /\ NothingAborted'
        /\ SingleHolder'
        /\ MarkDecidesOnFreshAttempts'
    BY <1>1
      DEF BatchApart, LocksOwned, ExpiredAreFree, NothingAborted, SingleHolder,
          MarkDecidesOnFreshAttempts, Held, Append, locals
  <2> QED
    BY <1>0, <2>1, <2>2, <2>3, <2>4, <2>5, <2>6
<1>2. ASSUME NEW j \in Jobs, Expire(j) PROVE LeaseInv'
  <2>1. ClaimsAreFree'
    BY <1>2 DEF ClaimsAreFree, Held, Due, Expire, locals
  <2>2. ExpiredAreFree'
    BY <1>2 DEF ExpiredAreFree, Held, Expire, locals
  <2>3. BudgetLeft'
    BY <1>2 DEF BudgetLeft, Held, Expire, locals, history
  <2>4. /\ BatchApart'
        /\ LocksOwned'
        /\ NothingAborted'
        /\ SingleHolder'
        /\ HeldIsRunning'
        /\ MarkDecidesOnFreshAttempts'
        /\ RetryBudget'
        /\ FinishedIffDone'
    BY <1>2
      DEF BatchApart, LocksOwned, NothingAborted, SingleHolder, HeldIsRunning,
          MarkDecidesOnFreshAttempts, RetryBudget, FinishedIffDone, Held, Expire, locals,
          history
  <2> QED
    BY <1>0, <2>1, <2>2, <2>3, <2>4
<1>3. ASSUME NEW w \in Workers, Claim(w) PROVE LeaseInv'
  <2>1. BatchApart'
    BY <1>3 DEF BatchApart, AtHand, TypeOK, Claim, FirstDue, Candidates
  <2>2. LocksOwned'
    BY <1>3 DEF LocksOwned, TypeOK, Claim, FirstDue, Candidates
  <2>3. ClaimsAreFree'
    BY <1>3
      DEF ClaimsAreFree, BatchApart, LocksOwned, ExpiredAreFree, HeldIsRunning, Held, Due,
          Exclusive, Claim, FirstDue, Candidates, row
  <2>4. ExpiredAreFree'
    BY <1>3 DEF ExpiredAreFree, TypeOK, Held, Claim, row
  <2>5. NothingAborted'
    BY <1>3, EveryNotifyFits DEF TypeOK, NothingAborted, Claim, FirstDue, Candidates
  <2>6. BudgetLeft'
    BY <1>3 DEF BudgetLeft, TypeOK, AtHand, BatchApart, Held, Claim, row, history
  <2>7. SingleHolder'
    BY <1>3 DEF SingleHolder, TypeOK, Held, Claim
  <2>8. HeldIsRunning'
    BY <1>3 DEF HeldIsRunning, TypeOK, Held, Claim, row
  <2>9. MarkDecidesOnFreshAttempts' /\ RetryBudget' /\ FinishedIffDone'
    BY <1>3
      DEF MarkDecidesOnFreshAttempts, RetryBudget, FinishedIffDone, Claim, row, history
  <2> QED
    BY <1>0, <2>1, <2>2, <2>3, <2>4, <2>5, <2>6, <2>7, <2>8, <2>9
<1>4. ASSUME NEW w \in Workers, ClaimCommit(w) PROVE LeaseInv'
  <2>1. Claimed(w) = batch[w] /\ batch[w] \subseteq Jobs /\ Held(w) = {}
    BY <1>4 DEF ClaimCommit, Claimed, NothingAborted, TypeOK, Held
  <2>2. \A j \in batch[w] : Due(j) /\ \A v \in Workers : j \notin Held(v)
    BY <1>4 DEF ClaimCommit, ClaimsAreFree
  <2>3. \A v \in Workers : Held(v)' = IF v = w THEN batch[w] ELSE Held(v)
    BY <1>4 DEF ClaimCommit, TypeOK, AtHand, Held
  <2>4. BatchApart'
    BY <1>4, <2>1, <2>2, <2>3 DEF BatchApart, ClaimCommit
  <2>5. LocksOwned'
    BY <1>4, <2>1, <2>2, <2>3 DEF LocksOwned, TypeOK, ClaimCommit
  <2>6. ClaimsAreFree'
    BY <1>4, <2>1, <2>2, <2>3, ClaimsAreDisjoint DEF ClaimsAreFree, TypeOK, Due, ClaimCommit
  <2>7. ExpiredAreFree'
    BY <1>4, <2>1, <2>2, <2>3 DEF ExpiredAreFree, TypeOK, ClaimCommit
  <2>8. NothingAborted'
    BY <1>4, <2>1, <2>2, <2>3 DEF NothingAborted, ClaimCommit
  <2>9. BudgetLeft'
    BY <1>4, <2>1, <2>2, <2>3 DEF BudgetLeft, TypeOK, ClaimCommit, history
  <2>10. SingleHolder'
    BY <1>4, <2>1, <2>2, <2>3 DEF SingleHolder
  <2>11. HeldIsRunning'
    BY <1>4, <2>1, <2>2, <2>3
      DEF HeldIsRunning, TypeOK, AtHand, SingleHolder, MarkDecidesOnFreshAttempts,
          FinishedIffDone, LeaseIffRunning, Held, Due, Exclusive, ClaimCommit
  <2>12. MarkDecidesOnFreshAttempts'
    BY <1>4, <2>1, <2>2, <2>3
      DEF MarkDecidesOnFreshAttempts, TypeOK, AtHand, ClaimCommit, Held
  <2>13. RetryBudget'
    BY <1>4, <2>1, <2>2, <2>3 DEF RetryBudget, BudgetLeft, TypeOK, Due, ClaimCommit, history
  <2>14. FinishedIffDone'
    BY <1>4, <2>1, <2>2, <2>3 DEF FinishedIffDone, TypeOK, Due, ClaimCommit
  <2> QED
    BY <1>0, <2>4, <2>5, <2>6, <2>7, <2>8, <2>9, <2>10, <2>11, <2>12, <2>13, <2>14
<1>5. ASSUME NEW w \in Workers, Dispatch(w) PROVE LeaseInv'
  <2>1. BatchApart'
    BY <1>5 DEF BatchApart, TypeOK, Dispatch
  <2>2. ClaimsAreFree'
    BY <1>5 DEF ClaimsAreFree, Held, Due, Dispatch, row
  <2>3. ExpiredAreFree'
    BY <1>5 DEF ExpiredAreFree, Held, Dispatch, row
  <2>4. BudgetLeft'
    BY <1>5
      DEF BudgetLeft, TypeOK, AtHand, BatchApart, ExpiredAreFree, Held, Dispatch, row,
          history
  <2>5. SingleHolder'
    BY <1>5 DEF SingleHolder, Held, Dispatch
  <2>6. HeldIsRunning'
    BY <1>5 DEF HeldIsRunning, Held, Dispatch, row
  <2>7. /\ LocksOwned'
        /\ NothingAborted'
        /\ MarkDecidesOnFreshAttempts'
        /\ RetryBudget'
        /\ FinishedIffDone'
    BY <1>5
      DEF LocksOwned, NothingAborted, MarkDecidesOnFreshAttempts, RetryBudget,
          FinishedIffDone, Dispatch, row, history
  <2> QED
    BY <1>0, <2>1, <2>2, <2>3, <2>4, <2>5, <2>6, <2>7
<1>6. ASSUME NEW w \in Workers, HandlerReturns(w) PROVE LeaseInv'
  <2>1. BatchApart'
    BY <1>6 DEF BatchApart, HandlerReturns
  <2>2. ClaimsAreFree'
    BY <1>6 DEF ClaimsAreFree, Held, Due, HandlerReturns, row
  <2>3. ExpiredAreFree'
    BY <1>6 DEF ExpiredAreFree, Held, HandlerReturns, row
  <2>4. BudgetLeft'
    BY <1>6 DEF BudgetLeft, Held, HandlerReturns, row
  <2>5. SingleHolder'
    BY <1>6 DEF SingleHolder, Held, HandlerReturns
  <2>6. HeldIsRunning'
    BY <1>6 DEF HeldIsRunning, Held, HandlerReturns, row
  <2>7. /\ LocksOwned'
        /\ NothingAborted'
        /\ MarkDecidesOnFreshAttempts'
        /\ RetryBudget'
        /\ FinishedIffDone'
    BY <1>6
      DEF LocksOwned, NothingAborted, MarkDecidesOnFreshAttempts, RetryBudget,
          FinishedIffDone, HandlerReturns, row
  <2> QED
    BY <1>0, <2>1, <2>2, <2>3, <2>4, <2>5, <2>6, <2>7
<1>7. ASSUME NEW w \in Workers, NEW e \in Errors, HandlerRaises(w, e) PROVE LeaseInv'
  <2>1. BatchApart'
    BY <1>7 DEF BatchApart, HandlerRaises
  <2>2. ClaimsAreFree'
    BY <1>7 DEF ClaimsAreFree, Held, Due, HandlerRaises, row
  <2>3. ExpiredAreFree'
    BY <1>7 DEF ExpiredAreFree, Held, HandlerRaises, row
  <2>4. BudgetLeft'
    BY <1>7 DEF BudgetLeft, Held, HandlerRaises, row, history
  <2>5. SingleHolder'
    BY <1>7 DEF SingleHolder, Held, HandlerRaises
  <2>6. HeldIsRunning'
    BY <1>7 DEF HeldIsRunning, Held, HandlerRaises, row
  <2>7. /\ LocksOwned'
        /\ NothingAborted'
        /\ MarkDecidesOnFreshAttempts'
        /\ RetryBudget'
        /\ FinishedIffDone'
    BY <1>7
      DEF LocksOwned, NothingAborted, MarkDecidesOnFreshAttempts, RetryBudget,
          FinishedIffDone, HandlerRaises, row, history
  <2> QED
    BY <1>0, <2>1, <2>2, <2>3, <2>4, <2>5, <2>6, <2>7
<1>8. ASSUME NEW w \in Workers, MarkRead(w) PROVE LeaseInv'
  <2>1. BatchApart'
    BY <1>8 DEF BatchApart, MarkRead
  <2>2. ClaimsAreFree'
    BY <1>8 DEF ClaimsAreFree, Held, Due, MarkRead, row
  <2>3. ExpiredAreFree'
    BY <1>8 DEF ExpiredAreFree, Held, MarkRead, row
  <2>4. BudgetLeft'
    BY <1>8 DEF BudgetLeft, Held, MarkRead, row, history
  <2>5. SingleHolder'
    BY <1>8 DEF SingleHolder, Held, MarkRead
  <2>6. HeldIsRunning'
    BY <1>8 DEF HeldIsRunning, Held, MarkRead, row
  <2>7. MarkDecidesOnFreshAttempts'
    BY <1>8 DEF MarkDecidesOnFreshAttempts, TypeOK, MarkRead, row
  <2>8. LocksOwned' /\ NothingAborted' /\ RetryBudget' /\ FinishedIffDone'
    BY <1>8
      DEF LocksOwned, NothingAborted, RetryBudget, FinishedIffDone, MarkRead, row, history
  <2> QED
    BY <1>0, <2>1, <2>2, <2>3, <2>4, <2>5, <2>6, <2>7, <2>8
<1>9. ASSUME NEW w \in Workers, MarkWrite(w) PROVE LeaseInv'
  <2>1. LocksOwned'
    BY <1>9 DEF LocksOwned, TypeOK, MarkWrite
  <2>2. ClaimsAreFree'
    BY <1>9 DEF ClaimsAreFree, Held, Due, MarkWrite, row
  <2>3. ExpiredAreFree'
    BY <1>9 DEF ExpiredAreFree, Held, MarkWrite, row
  <2>4. NothingAborted'
    BY <1>9, EveryNotifyFits DEF TypeOK, NothingAborted, MarkWrite
  <2>5. BudgetLeft'
    BY <1>9 DEF BudgetLeft, Held, MarkWrite, row, history
  <2>6. SingleHolder'
    BY <1>9 DEF SingleHolder, Held, MarkWrite
  <2>7. HeldIsRunning'
    BY <1>9 DEF HeldIsRunning, Held, MarkWrite, row
  <2>8. BatchApart' /\ MarkDecidesOnFreshAttempts' /\ RetryBudget' /\ FinishedIffDone'
    BY <1>9
      DEF BatchApart, MarkDecidesOnFreshAttempts, RetryBudget, FinishedIffDone, MarkWrite,
          row, history
  <2> QED
    BY <1>0, <2>1, <2>2, <2>3, <2>4, <2>5, <2>6, <2>7, <2>8
<1>10. ASSUME NEW w \in Workers, MarkCommit(w) PROVE LeaseInv'
  <2>1. /\ job[w] \in Jobs
        /\ Marked(w) = {job[w]}
        /\ status[job[w]] = "running"
    BY <1>10 DEF MarkCommit, TypeOK, AtHand, NothingAborted, Marked, HeldIsRunning, Held
  <2>2. \A j \in Jobs : /\ status'[j] = IF j = job[w] THEN NextStatus(w) ELSE status[j]
                        /\ done_at'[j] <=> done_at[j] \/ (j = job[w] /\ NextStatus(w) = "done")
    BY <1>10, <2>1 DEF MarkCommit
  <2>3. \A v \in Workers : Held(v)' = IF v = w THEN batch[w] ELSE Held(v)
    <3>1. /\ batch' = batch
          /\ job'[w] = Null /\ pc'[w] # "claiming"
          /\ \A v \in Workers : v # w => job'[v] = job[v] /\ pc'[v] = pc[v]
      BY <1>10 DEF MarkCommit, TypeOK
    <3>2. Held(w)' = batch[w]
      BY <3>1 DEF Held
    <3>3. ASSUME NEW v \in Workers, v # w PROVE Held(v)' = Held(v)
      BY <3>1, <3>3 DEF Held
    <3> QED
      BY <3>2, <3>3
  <2>4. BatchApart'
    BY <1>10, <2>1, <2>2, <2>3 DEF BatchApart, TypeOK, MarkCommit
  <2>5. LocksOwned'
    BY <1>10, <2>1, <2>2, <2>3 DEF LocksOwned, TypeOK, MarkCommit
  <2>6. ClaimsAreFree'
    BY <1>10, <2>1, <2>2, <2>3 DEF ClaimsAreFree, TypeOK, Held, Due, MarkCommit, NextLease
  <2>7. ExpiredAreFree'
    BY <1>10, <2>1, <2>2, <2>3 DEF ExpiredAreFree, Held, MarkCommit, NextLease
  <2>8. NothingAborted'
    BY <1>10, <2>1, <2>2, <2>3 DEF NothingAborted, MarkCommit
  <2>9. BudgetLeft'
    BY <1>10, <2>1, <2>2, <2>3 DEF BudgetLeft, Held, MarkCommit, NextStatus, history
  <2>10. SingleHolder'
    BY <1>10, <2>1, <2>2, <2>3 DEF SingleHolder, BatchApart, Held, MarkCommit
  <2>11. HeldIsRunning'
    BY <1>10, <2>1, <2>2, <2>3
      DEF HeldIsRunning, TypeOK, BatchApart, SingleHolder, Held, MarkCommit
  <2>12. MarkDecidesOnFreshAttempts'
    BY <1>10, <2>1, <2>2, <2>3 DEF MarkDecidesOnFreshAttempts, TypeOK, MarkCommit
  <2>13. RetryBudget'
    BY <1>10, <2>1, <2>2, <2>3
      DEF RetryBudget, TypeOK, MarkDecidesOnFreshAttempts, MarkCommit, NextStatus, history
  <2>14. FinishedIffDone'
    BY <2>1, <2>2 DEF FinishedIffDone, NextStatus
  <2> QED
    BY <1>0, <2>4, <2>5, <2>6, <2>7, <2>8, <2>9, <2>10, <2>11, <2>12, <2>13, <2>14
<1>11. ASSUME NEW w \in Workers, Crash(w) PROVE LeaseInv'
  <2>1. BatchApart'
    BY <1>11 DEF BatchApart, TypeOK, Crash
  <2>2. LocksOwned'
    BY <1>11 DEF LocksOwned, TypeOK, Crash
  <2>3. ClaimsAreFree'
    BY <1>11 DEF ClaimsAreFree, TypeOK, Held, Due, Crash, row
  <2>4. ExpiredAreFree'
    BY <1>11 DEF ExpiredAreFree, TypeOK, Held, Crash, row
  <2>5. NothingAborted'
    BY <1>11 DEF NothingAborted, Crash
  <2>6. BudgetLeft'
    BY <1>11 DEF BudgetLeft, TypeOK, RetryBudget, Crash, row
  <2>7. SingleHolder'
    BY <1>11 DEF SingleHolder, AtHand, BatchApart, ClaimsAreFree, Held, Crash
  <2>8. HeldIsRunning'
    BY <1>11 DEF HeldIsRunning, TypeOK, Held, Crash, row
  <2>9. MarkDecidesOnFreshAttempts'
    BY <1>11 DEF MarkDecidesOnFreshAttempts, TypeOK, Crash, row
  <2>10. RetryBudget'
    BY <1>11 DEF RetryBudget, TypeOK, Crash, row
  <2>11. FinishedIffDone'
    BY <1>11 DEF FinishedIffDone, Crash, row
  <2> QED
    BY <1>0, <2>1, <2>2, <2>3, <2>4, <2>5, <2>6, <2>7, <2>8, <2>9, <2>10, <2>11
<1>12. CASE UNCHANGED vars
  BY <1>0, <1>12
  DEF vars, row, locals, history, BatchApart, LocksOwned, ClaimsAreFree, ExpiredAreFree,
        NothingAborted, BudgetLeft,
      SingleHolder, HeldIsRunning, MarkDecidesOnFreshAttempts, RetryBudget, FinishedIffDone, Held, Due
<1> QED
  BY <1>1, <1>2, <1>3, <1>4, <1>5, <1>6, <1>7, <1>8, <1>9, <1>10, <1>11, <1>12
    DEF Next, Poll

LEMMA LeaseInvHolds ==
  ASSUME Exclusive, ShortErrors
  PROVE  Spec => []LeaseInv
<1>1. LeaseInv /\ [Next]_vars => LeaseInv'
  BY LeaseInvNext
<1> QED
  BY <1>1, LeaseInvInit, PTL DEF Spec

\* Two workers never hold one job, and what a worker holds is durably its
\* own: at no time do two handlers run for one job because of the outbox.
THEOREM ClaimsExclude ==
  ASSUME Exclusive, ShortErrors
  PROVE  Spec => [](SingleHolder /\ HeldIsRunning)
<1>1. LeaseInv => SingleHolder /\ HeldIsRunning
  BY DEF LeaseInv
<1> QED
  BY <1>1, LeaseInvHolds, PTL

\* A retry is scheduled only while attempts are left, and only crashes can
\* push a job beyond max_attempts.
THEOREM RetriesAreBounded ==
  ASSUME Exclusive, ShortErrors
  PROVE  Spec => []RetryBudget
<1>1. LeaseInv => RetryBudget
  BY DEF LeaseInv
<1> QED
  BY <1>1, LeaseInvHolds, PTL

\* mark decides on attempts that are still the row's when it writes, although
\* it has read them without a lock.
THEOREM MarkIsUpToDate ==
  ASSUME Exclusive, ShortErrors
  PROVE  Spec => []MarkDecidesOnFreshAttempts
<1>1. LeaseInv => MarkDecidesOnFreshAttempts
  BY DEF LeaseInv
<1> QED
  BY <1>1, LeaseInvHolds, PTL

\* A job has a finish time exactly while it is done.
THEOREM FinishTimes ==
  ASSUME Exclusive, ShortErrors
  PROVE  Spec => []FinishedIffDone
<1>1. LeaseInv => FinishedIffDone
  BY DEF LeaseInv
<1> QED
  BY <1>1, LeaseInvHolds, PTL

(***************************************************************************)
(* Part 3.  Every step is a step of the life cycle, and none leaves done   *)
(* or failed.                                                              *)
(***************************************************************************)

LEMMA LifecycleStep ==
  ASSUME LeaseInv, [Next]_vars
  PROVE  [Lifecycle!Next]_(Lifecycle!vars)
<1> USE DEF LeaseInv, AnyInv, Lifecycle!vars
<1>1. ASSUME NEW j \in Jobs, Append(j) PROVE Lifecycle!Next
  BY <1>1 DEF Append, history, Lifecycle!Next, Lifecycle!Submit
<1>2. ASSUME NEW w \in Workers, ClaimCommit(w) PROVE Lifecycle!Next
  <2>1. Claimed(w) = batch[w] /\ batch[w] \in SUBSET Jobs
    BY <1>2 DEF ClaimCommit, Claimed, NothingAborted, TypeOK
  <2>2. \A j \in batch[w] : status[j] \in {"pending", "running"}
    BY <1>2 DEF ClaimCommit, ClaimsAreFree, Due
  <2>3. Lifecycle!Deliver(batch[w])
    BY <1>2, <2>1, <2>2 DEF ClaimCommit, history, Lifecycle!Deliver
  <2> QED
    BY <2>1, <2>3 DEF Lifecycle!Next
<1>3. ASSUME NEW w \in Workers, HandlerReturns(w) PROVE Lifecycle!Next
  <2>1. job[w] \in Jobs /\ status[job[w]] = "running"
    BY <1>3, ConstantsAssumption DEF HandlerReturns, TypeOK, AtHand, HeldIsRunning, Held
  <2>2. Lifecycle!Handle(job[w])
    BY <1>3, <2>1 DEF HandlerReturns, row, Lifecycle!Handle
  <2> QED
    BY <2>1, <2>2 DEF Lifecycle!Next
<1>4. ASSUME NEW w \in Workers, MarkCommit(w) PROVE Lifecycle!Next
  <2>1. /\ job[w] \in Jobs
        /\ Marked(w) = {job[w]}
        /\ status[job[w]] = "running"
        /\ seen[w] = attempts[job[w]]
    BY <1>4, ConstantsAssumption
    DEF MarkCommit, NextLease, TypeOK, AtHand, NothingAborted, Marked, HeldIsRunning, Held,
          MarkDecidesOnFreshAttempts
  <2>2. /\ status' = [status EXCEPT ![job[w]] = NextStatus(w)]
        /\ UNCHANGED <<attempts, succeeded>>
    BY <1>4, <2>1 DEF MarkCommit, history, TypeOK
  <2>3. CASE outcome[w] = "ok"
    <3>1. job[w] \in succeeded
      BY <1>4, <2>3 DEF MarkCommit, AtHand
    <3>2. Lifecycle!Complete(job[w])
      BY <2>1, <2>2, <2>3, <3>1 DEF NextStatus, Lifecycle!Complete
    <3> QED
      BY <2>1, <3>2 DEF Lifecycle!Next
  <2>4. CASE outcome[w] # "ok" /\ seen[w] >= MaxAttempts
    <3>1. Lifecycle!GiveUp(job[w])
      BY <2>1, <2>2, <2>4 DEF NextStatus, Lifecycle!GiveUp
    <3> QED
      BY <2>1, <3>1 DEF Lifecycle!Next
  <2>5. CASE outcome[w] # "ok" /\ ~(seen[w] >= MaxAttempts)
    <3>1. attempts[job[w]] < MaxAttempts
      BY <2>1, <2>5, ConstantsAssumption DEF TypeOK
    <3>2. Lifecycle!Retry(job[w])
      BY <2>1, <2>2, <2>5, <3>1 DEF NextStatus, Lifecycle!Retry
    <3> QED
      BY <2>1, <3>2 DEF Lifecycle!Next
  <2> QED
    BY <2>3, <2>4, <2>5
<1>5. ASSUME NEW j \in Jobs, Expire(j) PROVE UNCHANGED Lifecycle!vars
  BY <1>5 DEF Expire, history
<1>6. ASSUME NEW w \in Workers, Claim(w) \/ Dispatch(w) \/ MarkRead(w) \/ MarkWrite(w) \/ Crash(w)
      PROVE  UNCHANGED Lifecycle!vars
  BY <1>6 DEF Claim, Dispatch, MarkRead, MarkWrite, Crash, row, history
<1>7. ASSUME NEW w \in Workers, NEW e \in Errors, HandlerRaises(w, e) PROVE UNCHANGED Lifecycle!vars
  BY <1>7 DEF HandlerRaises, row, history
<1>8. CASE UNCHANGED vars
  BY <1>8 DEF vars, row, history
<1> QED
  BY <1>1, <1>2, <1>3, <1>4, <1>5, <1>6, <1>7, <1>8 DEF Next, Poll

\* The workers implement the life cycle of a job: whatever they interleave
\* and wherever they crash, a client sees a job submitted, delivered, and
\* then completed, retried or given up for the right reason, and no more.
THEOREM RefinesLifecycle ==
  ASSUME Exclusive, ShortErrors
  PROVE  Spec => ImplementsLifecycle
<1>1. Init => Lifecycle!Init
  BY DEF Init, Lifecycle!Init
<1>2. LeaseInv /\ [Next]_vars => [Lifecycle!Next]_(Lifecycle!vars)
  BY LifecycleStep
<1> QED
  BY <1>1, <1>2, LeaseInvHolds, PTL DEF Spec, ImplementsLifecycle, Lifecycle!Spec

LEMMA LifecycleKeepsTerminal ==
  ASSUME TypeOK, [Lifecycle!Next]_(Lifecycle!vars), NEW j \in Jobs, status[j] \in Terminal
  PROVE  status'[j] = status[j]
BY DEF TypeOK, Lifecycle!Next, Lifecycle!vars, Lifecycle!Submit, Lifecycle!Deliver, Lifecycle!Handle, Lifecycle!Complete,
       Lifecycle!Retry, Lifecycle!GiveUp, Terminal

\* While leases outlive their holders and NOTIFY payloads fit, a job that is
\* done or failed stays so.  Without the first condition it does not: run
\* outbox_resurrect, and OnlyLateMarksReopen below.
COROLLARY FinishedJobsStayFinished ==
  ASSUME Exclusive, ShortErrors
  PROVE  Spec => TerminalIsFinal
<1>1. LeaseInv /\ [Next]_vars => [\A j \in Jobs : status[j] \in Terminal => status'[j] = status[j]]_vars
  <2> SUFFICES ASSUME LeaseInv, [Next]_vars, NEW j \in Jobs, status[j] \in Terminal
               PROVE  status'[j] = status[j]
    OBVIOUS
  <2>1. TypeOK
    BY DEF LeaseInv, AnyInv
  <2>2. [Lifecycle!Next]_(Lifecycle!vars)
    BY LifecycleStep
  <2> QED
    BY <2>1, <2>2, LifecycleKeepsTerminal
<1> QED
  BY <1>1, LeaseInvHolds, PTL DEF Spec, TerminalIsFinal

(***************************************************************************)
(* Part 4.  What is left of the life cycle when leases expire under their  *)
(* holders and transactions are doomed: no assumption at all.  It rests on *)
(* the row locks: a row that is being claimed is marked by nobody.         *)
(***************************************************************************)

Late == INSTANCE LateLifecycle WITH handled <- succeeded

\* The workers implement the weaker life cycle, in which a late worker may
\* do to a row what it would have done in time, and no more than that.
ImplementsLateLifecycle == Late!LateSpec

\* A claim in flight is for rows that no mark has changed meanwhile.
ClaimsAreOpen ==
  \A w \in Workers : pc[w] = "claiming" => \A j \in batch[w] : status[j] \in {"pending", "running"}

\* What a worker has at hand or in its batch has been submitted.
HeldAreSubmitted ==
  \A w \in Workers : \A j \in Jobs : j \in batch[w] \/ j = job[w] => status[j] # "absent"

LateInv == AnyInv /\ LocksOwned /\ ClaimsAreOpen /\ HeldAreSubmitted

LEMMA LateInvInit == Init => LateInv
BY LeaseInvInit, ConstantsAssumption DEF LeaseInv, Init, LateInv, ClaimsAreOpen, HeldAreSubmitted

LEMMA LateInvNext == LateInv /\ [Next]_vars => LateInv'
<1> SUFFICES ASSUME LateInv, [Next]_vars PROVE LateInv'
  OBVIOUS
<1>0. AnyInv'
  BY AnyInvNext DEF LateInv
<1> USE ConstantsAssumption DEF LateInv, AnyInv
<1>1. ASSUME NEW j \in Jobs, Append(j) PROVE LateInv'
  BY <1>0, <1>1 DEF LocksOwned, ClaimsAreOpen, HeldAreSubmitted, TypeOK, Append, locals
<1>2. ASSUME NEW j \in Jobs, Expire(j) PROVE LateInv'
  BY <1>0, <1>2 DEF LocksOwned, ClaimsAreOpen, HeldAreSubmitted, Expire, locals
<1>3. ASSUME NEW w \in Workers, Claim(w) PROVE LateInv'
  <2>1. /\ \A j \in FirstDue : j \in Jobs /\ row_lock[j] = Null /\ status[j] \in {"pending", "running"}
        /\ status' = status /\ job' = job
    BY <1>3 DEF Claim, FirstDue, Candidates, Due, row
  <2>2. LocksOwned'
    BY <1>3, <2>1 DEF LocksOwned, TypeOK, Claim
  <2>3. ClaimsAreOpen' /\ HeldAreSubmitted'
    BY <1>3, <2>1 DEF ClaimsAreOpen, HeldAreSubmitted, TypeOK, Claim
  <2> QED
    BY <1>0, <2>2, <2>3
<1>4. ASSUME NEW w \in Workers, ClaimCommit(w) PROVE LateInv'
  <2>1. /\ \A j \in Jobs : status'[j] # "absent" <=> status[j] # "absent"
        /\ \A j \in Jobs : status[j] \in {"pending", "running"} => status'[j] \in {"pending", "running"}
    BY <1>4 DEF ClaimCommit, Claimed, ClaimsAreOpen
  <2>2. LocksOwned'
    BY <1>4 DEF LocksOwned, TypeOK, ClaimCommit
  <2>3. ClaimsAreOpen' /\ HeldAreSubmitted'
    BY <1>4, <2>1 DEF ClaimsAreOpen, HeldAreSubmitted, TypeOK, ClaimCommit
  <2> QED
    BY <1>0, <2>2, <2>3
<1>5. ASSUME NEW w \in Workers, Dispatch(w) PROVE LateInv'
  BY <1>0, <1>5 DEF LocksOwned, ClaimsAreOpen, HeldAreSubmitted, TypeOK, Dispatch, row
<1>6. ASSUME NEW w \in Workers, HandlerReturns(w) PROVE LateInv'
  BY <1>0, <1>6 DEF LocksOwned, ClaimsAreOpen, HeldAreSubmitted, HandlerReturns, row
<1>7. ASSUME NEW w \in Workers, NEW e \in Errors, HandlerRaises(w, e) PROVE LateInv'
  BY <1>0, <1>7 DEF LocksOwned, ClaimsAreOpen, HeldAreSubmitted, HandlerRaises, row
<1>8. ASSUME NEW w \in Workers, MarkRead(w) PROVE LateInv'
  BY <1>0, <1>8 DEF LocksOwned, ClaimsAreOpen, HeldAreSubmitted, MarkRead, row
<1>9. ASSUME NEW w \in Workers, MarkWrite(w) PROVE LateInv'
  <2>1. LocksOwned'
    BY <1>9 DEF LocksOwned, TypeOK, MarkWrite
  <2>2. ClaimsAreOpen' /\ HeldAreSubmitted'
    BY <1>9 DEF ClaimsAreOpen, HeldAreSubmitted, MarkWrite, row
  <2> QED
    BY <1>0, <2>1, <2>2
<1>10. ASSUME NEW w \in Workers, MarkCommit(w) PROVE LateInv'
  <2>1. /\ job[w] \in Jobs /\ row_lock[job[w]] = w
        /\ \A j \in Jobs : j # job[w] => status'[j] = status[j]
        /\ status'[job[w]] # "absent"
    BY <1>10 DEF MarkCommit, TypeOK, AtHand, LocksOwned, HeldAreSubmitted, Marked, NextStatus
  <2>2. LocksOwned'
    BY <1>10, <2>1 DEF LocksOwned, TypeOK, MarkCommit
  <2>3. ClaimsAreOpen'
    BY <1>10, <2>1 DEF ClaimsAreOpen, LocksOwned, TypeOK, MarkCommit
  <2>4. HeldAreSubmitted'
    BY <1>10, <2>1 DEF HeldAreSubmitted, TypeOK, MarkCommit
  <2> QED
    BY <1>0, <2>2, <2>3, <2>4
<1>11. ASSUME NEW w \in Workers, Crash(w) PROVE LateInv'
  <2>1. LocksOwned'
    BY <1>11 DEF LocksOwned, TypeOK, Crash
  <2>2. ClaimsAreOpen' /\ HeldAreSubmitted'
    BY <1>11 DEF ClaimsAreOpen, HeldAreSubmitted, TypeOK, Crash, row
  <2> QED
    BY <1>0, <2>1, <2>2
<1>12. CASE UNCHANGED vars
  BY <1>0, <1>12 DEF vars, row, locals, history, LocksOwned, ClaimsAreOpen, HeldAreSubmitted
<1> QED
  BY <1>1, <1>2, <1>3, <1>4, <1>5, <1>6, <1>7, <1>8, <1>9, <1>10, <1>11, <1>12
    DEF Next, Poll

LEMMA LateStep ==
  ASSUME LateInv, [Next]_vars PROVE [Late!LateNext]_(Late!vars)
<1> USE DEF LateInv, AnyInv, Late!vars
<1>1. ASSUME NEW j \in Jobs, Append(j) PROVE Late!LateNext
  BY <1>1 DEF Append, history, Late!LateNext, Late!Submit
<1>2. ASSUME NEW w \in Workers, ClaimCommit(w) PROVE Late!LateNext
  <2>1. Claimed(w) \in SUBSET Jobs /\ \A j \in Claimed(w) : status[j] \in {"pending", "running"}
    BY <1>2 DEF ClaimCommit, Claimed, ClaimsAreOpen, TypeOK
  <2>2. Late!Deliver(Claimed(w))
    BY <1>2, <2>1 DEF ClaimCommit, history, Late!Deliver
  <2> QED
    BY <2>1, <2>2 DEF Late!LateNext
<1>3. ASSUME NEW w \in Workers, HandlerReturns(w) PROVE Late!LateNext
  <2>1. job[w] \in Jobs /\ status[job[w]] # "absent"
    BY <1>3, ConstantsAssumption DEF HandlerReturns, TypeOK, AtHand, HeldAreSubmitted
  <2>2. Late!LateHandle(job[w])
    BY <1>3, <2>1 DEF HandlerReturns, row, Late!LateHandle, Late!Known
  <2> QED
    BY <2>1, <2>2 DEF Late!LateNext
<1>4. ASSUME NEW w \in Workers, MarkCommit(w) PROVE [Late!LateNext]_(Late!vars)
  <2>1. job[w] \in Jobs /\ status[job[w]] # "absent" /\ UNCHANGED <<attempts, succeeded>>
    BY <1>4, ConstantsAssumption DEF MarkCommit, TypeOK, AtHand, HeldAreSubmitted, history
  <2>2. CASE aborted[w]
    BY <1>4, <2>1, <2>2 DEF MarkCommit, Marked, TypeOK
  <2>3. CASE ~aborted[w]
    <3>1. status' = [status EXCEPT ![job[w]] = NextStatus(w)]
      BY <1>4, <2>1, <2>3 DEF MarkCommit, Marked, TypeOK
    <3>2. CASE outcome[w] = "ok"
      <4>1. job[w] \in succeeded
        BY <1>4, <3>2 DEF MarkCommit, AtHand
      <4>2. Late!LateComplete(job[w])
        BY <2>1, <3>1, <3>2, <4>1 DEF NextStatus, Late!LateComplete, Late!Known
      <4> QED
        BY <2>1, <4>2 DEF Late!LateNext
    <3>3. CASE outcome[w] # "ok" /\ seen[w] >= MaxAttempts
      <4>1. attempts[job[w]] >= MaxAttempts
        BY <1>4, <2>1, <3>3, ConstantsAssumption DEF MarkCommit, TypeOK, AtHand
      <4>2. Late!LateGiveUp(job[w])
        BY <2>1, <3>1, <3>3, <4>1 DEF NextStatus, Late!LateGiveUp, Late!Known
      <4> QED
        BY <2>1, <4>2 DEF Late!LateNext
    <3>4. CASE outcome[w] # "ok" /\ ~(seen[w] >= MaxAttempts)
      <4>1. Late!LateRetry(job[w])
        BY <2>1, <3>1, <3>4 DEF NextStatus, Late!LateRetry, Late!Known
      <4> QED
        BY <2>1, <4>1 DEF Late!LateNext
    <3> QED
      BY <3>2, <3>3, <3>4
  <2> QED
    BY <2>2, <2>3
<1>5. ASSUME NEW j \in Jobs, Expire(j) PROVE UNCHANGED Late!vars
  BY <1>5 DEF Expire, history
<1>6. ASSUME NEW w \in Workers, Claim(w) \/ Dispatch(w) \/ MarkRead(w) \/ MarkWrite(w) \/ Crash(w)
      PROVE  UNCHANGED Late!vars
  BY <1>6 DEF Claim, Dispatch, MarkRead, MarkWrite, Crash, row, history
<1>7. ASSUME NEW w \in Workers, NEW e \in Errors, HandlerRaises(w, e) PROVE UNCHANGED Late!vars
  BY <1>7 DEF HandlerRaises, row, history
<1>8. CASE UNCHANGED vars
  BY <1>8 DEF vars, row, history
<1> QED
  BY <1>1, <1>2, <1>3, <1>4, <1>5, <1>6, <1>7, <1>8 DEF Next, Poll

\* However late the workers are, whatever transactions are doomed and crash:
\* only a pending or running job is claimed, one that is done has been
\* handled, and one given up has used up its attempts.  What remains open is
\* that a late mark takes a finished job back (run outbox_resurrect).
THEOREM RefinesLateLifecycle == Spec => ImplementsLateLifecycle
<1>1. Init => Late!Init
  BY DEF Init, Late!Init
<1>2. LateInv /\ [Next]_vars => [Late!LateNext]_(Late!vars)
  BY LateStep
<1> QED
  BY <1>1, <1>2, LateInvInit, LateInvNext, PTL DEF Spec, ImplementsLateLifecycle, Late!LateSpec

\* With no assumption on leases: a finished job is reopened by nothing but the
\* commit of a mark, by a worker that still has the job at hand, and it then
\* gets the status that this worker's own attempt calls for.  In particular
\* no claim revives a finished job, although the claim has chosen its rows
\* some time before it commits.
THEOREM OnlyLateMarksReopen ==
  Spec => [][\A j \in Jobs :
               status[j] \in Terminal /\ status'[j] # status[j] =>
                 \E w \in Workers : MarkCommit(w) /\ job[w] = j /\ ~aborted[w] /\ status'[j] = NextStatus(w)]_vars
<1> DEFINE Reopens(j) ==
             \E w \in Workers : MarkCommit(w) /\ job[w] = j /\ ~aborted[w] /\ status'[j] = NextStatus(w)
           Closed == \A j \in Jobs : status[j] \in Terminal /\ status'[j] # status[j] => Reopens(j)
<1>1. LateInv /\ [Next]_vars => [Closed]_vars
  <2> SUFFICES ASSUME LateInv, Next, NEW j \in Jobs, status[j] \in Terminal, status'[j] # status[j]
               PROVE  Reopens(j)
    BY DEF vars, row
  <2> USE DEF LateInv, AnyInv
  <2>1. ASSUME NEW i \in Jobs, Append(i) PROVE FALSE
    BY <2>1 DEF Append, TypeOK, Terminal
  <2>2. ASSUME NEW w \in Workers, ClaimCommit(w) PROVE FALSE
    BY <2>2 DEF ClaimCommit, Claimed, ClaimsAreOpen, Terminal
  <2>3. ASSUME NEW w \in Workers, MarkCommit(w) PROVE Reopens(j)
    <3>1. j \in Marked(w) /\ status'[j] = NextStatus(w)
      BY <2>3 DEF MarkCommit, TypeOK
    <3>2. job[w] = j /\ ~aborted[w]
      BY <3>1 DEF Marked
    <3> QED
      BY <2>3, <3>1, <3>2
  <2>4. ASSUME NEW i \in Jobs, Expire(i) PROVE FALSE
    BY <2>4 DEF Expire
  <2>5. ASSUME NEW w \in Workers, Claim(w) \/ Dispatch(w) \/ MarkRead(w) \/ MarkWrite(w) \/ Crash(w)
                                  \/ HandlerReturns(w) \/ \E e \in Errors : HandlerRaises(w, e)
        PROVE  FALSE
    BY <2>5 DEF Claim, Dispatch, MarkRead, MarkWrite, Crash, HandlerReturns, HandlerRaises, row
  <2> QED
    BY <2>1, <2>2, <2>3, <2>4, <2>5 DEF Next, Poll
<1> HIDE DEF Closed
<1>2. Spec => [][Closed]_vars
  BY <1>1, LateInvInit, LateInvNext, PTL DEF Spec
<1> QED
  BY <1>2 DEF Closed, Reopens
=============================================================================
