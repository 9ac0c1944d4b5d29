---------------------------- MODULE EnqueueProofs ----------------------------
(***************************************************************************)
(* Proofs about Enqueue for any number of callers, keys and tries.         *)
(***************************************************************************)
EXTENDS Enqueue, TLAPS

USE EnqueueAssumption

\* INSERT lets nobody stage a key that is stored, or that another open
\* transaction has staged: what keeps keys unique until the commit.
StagedAlone ==
  \A c \in Callers : pc[c] = "staged" => ~Taken(c) /\ Undecided(c) \subseteq {c}

\* Whoever is told, or about to be told, that the job was accepted has one.
AcceptedHasRow ==
  \A c \in Callers : "accepted" \in {answer[c], told[c]} => \E r \in rows : r.caller = c

\* A request is one of the tries.
Asked == \A c \in Callers : pc[c] # "idle" => tries[c] # 0

EnqueueInv == TypeOK /\ Asked /\ OneJobPerKey /\ StagedAlone /\ AcceptedHasRow /\ ConflictHasWinner

LEMMA EnqueueInvInit == Init => EnqueueInv
BY DEF Init, EnqueueInv, TypeOK, Asked, OneJobPerKey, StagedAlone, AcceptedHasRow, ConflictHasWinner

\* Rows are only added, and only by a caller that has staged one.
LEMMA RowsOfStep ==
  ASSUME TypeOK, NEW c \in Callers,
         Request(c) \/ Ask(c) \/ DatabaseFails(c) \/ LoseAnswer(c)
  PROVE  /\ key' = key
         /\ rows' = rows \/ (pc[c] = "staged" /\ rows' = rows \cup {Row(c)})
         /\ \A d \in Callers \ {c} :
              pc'[d] = pc[d] /\ answer'[d] = answer[d] /\ told'[d] = told[d]
         /\ pc'[c] = "staged" => Insert(c)
BY DEF TypeOK, Request, Ask, Insert, Collide, Commit, DatabaseFails, Answer, LoseAnswer, Finish

LEMMA StepKeepsTypes ==
  ASSUME TypeOK, Asked, NEW c \in Callers,
         Request(c) \/ Ask(c) \/ DatabaseFails(c) \/ LoseAnswer(c)
  PROVE  TypeOK' /\ Asked'
<1> USE DEF Asked
<1>1. pc[c] = "staged" => Row(c) \in [caller : Callers, try : 1 .. MaxTries]
  BY DEF TypeOK, Row
<1>2. CASE Ask(c)
  BY <1>2 DEF TypeOK, Ask
<1>3. CASE Insert(c) \/ Collide(c) \/ Answer(c) \/ LoseAnswer(c)
  BY <1>3 DEF TypeOK, Insert, Collide, Answer, LoseAnswer, Finish
<1>4. CASE Commit(c) \/ DatabaseFails(c)
  BY <1>1, <1>4 DEF TypeOK, Commit, DatabaseFails, OnFailure
<1> QED
  BY <1>2, <1>3, <1>4 DEF Request

LEMMA StepKeepsInv ==
  ASSUME EnqueueInv, NEW c \in Callers,
         Request(c) \/ Ask(c) \/ DatabaseFails(c) \/ LoseAnswer(c)
  PROVE  EnqueueInv'
<1> USE DEF EnqueueInv
<1>1. TypeOK' /\ Asked'
  BY StepKeepsTypes
<1>2. /\ key' = key /\ rows \subseteq rows'
      /\ rows' = rows \/ (pc[c] = "staged" /\ rows' = rows \cup {Row(c)})
      /\ \A d \in Callers \ {c} :
           pc'[d] = pc[d] /\ answer'[d] = answer[d] /\ told'[d] = told[d]
      /\ pc'[c] = "staged" => Insert(c)
  BY RowsOfStep
<1>3. OneJobPerKey'
  <2>1. ASSUME pc[c] = "staged", NEW r \in rows PROVE key[c] # key[r.caller] \/ key[c] = NoKey
    BY <2>1 DEF StagedAlone, Taken, SameKey
  <2> QED
    BY <1>2, <2>1 DEF OneJobPerKey, Row
<1>4. StagedAlone'
  <2> SUFFICES ASSUME NEW d \in Callers, pc'[d] = "staged"
               PROVE  ~Taken(d)' /\ Undecided(d)' \subseteq {d}
    BY DEF StagedAlone
  <2>1. CASE d = c
    BY <1>2, <2>1 DEF Insert, Taken, Undecided, SameKey
  <2>2. CASE d # c
    <3>1. pc[d] = "staged" /\ ~Taken(d) /\ Undecided(d) \subseteq {d}
      BY <1>2, <2>2 DEF StagedAlone
    <3>2. ~Taken(d)'
      <4>1. pc[c] = "staged" => ~SameKey(d, c)
        BY <2>2, <3>1 DEF Undecided
      <4> QED
        BY <1>2, <3>1, <4>1 DEF Taken, SameKey, Row
    <3>3. Undecided(d)' \subseteq {d}
      <4>1. pc'[c] = "staged" => ~SameKey(d, c)
        BY <1>2, <3>1 DEF Insert, Undecided, SameKey
      <4> QED
        BY <1>2, <3>1, <4>1 DEF Undecided, SameKey
    <3> QED
      BY <3>2, <3>3
  <2> QED
    BY <2>1, <2>2
<1>5. AcceptedHasRow'
  <2>1. ASSUME "accepted" \in {answer[c], told[c]}' PROVE \E r \in rows' : r.caller = c
    <3>1. CASE Commit(c)
      <4>1. Row(c) \in rows' /\ Row(c).caller = c
        BY <3>1 DEF Commit, Row
      <4> QED
        BY <4>1
    <3>2. CASE ~Commit(c)
      <4>1. "accepted" \in {answer[c], told[c]}
        BY <2>1, <3>2 DEF TypeOK, Request, Ask, Insert, Collide, DatabaseFails, OnFailure,
           Answer, LoseAnswer, Finish
      <4> QED
        BY <1>2, <4>1 DEF AcceptedHasRow
    <3> QED
      BY <3>1, <3>2
  <2> QED
    BY <1>2, <2>1 DEF AcceptedHasRow
<1>6. ConflictHasWinner'
  <2>1. ASSUME "conflict" \in {answer[c], told[c]}' PROVE \E r \in rows' : SameKey(c, r.caller)'
    <3>1. CASE Collide(c)
      BY <3>1 DEF Collide, Taken, SameKey
    <3>2. CASE ~Collide(c)
      <4>1. "conflict" \in {answer[c], told[c]}
        BY <2>1, <3>2 DEF TypeOK, Request, Ask, Insert, Commit, DatabaseFails, OnFailure,
           Answer, LoseAnswer, Finish
      <4> QED
        BY <1>2, <4>1 DEF ConflictHasWinner, SameKey
    <3> QED
      BY <3>1, <3>2
  <2> QED
    BY <1>2, <2>1 DEF ConflictHasWinner, SameKey
<1> QED
  BY <1>1, <1>3, <1>4, <1>5, <1>6

LEMMA EnqueueInvNext == EnqueueInv /\ [Next]_vars => EnqueueInv'
<1>1. ASSUME EnqueueInv, UNCHANGED vars PROVE EnqueueInv'
  BY <1>1 DEF EnqueueInv, vars, TypeOK, Asked, OneJobPerKey, StagedAlone, Taken, Undecided, SameKey,
     AcceptedHasRow, ConflictHasWinner
<1> QED
  BY <1>1, StepKeepsInv DEF Next

LEMMA EnqueueInvAlways == Spec => []EnqueueInv
BY EnqueueInvInit, EnqueueInvNext, PTL DEF Spec

\* The variables of Enqueue keep their types, whoever asks how often.
THEOREM EnqueueTypeCorrect == Spec => []TypeOK
BY EnqueueInvAlways, PTL DEF EnqueueInv

\* The unique index and the INSERT that waits for open transactions give a
\* key at most one job, for any number of callers, keys, tries and failures.
THEOREM KeysAreUnique == Spec => []OneJobPerKey
BY EnqueueInvAlways, PTL DEF EnqueueInv

\* Nobody hears "accepted" without a stored job.
THEOREM AcceptedJobsAreStored == Spec => []AcceptedIsStored
<1>1. EnqueueInv => AcceptedIsStored
  BY DEF EnqueueInv, AcceptedHasRow, AcceptedIsStored
<1> QED
  BY <1>1, EnqueueInvAlways, PTL

\* Nobody hears "conflict" because of a request that came to nothing.
THEOREM ConflictsHaveWinners == Spec => []ConflictHasWinner
BY EnqueueInvAlways, PTL DEF EnqueueInv
=============================================================================
