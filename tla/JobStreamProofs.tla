--------------------------- MODULE JobStreamProofs ---------------------------
(***************************************************************************)
(* Proofs about JobStream for any number of jobs and streams, and however  *)
(* many updates fall between two steps of a stream.  Streams share nothing *)
(* but the rows, so that the invariant is one of a single stream.          *)
(***************************************************************************)
EXTENDS JobStream, SequenceTheorems, TLAPS

USE StreamAssumption DEF Terminal

-----------------------------------------------------------------------------
(* The inductive invariant.                                                *)

\* What a stream knows where, and whom it is about.
Stage(s) ==
  /\ pc[s] # "closed" => watches[s] \in Jobs
  /\ pc[s] = "closed" => queue[s] = <<>>
  /\ pc[s] \in {"closed", "subscribed", "failed"} => row_read[s] = Null
  /\ pc[s] \in {"closed", "subscribed", "read", "failed"} => last[s] = Null
  /\ row_read[s] # Null => row_read[s].id = watches[s]
  /\ last[s] # Null => last[s].id = watches[s]

\* The newest update in the queue is the row as it is.
Newest(s) ==
  Hearing(s) =>
    \A i \in Unsent(s) : (\A k \in Unsent(s) : k <= i) => queue[s][i] = Row(watches[s])

\* What the client has been told, or is about to be told, is the row unless
\* an update waits or the connection has broken.
Snapshot(s) ==
  pc[s] = "read" /\ ~deaf[s] /\ Unsent(s) = {} =>
    IF row_read[s] = Null THEN status[watches[s]] = "absent" ELSE row_read[s] = Row(watches[s])

Caught(s) ==
  pc[s] = "looping" /\ ~deaf[s] /\ Unsent(s) = {} =>
    IF last[s] = Null THEN status[watches[s]] = "absent" ELSE last[s] = Row(watches[s])

\* A message that says that a job has ended says how its row stays.
Ends(s) ==
  /\ \A i \in 1 .. Len(queue[s]) :
       queue[s][i].status \in Terminal => queue[s][i] = Row(queue[s][i].id)
  /\ row_read[s] # Null /\ row_read[s].status \in Terminal => row_read[s] = Row(watches[s])
  /\ pc[s] = "closing" => last[s] # Null /\ last[s].status \in Terminal /\ last[s] = Row(watches[s])

\* What is waiting is ordered by age and not ahead of the row.
Rises(s) ==
  /\ \A i, k \in Unsent(s) : i <= k => Age(queue[s][i]) <= Age(queue[s][k])
  /\ \A i \in Unsent(s) : Age(queue[s][i]) <= Age(Row(watches[s]))

\* What was sent is not ahead of the row and, unless it is the snapshot,
\* not ahead of what is waiting.
Older(s) ==
  /\ row_read[s] # Null => Age(row_read[s]) <= Age(Row(watches[s]))
  /\ last[s] # Null => Age(last[s]) <= Age(Row(watches[s]))
  /\ last[s] # Null /\ last[s] # row_read[s] => \A i \in Unsent(s) : Age(last[s]) <= Age(queue[s][i])

Good(s) == Stage(s) /\ Newest(s) /\ Snapshot(s) /\ Caught(s) /\ Ends(s) /\ Rises(s) /\ Older(s)

StreamInv == TypeOK /\ \A s \in Streams : Good(s)

LEMMA StreamInvInit == Init => StreamInv
<1> SUFFICES ASSUME Init PROVE StreamInv
  OBVIOUS
<1>1. TypeOK
  BY DEF Init, Lifecycle!Init, TypeOK
<1>2. ASSUME NEW s \in Streams PROVE Good(s)
  <2>1. pc[s] = "closed" /\ queue[s] = <<>> /\ row_read[s] = Null /\ last[s] = Null
    BY DEF Init
  <2>2. Unsent(s) = {}
    BY <2>1 DEF Unsent
  <2> QED
    BY <2>1, <2>2 DEF Good, Stage, Newest, Snapshot, Caught, Ends, Rises, Older, Listening, Hearing
<1> QED
  BY <1>1, <1>2 DEF StreamInv

\* Ages are numbers.
LEMMA MessagesHaveAges == ASSUME NEW m \in Message PROVE Age(m) \in Nat
BY DEF Message, Age

LEMMA RowsHaveAges == ASSUME TypeOK, NEW j \in Jobs PROVE Age(Row(j)) \in Nat
BY DEF TypeOK, Row, Age

\* Streams share nothing but the rows.
LEMMA OthersStayGood ==
  ASSUME NEW s \in Streams, Good(s), UNCHANGED <<status, attempts>>,
         pc'[s] = pc[s], watches'[s] = watches[s], queue'[s] = queue[s],
         row_read'[s] = row_read[s], last'[s] = last[s], deaf'[s] = deaf[s]
  PROVE  Good(s)'
<1>1. Unsent(s)' = Unsent(s) /\ (Hearing(s)' <=> Hearing(s))
  BY DEF Unsent, Listening, Hearing
<1>2. \A j : Row(j)' = Row(j)
  BY DEF Row
<1>3. \A m, n : m = n => Age(m) = Age(n)
  OBVIOUS
<1>4. Stage(s)' /\ Newest(s)'
  BY <1>1, <1>2 DEF Good, Stage, Newest
<1>5. Snapshot(s)' /\ Caught(s)'
  BY <1>1, <1>2 DEF Good, Snapshot, Caught
<1>6. Ends(s)'
  BY <1>2 DEF Good, Ends
<1>7. Rises(s)' /\ Older(s)'
  BY <1>1, <1>2 DEF Good, Rises, Older, Age
<1> QED
  BY <1>4, <1>5, <1>6, <1>7 DEF Good

-----------------------------------------------------------------------------
(* The rows and their notifications.                                       *)

\* A step of a job makes its row older, and none leaves a final status.
LEMMA UpdateOfRow ==
  ASSUME TypeOK, NEW j \in Jobs, Update(j)
  PROVE  /\ status[j] \notin Terminal
         /\ Row(j)' \in Message
         /\ Age(Row(j)) <= Age(Row(j)')
         /\ \A k \in Jobs \ {j} : Row(k)' = Row(k) /\ status'[k] = status[k]
         /\ status' \in [Jobs -> {"absent", "pending", "running"} \cup Terminal]
         /\ attempts' \in [Jobs -> Nat]
         /\ handled' = handled
<1> USE DEF TypeOK, Row, Message, Age
<1>1. CASE Lifecycle!Submit(j)
  BY <1>1 DEF Lifecycle!Submit
<1>2. CASE Lifecycle!Deliver({j})
  BY <1>2 DEF Lifecycle!Deliver
<1>3. CASE Lifecycle!Complete(j)
  BY <1>3 DEF Lifecycle!Complete
<1>4. CASE Lifecycle!Retry(j)
  BY <1>4 DEF Lifecycle!Retry
<1>5. CASE Lifecycle!GiveUp(j)
  BY <1>5 DEF Lifecycle!GiveUp
<1> QED
  BY <1>1, <1>2, <1>3, <1>4, <1>5 DEF Update

\* What the NOTIFY of a job's new row does to a queue.
LEMMA UpdateOfQueue ==
  ASSUME TypeOK, NEW j \in Jobs, Update(j), NEW s \in Streams
  PROVE  IF Hearing(s)
           THEN /\ queue'[s] \in Seq(Message)
                /\ Len(queue'[s]) = Len(queue[s]) + 1
                /\ \A i \in 1 .. Len(queue[s]) : queue'[s][i] = queue[s][i]
                /\ queue'[s][Len(queue[s]) + 1] = Row(j)'
                /\ Unsent(s)' = IF watches[s] = j THEN Unsent(s) \cup {Len(queue[s]) + 1} ELSE Unsent(s)
           ELSE queue'[s] = queue[s] /\ Unsent(s)' = Unsent(s)
<1>1. queue[s] \in Seq(Message) /\ Len(queue[s]) \in Nat
  BY DEF TypeOK
<1>2. CASE ~Hearing(s)
  <2>1. queue'[s] = queue[s]
    BY <1>2 DEF Update, Notify
  <2> QED
    BY <1>2, <2>1 DEF Update, Unsent
<1>3. CASE Hearing(s)
  <2>1. queue'[s] = Append(queue[s], Row(j)')
    BY <1>3 DEF Update, Notify
  <2>2. /\ queue'[s] \in Seq(Message)
        /\ Len(queue'[s]) = Len(queue[s]) + 1
        /\ \A i \in 1 .. Len(queue[s]) : queue'[s][i] = queue[s][i]
        /\ queue'[s][Len(queue[s]) + 1] = Row(j)'
    BY <1>1, <2>1, UpdateOfRow, AppendProperties
  <2>3. watches' = watches /\ Row(j)'.id = j
    BY DEF Update, Row
  <2>4. Unsent(s)' = IF watches[s] = j THEN Unsent(s) \cup {Len(queue[s]) + 1} ELSE Unsent(s)
    BY <1>1, <2>2, <2>3 DEF Unsent
  <2> QED
    BY <1>3, <2>2, <2>4
<1> QED
  BY <1>2, <1>3

LEMMA UpdateKeepsTypes == ASSUME TypeOK, NEW j \in Jobs, Update(j) PROVE TypeOK'
<1>1. queue' \in [Streams -> Seq(Message)]
  <2>1. \A s \in Streams : queue'[s] \in Seq(Message)
    BY UpdateOfQueue DEF TypeOK
  <2> QED
    BY <2>1 DEF Update, Notify
<1> QED
  BY <1>1, UpdateOfRow DEF TypeOK, Update

LEMMA UpdateKeepsGood ==
  ASSUME TypeOK, TypeOK', NEW j \in Jobs, Update(j), NEW s \in Streams, Good(s)
  PROVE  Good(s)'
<1> USE DEF Good, Row
<1>1. UNCHANGED <<pc, watches, row_read, last, deaf>> /\ (Hearing(s)' <=> Hearing(s))
  BY DEF Update, Listening, Hearing
<1>2. queue[s] \in Seq(Message) /\ Len(queue[s]) \in Nat
  BY DEF TypeOK
<1>3. \A i \in Unsent(s) : i \in 1 .. Len(queue[s]) /\ i # Len(queue[s]) + 1
  BY <1>2 DEF Unsent
<1>4. \A i \in 1 .. Len(queue[s]) : queue'[s][i] = queue[s][i] /\ queue[s][i] \in Message
  BY <1>2, UpdateOfQueue, ElementOfSeq
<1>5. pc[s] # "closed" => watches[s] \in Jobs
  BY DEF Stage
<1>6. Stage(s)'
  <2>1. pc[s] = "closed" => queue'[s] = queue[s]
    BY UpdateOfQueue DEF Listening, Hearing
  <2> QED
    BY <1>1, <2>1 DEF Stage
<1>7. Ends(s)'
  <2>1. ASSUME NEW m \in Message, m.status \in Terminal, m = Row(m.id) PROVE m = Row(m.id)'
    <3>1. m.id \in Jobs /\ status[m.id] \in Terminal
      BY <2>1 DEF Message, Row
    <3>2. m.id # j
      BY <3>1, UpdateOfRow
    <3> QED
      BY <2>1, <3>1, <3>2, UpdateOfRow
  <2>2. ASSUME NEW i \in 1 .. Len(queue'[s]), NEW m, m = queue'[s][i], m.status \in Terminal
        PROVE  m = Row(m.id)'
    <3>1. CASE i \in 1 .. Len(queue[s])
      BY <2>1, <2>2, <3>1, <1>4 DEF Ends
    <3>2. CASE i \notin 1 .. Len(queue[s])
      <4>1. m = Row(j)'
        BY <2>2, <3>2, <1>2, UpdateOfQueue
      <4> QED
        BY <4>1 DEF Row
    <3> QED
      BY <3>1, <3>2
  <2>3. row_read[s] # Null /\ row_read[s].status \in Terminal => row_read[s] = Row(watches[s])'
    BY <1>1, <2>1 DEF Ends, Stage, TypeOK
  <2>4. pc[s] = "closing" => last[s] # Null /\ last[s].status \in Terminal /\ last[s] = Row(watches[s])'
    BY <1>1, <2>1 DEF Ends, Stage, TypeOK
  <2> QED
    BY <1>1, <2>2, <2>3, <2>4 DEF Ends
<1>8. CASE pc[s] = "closed"
  <2>1. Unsent(s)' = {}
    BY <1>1, <1>6, <1>8 DEF Stage, Unsent
  <2> QED
    BY <1>1, <1>6, <1>7, <1>8, <2>1 DEF Newest, Snapshot, Caught, Rises, Older, Stage, Listening, Hearing
<1>9. CASE pc[s] # "closed" /\ watches[s] # j
  <2>1. Unsent(s)' = Unsent(s)
    BY <1>9, UpdateOfQueue
  <2>2. watches[s] \in Jobs /\ Row(watches[s])' = Row(watches[s]) /\ status'[watches[s]] = status[watches[s]]
    BY <1>1, <1>5, <1>9, UpdateOfRow
  <2>3. \A i \in Unsent(s) : queue'[s][i] = queue[s][i]
    BY <1>3, <1>4
  <2>4. Newest(s)'
    BY <1>1, <2>1, <2>2, <2>3 DEF Newest
  <2>5. Snapshot(s)' /\ Caught(s)'
    BY <1>1, <2>1, <2>2 DEF Snapshot, Caught
  <2>6. Rises(s)' /\ Older(s)'
    BY <1>1, <2>1, <2>2, <2>3 DEF Rises, Older, Age
  <2> QED
    BY <1>6, <1>7, <2>4, <2>5, <2>6
<1>10. CASE Hearing(s) /\ watches[s] = j
  <2> DEFINE n == Len(queue[s]) + 1
  <2>1. Unsent(s)' = Unsent(s) \cup {n} /\ queue'[s][n] = Row(watches[s])'
    BY <1>1, <1>10, UpdateOfQueue
  <2>2. \A i \in Unsent(s) : i < n /\ queue'[s][i] = queue[s][i] /\ Age(queue[s][i]) \in Nat
    BY <1>2, <1>3, <1>4, MessagesHaveAges
  <2>3. /\ Age(Row(watches[s])) \in Nat
        /\ Age(Row(watches[s])') \in Nat
        /\ Age(Row(watches[s])) <= Age(Row(watches[s])')
    BY <1>1, <1>10, RowsHaveAges, UpdateOfRow, MessagesHaveAges
  <2>4. Newest(s)'
    BY <1>1, <1>2, <1>3, <2>1, <2>2 DEF Newest
  <2>5. Snapshot(s)' /\ Caught(s)'
    BY <1>1, <2>1 DEF Snapshot, Caught
  <2>6. \A i \in Unsent(s)' : Age(queue'[s][i]) <= Age(Row(watches[s])')
    BY <2>1, <2>2, <2>3 DEF Rises
  <2>7. \A i, k \in Unsent(s)' : i <= k => Age(queue'[s][i]) <= Age(queue'[s][k])
    BY <1>2, <1>3, <2>1, <2>2, <2>3, <2>6 DEF Rises
  <2>8. Rises(s)'
    BY <2>6, <2>7 DEF Rises
  <2>9. /\ row_read[s] # Null => Age(row_read[s]) <= Age(Row(watches[s])')
        /\ last[s] # Null => Age(last[s]) <= Age(Row(watches[s])')
    BY <1>1, <2>3, MessagesHaveAges DEF Older, TypeOK
  <2>10. last[s] # Null /\ last[s] # row_read[s] =>
           \A i \in Unsent(s)' : Age(last[s]) <= Age(queue'[s][i])
    BY <2>1, <2>2, <2>9 DEF Older
  <2>11. Older(s)'
    BY <1>1, <2>9, <2>10 DEF Older
  <2> QED
    BY <1>6, <1>7, <2>4, <2>5, <2>8, <2>11
<1>11. CASE ~Hearing(s) /\ pc[s] # "closing" /\ watches[s] = j
  <2>1. Unsent(s)' = Unsent(s) /\ queue'[s] = queue[s]
    BY <1>11, UpdateOfQueue
  <2>2. Newest(s)' /\ Snapshot(s)' /\ Caught(s)'
    BY <1>1, <1>11 DEF Newest, Snapshot, Caught, Listening, Hearing
  <2>3. \A m \in Message : Age(m) <= Age(Row(watches[s])) => Age(m) <= Age(Row(watches[s])')
    <3>1. Age(Row(j)) \in Nat /\ Age(Row(j)') \in Nat /\ Age(Row(j)) <= Age(Row(j)')
      BY RowsHaveAges, UpdateOfRow, MessagesHaveAges
    <3>2. watches[s] = j /\ watches'[s] = j
      BY <1>1, <1>11
    <3>3. Age(Row(watches[s])) = Age(Row(j)) /\ Age(Row(watches[s])') = Age(Row(j)')
      BY <3>2
    <3> QED
      BY <3>1, <3>3, MessagesHaveAges
  <2>4. Rises(s)'
    BY <1>1, <1>3, <1>4, <2>1, <2>3 DEF Rises
  <2>5. Older(s)'
    BY <1>1, <2>1, <2>3 DEF Older, TypeOK
  <2> QED
    BY <1>6, <1>7, <2>2, <2>4, <2>5
<1>12. pc[s] = "closing" => watches[s] # j
  BY UpdateOfRow DEF Ends, Row
<1> QED
  BY <1>8, <1>9, <1>10, <1>11, <1>12 DEF TypeOK

LEMMA UpdateKeepsInv == ASSUME StreamInv, NEW j \in Jobs, Update(j) PROVE StreamInv'
BY UpdateKeepsTypes, UpdateKeepsGood DEF StreamInv

\* A handler run changes no row that a stream can see.
LEMMA HandleKeepsInv == ASSUME StreamInv, NEW j \in Jobs, Handle(j) PROVE StreamInv'
<1>1. UNCHANGED <<status, attempts, pc, watches, queue, row_read, last, gone, deaf, connects>>
  BY DEF Handle, Lifecycle!Handle, streams
<1>2. TypeOK'
  BY <1>1 DEF StreamInv, TypeOK, Handle, Lifecycle!Handle
<1>3. ASSUME NEW s \in Streams PROVE Good(s)'
  BY <1>1, OthersStayGood DEF StreamInv
<1> QED
  BY <1>2, <1>3 DEF StreamInv

-----------------------------------------------------------------------------
(* The steps of a stream.                                                  *)

\* What is left of a queue without its first notification.
LEMMA TailOfQueue ==
  ASSUME NEW s \in Streams, queue[s] \in Seq(Message), queue[s] # <<>>,
         queue'[s] = Tail(queue[s]), watches'[s] = watches[s]
  PROVE  /\ Head(queue[s]) = queue[s][1] /\ queue[s][1] \in Message
         /\ 1 \in 1 .. Len(queue[s])
         /\ Tail(queue[s]) \in Seq(Message)
         /\ \A i \in 1 .. Len(queue'[s]) : i + 1 \in 1 .. Len(queue[s]) /\ queue'[s][i] = queue[s][i + 1]
         /\ \A i \in Unsent(s)' : i \in Nat /\ i + 1 \in Unsent(s) /\ queue'[s][i] = queue[s][i + 1]
         /\ \A k \in Unsent(s) : k \in Nat /\ (k # 1 => k - 1 \in Unsent(s)')
         /\ 1 \in Unsent(s) <=> Mine(s)
<1>1. /\ Len(queue[s]) \in Nat \ {0}
      /\ Tail(queue[s]) \in Seq(Message)
      /\ Len(queue'[s]) = Len(queue[s]) - 1
      /\ \A i \in 1 .. Len(queue'[s]) : queue'[s][i] = queue[s][i + 1]
  BY HeadTailProperties, LenProperties, EmptySeq
<1>2. 1 \in 1 .. Len(queue[s]) /\ Head(queue[s]) = queue[s][1]
  BY <1>1
<1>3. queue[s][1] \in Message
  BY <1>2, ElementOfSeq
<1>4. \A i \in Unsent(s)' : i \in Nat /\ i + 1 \in Unsent(s) /\ queue'[s][i] = queue[s][i + 1]
  BY <1>1 DEF Unsent
<1>5. \A k \in Unsent(s) : k \in Nat /\ (k # 1 => k - 1 \in Unsent(s)')
  <2> SUFFICES ASSUME NEW k \in Unsent(s) PROVE k \in Nat /\ (k # 1 => k - 1 \in Unsent(s)')
    OBVIOUS
  <2>1. k \in 1 .. Len(queue[s]) /\ queue[s][k].id = watches[s]
    BY DEF Unsent
  <2>2. k # 1 => k - 1 \in 1 .. Len(queue'[s]) /\ queue'[s][k - 1] = queue[s][k]
    BY <1>1, <2>1
  <2> QED
    BY <2>1, <2>2, <1>1 DEF Unsent
<1>6. 1 \in Unsent(s) <=> Mine(s)
  BY <1>2 DEF Unsent, Mine
<1>7. \A i \in 1 .. Len(queue'[s]) : i + 1 \in 1 .. Len(queue[s])
  BY <1>1
<1> QED
  BY <1>1, <1>2, <1>3, <1>4, <1>5, <1>6, <1>7

\* A stream closes from wherever it is.
LEMMA ClosedIsGood ==
  ASSUME TypeOK, NEW s \in Streams, Closed(s) PROVE TypeOK' /\ Good(s)'
<1>1. TypeOK'
  <2>1. <<>> \in Seq(Message)
    BY EmptySeq
  <2> QED
    BY <2>1 DEF TypeOK, Closed, rows
<1>2. /\ pc'[s] = "closed" /\ queue'[s] = <<>> /\ row_read'[s] = Null /\ last'[s] = Null
  BY DEF Closed, TypeOK
<1>3. Unsent(s)' = {} /\ Len(queue'[s]) = 0
  BY <1>2 DEF Unsent
<1> QED
  BY <1>1, <1>2, <1>3 DEF Good, Stage, Newest, Snapshot, Caught, Ends, Rises, Older, Listening, Hearing

\* One step of a stream, whatever the others are doing.
LEMMA StepOfOne ==
  ASSUME StreamInv, NEW s \in Streams, UNCHANGED rows, TypeOK', Good(s)',
         \A u \in Streams \ {s} : /\ pc'[u] = pc[u] /\ watches'[u] = watches[u] /\ queue'[u] = queue[u]
                                  /\ row_read'[u] = row_read[u] /\ last'[u] = last[u] /\ deaf'[u] = deaf[u]
  PROVE  StreamInv'
BY OthersStayGood DEF StreamInv, rows

LEMMA ConnectKeepsInv ==
  ASSUME StreamInv, NEW s \in Streams, NEW j \in Watched, Connect(s, j) PROVE StreamInv'
<1> USE DEF StreamInv
<1>1. TypeOK'
  BY DEF Connect, TypeOK, rows
<1>2. /\ pc'[s] = "subscribed" /\ watches'[s] = j /\ queue'[s] = <<>>
      /\ row_read'[s] = Null /\ last'[s] = Null
  BY DEF Connect, TypeOK, Good, Stage
<1>3. Unsent(s)' = {} /\ Len(queue'[s]) = 0
  BY <1>2 DEF Unsent
<1>4. Good(s)'
  BY <1>2, <1>3 DEF Good, Stage, Newest, Snapshot, Caught, Ends, Rises, Older
<1> QED
  BY <1>1, <1>4, StepOfOne DEF Connect, TypeOK

LEMMA ReadRowKeepsInv == ASSUME StreamInv, NEW s \in Streams, ReadRow(s) PROVE StreamInv'
<1> USE DEF StreamInv
<1>1. watches[s] \in Jobs /\ UNCHANGED rows
  BY DEF ReadRow, Good, Stage
<1>2. Row(watches[s]) \in Message \/ status[watches[s]] = "absent"
  BY <1>1 DEF TypeOK, Row, Message
<1>3. TypeOK'
  BY <1>2 DEF ReadRow, TypeOK, rows
<1>4. Unsent(s)' = Unsent(s) /\ Row(watches[s])' = Row(watches[s])
  BY <1>1 DEF ReadRow, Unsent, Row, rows
<1>5. Age(Row(watches[s])) \in Nat
  BY <1>1, RowsHaveAges
<1>6. /\ pc[s] = "subscribed" /\ pc'[s] = "read" /\ last'[s] = Null
      /\ row_read'[s] = IF status[watches[s]] = "absent" THEN Null ELSE Row(watches[s])
  BY DEF ReadRow, TypeOK, Good, Stage
<1>7. Stage(s)' /\ Snapshot(s)' /\ Caught(s)'
  <2>1. /\ watches' = watches /\ queue' = queue /\ status' = status
        /\ Row(watches[s]).id = watches[s]
        /\ status[watches[s]] # "absent" => Row(watches[s]) # Null
    BY <1>1, <1>2 DEF ReadRow, rows, Row
  <2>2. Stage(s)'
    BY <1>1, <1>6, <2>1 DEF Stage
  <2>3. Snapshot(s)'
    BY <1>4, <1>6, <2>1 DEF Snapshot
  <2> QED
    BY <1>6, <2>2, <2>3 DEF Caught
<1>8. Newest(s)' /\ Rises(s)'
  BY <1>4, <1>6 DEF ReadRow, Good, Newest, Rises, Listening, Hearing, Age, Row
<1>9. Ends(s)'
  <2>1. \A j : Row(j)' = Row(j)
    BY <1>1 DEF Row, rows
  <2>2. queue' = queue
    BY DEF ReadRow
  <2>3. (\A i \in 1 .. Len(queue[s]) : queue[s][i].status \in Terminal => queue[s][i] = Row(queue[s][i].id))'
    BY <2>1, <2>2 DEF Good, Ends
  <2>4. row_read'[s] # Null => row_read'[s] = Row(watches[s])'
    BY <1>4, <1>6
  <2> QED
    BY <1>6, <2>3, <2>4 DEF Ends
<1>10. Older(s)'
  <2>1. row_read'[s] # Null => Age(row_read'[s]) <= Age(Row(watches[s])')
    BY <1>4, <1>5, <1>6
  <2> QED
    BY <1>6, <2>1 DEF Older
<1>11. Good(s)'
  BY <1>7, <1>8, <1>9, <1>10 DEF Good
<1> QED
  BY <1>3, <1>11, StepOfOne DEF ReadRow, TypeOK

LEMMA SkipSnapshotKeepsInv == ASSUME StreamInv, NEW s \in Streams, SkipSnapshot(s) PROVE StreamInv'
<1> USE DEF StreamInv
<1>1. TypeOK'
  BY DEF SkipSnapshot, TypeOK, rows
<1>2. /\ UNCHANGED <<watches, queue, row_read, last, deaf, rows>> /\ pc'[s] = "looping"
      /\ pc[s] = "read" /\ row_read[s] = Null /\ last[s] = Null
  BY DEF SkipSnapshot, TypeOK, Good, Stage
<1>3. Unsent(s)' = Unsent(s) /\ Row(watches[s])' = Row(watches[s])
  BY <1>2 DEF Unsent, Row, rows
<1>4. Good(s)'
  BY <1>2, <1>3 DEF Good, Stage, Newest, Snapshot, Caught, Ends, Rises, Older, Listening, Hearing, rows, Row
<1> QED
  BY <1>1, <1>4, StepOfOne DEF SkipSnapshot, TypeOK

LEMMA SendSnapshotKeepsInv == ASSUME StreamInv, NEW s \in Streams, SendSnapshot(s) PROVE StreamInv'
<1> USE DEF StreamInv
<1>1. TypeOK'
  BY DEF SendSnapshot, TypeOK, rows
<1>2. /\ UNCHANGED <<watches, queue, row_read, deaf, rows>> /\ last'[s] = row_read[s]
      /\ pc'[s] = IF row_read[s].status \in Terminal THEN "closing" ELSE "looping"
      /\ pc[s] = "read" /\ row_read[s] # Null
  BY DEF SendSnapshot, TypeOK
<1>3. Unsent(s)' = Unsent(s) /\ Row(watches[s])' = Row(watches[s])
  BY <1>2 DEF Unsent, Row, rows
<1>4. Stage(s)' /\ Newest(s)' /\ Snapshot(s)' /\ Caught(s)'
  BY <1>2, <1>3 DEF Good, Stage, Newest, Snapshot, Caught, Listening, Hearing, rows, Row
<1>5. Ends(s)'
  BY <1>2, <1>3 DEF Good, Ends, rows, Row
<1>6. Rises(s)' /\ Older(s)'
  BY <1>2, <1>3 DEF Good, Rises, Older, rows, Row
<1> QED
  BY <1>1, <1>4, <1>5, <1>6, StepOfOne DEF SendSnapshot, TypeOK, Good

LEMMA IgnoreKeepsInv == ASSUME StreamInv, NEW s \in Streams, Ignore(s) PROVE StreamInv'
<1> USE DEF StreamInv
<1>1. /\ pc[s] = "looping" /\ UNCHANGED <<pc, watches, row_read, last, deaf, rows>>
      /\ queue[s] \in Seq(Message) /\ queue[s] # <<>> /\ queue'[s] = Tail(queue[s])
  BY DEF Ignore, TypeOK
<1>2. /\ Tail(queue[s]) \in Seq(Message)
      /\ \A i \in 1 .. Len(queue'[s]) : i + 1 \in 1 .. Len(queue[s]) /\ queue'[s][i] = queue[s][i + 1]
      /\ \A i \in Unsent(s)' : i \in Nat /\ i + 1 \in Unsent(s) /\ queue'[s][i] = queue[s][i + 1]
      /\ \A k \in Unsent(s) : k \in Nat /\ k # 1 /\ k - 1 \in Unsent(s)'
  BY <1>1, TailOfQueue DEF Ignore
<1>3. TypeOK'
  BY <1>2 DEF Ignore, TypeOK, rows
<1>4. Row(watches[s])' = Row(watches[s]) /\ \A m : Row(m)' = Row(m)
  BY <1>1 DEF Row, rows
<1>5. Stage(s)' /\ Ends(s)'
  BY <1>1, <1>2, <1>4 DEF Good, Stage, Ends
<1>6. Newest(s)'
  <2> SUFFICES ASSUME ~deaf[s], NEW i \in Unsent(s)', \A k \in Unsent(s)' : k <= i
               PROVE  queue'[s][i] = Row(watches[s])
    BY <1>1, <1>4 DEF Newest, Hearing
  <2>1. \A k \in Unsent(s) : k <= i + 1
    BY <1>2
  <2> QED
    BY <1>1, <1>2, <2>1 DEF Good, Newest, Listening, Hearing
<1>7. Snapshot(s)' /\ Caught(s)'
  <2>1. Unsent(s)' = {} => Unsent(s) = {}
    BY <1>2
  <2> QED
    BY <1>1, <1>4, <2>1 DEF Good, Snapshot, Caught, rows
<1>8. Rises(s)'
  <2>1. \A i, k \in Unsent(s)' : i <= k => Age(queue[s][i + 1]) <= Age(queue[s][k + 1])
    BY <1>2 DEF Good, Rises
  <2>2. \A i \in Unsent(s)' : Age(queue[s][i + 1]) <= Age(Row(watches[s])')
    BY <1>2, <1>4 DEF Good, Rises
  <2>3. \A i \in Unsent(s)' : Age(queue'[s][i]) = Age(queue[s][i + 1])
    BY <1>2
  <2> QED
    BY <1>1, <2>1, <2>2, <2>3 DEF Rises
<1>9. Older(s)'
  BY <1>1, <1>2, <1>4 DEF Good, Older, Age
<1> QED
  BY <1>3, <1>5, <1>6, <1>7, <1>8, <1>9, StepOfOne DEF Ignore, TypeOK, Good

LEMMA SendUpdateKeepsInv == ASSUME StreamInv, NEW s \in Streams, SendUpdate(s) PROVE StreamInv'
<1> USE DEF StreamInv
<1>1. /\ pc[s] = "looping" /\ UNCHANGED <<watches, row_read, deaf, rows>>
      /\ queue[s] \in Seq(Message) /\ queue[s] # <<>> /\ queue'[s] = Tail(queue[s])
      /\ last'[s] = Head(queue[s]) /\ Mine(s)
      /\ pc'[s] = IF Head(queue[s]).status \in Terminal THEN "closing" ELSE "looping"
  BY DEF SendUpdate, TypeOK
<1>2. /\ Head(queue[s]) = queue[s][1] /\ queue[s][1] \in Message
      /\ 1 \in Unsent(s) /\ 1 \in 1 .. Len(queue[s])
      /\ Tail(queue[s]) \in Seq(Message)
      /\ \A i \in 1 .. Len(queue'[s]) : i + 1 \in 1 .. Len(queue[s]) /\ queue'[s][i] = queue[s][i + 1]
      /\ \A i \in Unsent(s)' : i \in Nat /\ i + 1 \in Unsent(s) /\ queue'[s][i] = queue[s][i + 1]
      /\ \A k \in Unsent(s) : k \in Nat /\ (k # 1 => k - 1 \in Unsent(s)')
  BY <1>1, TailOfQueue
<1>3. TypeOK'
  BY <1>2 DEF SendUpdate, TypeOK, rows
<1>4. Row(watches[s])' = Row(watches[s]) /\ \A m : Row(m)' = Row(m)
  BY <1>1 DEF Row, rows
<1>5. last'[s] = queue[s][1] /\ queue[s][1].id = watches[s] /\ queue[s][1] # Null
  BY <1>1, <1>2 DEF Mine
<1>6. Stage(s)'
  BY <1>1, <1>5 DEF Good, Stage
<1>7. Ends(s)'
  <2>1. queue[s][1].status \in Terminal => queue[s][1] = Row(watches[s])
    BY <1>2, <1>5 DEF Good, Ends
  <2> QED
    BY <1>1, <1>2, <1>4, <1>5, <2>1 DEF Good, Ends
<1>8. Newest(s)'
  <2> SUFFICES ASSUME ~deaf[s], NEW i \in Unsent(s)', \A k \in Unsent(s)' : k <= i
               PROVE  queue'[s][i] = Row(watches[s])
    BY <1>1, <1>4 DEF Newest, Hearing
  <2>1. ASSUME NEW k \in Unsent(s) PROVE k <= i + 1
    <3>1. k \in Nat /\ i \in Nat /\ (k # 1 => k - 1 <= i)
      BY <1>2
    <3> QED
      BY <3>1
  <2> QED
    BY <1>1, <1>2, <2>1 DEF Good, Newest, Listening, Hearing
<1>9. Snapshot(s)' /\ Caught(s)'
  <2>1. ASSUME ~deaf[s], Unsent(s)' = {} PROVE queue[s][1] = Row(watches[s])
    <3>1. \A k \in Unsent(s) : k <= 1
      BY <1>2, <2>1
    <3> QED
      BY <1>1, <1>2, <2>1, <3>1 DEF Good, Newest, Listening, Hearing
  <2> QED
    BY <1>1, <1>4, <1>5, <2>1 DEF Snapshot, Caught
<1>10. Rises(s)'
  <2>1. \A i, k \in Unsent(s)' : i <= k => Age(queue[s][i + 1]) <= Age(queue[s][k + 1])
    BY <1>2 DEF Good, Rises
  <2>2. \A i \in Unsent(s)' : Age(queue[s][i + 1]) <= Age(Row(watches[s])')
    BY <1>2, <1>4 DEF Good, Rises
  <2>3. \A i \in Unsent(s)' : Age(queue'[s][i]) = Age(queue[s][i + 1])
    BY <1>2
  <2> QED
    BY <1>1, <2>1, <2>2, <2>3 DEF Rises
<1>11. Older(s)'
  <2>1. Age(queue[s][1]) <= Age(Row(watches[s])) /\ \A k \in Unsent(s) : Age(queue[s][1]) <= Age(queue[s][k])
    BY <1>2 DEF Good, Rises, Unsent
  <2>2. \A i \in Unsent(s)' : Age(queue[s][1]) <= Age(queue'[s][i])
    BY <1>2, <2>1
  <2> QED
    BY <1>1, <1>4, <1>5, <2>1, <2>2 DEF Good, Older
<1> QED
  BY <1>3, <1>6, <1>7, <1>8, <1>9, <1>10, <1>11, StepOfOne DEF SendUpdate, TypeOK, Good

LEMMA CloseKeepsInv == ASSUME StreamInv, NEW s \in Streams, Closed(s) PROVE StreamInv'
BY ClosedIsGood, StepOfOne DEF StreamInv, Closed, TypeOK, rows

LEMMA ClientLeavesKeepsInv == ASSUME StreamInv, NEW s \in Streams, ClientLeaves(s) PROVE StreamInv'
<1>1. UNCHANGED <<rows, pc, watches, queue, row_read, last, deaf>> /\ TypeOK'
  BY DEF ClientLeaves, StreamInv, TypeOK, rows
<1>2. Good(s)'
  BY <1>1, OthersStayGood DEF StreamInv, rows
<1> QED
  BY <1>1, <1>2, StepOfOne

LEMMA RefusedKeepsInv == ASSUME StreamInv, NEW s \in Streams, Refused(s) PROVE StreamInv'
<1>1. UNCHANGED <<rows, pc, watches, queue, row_read, last, deaf>> /\ TypeOK'
  BY DEF Refused, StreamInv, TypeOK, rows
<1>2. Good(s)'
  BY <1>1, OthersStayGood DEF StreamInv, rows
<1> QED
  BY <1>1, <1>2, StepOfOne

LEMMA ReadFailsKeepsInv == ASSUME StreamInv, NEW s \in Streams, ReadFails(s) PROVE StreamInv'
<1> USE DEF StreamInv
<1>1. TypeOK'
  BY DEF ReadFails, TypeOK, rows
<1>2. /\ UNCHANGED <<watches, queue, row_read, last, deaf, rows>> /\ pc'[s] = "failed"
      /\ pc[s] = "subscribed"
  BY DEF ReadFails, TypeOK
<1>3. Unsent(s)' = Unsent(s) /\ \A j : Row(j)' = Row(j)
  BY <1>2 DEF Unsent, Row, rows
<1>4. Stage(s)' /\ Newest(s)' /\ Snapshot(s)' /\ Caught(s)'
  BY <1>2 DEF Good, Stage, Newest, Snapshot, Caught, Listening, Hearing
<1>5. Ends(s)'
  BY <1>2, <1>3 DEF Good, Ends
<1>6. Rises(s)' /\ Older(s)'
  BY <1>2, <1>3 DEF Good, Rises, Older, Age
<1> QED
  BY <1>1, <1>4, <1>5, <1>6, StepOfOne DEF ReadFails, TypeOK, Good

\* A broken connection takes the end of the queue with it.
LEMMA ListenBreaksKeepsInv == ASSUME StreamInv, NEW s \in Streams, ListenBreaks(s) PROVE StreamInv'
<1> USE DEF StreamInv
<1>1. PICK n \in 0 .. Len(queue[s]) : queue' = [queue EXCEPT ![s] = SubSeq(queue[s], 1, n)]
  BY DEF ListenBreaks
<1>2. queue[s] \in Seq(Message) /\ Len(queue[s]) \in Nat
  BY DEF TypeOK
<1>3. /\ queue'[s] \in Seq(Message)
      /\ Len(queue'[s]) = n
      /\ \A i \in 1 .. n : queue'[s][i] = queue[s][i]
  BY <1>1, <1>2, SubSeqProperties DEF TypeOK
<1>4. TypeOK'
  BY <1>1, <1>3 DEF ListenBreaks, TypeOK, rows
<1>5. UNCHANGED <<pc, watches, row_read, last, rows>> /\ deaf'[s] = TRUE /\ pc[s] # "closed"
  BY DEF ListenBreaks, TypeOK, Listening, Hearing
<1>6. Unsent(s)' \subseteq Unsent(s) /\ \A i \in Unsent(s)' : queue'[s][i] = queue[s][i]
  BY <1>2, <1>3, <1>5 DEF Unsent
<1>7. \A j : Row(j)' = Row(j)
  BY <1>5 DEF Row, rows
<1>8. Stage(s)' /\ Newest(s)' /\ Snapshot(s)' /\ Caught(s)'
  BY <1>5 DEF Good, Stage, Newest, Snapshot, Caught, Hearing
<1>9. Ends(s)'
  BY <1>2, <1>3, <1>5, <1>7 DEF Good, Ends
<1>10. Rises(s)' /\ Older(s)'
  BY <1>5, <1>6, <1>7 DEF Good, Rises, Older, Age
<1> QED
  BY <1>1, <1>4, <1>8, <1>9, <1>10, StepOfOne DEF ListenBreaks, TypeOK, Good

LEMMA StreamInvNext == StreamInv /\ [Next]_vars => StreamInv'
<1> SUFFICES ASSUME StreamInv, [Next]_vars PROVE StreamInv'
  OBVIOUS
<1>1. ASSUME NEW j \in Jobs, Update(j) PROVE StreamInv'
  BY <1>1, UpdateKeepsInv
<1>2. ASSUME NEW j \in Jobs, Handle(j) PROVE StreamInv'
  BY <1>2, HandleKeepsInv
<1>3. ASSUME NEW s \in Streams, Stream(s) PROVE StreamInv'
  BY <1>3, ReadRowKeepsInv, SkipSnapshotKeepsInv, SendSnapshotKeepsInv, IgnoreKeepsInv,
     SendUpdateKeepsInv, CloseKeepsInv DEF Stream, SendFails, Close
<1>4. ASSUME NEW s \in Streams, ClientLeaves(s) PROVE StreamInv'
  BY <1>4, ClientLeavesKeepsInv
<1>7. ASSUME NEW s \in Streams, ReadFails(s) \/ Refused(s) \/ ListenBreaks(s) PROVE StreamInv'
  BY <1>7, ReadFailsKeepsInv, RefusedKeepsInv, ListenBreaksKeepsInv
<1>5. ASSUME NEW s \in Streams, NEW j \in Watched, Connect(s, j) PROVE StreamInv'
  BY <1>5, ConnectKeepsInv
<1>6. CASE UNCHANGED vars
  <2>1. UNCHANGED <<status, attempts, pc, watches, queue, row_read, last, gone, deaf, connects>> /\ TypeOK'
    BY <1>6 DEF vars, rows, streams, StreamInv, TypeOK
  <2>2. ASSUME NEW s \in Streams PROVE Good(s)'
    BY <2>1, OthersStayGood DEF StreamInv
  <2> QED
    BY <2>1, <2>2 DEF StreamInv
<1> QED
  BY <1>1, <1>2, <1>3, <1>4, <1>5, <1>6, <1>7 DEF Next

LEMMA StreamInvAlways == Spec => []StreamInv
BY StreamInvInit, StreamInvNext, PTL DEF Spec

-----------------------------------------------------------------------------
(* What the invariant gives.                                               *)

\* Whatever is submitted, delivered and finished around its steps, the
\* handler of a stream sends only well-formed messages.
THEOREM StreamTypeCorrect == Spec => []TypeOK
BY StreamInvAlways, PTL DEF StreamInv

\* "Subscribing before the snapshot means intervening updates are buffered,
\* not lost", for any number of streams and updates: a stream with nothing
\* left to send has told its client the row as it is.
THEOREM StreamsCatchUp == Spec => []CaughtUp
<1>1. StreamInv => CaughtUp
  BY DEF StreamInv, Good, Caught, CaughtUp
<1> QED
  BY <1>1, StreamInvAlways, PTL

\* The newest notification about its job that a stream holds is the row as
\* it is.
THEOREM NewestNotificationIsCurrent == Spec => []NewestIsCurrent
<1>1. StreamInv => NewestIsCurrent
  BY DEF StreamInv, Good, Newest, NewestIsCurrent
<1> QED
  BY <1>1, StreamInvAlways, PTL

\* The server closes a stream only when its client has the final status.
THEOREM ClosedTellsTheEnd == Spec => []ClosedWithFinalStatus
<1>1. StreamInv => ClosedWithFinalStatus
  BY DEF StreamInv, Good, Ends, ClosedWithFinalStatus
<1> QED
  BY <1>1, StreamInvAlways, PTL

\* Only the snapshot can be followed by an older status: it is read after
\* the listener was added, so that it may be ahead of what is queued.
THEOREM SnapshotAloneMayBeOvertaken == Spec => BackOnlyAfterSnapshot
<1> DEFINE Step == \A s \in Streams :
      last[s] # Null /\ last'[s] # Null /\ Age(last'[s]) < Age(last[s]) => last[s] = row_read[s]
<1>1. StreamInv /\ [Next]_vars => [Step]_vars
  <2> SUFFICES ASSUME StreamInv, Next, NEW s \in Streams, last[s] # Null, last'[s] # Null,
                      last[s] # row_read[s]
               PROVE  ~(Age(last'[s]) < Age(last[s]))
    OBVIOUS
  <2>1. last[s] \in Message /\ Age(last[s]) \in Nat
    BY MessagesHaveAges DEF StreamInv, TypeOK
  <2>2. pc[s] \in {"looping", "closing"}
    BY DEF StreamInv, Good, Stage, TypeOK
  <2>3. CASE last'[s] = last[s]
    BY <2>1, <2>3
  <2>4. CASE SendUpdate(s)
    <3>1. queue[s] \in Seq(Message) /\ queue[s] # <<>> /\ Mine(s) /\ last'[s] = Head(queue[s])
      BY <2>4 DEF SendUpdate, StreamInv, TypeOK
    <3>2. 1 \in 1 .. Len(queue[s]) /\ Head(queue[s]) = queue[s][1] /\ queue[s][1] \in Message
      BY <3>1, HeadTailProperties, LenProperties, EmptySeq, ElementOfSeq
    <3>3. 1 \in Unsent(s)
      BY <3>1, <3>2 DEF Mine, Unsent
    <3>4. Age(queue[s][1]) \in Nat /\ Age(last[s]) <= Age(queue[s][1])
      BY <3>2, <3>3, MessagesHaveAges DEF StreamInv, Good, Older
    <3> QED
      BY <2>1, <3>1, <3>2, <3>4
  <2>5. last'[s] = last[s] \/ SendUpdate(s)
    <3> USE DEF StreamInv, TypeOK
    <3>1. ASSUME NEW j \in Jobs, Update(j) \/ Handle(j) PROVE last' = last
      BY <3>1 DEF Update, Handle, streams
    <3>2. ASSUME NEW t \in Streams, Stream(t) \/ ClientLeaves(t) \/ ReadFails(t) \/ Refused(t) \/ ListenBreaks(t)
          PROVE  last'[s] = last[s] \/ SendUpdate(s)
      <4>1. CASE t # s
        BY <3>2, <4>1 DEF Stream, ReadRow, SkipSnapshot, SendSnapshot, Ignore, SendUpdate,
           SendFails, Close, Closed, ClientLeaves, ReadFails, Refused, ListenBreaks
      <4>2. CASE t = s
        BY <2>2, <3>2, <4>2 DEF Stream, ReadRow, SkipSnapshot, SendSnapshot, Ignore,
           SendFails, Close, Closed, ClientLeaves, ReadFails, Refused, ListenBreaks
      <4> QED
        BY <4>1, <4>2
    <3>3. ASSUME NEW t \in Streams, NEW j \in Watched, Connect(t, j) PROVE last' = last
      BY <3>3 DEF Connect
    <3> QED
      BY <3>1, <3>2, <3>3 DEF Next
  <2> QED
    BY <2>3, <2>4, <2>5
<1> QED
  BY <1>1, StreamInvAlways, PTL DEF Spec, BackOnlyAfterSnapshot
=============================================================================
