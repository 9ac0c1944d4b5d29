------------------------------ MODULE JobStream ------------------------------
(***************************************************************************)
(* The status stream of a job (the websocket of presentation/api/routes/   *)
(* jobs.py), composed with the life cycle of the jobs.  Every change of a  *)
(* row and its NOTIFY commit together, so that one step changes the row    *)
(* and reaches the listening streams.  A stream listens first, reads the   *)
(* row over a second connection, sends it, and then follows its queue.     *)
(*                                                                         *)
(* queue[s] holds what the server has notified and the loop has not yet    *)
(* taken: the socket and the asyncio queue behind it keep the same order.  *)
(* If the connection a stream listens on breaks, nobody tells the loop.    *)
(* A batch of claimed rows is notified row by row, so Deliver is taken one *)
(* job at a time.                                                          *)
(***************************************************************************)
EXTENDS Naturals, Sequences

CONSTANTS
  Jobs,           \* the jobs of the outbox
  Watched,        \* the jobs that clients follow
  Streams,        \* the websocket connections the API serves
  MaxAttempts,    \* max_attempts of every job
  MaxDeliveries,  \* bound: how often each job is delivered
  MaxConnects,    \* bound: how often a stream is opened anew
  Null            \* no job, no message

Terminal == {"done", "failed"}

\* What is notified of a row and sent to the client.
Message == [id : Jobs, status : {"pending", "running"} \cup Terminal, attempts : Nat]

ASSUME StreamAssumption ==
  /\ MaxAttempts \in Nat \ {0}
  /\ MaxDeliveries \in [Jobs -> Nat]
  /\ MaxConnects \in Nat
  /\ Watched \subseteq Jobs
  /\ Null \notin Jobs \cup Message

VARIABLES
  status, attempts, handled,  \* the rows, as in JobLifecycle
  pc,        \* where the handler of the stream is
  watches,   \* the job_id of the stream
  queue,     \* the notifications it has not looked at yet
  row_read,  \* job: the row get_job_status has returned, Null for JobNotFound
  last,      \* the last message it has sent, Null if none
  gone,      \* the client has left
  deaf,      \* the connection it listens on has broken
  connects   \* history: how often each stream was opened

rows    == <<status, attempts, handled>>
streams == <<pc, watches, queue, row_read, last, gone, deaf, connects>>
vars    == <<rows, streams>>

Lifecycle == INSTANCE JobLifecycle

\* (Mutants: names that begin with Bad, for the mutation tests only.)
Row(j)       == [id |-> j, status |-> status[j], attempts |-> attempts[j]]
BadListening(s) == pc[s] = "looping"
Listening(s) == pc[s] \in {"subscribed", "read", "looping"}
Hearing(s)   == Listening(s) /\ ~deaf[s]

Init ==
  /\ Lifecycle!Init
  /\ pc = [s \in Streams |-> "closed"]
  /\ watches = [s \in Streams |-> Null]
  /\ queue = [s \in Streams |-> <<>>]
  /\ row_read = [s \in Streams |-> Null]
  /\ last = [s \in Streams |-> Null]
  /\ gone = [s \in Streams |-> FALSE]
  /\ deaf = [s \in Streams |-> FALSE]
  /\ connects = [s \in Streams |-> 0]

-----------------------------------------------------------------------------
(* The outbox.                                                             *)

BadNotify(j) ==
  queue' = [s \in Streams |-> IF Hearing(s) THEN Append(queue[s], Row(j)) ELSE queue[s]]

BadNotifyLifo(j) ==
  queue' = [s \in Streams |-> IF Hearing(s) THEN <<Row(j)'>> \o queue[s] ELSE queue[s]]

\* Every statement that changes a row is followed by notify(row).
Notify(j) ==
  queue' = [s \in Streams |-> IF Hearing(s) THEN Append(queue[s], Row(j)') ELSE queue[s]]

Update(j) ==
  /\ \/ Lifecycle!Submit(j)
     \/ attempts[j] < MaxDeliveries[j] /\ Lifecycle!Deliver({j})
     \/ Lifecycle!Complete(j)
     \/ Lifecycle!Retry(j)
     \/ Lifecycle!GiveUp(j)
  /\ Notify(j)
  /\ UNCHANGED <<pc, watches, row_read, last, gone, deaf, connects>>

\* A handler run that ends changes no row and notifies nobody.
Handle(j) == Lifecycle!Handle(j) /\ UNCHANGED streams

-----------------------------------------------------------------------------
(* The handler of a stream.                                                *)

\* A client with a token: accept, take a connection, add_listener.
Connect(s, j) ==
  /\ pc[s] = "closed"
  /\ connects[s] < MaxConnects
  /\ connects' = [connects EXCEPT ![s] = @ + 1]
  /\ pc' = [pc EXCEPT ![s] = "subscribed"]
  /\ watches' = [watches EXCEPT ![s] = j]
  /\ UNCHANGED <<rows, queue, row_read, last, gone, deaf>>

\* require refuses a client without a valid token, or itself fails on a
\* websocket; or there is no connection to listen on.
Refused(s) ==
  /\ pc[s] = "closed"
  /\ connects[s] < MaxConnects
  /\ connects' = [connects EXCEPT ![s] = @ + 1]
  /\ UNCHANGED <<rows, pc, watches, queue, row_read, last, gone, deaf>>

\* The connection breaks together with what it has not delivered yet.  The
\* loop waits on.
ListenBreaks(s) ==
  /\ Hearing(s)
  /\ deaf' = [deaf EXCEPT ![s] = TRUE]
  /\ \E n \in 0 .. Len(queue[s]) : queue' = [queue EXCEPT ![s] = SubSeq(@, 1, n)]
  /\ UNCHANGED <<rows, pc, watches, row_read, last, gone, connects>>

BadReadRow(s) ==
  /\ pc[s] = "subscribed"
  /\ pc' = [pc EXCEPT ![s] = "read"]
  /\ row_read' = [row_read EXCEPT ![s] = Row(watches[s])]
  /\ UNCHANGED <<rows, watches, queue, last, gone, deaf, connects>>

\* get_job_status, in a unit of work of its own
ReadRow(s) ==
  /\ pc[s] = "subscribed"
  /\ pc' = [pc EXCEPT ![s] = "read"]
  /\ row_read' = [row_read EXCEPT ![s] = IF status[watches[s]] = "absent" THEN Null ELSE Row(watches[s])]
  /\ UNCHANGED <<rows, watches, queue, last, gone, deaf, connects>>

\* Any other exception than JobNotFound ends the stream (pool, start, query).
ReadFails(s) ==
  /\ pc[s] = "subscribed"
  /\ pc' = [pc EXCEPT ![s] = "failed"]
  /\ UNCHANGED <<rows, watches, queue, row_read, last, gone, deaf, connects>>

\* remove_listener, give the connection back
Closed(s) ==
  /\ pc' = [pc EXCEPT ![s] = "closed"]
  /\ watches' = [watches EXCEPT ![s] = Null]
  /\ queue' = [queue EXCEPT ![s] = <<>>]
  /\ row_read' = [row_read EXCEPT ![s] = Null]
  /\ last' = [last EXCEPT ![s] = Null]
  /\ gone' = [gone EXCEPT ![s] = FALSE]
  /\ deaf' = [deaf EXCEPT ![s] = FALSE]
  /\ UNCHANGED <<rows, connects>>

\* An unknown job is not an error: the stream waits for its first update.
SkipSnapshot(s) ==
  /\ pc[s] = "read"
  /\ row_read[s] = Null
  /\ pc' = [pc EXCEPT ![s] = "looping"]
  /\ UNCHANGED <<rows, watches, queue, row_read, last, gone, deaf, connects>>

SendSnapshot(s) ==
  /\ pc[s] = "read"
  /\ row_read[s] # Null
  /\ ~gone[s]
  /\ pc' = [pc EXCEPT ![s] = IF row_read[s].status \in Terminal THEN "closing" ELSE "looping"]
  /\ last' = [last EXCEPT ![s] = row_read[s]]
  /\ UNCHANGED <<rows, watches, queue, row_read, gone, deaf, connects>>

BadMine(s) == TRUE
Mine(s) == Head(queue[s]).id = watches[s]

\* queue.get() of a notification about another job
Ignore(s) ==
  /\ pc[s] = "looping"
  /\ queue[s] # <<>>
  /\ ~Mine(s)
  /\ queue' = [queue EXCEPT ![s] = Tail(@)]
  /\ UNCHANGED <<rows, pc, watches, row_read, last, gone, deaf, connects>>

SendUpdate(s) ==
  /\ pc[s] = "looping"
  /\ queue[s] # <<>>
  /\ Mine(s)
  /\ ~gone[s]
  /\ queue' = [queue EXCEPT ![s] = Tail(@)]
  /\ last' = [last EXCEPT ![s] = Head(queue[s])]
  /\ pc' = [pc EXCEPT ![s] = IF Head(queue[s]).status \in Terminal THEN "closing" ELSE "looping"]
  /\ UNCHANGED <<rows, watches, row_read, gone, deaf, connects>>

\* Sending to a client that has left raises WebSocketDisconnect.  The loop
\* notices it nowhere else.
SendFails(s) ==
  /\ gone[s]
  /\ \/ pc[s] = "read" /\ row_read[s] # Null
     \/ pc[s] = "looping" /\ queue[s] # <<>> /\ Mine(s)
  /\ Closed(s)

\* close(code=1000), or the exception, and the finally clause
Close(s) ==
  /\ pc[s] \in {"closing", "failed"}
  /\ Closed(s)

ClientLeaves(s) ==
  /\ Listening(s)
  /\ gone' = [gone EXCEPT ![s] = TRUE]
  /\ UNCHANGED <<rows, pc, watches, queue, row_read, last, deaf, connects>>

Stream(s) ==
  \/ ReadRow(s)
  \/ SkipSnapshot(s)
  \/ SendSnapshot(s)
  \/ Ignore(s)
  \/ SendUpdate(s)
  \/ SendFails(s)
  \/ Close(s)

Next ==
  \/ \E j \in Jobs : Update(j) \/ Handle(j)
  \/ \E s \in Streams : Stream(s) \/ ReadFails(s) \/ Refused(s) \/ ListenBreaks(s) \/ ClientLeaves(s)
  \/ \E s \in Streams, j \in Watched : Connect(s, j)

\* The event loop runs every handler that can go on, and the database answers
\* or fails.  Nothing is assumed of the jobs and the clients.
Fairness == \A s \in Streams : WF_vars(Stream(s) \/ ReadFails(s))

Spec     == Init /\ [][Next]_vars
FairSpec == Spec /\ Fairness

-----------------------------------------------------------------------------
(* What the variables may hold.                                            *)
TypeOK ==
  /\ status \in [Jobs -> {"absent", "pending", "running"} \cup Terminal]
  /\ attempts \in [Jobs -> Nat]
  /\ handled \in SUBSET Jobs
  /\ pc \in [Streams -> {"closed", "subscribed", "read", "looping", "closing", "failed"}]
  /\ watches \in [Streams -> Jobs \cup {Null}]
  /\ queue \in [Streams -> Seq(Message)]
  /\ row_read \in [Streams -> Message \cup {Null}]
  /\ last \in [Streams -> Message \cup {Null}]
  /\ gone \in [Streams -> BOOLEAN]
  /\ deaf \in [Streams -> BOOLEAN]
  /\ connects \in [Streams -> 0 .. MaxConnects]

\* The notifications a stream has still to send.
Unsent(s) == {i \in 1 .. Len(queue[s]) : queue[s][i].id = watches[s]}

\* "Subscribing before the snapshot means intervening updates are buffered,
\* not lost": a stream with nothing left to send has told its client the
\* row as it is, whatever was committed around the snapshot; a stream that
\* has told nothing watches a job that does not exist yet.  Only a broken
\* LISTEN connection leaves a stream behind.
CaughtUp ==
  \A s \in Streams : pc[s] = "looping" /\ ~deaf[s] /\ Unsent(s) = {} =>
    IF last[s] = Null THEN status[watches[s]] = "absent" ELSE last[s] = Row(watches[s])

\* The newest notification in the queue is the row as it is, so that even a
\* stream that is behind only has to work its queue off to be right.
NewestIsCurrent ==
  \A s \in Streams : Hearing(s) =>
    \A i \in Unsent(s) : (\A k \in Unsent(s) : k <= i) => queue[s][i] = Row(watches[s])

\* How far along its life the message shows the job to be.
Age(m) == 2 * m.attempts + (IF m.status = "running" THEN 0 ELSE 1)

\* What a client sees of a job never goes back, but for one step: the first
\* update after the snapshot, which is the row as it was before some of the
\* updates that wait in the queue.
BackOnlyAfterSnapshot ==
  [][\A s \in Streams :
       last[s] # Null /\ last'[s] # Null /\ Age(last'[s]) < Age(last[s]) => last[s] = row_read[s]]_vars

\* The server closes a stream only after the client has got the job's final
\* status, and that is the one the row keeps.
ClosedWithFinalStatus ==
  \A s \in Streams : pc[s] = "closing" => last[s] # Null /\ last[s] = Row(watches[s])

\* A client that stays is told the end of its job, and the stream is closed,
\* even if the job ends between any two steps of the stream; otherwise the
\* stream has failed to read the row, or the connection it listens on broke.
EndIsTold ==
  \A s \in Streams :
    (Hearing(s) /\ status[watches[s]] \in Terminal /\ ~gone[s])
      ~> (pc[s] \in {"closing", "failed"} \/ gone[s] \/ deaf[s])
=============================================================================
