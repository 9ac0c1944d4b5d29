------------------------------- MODULE Enqueue -------------------------------
(***************************************************************************)
(* Enqueueing with idempotency keys: callers that append one job each in a *)
(* unit of work of its own, any number at a time, over a table whose keys  *)
(* are unique (ix_outbox_idempotency_key).  A caller that has not heard of *)
(* its job, because the database or the answer got lost, asks again with   *)
(* the same key.  A row is named by the caller and the try that made it,   *)
(* since every append makes up a new id; what a worker does with the rows  *)
(* is left to Outbox, because no key depends on it.                        *)
(***************************************************************************)
EXTENDS Naturals

CONSTANTS
  Callers,    \* the callers of append
  Keys,       \* the idempotency keys they may use
  NoKey,      \* the caller passes no key
  MaxTries    \* bound: how often one caller asks

ASSUME EnqueueAssumption == NoKey \notin Keys /\ MaxTries \in Nat

VARIABLES
  key,     \* the idempotency key of each caller
  rows,    \* the committed rows
  pc,      \* where the request of each caller is
  answer,  \* how its unit of work ended
  told,    \* what the caller has heard
  tries    \* how often it has asked

vars == <<key, rows, pc, answer, told, tries>>

Init ==
  /\ key \in [Callers -> Keys \cup {NoKey}]
  /\ rows = {}
  /\ pc = [c \in Callers |-> "idle"]
  /\ answer = [c \in Callers |-> "none"]
  /\ told = [c \in Callers |-> "none"]
  /\ tries = [c \in Callers |-> 0]

-----------------------------------------------------------------------------
\* (Names that begin with Bad are mutants: what a bug would make of the
\* definition that follows; nothing uses them but the mutation tests.)

\* NULLs in a unique index never collide.
SameKey(c, d) == key[c] # NoKey /\ key[c] = key[d]

BadTaken(c) == \E d \in Callers : SameKey(c, d) /\ tries[d] > (IF d = c THEN 1 ELSE 0)

\* A committed row has the key of this caller.
Taken(c) == \E r \in rows : SameKey(c, r.caller)

BadUndecidedIgnored(c) == {}
BadUndecidedEarly(c)   == {d \in Callers \ {c} : pc[d] \in {"insert", "staged"} /\ SameKey(c, d)}

\* The open transactions that have inserted the same key: INSERT waits for
\* them, because only their end decides whether the key is taken.
Undecided(c) == {d \in Callers : pc[d] = "staged" /\ SameKey(c, d)}

\* A caller asks, or asks again for what it was not given.
Ask(c) ==
  /\ pc[c] = "idle"
  /\ told[c] # "accepted"
  /\ tries[c] < MaxTries
  /\ tries' = [tries EXCEPT ![c] = @ + 1]
  /\ pc' = [pc EXCEPT ![c] = "insert"]
  /\ UNCHANGED <<key, rows, answer, told>>

Insert(c) ==
  /\ pc[c] = "insert"
  /\ Undecided(c) = {}
  /\ ~Taken(c)
  /\ pc' = [pc EXCEPT ![c] = "staged"]
  /\ UNCHANGED <<key, rows, answer, told, tries>>

\* The unique violation leaves append as an exception and the unit of work
\* rolls back.
Collide(c) ==
  /\ pc[c] = "insert"
  /\ Undecided(c) = {}
  /\ Taken(c)
  /\ pc' = [pc EXCEPT ![c] = "answering"]
  /\ answer' = [answer EXCEPT ![c] = "conflict"]
  /\ UNCHANGED <<key, rows, told, tries>>

BadRow(c) == [caller |-> key[c], try |-> tries[c]]

\* The row this try has staged (BadRow: key and id swapped among $1 .. $11).
Row(c) == [caller |-> c, try |-> tries[c]]

Commit(c) ==
  /\ pc[c] = "staged"
  /\ rows' = rows \cup {Row(c)}
  /\ pc' = [pc EXCEPT ![c] = "answering"]
  /\ answer' = [answer EXCEPT ![c] = "accepted"]
  /\ UNCHANGED <<key, told, tries>>

BadOnFailure == "accepted"

\* What a caller is told when the unit of work raises.
OnFailure == "error"

\* The connection breaks.  If that happens under COMMIT, the server may have
\* stored the row all the same.
DatabaseFails(c) ==
  /\ \/ pc[c] \in {"insert", "staged"} /\ rows' = rows
     \/ pc[c] = "staged" /\ rows' = rows \cup {Row(c)}
  /\ pc' = [pc EXCEPT ![c] = "answering"]
  /\ answer' = [answer EXCEPT ![c] = OnFailure]
  /\ UNCHANGED <<key, told, tries>>

Finish(c, heard) ==
  /\ pc[c] = "answering"
  /\ told' = [told EXCEPT ![c] = heard]
  /\ pc' = [pc EXCEPT ![c] = "idle"]
  /\ answer' = [answer EXCEPT ![c] = "none"]
  /\ UNCHANGED <<key, rows, tries>>

Answer(c) == Finish(c, answer[c])

\* The answer does not reach the caller.
LoseAnswer(c) == Finish(c, told[c])

-----------------------------------------------------------------------------
Request(c) == Insert(c) \/ Collide(c) \/ Commit(c) \/ Answer(c)

Next == \E c \in Callers : Request(c) \/ Ask(c) \/ DatabaseFails(c) \/ LoseAnswer(c)

Spec     == Init /\ [][Next]_vars

\* The server goes on with every request it has taken; nobody has to ask.
FairSpec == Spec /\ \A c \in Callers : WF_vars(Request(c))

-----------------------------------------------------------------------------
(* What the variables may hold.                                            *)
TypeOK ==
  /\ key \in [Callers -> Keys \cup {NoKey}]
  /\ rows \subseteq [caller : Callers, try : 1 .. MaxTries]
  /\ pc \in [Callers -> {"idle", "insert", "staged", "answering"}]
  /\ answer \in [Callers -> {"none", "accepted", "conflict", "error"}]
  /\ told \in [Callers -> {"none", "accepted", "conflict", "error"}]
  /\ tries \in [Callers -> 0 .. MaxTries]

\* A key has at most one job, and a keyless caller at most one per try it
\* made, whatever is asked twice, concurrently or after a lost answer.
OneJobPerKey ==
  \A r, s \in rows : r # s => key[r.caller] # key[s.caller] \/ key[r.caller] = NoKey

\* Whoever is told that the job was accepted has a job that is stored.
AcceptedIsStored ==
  \A c \in Callers : told[c] = "accepted" => \E r \in rows : r.caller = c

\* Nobody is refused because of a request that came to nothing: if append
\* says that a key is taken, a job with that key is stored.
ConflictHasWinner ==
  \A c \in Callers : "conflict" \in {answer[c], told[c]} => \E r \in rows : SameKey(c, r.caller)

\* No group of requests for one key waits for each other for ever.
RequestsEnd == \A c \in Callers : pc[c] = "insert" ~> pc[c] = "idle"
=============================================================================
