----------------------------- MODULE Migrations -----------------------------
(***************************************************************************)
(* migrations.py: the order of the SQL migrations and "upgrade", which     *)
(* applies the pending ones in one transaction, run by several processes   *)
(* against one database.  Revisions are numbers, compared like the names   *)
(* of the files; a migration's SQL is the fact that it has been executed.  *)
(***************************************************************************)
EXTENDS Naturals, Sequences, FiniteSets

CONSTANTS
  Revisions,  \* the revisions a file may have
  Upgrades,   \* the processes that run upgrade
  Legacies,   \* what the row of alembic_version may be, None if there is none
  None        \* no down_revision, no legacy revision

ASSUME MigrationsAssumption ==
  /\ Revisions \subseteq Nat
  /\ IsFiniteSet(Revisions)
  /\ None \notin Revisions
  /\ Legacies \subseteq Revisions \cup {None}

VARIABLES
  disk,      \* the revisions that have a file
  clash,     \* two files have the same revision
  parent,    \* down_revision of every file
  legacy,    \* the row of alembic_version, fixed
  table,     \* schema_migrations exists (committed)
  applied,   \* its rows (committed)
  ran,       \* how often each migration's SQL has taken effect (committed)
  seeded,    \* history: the rows that came from alembic_version
  pc, target, known,
  order,     \* what migrations() has returned to the process
  created,   \* the open transaction has created schema_migrations
  executed,  \* the SQL it has executed
  recorded   \* the rows it has inserted

files == <<disk, clash, parent>>
db    == <<legacy, table, applied, ran, seeded>>
local == <<pc, target, known, order, created, executed, recorded>>
vars  == <<files, db, local>>

-----------------------------------------------------------------------------
(* migrations(): dependency order, the lowest ready revision first.        *)

Lowest(S) == CHOOSE r \in S : \A q \in S : r <= q

SeqSet(s) == {s[i] : i \in DOMAIN s}

\* (Mutants: names that begin with Bad, for the mutation tests only.)
BadReady(D, down, seen) == D \ SeqSet(seen)

\* The files of D whose down_revision is among those seen, given every
\* file's down_revision.
Ready(D, down, seen) ==
  {r \in D \ SeqSet(seen) : down[r] = None \/ down[r] \in SeqSet(seen)}

\* It goes for what the lowest file depends on.
BadRound(D, down, seen) ==
  LET ahead == {down[Lowest(D \ SeqSet(seen))]} \cap Ready(D, down, seen)
  IN IF Ready(D, down, seen) = {} THEN seen
     ELSE Append(seen, Lowest(IF ahead # {} THEN ahead ELSE Ready(D, down, seen)))

\* One more revision; the order stops growing when nothing is ready.
Round(D, down, seen) ==
  IF Ready(D, down, seen) = {} THEN seen ELSE Append(seen, Lowest(Ready(D, down, seen)))

OrderOf(D, down) ==
  LET sorted[n \in 0 .. Cardinality(D)] ==
        IF n = 0 THEN <<>> ELSE Round(D, down, sorted[n - 1])
  IN sorted[Cardinality(D)]

DependencyOrder == OrderOf(disk, parent)

\* "Migration chain is incomplete or cyclic"
Blocked == SeqSet(DependencyOrder) # disk

\* migrations() returns: no revision twice, none left over.
Loads == ~clash /\ ~Blocked

\* The revisions of an order up to and including r.
UpTo(s, r) == {s[i] : i \in {i \in DOMAIN s : \E k \in DOMAIN s : s[k] = r /\ i <= k}}

\* The first of some revisions of an order.
FirstOf(s, T) == CHOOSE r \in T : \A q \in T : r \in UpTo(s, q)

\* What the loop of upgrade(target) goes through: it breaks at the target.
BadScope(u) == IF target[u] = None THEN SeqSet(order[u]) ELSE UpTo(order[u], target[u]) \ {target[u]}
Scope(u) == IF target[u] = None THEN SeqSet(order[u]) ELSE UpTo(order[u], target[u])

\* The revisions a database of the predecessor tool already has.
Seeds(u) == UpTo(order[u], legacy)

-----------------------------------------------------------------------------
Init ==
  /\ disk \in SUBSET Revisions
  /\ clash = FALSE
  /\ parent \in [Revisions -> Revisions \cup {None}]
  /\ \A r \in Revisions \ disk : parent[r] = None
  /\ legacy \in Legacies
  /\ table = FALSE
  /\ applied = {}
  /\ ran = [r \in Revisions |-> 0]
  /\ seeded = {}
  /\ pc = [u \in Upgrades |-> "idle"]
  /\ target = [u \in Upgrades |-> None]
  /\ known = [u \in Upgrades |-> {}]
  /\ order = [u \in Upgrades |-> <<>>]
  /\ created = [u \in Upgrades |-> FALSE]
  /\ executed = [u \in Upgrades |-> {}]
  /\ recorded = [u \in Upgrades |-> {}]

-----------------------------------------------------------------------------
(* The files.  None is renamed, removed or edited, except by Overwrite.    *)

\* The last of the order, which a new file names as its down_revision.
Newest == DependencyOrder[Len(DependencyOrder)]

\* revision(message): a new file, with the time as its revision.  The others
\* may be of any time.  A message of several lines ends the header before
\* the down_revision, so that the file is read as a root.
NewFile ==
  /\ Loads
  /\ \E r \in Revisions \ disk, down_revision \in {None} \cup {Newest : q \in disk} :
       /\ disk' = disk \cup {r}
       /\ parent' = [parent EXCEPT ![r] = down_revision]
  /\ UNCHANGED <<clash, db, local>>

\* A second file in the same second, with the same slug: it takes the place
\* of the first, which it names as its down_revision, or none (a message of
\* several lines).  Assumed of this one second: the first is still the last
\* and the latest of the files.
Overwrite ==
  /\ disk # {}
  /\ Loads
  /\ \A q \in disk : q <= Newest
  /\ \E down_revision \in {Newest, None} : parent' = [parent EXCEPT ![Newest] = down_revision]
  /\ UNCHANGED <<disk, clash, db, local>>

\* A file comes from elsewhere, by hand or by a merge: of any time, after
\* any other, and whether the files load or not.
AddFile(r, down_revision) ==
  /\ r \in Revisions \ disk
  /\ disk' = disk \cup {r}
  /\ parent' = [parent EXCEPT ![r] = down_revision]
  /\ UNCHANGED <<clash, db, local>>

\* A file comes, from revision() in the same second with another slug or
\* from elsewhere, whose revision is taken.
Duplicate ==
  /\ disk # {}
  /\ clash' = TRUE
  /\ UNCHANGED <<disk, parent, db, local>>

-----------------------------------------------------------------------------
(* upgrade(target)                                                         *)

InTransaction(u) == pc[u] \in {"ensure", "waiting", "seed", "loop", "record"}

\* Load the files, connect and begin; None stands for the target "head".
Start(u) ==
  /\ pc[u] = "idle"
  /\ Loads
  /\ order' = [order EXCEPT ![u] = DependencyOrder]
  /\ \E r \in disk \cup {None} : target' = [target EXCEPT ![u] = r]
  /\ pc' = [pc EXCEPT ![u] = "ensure"]
  /\ UNCHANGED <<files, db, known, created, executed, recorded>>

\* The transaction is rolled back: an error, or the process died.
Undo(u) ==
  /\ pc' = [pc EXCEPT ![u] = "idle"]
  /\ target' = [target EXCEPT ![u] = None]
  /\ known' = [known EXCEPT ![u] = {}]
  /\ order' = [order EXCEPT ![u] = <<>>]
  /\ created' = [created EXCEPT ![u] = FALSE]
  /\ executed' = [executed EXCEPT ![u] = {}]
  /\ recorded' = [recorded EXCEPT ![u] = {}]
  /\ UNCHANGED <<files, db>>

Rollback(u) == InTransaction(u) /\ Undo(u)

\* CREATE TABLE IF NOT EXISTS.  It sees only committed tables, and waits for
\* a transaction that is creating the same one.
EnsureTable(u) ==
  /\ pc[u] = "ensure"
  /\ IF table \/ \A v \in Upgrades : ~created[v]
       THEN /\ pc' = [pc EXCEPT ![u] = "seed"]
            /\ created' = [created EXCEPT ![u] = ~table]
       ELSE /\ pc' = [pc EXCEPT ![u] = "waiting"]
            /\ UNCHANGED created
  /\ UNCHANGED <<files, db, target, known, order, executed, recorded>>

\* The other transaction has ended: with its table there is now a duplicate,
\* which is an error; without it the creation goes on.
TableDecided(u) ==
  /\ pc[u] = "waiting"
  /\ \A v \in Upgrades : ~created[v]
  /\ IF table
       THEN Undo(u)
       ELSE /\ pc' = [pc EXCEPT ![u] = "seed"]
            /\ created' = [created EXCEPT ![u] = TRUE]
            /\ UNCHANGED <<files, db, target, known, order, executed, recorded>>

\* An INSERT waits for an open transaction that has inserted the same key.
Contended(u, r) == \E v \in Upgrades \ {u} : r \in recorded[v]

BadAppliedRevisions(u) == applied \cup recorded[u] \cup {legacy}

\* The rows that a transaction sees.
AppliedRevisions(u) == applied \cup recorded[u]

\* The rows of the predecessor still to be inserted; ON CONFLICT DO NOTHING
\* passes over those that are there.
Unseeded(u) == Seeds(u) \ AppliedRevisions(u)
NextSeed(u) == FirstOf(order[u], Unseeded(u))

\* One INSERT after the other, and each may have to wait.
Seed(u) ==
  /\ pc[u] = "seed"
  /\ Unseeded(u) # {}
  /\ ~Contended(u, NextSeed(u))
  /\ recorded' = [recorded EXCEPT ![u] = @ \cup {NextSeed(u)}]
  /\ UNCHANGED <<files, db, pc, target, known, order, created, executed>>

ReadApplied(u) ==
  /\ pc[u] = "seed"
  /\ Unseeded(u) = {}
  /\ known' = [known EXCEPT ![u] = AppliedRevisions(u)]
  /\ pc' = [pc EXCEPT ![u] = "loop"]
  /\ UNCHANGED <<files, db, target, order, created, executed, recorded>>

\* The migrations the loop has still to apply, and the one it is at.
Todo(u) == Scope(u) \ (known[u] \cup recorded[u])
BadCurrent(u) == CHOOSE r \in Todo(u) : \A q \in Todo(u) : q \in UpTo(order[u], r)
Current(u) == FirstOf(order[u], Todo(u))

Execute(u) ==
  /\ pc[u] = "loop"
  /\ Todo(u) # {}
  /\ executed' = [executed EXCEPT ![u] = @ \cup {Current(u)}]
  /\ pc' = [pc EXCEPT ![u] = "record"]
  /\ UNCHANGED <<files, db, target, known, order, created, recorded>>

\* The primary key: a row that another upgrade has committed meanwhile makes
\* the INSERT raise.
BadRecord(u) ==
  /\ pc[u] = "record"
  /\ ~Contended(u, Current(u))
  /\ recorded' = [recorded EXCEPT ![u] = @ \cup {Current(u)}]
  /\ pc' = [pc EXCEPT ![u] = "loop"]
  /\ UNCHANGED <<files, db, target, known, order, created, executed>>
Record(u) ==
  /\ pc[u] = "record"
  /\ ~Contended(u, Current(u))
  /\ IF Current(u) \in applied
       THEN Undo(u)
       ELSE /\ recorded' = [recorded EXCEPT ![u] = @ \cup {Current(u)}]
            /\ pc' = [pc EXCEPT ![u] = "loop"]
            /\ UNCHANGED <<files, db, target, known, order, created, executed>>

Commit(u) ==
  /\ pc[u] = "loop"
  /\ Todo(u) = {}
  /\ table' = TRUE
  /\ applied' = applied \cup recorded[u]
  /\ ran' = [r \in Revisions |-> IF r \in executed[u] THEN ran[r] + 1 ELSE ran[r]]
  /\ seeded' = seeded \cup (recorded[u] \ executed[u])
  /\ pc' = [pc EXCEPT ![u] = "done"]
  /\ known' = [known EXCEPT ![u] = {}]
  /\ created' = [created EXCEPT ![u] = FALSE]
  /\ executed' = [executed EXCEPT ![u] = {}]
  /\ recorded' = [recorded EXCEPT ![u] = {}]
  /\ UNCHANGED <<files, legacy, target, order>>

\* The process exits and may be run again.
Exit(u) ==
  /\ pc[u] = "done"
  /\ Undo(u)

Upgrade(u) ==
  \/ Start(u)
  \/ EnsureTable(u)
  \/ TableDecided(u)
  \/ Seed(u)
  \/ ReadApplied(u)
  \/ Execute(u)
  \/ Record(u)
  \/ Commit(u)
  \/ Rollback(u)
  \/ Exit(u)

Next ==
  \/ \E u \in Upgrades : Upgrade(u)
  \/ NewFile
  \/ Overwrite
  \/ \E r \in Revisions, p \in Revisions \cup {None} : AddFile(r, p)
  \/ Duplicate

Spec == Init /\ [][Next]_vars

-----------------------------------------------------------------------------
(* What the variables may hold.                                            *)
TypeOK ==
  /\ disk \in SUBSET Revisions
  /\ clash \in BOOLEAN
  /\ parent \in [Revisions -> Revisions \cup {None}]
  /\ legacy \in Revisions \cup {None}
  /\ table \in BOOLEAN
  /\ applied \in SUBSET Revisions
  /\ ran \in [Revisions -> Nat]
  /\ seeded \in SUBSET Revisions
  /\ pc \in [Upgrades -> {"idle", "ensure", "waiting", "seed", "loop", "record", "done"}]
  /\ target \in [Upgrades -> Revisions \cup {None}]
  /\ known \in [Upgrades -> SUBSET Revisions]
  /\ order \in [Upgrades -> Seq(Revisions)]
  /\ created \in [Upgrades -> BOOLEAN]
  /\ executed \in [Upgrades -> SUBSET Revisions]
  /\ recorded \in [Upgrades -> SUBSET Revisions]

\* The SQL of a migration takes effect once: it is recorded exactly if it
\* has run or came from the predecessor's table, and never both, even if two
\* upgrades race, load different files, fail anywhere and are repeated.
RunsOnce ==
  \A r \in Revisions : ran[r] = IF r \in applied /\ r \notin seeded THEN 1 ELSE 0

\* No migration is applied before the one it depends on, in any graph of
\* down_revisions and whatever targets were asked for.
ParentsFirst ==
  \A r \in applied : parent[r] = None \/ parent[r] \in applied

\* An upgrade that reports success has brought the database to its target,
\* together with everything the target depends on, although others ran with
\* older or newer files.
TargetReached ==
  \A u \in Upgrades : pc[u] = "done" =>
    IF target[u] = None THEN SeqSet(order[u]) \subseteq applied ELSE target[u] \in applied

\* A chain is accepted exactly if every migration reaches one without a
\* down_revision along its down_revisions ("incomplete or cyclic").
RootedIn(D, down) ==
  LET rooted[n \in 0 .. Cardinality(D)] ==
        IF n = 0 THEN {None} ELSE {None} \cup {r \in D : down[r] \in rooted[n - 1]}
  IN rooted[Cardinality(D)]
BlockedIffUnrooted == Blocked <=> ~(disk \subseteq RootedIn(disk, parent))

\* Processes that have loaded different files agree on what comes before
\* what, whatever the graph, although a new file may sort before the older
\* ones, come between them or have lost its down_revision.
OrdersAgree ==
  \A u, v \in Upgrades :
    \A i \in DOMAIN order[u], k \in DOMAIN order[v] : order[u][i] = order[v][k] =>
      \A j \in DOMAIN order[u], l \in DOMAIN order[v] : order[u][j] = order[v][l] => (i < j <=> k < l)

\* The row a process is about to insert, if any, and whom it waits for: a
\* transaction that has inserted that row, or one that creates the table.
Wanted(u) ==
  IF pc[u] = "record" THEN {Current(u)}
  ELSE IF pc[u] = "seed" /\ Unseeded(u) # {} THEN {NextSeed(u)} ELSE {}
WaitsFor(u) ==
  {v \in Upgrades \ {u} : (pc[u] = "waiting" /\ created[v]) \/ Wanted(u) \cap recorded[v] # {}}

\* Upgrades never deadlock: among processes that wait there is always one
\* that waits for none of the others, although they insert their rows one by
\* one, seeds or not, to different targets, of older and newer files.
NoCircle ==
  \A S \in (SUBSET Upgrades) \ {{}} : \E u \in S : WaitsFor(u) \cap S = {}
=============================================================================
