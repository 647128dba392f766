-------------------------------- MODULE Lists --------------------------------
(***************************************************************************)
(* The three paged lists of the API and one reader who walks one of them    *)
(* page by page while their rows change: tasks (task-service.ts), artifacts  *)
(* (routes/artifacts.ts) and activity (routes/activity.ts).                 *)
(*                                                                         *)
(* Each list is ordered by a key, last first, and continues below the key   *)
(* that its cursor names.  Times are in half milliseconds: the clock of the *)
(* database is finer than the instant a cursor carries, while the chain and *)
(* the API give whole ones.  Search terms and the totals are left out.      *)
(***************************************************************************)
EXTENDS Integers, FiniteSets, FiniteSetsExt

CONSTANTS
  Ids,           \* of tasks, artifacts and logs; numbers, ordered as the text they stand for
  Times,
  Displays,      \* display statuses of a task
  Limits,        \* page sizes the reader may ask for
  MaxWrites      \* bound: changes of rows

ASSUME ListsAssumption ==
  /\ Ids \subseteq Nat /\ Times \subseteq Nat /\ Limits \subseteq Nat \ {0} /\ MaxWrites \in Nat

VARIABLES
  lists,    \* per list, the rows: [id -> [at, display]]
  writes,
  reader    \* the list it walks, its filter and cursor; what it saw and is owed

listVars == <<lists, writes, reader>>

Names == {"tasks", "artifacts", "activity"}
Whole == {t \in Times : t % 2 = 0}
NoCursor == [at |-> -1, id |-> -1]
NewReader(n) == [list |-> n, begun |-> FALSE, done |-> FALSE, shows |-> {},
                 cursor |-> NoCursor, seen |-> {}, owed |-> {}]

ListsInit ==
  /\ lists = [n \in Names |-> [id \in {} |-> 0]]
  /\ writes = 0
  /\ \E n \in Names : reader = NewReader(n)

Below(key, other) == key.at < other.at \/ (key.at = other.at /\ key.id < other.id)
Key(n, id) == [at |-> lists[n][id].at, id |-> id]

(* What parseStatusFilter let through: the rows whose display is asked for.   *)
Matching(n, shows) == {id \in DOMAIN lists[n] : lists[n][id].display \in shows}

(* The reader is owed the rows that matched from its first page on; the lists *)
(* it does not walk need not change.                                          *)
Rewritten(n, id, row) ==
  /\ reader.list = n
  /\ writes < MaxWrites /\ writes' = writes + 1
  /\ lists' = [lists EXCEPT ![n] = [i \in DOMAIN @ \cup {id} |-> IF i = id THEN row ELSE @[i]]]
  /\ reader' = IF row.display \notin reader.shows THEN [reader EXCEPT !.owed = @ \ {id}] ELSE reader

-----------------------------------------------------------------------------
(* Rows of tasks: a TaskCreated log gives the time of its block, or what was  *)
(* there if that is earlier; a sync inserts a task it has no log of now.      *)
ProjectedAt(id, at) ==
  IF id \in DOMAIN lists["tasks"] /\ lists["tasks"][id].at < at THEN lists["tasks"][id].at ELSE at

ProjectTask(id) ==
  \E at \in Whole, display \in Displays :
    Rewritten("tasks", id, [at |-> ProjectedAt(id, at), display |-> display])

SyncInserts(id) ==
  /\ id \notin DOMAIN lists["tasks"]
  /\ \E now \in Whole, display \in Displays : Rewritten("tasks", id, [at |-> now, display |-> display])

StatusMoves(id) ==
  /\ id \in DOMAIN lists["tasks"]
  /\ \E display \in Displays :
       Rewritten("tasks", id, [lists["tasks"][id] EXCEPT !.display = display])

(* Rows of artifacts: created_at is the database's now(), until the body has  *)
(* been read and says when it was made.                                       *)
StoreArtifact(id) ==
  /\ id \notin DOMAIN lists["artifacts"]
  /\ \E at \in Times, display \in Displays :
       Rewritten("artifacts", id, [at |-> at, display |-> display])

DateArtifact(id) ==
  /\ id \in DOMAIN lists["artifacts"]
  /\ \E at \in Whole : Rewritten("artifacts", id, [lists["artifacts"][id] EXCEPT !.at = at])

(* chain_events: a block and a log index never change.                        *)
IndexLog(id) ==
  /\ id \notin DOMAIN lists["activity"]
  /\ \E block \in Whole, display \in Displays :
       Rewritten("activity", id, [at |-> block, display |-> display])

-----------------------------------------------------------------------------
(* A request for a page.  toISOString: a cursor has no half milliseconds.     *)
EncodeCursor(key) == [key EXCEPT !.at = @ - (@ % 2)]

Continues(n, id, cursor) == cursor = NoCursor \/ Below(Key(n, id), cursor)

Page(n, shows, cursor, limit) ==
  LET rest == {id \in Matching(n, shows) : Continues(n, id, cursor)}
  IN {id \in rest : Cardinality({i \in rest : Below(Key(n, id), Key(n, i))}) < limit}

LastOf(n, ids) == CHOOSE id \in ids : \A i \in ids \ {id} : Below(Key(n, id), Key(n, i))

(* limit + 1 rows are selected, and the one too many says there is a next.    *)
NextPage(n, shows, cursor, limit) ==
  LET page == Page(n, shows, cursor, limit)
      more == page # Page(n, shows, cursor, limit + 1)
  IN [items |-> page, next |-> IF more THEN EncodeCursor(Key(n, LastOf(n, page))) ELSE NoCursor]

(* One request of the reader, the first or one with the cursor it was given.  *)
Walk(n, shows, limit) ==
  LET first == ~reader.begun
      answer == NextPage(n, shows, reader.cursor, limit)
  IN /\ reader.list = n /\ (first \/ (reader.shows = shows /\ ~reader.done))
     /\ reader' = [list |-> n, begun |-> TRUE, shows |-> shows, cursor |-> answer.next,
                   done |-> answer.next = NoCursor, seen |-> reader.seen \cup answer.items,
                   owed |-> IF first THEN Matching(n, shows) ELSE reader.owed]
     /\ UNCHANGED <<lists, writes>>

Filters == {Displays} \cup {{d} : d \in Displays}

ListTasks == \E shows \in Filters, limit \in Limits : Walk("tasks", shows, limit)
ListArtifacts == \E shows \in Filters, limit \in Limits : Walk("artifacts", shows, limit)
ListActivity == \E shows \in Filters, limit \in Limits : Walk("activity", shows, limit)

ListsNext ==
  \/ \E id \in Ids : \/ ProjectTask(id) \/ SyncInserts(id) \/ StatusMoves(id)
                     \/ StoreArtifact(id) \/ DateArtifact(id) \/ IndexLog(id)
  \/ ListTasks \/ ListArtifacts \/ ListActivity

ListsSpec == ListsInit /\ [][ListsNext]_listVars

-----------------------------------------------------------------------------
(* "A page can repeat a task during a backfill; it cannot skip one": a task    *)
(* that answered the filter from the first page on has been on a page, or is  *)
(* still ahead of the reader; and so with a log.                              *)
Behind(id) == reader.done \/ ~Below(Key(reader.list, id), reader.cursor)

NothingSkipped ==
  reader.list \in {"tasks", "activity"} =>
    \A id \in reader.owed : Behind(id) => id \in reader.seen

(* The same of artifacts, which the cursor's instant and late dates defeat.   *)
NoArtifactSkipped ==
  reader.list = "artifacts" => \A id \in reader.owed : Behind(id) => id \in reader.seen
=============================================================================
