------------------------------- MODULE QueryCache -------------------------------
(***************************************************************************)
(* How a web process answers readers while loads publish: the queries and  *)
(* streams of /queries and the pages of OData                              *)
(* (src/src/app/api/v1/queries/route.ts, src/src/app/api/odata), with the  *)
(* caches and the limits of src/src/server/query/protection.ts.            *)
(*                                                                         *)
(* A load swaps the rows of its table in the storage and then writes       *)
(* last_data_at in the catalog.  A reader takes the latest last_data_at of *)
(* its tables as the data version, which is part of the key of what it     *)
(* finds or leaves in a cache.  The rows of a table, and their count, are  *)
(* the number of times it was published.  The rest of the key (text, page, *)
(* actor, server, format) is the same for all requests of the model.       *)
(*                                                                         *)
(* All processes share one clock, of milliseconds.                         *)
(***************************************************************************)
EXTENDS Integers, FiniteSets, Sequences

CONSTANTS
  Tables,
  Scopes,       \* sets of tables that a query is about
  Requests,     \* requests that can be under way at once
  MaxQueries,   \* MAX_CONCURRENT
  MaxPages,     \* ODATA_MAX_CONCURRENT
  MaxEntries,   \* CACHE_MAX_ENTRIES, PAGE_CACHE_MAX
  MaxClock,     \* bound on the clock
  MaxLoads      \* bound on the publications of a table

ASSUME QueryAssumption ==
  /\ Scopes \subseteq (SUBSET Tables) \ {{}}
  /\ MaxQueries \in Nat \ {0} /\ MaxPages \in Nat \ {0} /\ MaxEntries \in Nat \ {0}
  /\ MaxClock \in Nat \ {0} /\ MaxLoads \in Nat

VARIABLES
  clock,
  rows,       \* rows of each table in the storage
  stamp,      \* last_data_at of each table
  load,       \* the load of each table
  cache,      \* answers of queries and pages
  counts,     \* counts of OData
  req,        \* the requests
  active,     \* activeQueries
  pages,      \* _odataConcurrent
  queue,      \* _odataQueue
  recorded    \* history: the rows of each table when its last_data_at was written

loads == <<clock, rows, stamp, load, recorded>>
limits == <<active, pages, queue>>
vars == <<clock, rows, stamp, load, cache, counts, req, active, pages, queue, recorded>>

Clock == 0..MaxClock
Amount == 0..MaxLoads
Rows == [Tables -> Amount]
Unread == [t \in Tables |-> 0]
NoLoad == [pc |-> "idle", stamp |-> 0]
NoReq == [path |-> "query", pc |-> "idle", scope |-> {}, version |-> 0, rows |-> Unread,
          counted |-> FALSE, count |-> Unread, seen |-> Unread]

Paths == {"query", "stream", "odata"}
Pcs == {"idle", "started", "versioned", "running", "executed", "streaming", "cancelled",
        "waiting", "paging", "counting", "paged", "answered"}

Load == [pc : {"idle", "swapped", "stamped"}, stamp : Clock]
Request == [path : Paths, pc : Pcs, scope : SUBSET Tables, version : Clock, rows : Rows,
            counted : BOOLEAN, count : Rows, seen : Rows]

\* An answer and its key.
Answer == [path : Paths, scope : SUBSET Tables, version : Clock, rows : Rows, count : Rows]
Counted == [scope : SUBSET Tables, version : Clock, count : Rows]

TypeOK ==
  /\ clock \in Clock
  /\ rows \in Rows /\ recorded \in Rows
  /\ stamp \in [Tables -> Clock]
  /\ load \in [Tables -> Load]
  /\ cache \subseteq Answer /\ counts \subseteq Counted
  /\ req \in [Requests -> Request]
  /\ active \in Nat /\ pages \in Int
  /\ queue \in Seq(Requests)

Init ==
  /\ clock = 1
  /\ rows = Unread /\ recorded = Unread
  /\ stamp = [t \in Tables |-> 0]
  /\ load = [t \in Tables |-> NoLoad]
  /\ cache = {} /\ counts = {}
  /\ req = [r \in Requests |-> NoReq]
  /\ active = 0 /\ pages = 0 /\ queue = << >>

\* A millisecond in which no load took its stamp is not counted.
Tick ==
  /\ clock < MaxClock /\ \E t \in Tables : load[t].stamp = clock
  /\ clock' = clock + 1
  /\ UNCHANGED <<rows, stamp, load, recorded, cache, counts, req, limits>>

------------------------------------------------------------------------------
(* The loads: one of each table at a time *)

\* The transaction that replaces the table in the storage.
Swap(t) ==
  /\ load[t].pc = "idle" /\ rows[t] < MaxLoads
  /\ rows' = [rows EXCEPT ![t] = rows[t] + 1]
  /\ load' = [load EXCEPT ![t] = [pc |-> "swapped", stamp |-> 0]]
  /\ UNCHANGED <<clock, stamp, recorded, cache, counts, req, limits>>

\* new Date(), on the way to the transaction of the catalog.
Stamp(t) ==
  /\ load[t].pc = "swapped"
  /\ load' = [load EXCEPT ![t] = [pc |-> "stamped", stamp |-> clock]]
  /\ UNCHANGED <<clock, rows, stamp, recorded, cache, counts, req, limits>>

\* That transaction takes a millisecond at least.
Record(t) ==
  /\ load[t].pc = "stamped" /\ clock > load[t].stamp
  /\ stamp' = [stamp EXCEPT ![t] = load[t].stamp]
  /\ recorded' = [recorded EXCEPT ![t] = rows[t]]
  /\ load' = [load EXCEPT ![t] = NoLoad]
  /\ UNCHANGED <<clock, rows, cache, counts, req, limits>>

\* A load that dies after its swap leaves rows that the catalog knows nothing of.
LoadDies(t) ==
  /\ load[t].pc # "idle"
  /\ load' = [load EXCEPT ![t] = NoLoad]
  /\ UNCHANGED <<clock, rows, stamp, recorded, cache, counts, req, limits>>

------------------------------------------------------------------------------
(* What the paths have in common *)

Idle(r) == req[r].pc = "idle"
At(r, path, pc) == req[r].path = path /\ req[r].pc = pc
In(scope, n) == [t \in Tables |-> IF t \in scope THEN n[t] ELSE 0]
Goto(r, pc) == req' = [req EXCEPT ![r] = [req[r] EXCEPT !.pc = pc]]

\* The actor, the scope and the grants are settled.  A page is of one table; a
\* stream is kept in no cache.
Start(r) ==
  /\ Idle(r)
  /\ \E path \in Paths, scope \in Scopes \cup {{}} :
       /\ path = "stream" <=> scope = {}
       /\ path = "odata" => \E t \in Tables : scope = {t}
       /\ req' = [req EXCEPT ![r] = [NoReq EXCEPT !.path = path, !.pc = "started",
                                                  !.scope = scope, !.seen = In(scope, recorded)]]
  /\ UNCHANGED <<loads, cache, counts, limits>>

\* Mutant: the version is that of one of the tables.
Latest_Any(scope) == scope

\* The tables of the scope that were last to change.
Latest(scope) == {t \in scope : \A other \in scope : stamp[other] <= stamp[t]}

\* The aggregate over the tables of the scope.
ReadVersion(r) ==
  /\ req[r].pc = "started" /\ req[r].path # "stream"
  /\ \E t \in Latest(req[r].scope) :
       req' = [req EXCEPT ![r] = [req[r] EXCEPT !.pc = "versioned", !.version = stamp[t]]]
  /\ UNCHANGED <<loads, cache, counts, limits>>

\* The entries under the key of a request.  One past its time to live is
\* dropped by who looks it up, and is then as good as missing.
Found(r) ==
  {e \in cache : e.path = req[r].path /\ e.scope = req[r].scope /\ e.version = req[r].version}

Hit(r) ==
  /\ req[r].pc = "versioned"
  /\ \E e \in Found(r) :
       req' = [req EXCEPT ![r] = [req[r] EXCEPT !.pc = "answered", !.rows = e.rows, !.count = e.count]]
  /\ UNCHANGED <<loads, cache, counts, limits>>

\* What an entry replaces is gone, and another one goes when the cache is full.
Kept(entry, old, others) ==
  LET gone == IF Cardinality(others \ old) < MaxEntries THEN {{}} ELSE {{e} : e \in others \ old}
  IN  {(others \ (old \cup g)) \cup {entry} : g \in gone}

\* setCachedResult, setPageCache: each path has a cache.
Cached(r) ==
  LET same == {e \in cache : e.path = req[r].path}
      entry == [path |-> req[r].path, scope |-> req[r].scope, version |-> req[r].version,
                rows |-> req[r].rows, count |-> req[r].count]
  IN  {(cache \ same) \cup kept : kept \in Kept(entry, Found(r), same)}

\* The client has its answer, or its error.
Leave(r) == req' = [req EXCEPT ![r] = NoReq]

Answered(r) ==
  /\ req[r].pc = "answered"
  /\ Leave(r)
  /\ UNCHANGED <<loads, cache, counts, limits>>

------------------------------------------------------------------------------
(* Queries: a slot or 429 *)

\* acquireQuerySlot.
Acquire(r, pc) ==
  IF active < MaxQueries THEN active' = active + 1 /\ Goto(r, pc) ELSE Leave(r) /\ UNCHANGED active

\* releaseQuerySlot.
Release == active' = IF active > 0 THEN active - 1 ELSE 0

Miss(r) ==
  /\ At(r, "query", "versioned")
  /\ cache' = cache \ Found(r)
  /\ Acquire(r, "running")
  /\ UNCHANGED <<loads, counts, pages, queue>>

\* One statement, of one snapshot.
Execute(r) ==
  /\ At(r, "query", "running")
  /\ req' = [req EXCEPT ![r] = [req[r] EXCEPT !.pc = "executed", !.rows = In(req[r].scope, rows),
                                             !.count = In(req[r].scope, rows)]]
  /\ UNCHANGED <<loads, cache, counts, limits>>

\* A result of more than CACHE_MAX_ENTRY_BYTES is not kept.
Finish(r) ==
  /\ At(r, "query", "executed")
  /\ Release
  /\ cache' \in Cached(r) \cup {cache}
  /\ Goto(r, "answered")
  /\ UNCHANGED <<loads, counts, pages, queue>>

QueryFails(r) ==
  /\ At(r, "query", "running")
  /\ Release
  /\ Leave(r)
  /\ UNCHANGED <<loads, cache, counts, pages, queue>>

------------------------------------------------------------------------------
(* Streams: the slot is held until the end, the error or the cancellation *)

StreamOpen(r) ==
  /\ At(r, "stream", "started")
  /\ Acquire(r, "streaming")
  /\ UNCHANGED <<loads, cache, counts, pages, queue>>

\* Mutant: the release of a stream does not ask whether it was released.
ReleasesAtEnd_Always(r) == TRUE

\* The cancellation has released already.
ReleasesAtEnd(r) == req[r].pc = "streaming"

\* The reading that was pending ends, or fails.
StreamEnds(r) ==
  /\ req[r].path = "stream" /\ req[r].pc \in {"streaming", "cancelled"}
  /\ IF ReleasesAtEnd(r) THEN Release ELSE UNCHANGED active
  /\ Leave(r)
  /\ UNCHANGED <<loads, cache, counts, pages, queue>>

StreamCancel(r) ==
  /\ At(r, "stream", "streaming")
  /\ Release
  /\ Goto(r, "cancelled")
  /\ UNCHANGED <<loads, cache, counts, pages, queue>>

------------------------------------------------------------------------------
(* Pages of OData: a place in the semaphore, in the order of arrival *)

CountFound(r) == {e \in counts : e.scope = req[r].scope /\ e.version = req[r].version}

\* The count is looked up on the way to withODataSemaphore.
Enter(r) ==
  /\ At(r, "odata", "versioned")
  /\ cache' = cache \ Found(r)
  /\ LET here == [req[r] EXCEPT !.pc = IF pages < MaxPages THEN "paging" ELSE "waiting"]
     IN  \/ \E e \in CountFound(r) :
              /\ req' = [req EXCEPT ![r] = [here EXCEPT !.counted = TRUE, !.count = e.count]]
              /\ UNCHANGED counts
         \/ /\ req' = [req EXCEPT ![r] = here]
            /\ counts' = counts \ CountFound(r)
  /\ IF pages < MaxPages THEN pages' = pages + 1 /\ UNCHANGED queue
                         ELSE queue' = Append(queue, r) /\ UNCHANGED pages
  /\ UNCHANGED <<loads, active>>

\* The two statements run at once: the page first, or the count.
ReadPage(r) ==
  /\ At(r, "odata", "paging")
  /\ req' = [req EXCEPT ![r] = [req[r] EXCEPT !.pc = IF req[r].counted THEN "paged" ELSE "counting",
                                             !.rows = In(req[r].scope, rows)]]
  /\ UNCHANGED <<loads, cache, counts, limits>>

ReadCount(r) ==
  /\ req[r].path = "odata" /\ req[r].pc \in {"paging", "counting"} /\ ~req[r].counted
  /\ req' = [req EXCEPT ![r] = [req[r] EXCEPT !.pc = IF req[r].pc = "paging" THEN "paging" ELSE "paged",
                                             !.counted = TRUE, !.count = In(req[r].scope, rows)]]
  /\ UNCHANGED <<loads, cache, counts, limits>>

\* Who is called when a place is given back.
Woken == queue

\* The place goes to the first that waits, if any.
GiveBack(req2) ==
  IF Woken # << >>
    THEN /\ queue' = Tail(queue) /\ UNCHANGED pages
         /\ req' = [req2 EXCEPT ![Head(queue)] = [req2[Head(queue)] EXCEPT !.pc = "paging"]]
    ELSE pages' = pages - 1 /\ UNCHANGED queue /\ req' = req2

PageDone(r) ==
  /\ At(r, "odata", "paged")
  /\ cache' \in Cached(r)
  /\ counts' \in Kept([scope |-> req[r].scope, version |-> req[r].version, count |-> req[r].count],
                      CountFound(r), counts)
  /\ GiveBack([req EXCEPT ![r] = [req[r] EXCEPT !.pc = "answered"]])
  /\ UNCHANGED <<loads, active>>

PageFails(r) ==
  /\ req[r].path = "odata" /\ req[r].pc \in {"paging", "counting"}
  /\ GiveBack([req EXCEPT ![r] = NoReq])
  /\ UNCHANGED <<loads, cache, counts, active>>

------------------------------------------------------------------------------
Next ==
  \/ Tick
  \/ \E t \in Tables : Swap(t) \/ Stamp(t) \/ Record(t) \/ LoadDies(t)
  \/ \E r \in Requests :
       \/ Start(r) \/ ReadVersion(r) \/ Hit(r) \/ Answered(r)
       \/ Miss(r) \/ Execute(r) \/ Finish(r) \/ QueryFails(r)
       \/ StreamOpen(r) \/ StreamEnds(r) \/ StreamCancel(r)
       \/ Enter(r) \/ ReadPage(r) \/ ReadCount(r) \/ PageDone(r) \/ PageFails(r)

Spec == Init /\ [][Next]_vars

------------------------------------------------------------------------------
(* Properties *)

\* An answer, from a cache or not, has at least the rows whose load was in
\* the catalog when its request began, the count of a page included.
AnswersFresh ==
  \A r \in Requests : req[r].pc = "answered" =>
    \A t \in req[r].scope : req[r].rows[t] >= req[r].seen[t] /\ req[r].count[t] >= req[r].seen[t]

Holders == {r \in Requests : req[r].pc \in {"running", "executed", "streaming"}}
Paging == {r \in Requests : req[r].pc \in {"paging", "counting", "paged"}}
Waiting == {r \in Requests : req[r].pc = "waiting"}

\* Each slot and each place is held by a request that is using it, is given
\* back once, whatever fails or is cancelled, and no request waits for a place
\* that is free.
SlotsExact ==
  /\ active = Cardinality(Holders) /\ active <= MaxQueries
  /\ pages = Cardinality(Paging) /\ pages <= MaxPages
  /\ Waiting # {} => pages = MaxPages
==============================================================================
