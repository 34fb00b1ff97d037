----------------------------- MODULE SinceProtocol -----------------------------
(***************************************************************************)
(* Reading what changed in a table: rows?since= and its pages              *)
(* (src/src/server/tables/since.ts and the route of the rows), the client  *)
(* of the SDK that follows the pages and drops what it has seen, and the   *)
(* loads that stamp rows before they publish them (mergeSwap with          *)
(* carryPlan).                                                             *)
(*                                                                         *)
(* Every statement of a load and of a request is a step.  A stamp is the   *)
(* clock of the storage when the statement that writes it runs; the loads  *)
(* of a table exclude each other (SourceRefresh, TableImport).             *)
(***************************************************************************)
EXTENDS Integers, FiniteSetsExt

CONSTANTS
  Keys,        \* keys of the rows; their order is that of the numbers
  Keyed,       \* the table has a key column: cursors, ties and deletions
  Limit,       \* rows of a page
  TIE_CAP,     \* rows of a group of equal stamps that a page may be extended by
  REMOVED_CAP, \* deleted keys an answer may list
  Window,      \* the safety window
  DeletesFirst, \* the caller of changes applies deletions before rows
  Horizon,    \* bound on time
  Loads,    \* bound on the number of loads
  MaxLoad,     \* the longest time from a loading's first stamp to its publication
  MaxCall      \* the longest time from a call's first answer to its last

ASSUME SinceAssumption ==
  /\ Keys \subseteq Nat \ {0} /\ IsFiniteSet(Keys) /\ {Keyed, DeletesFirst} \subseteq BOOLEAN
  /\ {Limit, TIE_CAP, REMOVED_CAP, Horizon} \subseteq Nat \ {0} /\ Limit <= TIE_CAP
  /\ {Window, Loads, MaxLoad, MaxCall} \subseteq Nat

VARIABLES
  now,   \* the clock of the storage
  table,   \* the rows: stamp (0: no such row) and time of deletion (0: live)
  loading, \* the load under way
  client,  \* since (-1: never called), copy of the table, fingerprints seen
  call     \* the call under way: the request it makes and what it has received

sinceVars == <<now, table, loading, client, call>>

NotLoading == [pc |-> "none", kind |-> "delta", staged |-> {}, changed |-> {}, keys |-> {},
           before |-> 0, carried |-> 0, stamped |-> 0]
NoCursor == <<0, 0>>
NoCall == [pc |-> "idle", since |-> -1, cursor |-> NoCursor, rows |-> {}, page |-> {},
           hasMore |-> FALSE, next |-> 0, removedMax |-> 0, cut |-> FALSE, got |-> {},
           occ |-> {}, removed |-> {}, first |-> TRUE, started |-> 0]

Time == 0..Horizon
Stamped == Keys \X Time

Table == [Keys -> [stamp : Time, gone : Time]]
Loading == [pc : {"none", "keys", "carried", "stamped"}, kind : {"delta", "keys", "full"},
            staged : SUBSET Keys, changed : SUBSET Keys, keys : SUBSET Keys,
            before : Time, carried : Time, stamped : Time]
Client == [since : Time \cup {-1}, copy : [Keys -> Time], seen : SUBSET Stamped, loads : 0..Loads]
Calls == [pc : {"idle", "rows", "big", "removed", "now", "done", "error"},
            since : Time \cup {-1}, cursor : Stamped \cup {NoCursor}, rows : SUBSET Stamped,
            page : SUBSET Stamped, hasMore : BOOLEAN, next : Time, removedMax : Time,
            cut : BOOLEAN, got : SUBSET Stamped, occ : SUBSET Stamped, removed : SUBSET Keys,
            first : BOOLEAN, started : Time]

\* The variables have their types, and a page never exceeds what a tie may add to it.
SinceTypeOK ==
  /\ now \in Time /\ table \in Table /\ loading \in Loading
  /\ client \in Client /\ call \in Calls
  /\ Cardinality(call.page) <= TIE_CAP

SinceInit ==
  /\ now = 1
  /\ table = [k \in Keys |-> [stamp |-> 0, gone |-> 0]]
  /\ loading = NotLoading
  /\ client = [since |-> -1, copy |-> [k \in Keys |-> 0], seen |-> {}, loads |-> 0]
  /\ call = NoCall

------------------------------------------------------------------------------
(* Loads *)

Alive(k) == table[k].stamp # 0 /\ table[k].gone = 0

\* A load reads a delta, a delta and the list of keys of the source, or all;
\* what matters of the list is which rows outside the delta are in it.
LoadBegin ==
  /\ loading.pc = "none" /\ client.loads < Loads
  /\ \E kind \in {"delta", "keys", "full"}, s \in SUBSET Keys, ks \in SUBSET Keys :
       \E changed \in SUBSET {k \in s : Alive(k)} :
         /\ ks \subseteq {k \in Keys \ s : kind = "keys" /\ table[k].stamp # 0}
         /\ loading' = [NotLoading EXCEPT !.pc = "keys", !.kind = kind, !.staged = s, !.keys = ks,
                                   !.changed = changed, !.before = now]
  /\ client' = [client EXCEPT !.loads = @ + 1]
  /\ UNCHANGED <<now, table, call>>

\* The INSERT of the rows that are not in the staging table.  Two loads are at
\* least a tick apart.
LoadCarry ==
  /\ loading.pc = "keys" /\ \A k \in Keys : table[k].stamp < now
  /\ loading' = [loading EXCEPT !.pc = "carried", !.carried = now]
  /\ UNCHANGED <<now, table, client, call>>

\* The INSERT of those that are.
LoadStamp ==
  /\ loading.pc = "carried"
  /\ loading' = [loading EXCEPT !.pc = "stamped", !.stamped = now]
  /\ UNCHANGED <<now, table, client, call>>

\* What becomes of a row that is not in the staging table.  A mark and its
\* removal both renew the stamp.
carryPlan(k) ==
  LET r == table[k]
      marked == [stamp |-> loading.carried, gone |-> loading.carried]
  IN  CASE r.stamp = 0 -> r
        [] loading.kind = "delta" -> r
        [] loading.kind = "full" -> IF r.gone = 0 THEN marked ELSE r
        [] loading.kind = "keys" /\ k \in loading.keys ->
             IF r.gone = 0 THEN r ELSE [stamp |-> loading.carried, gone |-> 0]
        [] OTHER -> IF r.gone = 0 /\ r.stamp < loading.before THEN marked ELSE r

\* The swap; a live row whose content has not changed keeps its stamp.
Publish ==
  /\ loading.pc = "stamped"
  /\ table' = [k \in Keys |->
       IF k \notin loading.staged THEN carryPlan(k)
       ELSE IF Alive(k) /\ k \notin loading.changed THEN table[k]
       ELSE [stamp |-> loading.stamped, gone |-> 0]]
  /\ loading' = NotLoading
  /\ UNCHANGED <<now, client, call>>

------------------------------------------------------------------------------
(* Pages *)

SinceTxt == Max({call.since, 0})

Before(a, b) == a[2] < b[2] \/ (a[2] = b[2] /\ a[1] < b[1])

\* ORDER BY stamp, key LIMIT n: the n first of some rows (all, if they are fewer).
Firsts(rows, n) ==
  {p \in SUBSET rows : /\ Cardinality(p) = Min({n, Cardinality(rows)})
                      /\ \A f \in p, g \in rows \ p : Before(f, g)}

\* pgRowsPageSql: the live rows after the cursor, or after since.
Matching ==
  {<<k, table[k].stamp>> : k \in
    {x \in Keys : Alive(x) /\ IF call.cursor = NoCursor THEN table[x].stamp > SinceTxt
                             ELSE Before(call.cursor, <<x, table[x].stamp>>)}}

Stamps(rows) == {f[2] : f \in rows}
MaxStamp(rows) == IF rows = {} THEN SinceTxt ELSE Max(Stamps(rows))
Last(rows) == CHOOSE f \in rows : \A g \in rows \ {f} : Before(g, f)

\* When the first answer of the call was read.
Began == IF call.started = 0 THEN now ELSE call.started

Settled(page, hasMore, next) ==
  [call EXCEPT !.pc = "removed", !.rows = {}, !.page = page, !.hasMore = hasMore,
               !.next = next, !.started = Began,
               !.cursor = IF hasMore /\ Keyed THEN Last(page) ELSE NoCursor]

\* The first query of a request asks for one row more than a page has.  A first
\* page that would cut a group of equal stamps needs a second query; a page
\* after a cursor may cut one.
QueryRows ==
  /\ call.pc = "rows"
  /\ \E rows \in Firsts(Matching, Limit + 1) : \E page \in Firsts(rows, Limit) :
       LET earlier == Stamps(page) \ {MaxStamp(page)}
       IN  call' = IF rows = page THEN Settled(page, FALSE, MaxStamp(page))
                   ELSE IF call.cursor # NoCursor
                   THEN Settled(page, TRUE, IF earlier = {} THEN SinceTxt ELSE Max(earlier))
                   ELSE IF MaxStamp(rows) # MaxStamp(page)
                   THEN Settled(page, TRUE, MaxStamp(page))
                   ELSE [call EXCEPT !.pc = "big", !.rows = page, !.started = Began]
  /\ UNCHANGED <<now, table, loading, client>>

\* The second query: up to the end of the group the page ends in.  The end is
\* the first row with another stamp: when the page begins with another group
\* that is its first row, and the answer fails on an empty page.
QueryBig ==
  /\ call.pc = "big"
  /\ \E big \in Firsts(Matching, TIE_CAP + 1) :
       LET others == {f \in big : f[2] # MaxStamp(call.rows)}
           page == {f \in big : \A g \in others : Before(f, g)}
       IN  call' = IF others = {} /\ Cardinality(big) <= TIE_CAP
                   THEN Settled(big, FALSE, MaxStamp(big))
                   ELSE IF others = {} THEN Settled(call.rows, TRUE, MaxStamp(call.rows))
                   ELSE IF page = {} THEN [call EXCEPT !.pc = "error"]
                   ELSE Settled(page, TRUE, MaxStamp(page))
  /\ UNCHANGED <<now, table, loading, client>>

\* The deleted keys, in the first page of a call with a since.
QueryRemoved ==
  /\ call.pc = "removed"
  /\ LET gone == {<<k, table[k].gone>> : k \in {x \in Keys : table[x].gone > SinceTxt}}
     IN  \E sent \in Firsts(gone, REMOVED_CAP) :
           call' = IF call.since >= 0 /\ Keyed /\ call.first
                   THEN [call EXCEPT !.pc = "now", !.removed = {f[1] : f \in sent},
                           !.removedMax = IF sent = {} THEN 0 ELSE Max(Stamps(sent)),
                           !.cut = Cardinality(gone) > REMOVED_CAP]
                   ELSE [call EXCEPT !.pc = "now", !.removedMax = 0, !.cut = FALSE]
  /\ UNCHANGED <<now, table, loading, client>>

\* Mutant: the safety window is forgotten.
finalizeNextSince_NoWindow == Max({call.next, SinceTxt, IF call.hasMore THEN 0 ELSE call.removedMax})

\* The next since: the last stamp of a page with successors; at the end what
\* was seen or the clock less the window, whichever is earlier, never less
\* than the since received.
finalizeNextSince ==
  IF call.hasMore \/ call.cut THEN Max({call.next, SinceTxt})
  ELSE Max({SinceTxt, Min({Max({call.next, call.removedMax}), now - Window})})

------------------------------------------------------------------------------
(* The client: changes of the SDK *)

Call ==
  /\ call.pc = "idle"
  /\ call' = [NoCall EXCEPT !.pc = "rows", !.since = client.since]
  /\ UNCHANGED <<now, table, loading, client>>

\* Mutant: only what was delivered now is remembered.
Remembered_New(next) == {f \in call.got : f[2] >= next}

\* The fingerprints that may still come back.
Remembered(next) == {f \in client.seen \cup call.occ : f[2] >= next}

\* The end of a call; the later of two versions wins.
Applied(k) ==
  LET versions == {f[2] : f \in {g \in call.got : g[1] = k}}
  IN  IF k \in call.removed /\ (versions = {} \/ ~DeletesFirst) THEN 0
      ELSE IF versions # {} THEN Max(versions) ELSE client.copy[k]

\* The answer arrives: rows already seen are dropped; with more to come the
\* next page is asked for by cursor or, without a key, by its since.
Receive ==
  /\ call.pc = "now"
  /\ LET next == finalizeNextSince
         follow == call.hasMore /\ (call.cursor # NoCursor \/ next # call.since)
     IN  call' = [call EXCEPT !.got = @ \cup (call.page \ client.seen), !.occ = @ \cup call.page,
                    !.pc = IF follow THEN "rows" ELSE "done", !.page = {},
                    !.since = IF follow /\ call.cursor = NoCursor THEN next ELSE @, !.next = next,
                    !.hasMore = FALSE, !.removedMax = 0, !.cut = FALSE, !.first = FALSE]
  /\ UNCHANGED <<now, table, loading, client>>

\* What changes returns is applied and kept by its caller.
Apply ==
  /\ call.pc = "done"
  /\ client' = [client EXCEPT !.since = call.next, !.copy = [k \in Keys |-> Applied(k)],
                              !.seen = Remembered(call.next)]
  /\ call' = NoCall
  /\ UNCHANGED <<now, table, loading>>

\* A request that fails, for whatever reason, ends the call: nothing is kept.
Fails ==
  /\ call.pc \notin {"idle", "done"}
  /\ call' = NoCall
  /\ UNCHANGED <<now, table, loading, client>>

\* Time passes; loads and calls last no longer than assumed.
Elapse ==
  /\ now < Horizon
  /\ loading.pc \in {"carried", "stamped"} => now - loading.carried < MaxLoad
  /\ call.pc # "idle" /\ call.started # 0 => now - call.started < MaxCall
  /\ now' = now + 1
  /\ UNCHANGED <<table, loading, client, call>>

SinceNext ==
  \/ LoadBegin \/ LoadCarry \/ LoadStamp \/ Publish
  \/ Call \/ QueryRows \/ QueryBig \/ QueryRemoved \/ Receive \/ Apply \/ Fails
  \/ Elapse

SinceSpec == SinceInit /\ [][SinceNext]_sinceVars

------------------------------------------------------------------------------
(* Properties *)

\* No change is skipped for good: between calls every row stamped up to the
\* since of the client is in its copy as it is in the table, and every row
\* deleted up to then is not.
NothingLost ==
  call.pc = "idle" => \A k \in Keys :
    /\ Alive(k) /\ table[k].stamp <= client.since => client.copy[k] = table[k].stamp
    /\ table[k].gone # 0 /\ table[k].gone <= client.since => client.copy[k] = 0

\* The window makes rows come back; no version of a row is delivered twice.
DeliveredOnce ==
  [][\A f \in call'.got \ call.got : client.copy[f[1]] # f[2]]_sinceVars
==============================================================================
