------------------------------ MODULE ReadProofs ------------------------------
(***************************************************************************)
(* Proofs about what is read: QueryCache, the answers that are cached, and *)
(* SinceProtocol, the reading of what changed since.                       *)
(*                                                                         *)
(* QueryCache: its types, and that no answer is older than what the        *)
(* catalog showed when its request began, for any number of tables,        *)
(* requests, slots and entries.  The key is that the version says enough.  *)
(* A load takes its stamp after its swap, and every version that anybody   *)
(* holds is of a past millisecond.  So when the stamp of a load is not     *)
(* above the version of a result, the result was read after the swap, and  *)
(* has its rows: recorded already (Has) or on their way to the catalog     *)
(* (HasComing).                                                            *)
(*                                                                         *)
(* SinceProtocol: its types, that no version of a row is given twice, and  *)
(* that no change is skipped for good, for any set of keys, any page and   *)
(* any loads.  The key is which rows are old when a call begins: those     *)
(* that a load under way can no longer stamp below.  A call that ends has  *)
(* been given all of them up to where its pages came, or remembers them    *)
(* (CoverInv, RowsInv), and its next since is older still (ClockInv).      *)
(***************************************************************************)
EXTENDS QueryCache, SinceProtocol, FiniteSetTheorems, WellFoundedInduction, TLAPS

\* The requests that hold a version; of w, the record of a request.
Versioned(w) == w.path # "stream" /\ w.pc \notin {"idle", "started"}
HasRows(w) == w.pc \in {"executed", "counting", "paged", "answered"}
HasCount(w) == w.counted \/ w.pc \in {"executed", "paged", "answered"}

\* A result: of which tables, under which version, with how many rows.
Result == [scope : SUBSET Tables, version : Clock, amount : Rows]
RowsOf(w) == [scope |-> w.scope, version |-> w.version, amount |-> w.rows]
CountOf(w) == [scope |-> w.scope, version |-> w.version, amount |-> w.count]

\* All there are: in the caches, and in the hands of the requests.
Results ==
  UNION {{RowsOf(e) : e \in cache}, {CountOf(e) : e \in cache}, {CountOf(e) : e \in counts},
         {RowsOf(req[r]) : r \in {q \in Requests : HasRows(req[q])}},
         {CountOf(req[r]) : r \in {q \in Requests : HasCount(req[q])}}}

\* What a result owes to the loads.
Has(x) == \A t \in x.scope : stamp[t] <= x.version => x.amount[t] >= recorded[t]
HasComing(x) ==
  \A t \in x.scope :
    load[t].pc = "stamped" /\ load[t].stamp <= x.version => x.amount[t] >= rows[t]

\* What it owes to the requests that ask for its version.
HasSeen(x) ==
  \A r \in Requests : \A t \in x.scope :
    Versioned(req[r]) /\ req[r].version = x.version /\ t \in req[r].scope
      => x.amount[t] >= req[r].seen[t]

ResultInv == \A x \in Results : x.version < clock /\ Has(x) /\ HasComing(x) /\ HasSeen(x)

TableInv == \A t \in Tables : stamp[t] < clock /\ recorded[t] <= rows[t]

RequestOK(w) ==
  /\ w.version < clock
  /\ \A t \in w.scope : w.seen[t] <= recorded[t]
  /\ w.pc \in {"versioned", "answered"} => w.path # "stream"
  /\ w.pc \in {"waiting", "paging", "counting", "paged"} => w.path = "odata"
  /\ w.counted => w.path = "odata" /\ w.pc \notin {"idle", "started", "versioned"}
  /\ w.pc = "paged" => w.counted

RequestInv == \A r \in Requests : RequestOK(req[r])

QueueInv ==
  /\ \A i \in 1..Len(queue) : req[queue[i]].pc = "waiting"
  /\ \A i, j \in 1..Len(queue) : queue[i] = queue[j] => i = j

IInv == TableInv /\ RequestInv /\ QueueInv /\ ResultInv

------------------------------------------------------------------------------
(* Types *)

LEMMA ClockFacts ==
  /\ 0 \in Clock /\ 1 \in Clock /\ Clock \subseteq Nat
  /\ 0 \in Amount /\ Amount \subseteq Nat
  BY QueryAssumption DEF QueryAssumption, Clock, Amount

LEMMA NoReqType == NoReq \in Request /\ Unread \in Rows
  BY ClockFacts DEF NoReq, Request, Unread, Rows, Paths, Pcs

LEMMA InType ==
  ASSUME NEW scope \in SUBSET Tables, NEW n \in Rows
  PROVE  In(scope, n) \in Rows
  BY ClockFacts DEF In, Rows

\* What an entry is kept with comes from the cache.
LEMMA KeptIs ==
  ASSUME NEW entry, NEW old, NEW others, NEW kept \in Kept(entry, old, others)
  PROVE  kept \subseteq others \cup {entry}
  BY DEF Kept

\* The parts of a request that its type names.
LEMMA RequestParts ==
  ASSUME TypeOK, NEW r \in Requests
  PROVE  /\ req[r].path \in Paths /\ req[r].pc \in Pcs /\ req[r].scope \in SUBSET Tables
         /\ req[r].version \in Clock /\ req[r].rows \in Rows /\ req[r].counted \in BOOLEAN
         /\ req[r].count \in Rows /\ req[r].seen \in Rows
  BY DEF TypeOK, Request

LEMMA CachedType ==
  ASSUME TypeOK, NEW r \in Requests, NEW c \in Cached(r)
  PROVE  c \subseteq Answer
  <1>1. [path |-> req[r].path, scope |-> req[r].scope, version |-> req[r].version,
         rows |-> req[r].rows, count |-> req[r].count] \in Answer
    BY RequestParts DEF Answer
  <1> DEFINE same == {e \in cache : e.path = req[r].path}
             entry == [path |-> req[r].path, scope |-> req[r].scope, version |-> req[r].version,
                       rows |-> req[r].rows, count |-> req[r].count]
  <1>2. PICK kept \in Kept(entry, Found(r), same) : c = (cache \ same) \cup kept
    BY DEF Cached
  <1>3. kept \subseteq same \cup {entry}
    BY KeptIs
  <1>4. QED
    BY <1>1, <1>2, <1>3 DEF TypeOK

LEMMA InitType == Init => TypeOK
  BY ClockFacts, NoReqType DEF Init, TypeOK, NoLoad, Load, Rows, Unread, Amount

LEMMA GiveBackType ==
  ASSUME TypeOK, NEW req2 \in [Requests -> Request], GiveBack(req2)
  PROVE  req' \in [Requests -> Request] /\ pages' \in Int /\ queue' \in Seq(Requests)
  <1>1. CASE Woken # << >>
    <2>1. Head(queue) \in Requests /\ Tail(queue) \in Seq(Requests)
      BY <1>1 DEF Woken, TypeOK
    <2>2. [req2[Head(queue)] EXCEPT !.pc = "paging"] \in Request
      BY <2>1 DEF Request, Pcs
    <2>3. QED
      BY <1>1, <2>1, <2>2 DEF GiveBack, TypeOK
  <1>2. CASE Woken = << >>
    BY <1>2 DEF GiveBack, TypeOK
  <1>3. QED
    BY <1>1, <1>2

LEMMA TypeStep == TypeOK /\ [Next]_vars => TypeOK'
  <1> SUFFICES ASSUME TypeOK, [Next]_vars
               PROVE  TypeOK'
    OBVIOUS
  <1> USE ClockFacts, NoReqType
  <1>1. CASE Tick
    BY <1>1, QueryAssumption DEF Tick, TypeOK, limits, Clock, QueryAssumption
  <1>2. ASSUME NEW t \in Tables, Swap(t) \/ Stamp(t) \/ Record(t) \/ LoadDies(t)
        PROVE  TypeOK'
    <2>1. CASE Swap(t)
      <3>1. rows' \in Rows
        BY <2>1, QueryAssumption DEF Swap, TypeOK, Rows, Amount, QueryAssumption
      <3>2. QED
        BY <2>1, <3>1 DEF Swap, TypeOK, limits, Load
    <2>2. CASE Stamp(t)
      BY <2>2 DEF Stamp, TypeOK, limits, Load
    <2>3. CASE Record(t)
      BY <2>3 DEF Record, TypeOK, limits, Load, NoLoad, Rows
    <2>4. CASE LoadDies(t)
      BY <2>4 DEF LoadDies, TypeOK, limits, Load, NoLoad
    <2>5. QED
      BY <1>2, <2>1, <2>2, <2>3, <2>4
  <1>3. ASSUME NEW r \in Requests,
               \/ Start(r) \/ ReadVersion(r) \/ Hit(r) \/ Answered(r)
               \/ Miss(r) \/ Execute(r) \/ Finish(r) \/ QueryFails(r)
               \/ StreamOpen(r) \/ StreamEnds(r) \/ StreamCancel(r)
               \/ Enter(r) \/ ReadPage(r) \/ ReadCount(r) \/ PageDone(r) \/ PageFails(r)
        PROVE  TypeOK'
    <2> USE DEF loads, limits
    <2>0. req[r] \in Request
      BY DEF TypeOK
    <2>a. \A pc \in Pcs : [req[r] EXCEPT !.pc = pc] \in Request
      BY <2>0 DEF Request
    <2>1. CASE Start(r)
      <3>1. PICK path \in Paths, scope \in Scopes \cup {{}} :
              req' = [req EXCEPT ![r] = [NoReq EXCEPT !.path = path, !.pc = "started",
                                                     !.scope = scope, !.seen = In(scope, recorded)]]
        BY <2>1 DEF Start
      <3>2. scope \in SUBSET Tables
        BY QueryAssumption DEF QueryAssumption
      <3>3. In(scope, recorded) \in Rows
        BY <3>2, InType DEF TypeOK
      <3>4. [NoReq EXCEPT !.path = path, !.pc = "started", !.scope = scope,
                          !.seen = In(scope, recorded)] \in Request
        BY <3>2, <3>3 DEF Request, Pcs
      <3>5. QED
        BY <2>1, <3>1, <3>4 DEF Start, TypeOK
    <2>2. CASE ReadVersion(r)
      <3>1. PICK t \in Latest(req[r].scope) :
              req' = [req EXCEPT ![r] = [req[r] EXCEPT !.pc = "versioned", !.version = stamp[t]]]
        BY <2>2 DEF ReadVersion
      <3>2. stamp[t] \in Clock
        BY RequestParts DEF Latest, TypeOK
      <3>3. [req[r] EXCEPT !.pc = "versioned", !.version = stamp[t]] \in Request
        BY <2>0, <3>2 DEF Request, Pcs
      <3>4. QED
        BY <2>2, <3>1, <3>3 DEF ReadVersion, TypeOK
    <2>3. CASE Hit(r)
      <3>1. PICK e \in Found(r) :
              req' = [req EXCEPT ![r] = [req[r] EXCEPT !.pc = "answered", !.rows = e.rows, !.count = e.count]]
        BY <2>3 DEF Hit
      <3>2. e \in Answer
        BY DEF Found, TypeOK
      <3>3. [req[r] EXCEPT !.pc = "answered", !.rows = e.rows, !.count = e.count] \in Request
        BY <2>0, <3>2 DEF Request, Pcs, Answer
      <3>4. QED
        BY <2>3, <3>1, <3>3 DEF Hit, TypeOK
    <2>4. CASE Answered(r)
      BY <2>4 DEF Answered, Leave, TypeOK
    <2>5. CASE Miss(r)
      <3>1. [req[r] EXCEPT !.pc = "running"] \in Request
        BY <2>a DEF Pcs
      <3>2. QED
        <4>1. active' \in Nat
          BY <2>5 DEF Miss, Acquire, TypeOK
        <4>2. req' \in [Requests -> Request]
          BY <2>5, <3>1 DEF Miss, Acquire, Goto, Leave, TypeOK
        <4>3. QED
          BY <2>5, <4>1, <4>2 DEF Miss, TypeOK
    <2>6. CASE Execute(r)
      <3>1. In(req[r].scope, rows) \in Rows
        BY InType, RequestParts DEF TypeOK
      <3>2. [req[r] EXCEPT !.pc = "executed", !.rows = In(req[r].scope, rows),
                           !.count = In(req[r].scope, rows)] \in Request
        BY <2>0, <3>1 DEF Request, Pcs
      <3>3. QED
        BY <2>6, <3>2 DEF Execute, TypeOK
    <2>7. CASE Finish(r)
      <3>1. cache' \subseteq Answer
        BY <2>7, CachedType DEF Finish, TypeOK
      <3>2. [req[r] EXCEPT !.pc = "answered"] \in Request
        BY <2>a DEF Pcs
      <3>3. QED
        <4>1. active' \in Nat
          BY <2>7 DEF Finish, Release, TypeOK
        <4>2. req' \in [Requests -> Request]
          BY <2>7, <3>2 DEF Finish, Goto, TypeOK
        <4>3. QED
          BY <2>7, <3>1, <4>1, <4>2 DEF Finish, TypeOK
    <2>8. CASE QueryFails(r)
      BY <2>8 DEF QueryFails, Release, Leave, TypeOK
    <2>9. CASE StreamOpen(r)
      <3>1. [req[r] EXCEPT !.pc = "streaming"] \in Request
        BY <2>a DEF Pcs
      <3>2. QED
        <4>1. active' \in Nat
          BY <2>9 DEF StreamOpen, Acquire, TypeOK
        <4>2. req' \in [Requests -> Request]
          BY <2>9, <3>1 DEF StreamOpen, Acquire, Goto, Leave, TypeOK
        <4>3. QED
          BY <2>9, <4>1, <4>2 DEF StreamOpen, TypeOK
    <2>10. CASE StreamEnds(r)
      BY <2>10 DEF StreamEnds, Release, Leave, TypeOK
    <2>11. CASE StreamCancel(r)
      <3>1. [req[r] EXCEPT !.pc = "cancelled"] \in Request
        BY <2>a DEF Pcs
      <3>2. QED
        BY <2>11, <3>1 DEF StreamCancel, Release, Goto, TypeOK
    <2>12. CASE Enter(r)
      <3> DEFINE here == [req[r] EXCEPT !.pc = IF pages < MaxPages THEN "paging" ELSE "waiting"]
      <3>1. here \in Request
        BY <2>a DEF Pcs
      <3>2. \A e \in CountFound(r) : [here EXCEPT !.counted = TRUE, !.count = e.count] \in Request
        BY <3>1 DEF CountFound, Counted, Request, TypeOK
      <3>3. req' \in [Requests -> Request]
        BY <2>12, <3>1, <3>2 DEF Enter, TypeOK
      <3>4. counts' \subseteq Counted /\ cache' \subseteq Answer
        BY <2>12 DEF Enter, TypeOK
      <3>5. pages' \in Int /\ queue' \in Seq(Requests)
        <4>1. CASE pages < MaxPages
          <5>1. pages' = pages + 1 /\ queue' = queue
            BY <2>12, <4>1 DEF Enter
          <5>2. QED
            BY <5>1 DEF TypeOK
        <4>2. CASE ~(pages < MaxPages)
          <5>1. Append(queue, r) \in Seq(Requests)
            BY DEF TypeOK
          <5>2. QED
            BY <2>12, <4>2, <5>1 DEF Enter, TypeOK
        <4>3. QED
          BY <4>1, <4>2
      <3>6. QED
        BY <2>12, <3>3, <3>4, <3>5 DEF Enter, TypeOK
    <2>13. CASE ReadPage(r)
      <3>1. In(req[r].scope, rows) \in Rows
        BY InType, RequestParts DEF TypeOK
      <3>2. [req[r] EXCEPT !.pc = IF req[r].counted THEN "paged" ELSE "counting",
                           !.rows = In(req[r].scope, rows)] \in Request
        BY <2>0, <3>1 DEF Request, Pcs
      <3>3. QED
        BY <2>13, <3>2 DEF ReadPage, TypeOK
    <2>14. CASE ReadCount(r)
      <3>1. In(req[r].scope, rows) \in Rows
        BY InType, RequestParts DEF TypeOK
      <3>2. [req[r] EXCEPT !.pc = IF req[r].pc = "paging" THEN "paging" ELSE "paged",
                           !.counted = TRUE, !.count = In(req[r].scope, rows)] \in Request
        BY <2>0, <3>1 DEF Request, Pcs
      <3>3. QED
        BY <2>14, <3>2 DEF ReadCount, TypeOK
    <2>15. CASE PageDone(r)
      <3>1. cache' \subseteq Answer
        BY <2>15, CachedType DEF PageDone
      <3>2. counts' \subseteq Counted
        BY <2>15, KeptIs, RequestParts DEF PageDone, TypeOK, Counted
      <3>3. [req EXCEPT ![r] = [req[r] EXCEPT !.pc = "answered"]] \in [Requests -> Request]
        BY <2>a DEF Pcs, TypeOK
      <3>4. QED
        BY <2>15, <3>1, <3>2, <3>3, GiveBackType DEF PageDone, TypeOK
    <2>16. CASE PageFails(r)
      <3>1. [req EXCEPT ![r] = NoReq] \in [Requests -> Request]
        BY DEF TypeOK
      <3>2. QED
        BY <2>16, <3>1, GiveBackType DEF PageFails, TypeOK
    <2>17. QED
      BY <1>3, <2>1, <2>2, <2>3, <2>4, <2>5, <2>6, <2>7, <2>8, <2>9, <2>10, <2>11, <2>12,
         <2>13, <2>14, <2>15, <2>16
  <1>4. CASE UNCHANGED vars
    BY <1>4 DEF vars, TypeOK
  <1>5. QED
    BY <1>1, <1>2, <1>3, <1>4 DEF Next

\* The clock, the rows, the caches, the requests and the limits keep their types.
THEOREM TypeCorrect == Spec => []TypeOK
  BY InitType, TypeStep, PTL DEF Spec

------------------------------------------------------------------------------
(* The answers *)

LEMMA ResultsType == TypeOK => Results \subseteq Result
  <1> SUFFICES ASSUME TypeOK
               PROVE  Results \subseteq Result
    OBVIOUS
  <1>1. \A e \in cache : RowsOf(e) \in Result /\ CountOf(e) \in Result
    BY DEF TypeOK, Answer, RowsOf, CountOf, Result
  <1>2. \A e \in counts : CountOf(e) \in Result
    BY DEF TypeOK, Counted, CountOf, Result
  <1>3. \A r \in Requests : RowsOf(req[r]) \in Result /\ CountOf(req[r]) \in Result
    BY RequestParts DEF RowsOf, CountOf, Result
  <1>4. QED
    BY <1>1, <1>2, <1>3 DEF Results

\* What the results are made of.
LEMMA ResultsAre ==
  /\ \A e \in cache : RowsOf(e) \in Results /\ CountOf(e) \in Results
  /\ \A e \in counts : CountOf(e) \in Results
  /\ \A r \in Requests : HasRows(req[r]) => RowsOf(req[r]) \in Results
  /\ \A r \in Requests : HasCount(req[r]) => CountOf(req[r]) \in Results
  BY DEF Results

LEMMA InitInv == Init => IInv
  <1> SUFFICES ASSUME Init
               PROVE  IInv
    OBVIOUS
  <1>1. TableInv
    BY DEF Init, TableInv, Unread
  <1>2. RequestInv
    BY DEF Init, RequestInv, RequestOK, NoReq, Unread
  <1>3. QueueInv
    BY DEF Init, QueueInv
  <1>4. Results = {}
    BY DEF Init, Results, HasRows, HasCount, NoReq
  <1>5. QED
    BY <1>1, <1>2, <1>3, <1>4 DEF IInv, ResultInv

\* A load changes what the results owe, and they have it.
LEMMA LoadStep ==
  ASSUME TypeOK, IInv,
         Tick \/ \E t \in Tables : Swap(t) \/ Stamp(t) \/ Record(t) \/ LoadDies(t)
  PROVE  IInv'
  <1> USE ClockFacts
  <1>1. UNCHANGED <<cache, counts, req, queue>>
    BY DEF Tick, Swap, Stamp, Record, LoadDies, limits
  <1>2. Results' = Results /\ QueueInv'
    BY <1>1 DEF Results, IInv, QueueInv
  <1>3. clock \in Nat /\ clock' \in Nat /\ clock <= clock'
    BY DEF Tick, Swap, Stamp, Record, LoadDies, TypeOK
  <1>4. \A t \in Tables :
          /\ rows[t] \in Nat /\ recorded[t] \in Nat /\ stamp[t] \in Nat /\ load[t].stamp \in Nat
          /\ load[t].pc \in {"idle", "swapped", "stamped"}
    BY DEF TypeOK, Rows, Load
  <1> DEFINE Moved(t) ==
        /\ rows'[t] \in Nat /\ recorded'[t] \in Nat /\ stamp'[t] \in Nat
        /\ recorded[t] <= recorded'[t]
        /\ recorded'[t] <= rows'[t] /\ stamp'[t] < clock'
        /\ \/ stamp'[t] = stamp[t] /\ recorded'[t] = recorded[t]
           \/ load[t].pc = "stamped" /\ stamp'[t] = load[t].stamp /\ recorded'[t] = rows[t]
        /\ \/ load'[t].pc # "stamped"
           \/ load'[t] = load[t] /\ rows'[t] = rows[t]
           \/ load'[t].stamp = clock
  <1>5. \A t \in Tables : Moved(t)
    <2> USE <1>3, <1>4 DEF IInv, TableInv
    <2>1. CASE Tick
      BY <2>1 DEF Tick
    <2>2. ASSUME NEW u \in Tables, Swap(u)
          PROVE  \A t \in Tables : Moved(t)
      BY <2>2 DEF Swap, TypeOK, Rows
    <2>3. ASSUME NEW u \in Tables, Stamp(u)
          PROVE  \A t \in Tables : Moved(t)
      BY <2>3 DEF Stamp, TypeOK
    <2>4. ASSUME NEW u \in Tables, Record(u)
          PROVE  \A t \in Tables : Moved(t)
      BY <2>4 DEF Record, NoLoad, TypeOK, Rows
    <2>5. ASSUME NEW u \in Tables, LoadDies(u)
          PROVE  \A t \in Tables : Moved(t)
      BY <2>5 DEF LoadDies, NoLoad, TypeOK
    <2>6. QED
      BY <2>1, <2>2, <2>3, <2>4, <2>5
  <1>6. TableInv'
    BY <1>5 DEF TableInv
  <1>7. RequestInv'
    <2> SUFFICES ASSUME NEW r \in Requests
                 PROVE  RequestOK(req[r])'
      BY DEF RequestInv
    <2>1. RequestOK(req[r]) /\ req'[r] = req[r]
      BY <1>1 DEF IInv, RequestInv
    <2>2. req[r].version < clock'
      <3>1. req[r].version \in Nat /\ req[r].version < clock
        BY <2>1, RequestParts DEF RequestOK
      <3>2. QED
        BY <3>1, <1>3
    <2>3. \A t \in req[r].scope : req[r].seen[t] <= recorded'[t]
      <3>1. req[r].scope \in SUBSET Tables /\ req[r].seen \in [Tables -> Nat]
        BY RequestParts DEF Rows
      <3>2. \A t \in req[r].scope : req[r].seen[t] <= recorded[t]
        BY <2>1 DEF RequestOK
      <3>3. QED
        BY <3>1, <3>2, <1>4, <1>5
    <2>4. QED
      BY <2>1, <2>2, <2>3 DEF RequestOK, Versioned
  <1>8. ResultInv'
    <2> SUFFICES ASSUME NEW x \in Results
                 PROVE  (x.version < clock /\ Has(x) /\ HasComing(x) /\ HasSeen(x))'
      BY <1>2 DEF ResultInv
    <2>1. x.version < clock /\ Has(x) /\ HasComing(x) /\ HasSeen(x)
      BY DEF IInv, ResultInv
    <2>2. x.version \in Nat /\ x.scope \in SUBSET Tables /\ x.amount \in Rows
      BY ResultsType DEF Result
    <2>3. x.version < clock'
      BY <2>1, <2>2, <1>3
    <2>4. Has(x)'
      BY <2>1, <2>2, <1>4, <1>5 DEF Has, HasComing, Rows
    <2>5. HasComing(x)'
      BY <2>1, <2>2, <1>3, <1>4, <1>5 DEF HasComing, Rows
    <2>6. HasSeen(x)'
      BY <2>1, <1>1 DEF HasSeen
    <2>7. QED
      BY <2>3, <2>4, <2>5, <2>6
  <1>9. QED
    BY <1>2, <1>6, <1>7, <1>8 DEF IInv

\* A step of a request: what it reads now is as new as can be, and what it has of
\* another is a result already.
LEMMA RequestKeeps ==
  ASSUME TypeOK, TypeOK', IInv, UNCHANGED loads, QueueInv',
         NEW r \in Requests, NEW v, req'[r] = v, RequestOK(v),
         \A q \in Requests \ {r} :
           \/ req'[q] = req[q]
           \/ req[q].pc = "waiting" /\ req'[q] = [req[q] EXCEPT !.pc = "paging"],
         \A e \in cache' : RowsOf(e) \in Results /\ CountOf(e) \in Results,
         \A e \in counts' : CountOf(e) \in Results,
         HasRows(v) => RowsOf(v) \in Results \/ v.rows = In(v.scope, rows),
         HasCount(v) => CountOf(v) \in Results \/ v.count = In(v.scope, rows),
         Versioned(v) => \/ /\ Versioned(req[r]) /\ v.version = req[r].version
                            /\ v.scope = req[r].scope /\ v.seen = req[r].seen
                         \/ \A t \in v.scope : stamp[t] <= v.version
  PROVE  IInv'
  <1> USE ClockFacts
  <1>1. clock' = clock /\ rows' = rows /\ stamp' = stamp /\ load' = load /\ recorded' = recorded
    BY DEF loads
  <1>2. \A t \in Tables :
          /\ rows[t] \in Nat /\ recorded[t] \in Nat /\ stamp[t] \in Nat /\ load[t].stamp \in Nat
          /\ recorded[t] <= rows[t]
    BY DEF TypeOK, Rows, Load, IInv, TableInv
  <1>3. TableInv'
    BY <1>1 DEF TableInv, IInv
  <1>4. \A q \in Requests : RequestOK(req'[q])
    <2>1. ASSUME NEW q \in Requests \ {r}, req[q].pc = "waiting",
                 req'[q] = [req[q] EXCEPT !.pc = "paging"]
          PROVE  RequestOK(req'[q])
      <3>1. req[q] \in Request /\ RequestOK(req[q])
        BY DEF TypeOK, IInv, RequestInv
      <3>2. QED
        BY <2>1, <3>1 DEF RequestOK, Request
    <2>2. QED
      BY <2>1 DEF IInv, RequestInv
  <1>5. RequestInv'
    BY <1>1, <1>4 DEF RequestInv, RequestOK, Versioned
  <1>6. ASSUME NEW q \in Requests \ {r}
        PROVE  /\ HasRows(req'[q]) => HasRows(req[q]) /\ RowsOf(req'[q]) = RowsOf(req[q])
               /\ HasCount(req'[q]) => HasCount(req[q]) /\ CountOf(req'[q]) = CountOf(req[q])
               /\ Versioned(req'[q]) =>
                    /\ Versioned(req[q]) /\ req'[q].version = req[q].version
                    /\ req'[q].scope = req[q].scope /\ req'[q].seen = req[q].seen
    <2>1. CASE req'[q] = req[q]
      BY <2>1
    <2>2. CASE req[q].pc = "waiting" /\ req'[q] = [req[q] EXCEPT !.pc = "paging"]
      <3>1. req[q] \in Request
        BY DEF TypeOK
      <3>2. /\ req'[q].pc = "paging" /\ req'[q].path = req[q].path /\ req'[q].counted = req[q].counted
            /\ req'[q].version = req[q].version /\ req'[q].scope = req[q].scope
            /\ req'[q].seen = req[q].seen /\ req'[q].count = req[q].count
        BY <2>2, <3>1 DEF Request
      <3>3. QED
        BY <2>2, <3>2 DEF HasRows, HasCount, CountOf, Versioned
    <2>3. QED
      BY <2>1, <2>2
  <1> DEFINE Old(x) ==
        \/ x \in Results
        \/ /\ x.version < clock /\ x.version \in Nat /\ x.scope \in SUBSET Tables
           /\ x.amount = In(x.scope, rows)
  <1>7. ASSUME NEW x \in Results'
        PROVE  Old(x)
    <2>1. v.version < clock /\ v.version \in Nat /\ v.scope \in SUBSET Tables
      BY DEF RequestOK, TypeOK, Request
    <2>2. HasRows(v) => Old(RowsOf(v))
      BY <2>1 DEF RowsOf
    <2>3. HasCount(v) => Old(CountOf(v))
      BY <2>1 DEF CountOf
    <2>4. \/ \E e \in cache' : x = RowsOf(e) \/ x = CountOf(e)
          \/ \E e \in counts' : x = CountOf(e)
          \/ \E q \in Requests : HasRows(req'[q]) /\ x = RowsOf(req'[q])
          \/ \E q \in Requests : HasCount(req'[q]) /\ x = CountOf(req'[q])
      <3>1. Results' = UNION
              {{RowsOf(e) : e \in cache'}, {CountOf(e) : e \in cache'}, {CountOf(e) : e \in counts'},
               {RowsOf(req'[q]) : q \in {p \in Requests : HasRows(req'[p])}},
               {CountOf(req'[q]) : q \in {p \in Requests : HasCount(req'[p])}}}
        BY DEF Results, HasRows, HasCount, RowsOf, CountOf
      <3>2. QED
        BY <3>1
    <2>5. ASSUME NEW q \in Requests, HasRows(req'[q]), x = RowsOf(req'[q])
          PROVE  Old(x)
      BY <2>2, <2>5, <1>6, ResultsAre
    <2>6. ASSUME NEW q \in Requests, HasCount(req'[q]), x = CountOf(req'[q])
          PROVE  Old(x)
      BY <2>3, <2>6, <1>6, ResultsAre
    <2>7. QED
      BY <2>4, <2>5, <2>6
  <1>8. ASSUME NEW x \in Results'
        PROVE  (x.version < clock /\ Has(x) /\ HasComing(x) /\ HasSeen(x))'
    <2> DEFINE Sound(t) ==
          /\ stamp[t] <= x.version => x.amount[t] >= recorded[t]
          /\ load[t].pc = "stamped" /\ load[t].stamp <= x.version => x.amount[t] >= rows[t]
    <2>0. x.version \in Nat /\ x.scope \in SUBSET Tables /\ x.version < clock
          /\ \A t \in x.scope : x.amount[t] \in Nat
      <3>1. CASE x \in Results
        BY <3>1, ResultsType DEF IInv, ResultInv, Result, Rows
      <3>2. CASE x \notin Results
        BY <3>2, <1>7, <1>2 DEF In
      <3>3. QED
        BY <3>1, <3>2
    <2>a. x \notin Results => \A t \in x.scope : t \in Tables /\ x.amount[t] = rows[t]
      <3>1. x \notin Results => x.scope \subseteq Tables /\ x.amount = In(x.scope, rows)
        BY <1>7
      <3>2. QED
        BY <3>1 DEF In
    <2>1. \A t \in x.scope : Sound(t)
      <3>1. CASE x \in Results
        BY <3>1 DEF IInv, ResultInv, Has, HasComing
      <3>2. CASE x \notin Results
        BY <3>2, <1>2, <2>a
      <3>3. QED
        BY <3>1, <3>2
    <2>2. ASSUME NEW q \in Requests, NEW t \in x.scope, Versioned(req'[q]),
                 req'[q].version = x.version, t \in req'[q].scope
          PROVE  x.amount[t] >= req'[q].seen[t]
      <3>1. req'[q].seen[t] \in Nat /\ req'[q].seen[t] <= recorded[t] /\ t \in Tables
        BY <2>0, <2>2, <1>4 DEF RequestOK, TypeOK, Request, Rows
      <3>2. CASE x \in Results /\ \A u \in req'[q].scope : stamp[u] <= req'[q].version
        BY <2>0, <2>1, <2>2, <3>1, <3>2, <1>2
      <3>3. CASE /\ x \in Results
                 /\ Versioned(req[q]) /\ req'[q].version = req[q].version
                 /\ req'[q].scope = req[q].scope /\ req'[q].seen = req[q].seen
        <4>1. HasSeen(x)
          BY <3>3 DEF IInv, ResultInv
        <4>2. QED
          BY <2>2, <3>3, <4>1 DEF HasSeen
      <3>4. CASE x \notin Results
        BY <3>1, <3>4, <1>2, <2>2, <2>a
      <3>5. QED
        BY <2>2, <3>2, <3>3, <3>4, <1>6
    <2>3. QED
      BY <1>1, <2>0, <2>1, <2>2 DEF Has, HasComing, HasSeen, Versioned
  <1>9. QED
    BY <1>3, <1>5, <1>8 DEF IInv, ResultInv

\* A step that changes one request, which does not wait.
LEMMA OneChanges ==
  ASSUME TypeOK, QueueInv, NEW r \in Requests, req[r].pc # "waiting", NEW v,
         req' = [req EXCEPT ![r] = v], UNCHANGED queue
  PROVE  req'[r] = v /\ QueueInv' /\ \A q \in Requests \ {r} : req'[q] = req[q]
  <1>1. req'[r] = v /\ \A q \in Requests \ {r} : req'[q] = req[q]
    BY DEF TypeOK
  <1>2. \A i \in 1..Len(queue) : queue[i] \in Requests
    BY DEF TypeOK
  <1>3. QED
    BY <1>1, <1>2 DEF QueueInv

\* Who gives its place back wakes one that waits, or nobody.
LEMMA GiveBackWakes ==
  ASSUME TypeOK, QueueInv, NEW r \in Requests, req[r].pc # "waiting", NEW v,
         GiveBack([req EXCEPT ![r] = v])
  PROVE  /\ req'[r] = v /\ QueueInv'
         /\ \A q \in Requests \ {r} :
              \/ req'[q] = req[q]
              \/ req[q].pc = "waiting" /\ req'[q] = [req[q] EXCEPT !.pc = "paging"]
  <1> DEFINE req2 == [req EXCEPT ![r] = v]
  <1>1. req2[r] = v /\ \A q \in Requests \ {r} : req2[q] = req[q]
    BY DEF TypeOK
  <1>2. DOMAIN req2 = Requests
    BY DEF TypeOK
  <1>3. \A i \in 1..Len(queue) : queue[i] \in Requests
    BY DEF TypeOK
  <1> HIDE DEF req2
  <1>4. CASE queue = << >>
    <2>1. req' = req2 /\ queue' = queue
      BY <1>4 DEF GiveBack, Woken, req2
    <2>2. QED
      BY <2>1, <1>1, <1>3 DEF QueueInv
  <1>5. CASE queue # << >>
    <2> DEFINE h == Head(queue)
    <2>1. h \in Requests /\ h = queue[1] /\ 1 \in 1..Len(queue)
      BY <1>5 DEF TypeOK
    <2>2. h # r /\ req[h].pc = "waiting"
      BY <2>1 DEF QueueInv
    <2>3. queue' = Tail(queue) /\ req' = [req2 EXCEPT ![h] = [req2[h] EXCEPT !.pc = "paging"]]
      BY <1>5 DEF GiveBack, Woken, req2
    <2>4. req'[h] = [req[h] EXCEPT !.pc = "paging"] /\ req'[r] = v
          /\ \A q \in Requests \ {r, h} : req'[q] = req[q]
      BY <2>1, <2>2, <2>3, <1>1, <1>2
    <2>5. \A i \in 1..Len(Tail(queue)) : i + 1 \in 1..Len(queue) /\ Tail(queue)[i] = queue[i + 1]
      BY <1>5 DEF TypeOK
    <2>6. \A i \in 1..Len(Tail(queue)) :
            queue[i + 1] \in Requests /\ queue[i + 1] # h /\ req[queue[i + 1]].pc = "waiting"
      BY <2>1, <2>5, <1>3 DEF QueueInv
    <2>7. QueueInv'
      <3>1. \A i \in 1..Len(queue') : req'[queue'[i]].pc = "waiting"
        BY <2>3, <2>4, <2>5, <2>6
      <3>2. \A i, j \in 1..Len(queue') : queue'[i] = queue'[j] => i = j
        <4> SUFFICES ASSUME NEW i \in 1..Len(Tail(queue)), NEW j \in 1..Len(Tail(queue)),
                            queue[i + 1] = queue[j + 1]
                     PROVE  i = j
          BY <2>3, <2>5
        <4>1. i + 1 = j + 1
          BY <2>5 DEF QueueInv
        <4>2. Len(Tail(queue)) \in Nat
          BY <1>5 DEF TypeOK
        <4>3. QED
          BY <4>1, <4>2
      <3>3. QED
        BY <3>1, <3>2 DEF QueueInv
    <2>8. QED
      BY <2>2, <2>4, <2>7
  <1>6. QED
    BY <1>4, <1>5

\* A request that has an answer adds it to the cache, which had results only.
LEMMA CachedResults ==
  ASSUME NEW r \in Requests, HasRows(req[r]), HasCount(req[r]), NEW c \in Cached(r), NEW e \in c
  PROVE  RowsOf(e) \in Results /\ CountOf(e) \in Results
  <1> DEFINE same == {f \in cache : f.path = req[r].path}
             entry == [path |-> req[r].path, scope |-> req[r].scope, version |-> req[r].version,
                       rows |-> req[r].rows, count |-> req[r].count]
  <1>1. PICK kept \in Kept(entry, Found(r), same) : c = (cache \ same) \cup kept
    BY DEF Cached
  <1>2. kept \subseteq same \cup {entry}
    BY KeptIs
  <1>3. e \in cache \/ e = entry
    BY <1>1, <1>2
  <1>4. RowsOf(entry) = RowsOf(req[r]) /\ CountOf(entry) = CountOf(req[r])
    BY DEF RowsOf, CountOf
  <1>5. QED
    BY <1>3, <1>4, ResultsAre

LEMMA RequestStep ==
  ASSUME TypeOK, TypeOK', IInv, NEW r \in Requests,
         \/ Start(r) \/ ReadVersion(r) \/ Hit(r) \/ Answered(r)
         \/ Miss(r) \/ Execute(r) \/ Finish(r) \/ QueryFails(r)
         \/ StreamOpen(r) \/ StreamEnds(r) \/ StreamCancel(r)
         \/ Enter(r) \/ ReadPage(r) \/ ReadCount(r) \/ PageDone(r) \/ PageFails(r)
  PROVE  IInv'
  <1> DEFINE w == req[r]
  <1>0. w \in Request /\ RequestOK(w) /\ QueueInv
    BY DEF TypeOK, IInv, RequestInv
  <1>1. clock \in Nat /\ 0 < clock /\ \A t \in Tables : 0 <= recorded[t] /\ recorded[t] \in Nat
    <2>1. clock \in Nat /\ w.version \in Nat /\ w.version < clock
      BY <1>0, ClockFacts DEF TypeOK, RequestOK, Request
    <2>2. \A t \in Tables : recorded[t] \in Nat
      BY ClockFacts DEF TypeOK, Rows
    <2>3. QED
      BY <2>1, <2>2
  <1>a. RequestOK(NoReq) /\ ~HasRows(NoReq) /\ ~HasCount(NoReq) /\ ~Versioned(NoReq)
    BY <1>1 DEF RequestOK, NoReq, HasRows, HasCount, Versioned
  \* A step that only moves the request on, with or without what is in the cache.
  <1>b. ASSUME NEW pc, pc \notin {"executed", "counting", "paged", "answered"}, w.pc # "waiting",
               UNCHANGED <<loads, queue>>, cache' \subseteq cache, counts' \subseteq counts,
               \/ req' = [req EXCEPT ![r] = NoReq]
               \/ /\ req' = [req EXCEPT ![r] = [w EXCEPT !.pc = pc]]
                  /\ pc \in {"running", "streaming", "cancelled"}
                  /\ w.path = "stream" \/ w.pc = "versioned"
        PROVE  IInv'
    <2>1. CASE req' = [req EXCEPT ![r] = NoReq]
      <3>1. req'[r] = NoReq /\ QueueInv' /\ \A q \in Requests \ {r} : req'[q] = req[q]
        BY <1>0, <1>b, <2>1, OneChanges
      <3>2. QED
        BY <1>a, <1>b, <3>1, ResultsAre, RequestKeeps
    <2>2. CASE /\ req' = [req EXCEPT ![r] = [w EXCEPT !.pc = pc]]
               /\ pc \in {"running", "streaming", "cancelled"}
               /\ w.path = "stream" \/ w.pc = "versioned"
      <3> DEFINE v == [w EXCEPT !.pc = pc]
      <3>1. req'[r] = v /\ QueueInv' /\ \A q \in Requests \ {r} : req'[q] = req[q]
        BY <1>0, <1>b, <2>2, OneChanges
      <3>2. RequestOK(v) /\ ~HasRows(v) /\ (HasCount(v) => HasCount(w) /\ CountOf(v) = CountOf(w))
            /\ (Versioned(v) => /\ Versioned(w) /\ v.version = w.version
                                /\ v.scope = w.scope /\ v.seen = w.seen)
        BY <1>0, <2>2 DEF RequestOK, HasRows, HasCount, CountOf, Versioned, Request
      <3> HIDE DEF v
      <3>3. QED
        BY <1>b, <3>1, <3>2, ResultsAre, RequestKeeps
    <2>3. QED
      BY <1>b, <2>1, <2>2
  <1>2. CASE Start(r)
    <2>1. PICK path \in Paths, scope \in Scopes \cup {{}} :
            req' = [req EXCEPT ![r] = [NoReq EXCEPT !.path = path, !.pc = "started",
                                                   !.scope = scope, !.seen = In(scope, recorded)]]
      BY <1>2 DEF Start
    <2> DEFINE v == [NoReq EXCEPT !.path = path, !.pc = "started", !.scope = scope,
                                  !.seen = In(scope, recorded)]
    <2>2. UNCHANGED <<loads, cache, counts, queue>> /\ w.pc = "idle"
      BY <1>2 DEF Start, limits, Idle
    <2>3. req'[r] = v /\ QueueInv' /\ \A q \in Requests \ {r} : req'[q] = req[q]
      BY <1>0, <2>1, <2>2, OneChanges
    <2>4. scope \subseteq Tables
      BY QueryAssumption DEF QueryAssumption
    <2>5. \A t \in scope : v.seen[t] <= recorded[t]
      BY <1>1, <2>4 DEF In, NoReq
    <2>6. RequestOK(v) /\ ~HasRows(v) /\ ~HasCount(v) /\ ~Versioned(v)
      BY <1>1, <2>5 DEF RequestOK, HasRows, HasCount, Versioned, NoReq
    <2> HIDE DEF v
    <2>7. QED
      BY <2>2, <2>3, <2>6, ResultsAre, RequestKeeps
  <1>3. CASE ReadVersion(r)
    <2>1. PICK t \in Latest(w.scope) :
            req' = [req EXCEPT ![r] = [w EXCEPT !.pc = "versioned", !.version = stamp[t]]]
      BY <1>3 DEF ReadVersion
    <2> DEFINE v == [w EXCEPT !.pc = "versioned", !.version = stamp[t]]
    <2>2. UNCHANGED <<loads, cache, counts, queue>> /\ w.pc = "started"
      BY <1>3 DEF ReadVersion, limits
    <2>3. req'[r] = v /\ QueueInv' /\ \A q \in Requests \ {r} : req'[q] = req[q]
      BY <1>0, <2>1, <2>2, OneChanges
    <2>4. t \in Tables /\ \A other \in w.scope : stamp[other] <= stamp[t]
      BY RequestParts DEF Latest
    <2>5. stamp[t] < clock
      BY <2>4 DEF IInv, TableInv
    <2>6. RequestOK(v) /\ ~HasRows(v) /\ ~HasCount(v) /\ \A other \in v.scope : stamp[other] <= v.version
      <3>1. /\ v.pc = "versioned" /\ v.version = stamp[t] /\ v.path = w.path /\ v.scope = w.scope
            /\ v.seen = w.seen /\ v.counted = w.counted
        BY <1>0 DEF Request
      <3>2. w.path # "stream"
        BY <1>3 DEF ReadVersion
      <3> HIDE DEF v
      <3>3. QED
        BY <1>0, <2>2, <2>4, <2>5, <3>1, <3>2 DEF RequestOK, HasRows, HasCount
    <2> HIDE DEF v
    <2>7. QED
      BY <2>2, <2>3, <2>6, ResultsAre, RequestKeeps
  <1>4. CASE Hit(r)
    <2>1. PICK e \in Found(r) :
            req' = [req EXCEPT ![r] = [w EXCEPT !.pc = "answered", !.rows = e.rows, !.count = e.count]]
      BY <1>4 DEF Hit
    <2> DEFINE v == [w EXCEPT !.pc = "answered", !.rows = e.rows, !.count = e.count]
    <2>2. UNCHANGED <<loads, cache, counts, queue>> /\ w.pc = "versioned"
      BY <1>4 DEF Hit, limits
    <2>3. req'[r] = v /\ QueueInv' /\ \A q \in Requests \ {r} : req'[q] = req[q]
      BY <1>0, <2>1, <2>2, OneChanges
    <2>4. e \in cache /\ e.path = w.path /\ e.scope = w.scope /\ e.version = w.version
      BY DEF Found
    <2>5. RowsOf(v) = RowsOf(e) /\ CountOf(v) = CountOf(e)
      BY <1>0, <2>4 DEF RowsOf, CountOf, Request
    <2>6. RequestOK(v) /\ Versioned(v) /\ Versioned(w)
          /\ v.version = w.version /\ v.scope = w.scope /\ v.seen = w.seen
      BY <1>0, <2>2 DEF RequestOK, Versioned, Request
    <2> HIDE DEF v
    <2>7. QED
      BY <2>2, <2>3, <2>4, <2>5, <2>6, ResultsAre, RequestKeeps
  <1>5. CASE Answered(r)
    BY <1>5, <1>b DEF Answered, Leave, limits
  <1>6. CASE Miss(r)
    BY <1>6, <1>b DEF Miss, At, Acquire, Goto, Leave
  <1>7. CASE Execute(r)
    <2> DEFINE read == In(w.scope, rows)
               v == [w EXCEPT !.pc = "executed", !.rows = read, !.count = read]
    <2>1. /\ req' = [req EXCEPT ![r] = v] /\ UNCHANGED <<loads, cache, counts, queue>>
          /\ w.pc = "running" /\ w.path = "query"
      BY <1>7 DEF Execute, At, limits
    <2>2. req'[r] = v /\ QueueInv' /\ \A q \in Requests \ {r} : req'[q] = req[q]
      BY <1>0, <2>1, OneChanges
    <2>3. RequestOK(v) /\ Versioned(w) /\ v.rows = In(v.scope, rows) /\ v.count = In(v.scope, rows)
          /\ v.version = w.version /\ v.scope = w.scope /\ v.seen = w.seen
      BY <1>0, <2>1 DEF RequestOK, Versioned, Request
    <2> HIDE DEF v
    <2>4. QED
      BY <2>1, <2>2, <2>3, ResultsAre, RequestKeeps
  <1>8. CASE Finish(r)
    <2> DEFINE v == [w EXCEPT !.pc = "answered"]
    <2>1. /\ req' = [req EXCEPT ![r] = v] /\ UNCHANGED <<loads, counts, queue>>
          /\ w.pc = "executed" /\ w.path = "query"
      BY <1>8 DEF Finish, At, Goto
    <2>2. req'[r] = v /\ QueueInv' /\ \A q \in Requests \ {r} : req'[q] = req[q]
      BY <1>0, <2>1, OneChanges
    <2>3. /\ RequestOK(v) /\ Versioned(w) /\ RowsOf(v) = RowsOf(w) /\ CountOf(v) = CountOf(w)
          /\ v.version = w.version /\ v.scope = w.scope /\ v.seen = w.seen
      BY <1>0, <2>1 DEF RequestOK, Versioned, RowsOf, CountOf, Request
    <2>4. HasRows(w) /\ HasCount(w)
      BY <2>1 DEF HasRows, HasCount
    <2>5. \A e \in cache' : RowsOf(e) \in Results /\ CountOf(e) \in Results
      BY <1>8, <2>4, CachedResults, ResultsAre DEF Finish
    <2> HIDE DEF v
    <2>6. QED
      BY <2>1, <2>2, <2>3, <2>4, <2>5, ResultsAre, RequestKeeps
  <1>9. CASE QueryFails(r)
    BY <1>9, <1>b DEF QueryFails, At, Leave
  <1>10. CASE StreamOpen(r)
    BY <1>10, <1>b DEF StreamOpen, At, Acquire, Goto, Leave
  <1>11. CASE StreamEnds(r)
    BY <1>11, <1>b DEF StreamEnds, Leave
  <1>12. CASE StreamCancel(r)
    <2>1. /\ req' = [req EXCEPT ![r] = [w EXCEPT !.pc = "cancelled"]]
          /\ w.path = "stream" /\ w.pc # "waiting" /\ UNCHANGED <<loads, queue>>
          /\ cache' \subseteq cache /\ counts' \subseteq counts
      BY <1>12 DEF StreamCancel, At, Goto
    <2>2. "cancelled" \notin {"executed", "counting", "paged", "answered"}
          /\ "cancelled" \in {"running", "streaming", "cancelled"}
      OBVIOUS
    <2> HIDE DEF w
    <2>3. QED
      BY <1>b, <2>1, <2>2
  <1>13. CASE Enter(r)
    <2> DEFINE pc == IF pages < MaxPages THEN "paging" ELSE "waiting"
               here == [w EXCEPT !.pc = pc]
               v == req'[r]
    <2>1. /\ UNCHANGED loads /\ cache' \subseteq cache /\ counts' \subseteq counts
          /\ w.pc = "versioned" /\ w.path = "odata"
      BY <1>13 DEF Enter, At
    <2>2. \/ req' = [req EXCEPT ![r] = here]
          \/ \E e \in CountFound(r) : req' = [req EXCEPT ![r] = [here EXCEPT !.counted = TRUE, !.count = e.count]]
      BY <1>13 DEF Enter
    <2>3. \A q \in Requests \ {r} : req'[q] = req[q]
      BY <2>2 DEF TypeOK
    <2>4. \/ v = here
          \/ \E e \in CountFound(r) : v = [here EXCEPT !.counted = TRUE, !.count = e.count]
      BY <2>2 DEF TypeOK
    <2>5. /\ v.pc = pc /\ v.path = w.path /\ v.version = w.version /\ v.scope = w.scope /\ v.seen = w.seen
          /\ v.counted => CountOf(v) \in Results
      <3>1. CASE v = here
        BY <1>0, <2>1, <3>1 DEF RequestOK, Request
      <3>2. ASSUME NEW e \in CountFound(r), v = [here EXCEPT !.counted = TRUE, !.count = e.count]
            PROVE  <2>5
        <4>1. v.pc = pc /\ v.path = w.path /\ v.version = w.version /\ v.scope = w.scope
              /\ v.seen = w.seen /\ v.count = e.count
          BY <1>0, <3>2 DEF Request
        <4>2. CountOf(v) = CountOf(e) /\ e \in counts
          BY <4>1 DEF CountOf, CountFound
        <4>3. QED
          BY <4>1, <4>2, ResultsAre
      <3>3. QED
        BY <2>4, <3>1, <3>2
    <2>6. /\ RequestOK(v) /\ ~HasRows(v) /\ (HasCount(v) => CountOf(v) \in Results) /\ Versioned(w)
      BY <1>0, <2>1, <2>5 DEF RequestOK, HasRows, HasCount, Versioned
    <2>7. QueueInv'
      <3>1. \A i \in 1..Len(queue) : queue[i] \in Requests /\ queue[i] # r
        BY <2>1, <1>0 DEF QueueInv, TypeOK
      <3>2. CASE queue' = queue
        BY <3>1, <3>2, <2>3, <1>0 DEF QueueInv
      <3>3. CASE queue' = Append(queue, r) /\ ~(pages < MaxPages)
        <4>1. Len(queue) \in Nat /\ Len(queue') = Len(queue) + 1 /\ queue'[Len(queue) + 1] = r
              /\ \A i \in 1..Len(queue) : queue'[i] = queue[i]
          BY <3>3 DEF TypeOK
        <4>2. \A i \in 1..Len(queue') : i \in 1..Len(queue) \/ i = Len(queue) + 1
          BY <4>1
        <4>3. \A i \in 1..Len(queue) : req'[queue'[i]].pc = "waiting" /\ queue'[i] # r
          BY <1>0, <2>3, <3>1, <4>1 DEF QueueInv
        <4>4. req'[queue'[Len(queue) + 1]].pc = "waiting"
          BY <2>5, <3>3, <4>1
        <4>5. \A i, j \in 1..Len(queue) : queue'[i] = queue'[j] => i = j
          BY <1>0, <4>1 DEF QueueInv
        <4>6. \A i \in 1..Len(queue') : req'[queue'[i]].pc = "waiting"
          BY <4>2, <4>3, <4>4
        <4>7. \A i, j \in 1..Len(queue') : queue'[i] = queue'[j] => i = j
          BY <4>1, <4>2, <4>3, <4>5
        <4>8. QED
          BY <4>6, <4>7 DEF QueueInv
      <3>4. QED
        BY <1>13, <3>2, <3>3 DEF Enter
    <2>8. QED
      <3> HIDE DEF v
      <3>1. v = req'[r]
        BY DEF v
      <3>2. QED
        BY <3>1, <2>1, <2>3, <2>5, <2>6, <2>7, ResultsAre, RequestKeeps
  <1>14. CASE ReadPage(r)
    <2> DEFINE v == [w EXCEPT !.pc = IF w.counted THEN "paged" ELSE "counting", !.rows = In(w.scope, rows)]
    <2>1. /\ req' = [req EXCEPT ![r] = v] /\ UNCHANGED <<loads, cache, counts, queue>>
          /\ w.pc = "paging" /\ w.path = "odata"
      BY <1>14 DEF ReadPage, At, limits
    <2>2. req'[r] = v /\ QueueInv' /\ \A q \in Requests \ {r} : req'[q] = req[q]
      <3> HIDE DEF v
      <3>1. QED
        BY <1>0, <2>1, OneChanges
    <2>3. /\ RequestOK(v) /\ Versioned(w) /\ v.rows = In(v.scope, rows)
          /\ v.version = w.version /\ v.scope = w.scope /\ v.seen = w.seen
      BY <1>0, <2>1 DEF RequestOK, Versioned, Request
    <2>4. HasCount(v) => HasCount(w) /\ CountOf(v) = CountOf(w)
      BY <1>0, <2>1 DEF HasCount, CountOf, Request
    <2> HIDE DEF v
    <2>5. QED
      BY <2>1, <2>2, <2>3, <2>4, ResultsAre, RequestKeeps
  <1>15. CASE ReadCount(r)
    <2> DEFINE v == [w EXCEPT !.pc = IF w.pc = "paging" THEN "paging" ELSE "paged",
                              !.counted = TRUE, !.count = In(w.scope, rows)]
    <2>1. /\ req' = [req EXCEPT ![r] = v] /\ UNCHANGED <<loads, cache, counts, queue>>
          /\ w.pc \in {"paging", "counting"} /\ w.pc # "waiting" /\ w.path = "odata"
      BY <1>15 DEF ReadCount, limits
    <2>2. req'[r] = v /\ QueueInv' /\ \A q \in Requests \ {r} : req'[q] = req[q]
      <3> HIDE DEF v
      <3>1. QED
        BY <1>0, <2>1, OneChanges
    <2>3. /\ RequestOK(v) /\ Versioned(w) /\ v.count = In(v.scope, rows)
          /\ v.version = w.version /\ v.scope = w.scope /\ v.seen = w.seen
      BY <1>0, <2>1 DEF RequestOK, Versioned, Request
    <2>4. HasRows(v) => HasRows(w) /\ RowsOf(v) = RowsOf(w)
      BY <1>0, <2>1 DEF HasRows, RowsOf, Request
    <2> HIDE DEF v
    <2>5. QED
      BY <2>1, <2>2, <2>3, <2>4, ResultsAre, RequestKeeps
  <1>16. CASE PageDone(r)
    <2> DEFINE v == [w EXCEPT !.pc = "answered"]
    <2>1. /\ GiveBack([req EXCEPT ![r] = v]) /\ UNCHANGED loads
          /\ w.pc = "paged" /\ w.path = "odata"
      BY <1>16 DEF PageDone, At
    <2>2. /\ req'[r] = v /\ QueueInv'
          /\ \A q \in Requests \ {r} :
               \/ req'[q] = req[q]
               \/ req[q].pc = "waiting" /\ req'[q] = [req[q] EXCEPT !.pc = "paging"]
      BY <1>0, <2>1, GiveBackWakes
    <2>3. /\ RequestOK(v) /\ Versioned(w) /\ RowsOf(v) = RowsOf(w) /\ CountOf(v) = CountOf(w)
          /\ v.version = w.version /\ v.scope = w.scope /\ v.seen = w.seen
      BY <1>0, <2>1 DEF RequestOK, Versioned, RowsOf, CountOf, Request
    <2>4. HasRows(w) /\ HasCount(w)
      BY <2>1 DEF HasRows, HasCount
    <2>5. \A e \in cache' : RowsOf(e) \in Results /\ CountOf(e) \in Results
      BY <1>16, <2>4, CachedResults DEF PageDone
    <2>6. \A e \in counts' : CountOf(e) \in Results
      <3> DEFINE mine == [scope |-> w.scope, version |-> w.version, count |-> w.count]
      <3>1. \A e \in counts' : e \in counts \/ e = mine
        BY <1>16, KeptIs DEF PageDone
      <3>2. CountOf(mine) = CountOf(w)
        BY DEF CountOf
      <3>3. QED
        BY <3>1, <3>2, <2>4, ResultsAre
    <2> HIDE DEF v
    <2>7. QED
      BY <2>1, <2>2, <2>3, <2>4, <2>5, <2>6, ResultsAre, RequestKeeps
  <1>17. CASE PageFails(r)
    <2>1. /\ GiveBack([req EXCEPT ![r] = NoReq]) /\ UNCHANGED <<loads, cache, counts>>
          /\ w.pc \in {"paging", "counting"}
      BY <1>17 DEF PageFails
    <2>2. /\ req'[r] = NoReq /\ QueueInv'
          /\ \A q \in Requests \ {r} :
               \/ req'[q] = req[q]
               \/ req[q].pc = "waiting" /\ req'[q] = [req[q] EXCEPT !.pc = "paging"]
      BY <1>0, <2>1, GiveBackWakes
    <2>3. QED
      BY <1>a, <2>1, <2>2, ResultsAre, RequestKeeps
  <1>18. QED
    BY <1>2, <1>3, <1>4, <1>5, <1>6, <1>7, <1>8, <1>9, <1>10, <1>11, <1>12, <1>13, <1>14, <1>15,
       <1>16, <1>17

LEMMA InvStep == TypeOK /\ IInv /\ [Next]_vars => IInv'
  <1> SUFFICES ASSUME TypeOK, IInv, [Next]_vars
               PROVE  IInv'
    OBVIOUS
  <1>0. TypeOK'
    BY TypeStep
  <1>1. CASE UNCHANGED vars
    BY <1>1 DEF vars, IInv, TableInv, RequestInv, RequestOK, QueueInv, ResultInv, Results, RowsOf,
       CountOf, HasRows, HasCount, Has, HasComing, HasSeen, Versioned
  <1>2. CASE Next
    BY <1>0, <1>2, LoadStep, RequestStep DEF Next
  <1>3. QED
    BY <1>1, <1>2

LEMMA Invariant == Spec => [](TypeOK /\ IInv)
  BY InitType, InitInv, TypeStep, InvStep, PTL DEF Spec

\* No answer is older than the catalog was when its request began, whatever the
\* caches, the loads under way and the other requests do.
THEOREM NeverStale == Spec => []AnswersFresh
  <1>1. TypeOK /\ IInv => AnswersFresh
    <2> SUFFICES ASSUME TypeOK, IInv, NEW r \in Requests, req[r].pc = "answered", NEW t \in req[r].scope
                 PROVE  req[r].rows[t] >= req[r].seen[t] /\ req[r].count[t] >= req[r].seen[t]
      BY DEF AnswersFresh
    <2>1. Versioned(req[r])
      BY DEF IInv, RequestInv, RequestOK, Versioned
    <2>2. HasSeen(RowsOf(req[r])) /\ HasSeen(CountOf(req[r]))
      BY ResultsAre DEF IInv, ResultInv, HasRows, HasCount
    <2>3. QED
      BY <2>1, <2>2 DEF HasSeen, RowsOf, CountOf
  <1>2. QED
    BY <1>1, Invariant, PTL

------------------------------------------------------------------------------
(* Slots of queries and places of pages                                     *)

Holding(w) == w.pc \in {"running", "executed", "streaming"}
OnPage(w) == w.pc \in {"paging", "counting", "paged"}

\* Slots and places are counted exactly, and whoever waits is in the queue.
SlotInv ==
  /\ IsFiniteSet(Holders) /\ active = Cardinality(Holders) /\ active <= MaxQueries
  /\ IsFiniteSet(Paging) /\ pages = Cardinality(Paging) /\ pages <= MaxPages
  /\ Waiting # {} => pages = MaxPages
  /\ \A r \in Waiting : \E i \in 1..Len(queue) : queue[i] = r

LEMMA SlotNumbers ==
  ASSUME SlotInv
  PROVE  active \in Nat /\ pages \in Nat /\ MaxQueries \in Nat \ {0} /\ MaxPages \in Nat \ {0}
  BY QueryAssumption, FS_CardinalityType DEF SlotInv

\* A request that neither takes nor gives back anything.
SameClass(r, v) ==
  /\ Holding(v) <=> Holding(req[r])
  /\ OnPage(v) <=> OnPage(req[r])
  /\ v.pc = "waiting" <=> req[r].pc = "waiting"

\* The classes of requests when request r becomes v.
LEMMA ClassesOfOne ==
  ASSUME TypeOK, NEW r \in Requests, NEW v, req' = [req EXCEPT ![r] = v]
  PROVE  /\ (Holding(v) <=> Holding(req[r])) => Holders' = Holders
         /\ Holding(v) /\ ~Holding(req[r]) => Holders' = Holders \cup {r} /\ r \notin Holders
         /\ ~Holding(v) /\ Holding(req[r]) => Holders' = Holders \ {r} /\ r \in Holders
         /\ (OnPage(v) <=> OnPage(req[r])) => Paging' = Paging
         /\ OnPage(v) /\ ~OnPage(req[r]) => Paging' = Paging \cup {r} /\ r \notin Paging
         /\ (v.pc = "waiting" <=> req[r].pc = "waiting") => Waiting' = Waiting
         /\ v.pc = "waiting" => Waiting' = Waiting \cup {r}
  <1>1. req'[r] = v /\ \A q \in Requests \ {r} : req'[q] = req[q]
    BY DEF TypeOK
  <1>2. \A q \in Requests : q # r =>
          /\ Holding(req'[q]) <=> Holding(req[q])
          /\ OnPage(req'[q]) <=> OnPage(req[q])
    BY <1>1
  <1>3. /\ Holders = {q \in Requests : Holding(req[q])}
        /\ Holders' = {q \in Requests : Holding(req'[q])}
        /\ Paging = {q \in Requests : OnPage(req[q])}
        /\ Paging' = {q \in Requests : OnPage(req'[q])}
    BY DEF Holders, Paging, Holding, OnPage
  <1>4. /\ (Holding(v) <=> Holding(req[r])) => Holders' = Holders
        /\ Holding(v) /\ ~Holding(req[r]) => Holders' = Holders \cup {r} /\ r \notin Holders
        /\ ~Holding(v) /\ Holding(req[r]) => Holders' = Holders \ {r} /\ r \in Holders
    BY <1>1, <1>2, <1>3
  <1>5. /\ (OnPage(v) <=> OnPage(req[r])) => Paging' = Paging
        /\ OnPage(v) /\ ~OnPage(req[r]) => Paging' = Paging \cup {r} /\ r \notin Paging
    BY <1>1, <1>2, <1>3
  <1>6. /\ (v.pc = "waiting" <=> req[r].pc = "waiting") => Waiting' = Waiting
        /\ v.pc = "waiting" => Waiting' = Waiting \cup {r}
    BY <1>1 DEF Waiting
  <1>7. QED
    BY <1>4, <1>5, <1>6

LEMMA NothingTaken ==
  ASSUME TypeOK, SlotInv, NEW r \in Requests, NEW v, req' = [req EXCEPT ![r] = v],
         SameClass(r, v), UNCHANGED limits
  PROVE  SlotInv'
  <1>1. Holders' = Holders /\ Paging' = Paging /\ Waiting' = Waiting
    BY ClassesOfOne DEF SameClass
  <1>2. active' = active /\ pages' = pages /\ queue' = queue
    BY DEF limits
  <1>3. QED
    BY <1>1, <1>2 DEF SlotInv

\* A slot is taken below the limit.
LEMMA SlotTaken ==
  ASSUME TypeOK, SlotInv, NEW r \in Requests, NEW v, req' = [req EXCEPT ![r] = v],
         req[r].pc \in {"started", "versioned"}, Holding(v),
         active < MaxQueries, active' = active + 1, UNCHANGED <<pages, queue>>
  PROVE  SlotInv'
  <1>1. /\ Holders' = Holders \cup {r} /\ r \notin Holders
        /\ Paging' = Paging /\ Waiting' = Waiting
    BY ClassesOfOne DEF Holding, OnPage
  <1>2. IsFiniteSet(Holders') /\ Cardinality(Holders') = Cardinality(Holders) + 1
    BY <1>1, FS_AddElement DEF SlotInv
  <1>3. active' = Cardinality(Holders') /\ active' <= MaxQueries
    BY <1>2, SlotNumbers DEF SlotInv
  <1>4. QED
    BY <1>1, <1>2, <1>3 DEF SlotInv

\* A slot is given back by who holds it.
LEMMA SlotReleased ==
  ASSUME TypeOK, SlotInv, NEW r \in Requests, NEW v, req' = [req EXCEPT ![r] = v],
         Holding(req[r]), ~Holding(v), ~OnPage(v), v.pc # "waiting",
         Release, UNCHANGED <<pages, queue>>
  PROVE  SlotInv'
  <1>1. /\ Holders' = Holders \ {r} /\ r \in Holders
        /\ Paging' = Paging /\ Waiting' = Waiting
    BY ClassesOfOne DEF Holding, OnPage
  <1>2. IsFiniteSet(Holders') /\ Cardinality(Holders') = Cardinality(Holders) - 1
    BY <1>1, FS_RemoveElement DEF SlotInv
  <1>3. Cardinality(Holders') \in Nat
    BY <1>2, FS_CardinalityType
  <1>4. active > 0
    BY <1>2, <1>3, SlotNumbers DEF SlotInv
  <1>5. active' = active - 1
    BY <1>4 DEF Release
  <1>6. active' = Cardinality(Holders') /\ active' <= MaxQueries
    BY <1>2, <1>5, SlotNumbers DEF SlotInv
  <1>7. QED
    BY <1>1, <1>2, <1>6 DEF SlotInv

LEMMA PlaceTaken ==
  ASSUME TypeOK, SlotInv, NEW r \in Requests, NEW v, req' = [req EXCEPT ![r] = v],
         req[r].pc = "versioned", OnPage(v),
         pages < MaxPages, pages' = pages + 1, UNCHANGED <<active, queue>>
  PROVE  SlotInv'
  <1>1. /\ Paging' = Paging \cup {r} /\ r \notin Paging
        /\ Holders' = Holders /\ Waiting' = Waiting
    BY ClassesOfOne DEF Holding, OnPage
  <1>2. IsFiniteSet(Paging') /\ Cardinality(Paging') = Cardinality(Paging) + 1
    BY <1>1, FS_AddElement DEF SlotInv
  <1>3. pages' = Cardinality(Paging') /\ pages' <= MaxPages
    BY <1>2, SlotNumbers DEF SlotInv
  <1>4. Waiting = {}
    BY SlotNumbers DEF SlotInv
  <1>5. QED
    BY <1>1, <1>2, <1>3, <1>4 DEF SlotInv

\* Who finds no place goes to the end of the queue.
LEMMA PlaceAwaited ==
  ASSUME TypeOK, SlotInv, NEW r \in Requests, NEW v, req' = [req EXCEPT ![r] = v],
         req[r].pc = "versioned", v.pc = "waiting",
         ~(pages < MaxPages), queue' = Append(queue, r), UNCHANGED <<active, pages>>
  PROVE  SlotInv'
  <1>1. Waiting' = Waiting \cup {r} /\ Holders' = Holders /\ Paging' = Paging
    BY ClassesOfOne DEF Holding, OnPage
  <1>2. pages = MaxPages
    BY SlotNumbers DEF SlotInv
  <1>3. \A q \in Waiting' : \E i \in 1..Len(queue') : queue'[i] = q
    <2>1. /\ Len(queue') = Len(queue) + 1 /\ Len(queue) \in Nat /\ queue'[Len(queue) + 1] = r
          /\ \A i \in 1..Len(queue) : queue'[i] = queue[i]
      BY DEF TypeOK
    <2>2. ASSUME NEW q \in Waiting PROVE \E i \in 1..Len(queue') : queue'[i] = q
      <3>1. PICK i \in 1..Len(queue) : queue[i] = q
        BY <2>2 DEF SlotInv
      <3>2. i \in 1..Len(queue') /\ queue'[i] = q
        BY <2>1, <3>1
      <3>3. QED
        BY <3>2
    <2>3. Len(queue) + 1 \in 1..Len(queue') /\ queue'[Len(queue) + 1] = r
      BY <2>1
    <2>4. QED
      BY <1>1, <2>2, <2>3
  <1>4. QED
    BY <1>1, <1>2, <1>3 DEF SlotInv

\* A place goes to the first that waits, or is free again when nobody does.
LEMMA PlaceGivenBack ==
  ASSUME TypeOK, SlotInv, QueueInv, NEW r \in Requests, OnPage(req[r]), NEW v,
         ~Holding(v), ~OnPage(v), v.pc # "waiting",
         GiveBack([req EXCEPT ![r] = v]), UNCHANGED active
  PROVE  SlotInv'
  <1> DEFINE req2 == [req EXCEPT ![r] = v]
  <1>1. /\ req2[r] = v /\ \A q \in Requests \ {r} : req2[q] = req[q]
        /\ DOMAIN req2 = Requests
    BY DEF TypeOK
  <1>2. /\ r \in Paging /\ r \notin Holders /\ r \notin Waiting
    BY DEF Paging, Holders, Waiting, OnPage
  <1>3. IsFiniteSet(Paging \ {r}) /\ Cardinality(Paging \ {r}) = Cardinality(Paging) - 1
    BY <1>2, FS_RemoveElement DEF SlotInv
  <1> HIDE DEF req2
  <1>4. CASE queue = << >>
    <2>1. pages' = pages - 1 /\ queue' = queue /\ req' = req2
      BY <1>4 DEF GiveBack, Woken, req2
    <2>2. Paging' = Paging \ {r} /\ Holders' = Holders /\ Waiting' = Waiting
      BY <1>1, <1>2, <2>1 DEF Paging, Holders, Waiting, OnPage, Holding
    <2>3. Waiting = {}
      BY <1>4 DEF SlotInv
    <2>4. pages' = Cardinality(Paging') /\ pages' <= MaxPages
      BY <1>3, <2>1, <2>2, SlotNumbers DEF SlotInv
    <2>5. QED
      BY <1>3, <2>1, <2>2, <2>3, <2>4 DEF SlotInv
  <1>5. CASE queue # << >>
    <2> DEFINE h == Head(queue)
    <2>1. h \in Requests /\ h = queue[1] /\ 1 \in 1..Len(queue)
      BY <1>5 DEF TypeOK
    <2>2. h # r /\ req[h].pc = "waiting" /\ req[h] \in Request
      BY <2>1 DEF QueueInv, OnPage, TypeOK
    <2>3. /\ queue' = Tail(queue) /\ pages' = pages
          /\ req' = [req2 EXCEPT ![h] = [req2[h] EXCEPT !.pc = "paging"]]
      BY <1>5 DEF GiveBack, Woken, req2
    <2>4. req'[h].pc = "paging" /\ req'[r] = v /\ \A q \in Requests \ {r, h} : req'[q] = req[q]
      BY <1>1, <2>1, <2>2, <2>3 DEF Request
    <2> HIDE DEF h
    <2>5. h \in Waiting /\ h \notin Paging /\ h \notin Holders
      BY <2>1, <2>2 DEF Waiting, Paging, Holders
    <2>6. /\ Paging' = (Paging \ {r}) \cup {h} /\ Holders' = Holders
          /\ Waiting' = Waiting \ {h}
      BY <1>2, <2>1, <2>4, <2>5 DEF Paging, Holders, Waiting, OnPage, Holding
    <2>7. IsFiniteSet(Paging') /\ Cardinality(Paging') = Cardinality(Paging \ {r}) + 1
      BY <1>3, <2>5, <2>6, FS_AddElement
    <2>8. pages' = Cardinality(Paging')
      BY <1>3, <2>3, <2>7, SlotNumbers DEF SlotInv
    <2>9. pages = MaxPages
      BY <2>5 DEF SlotInv
    <2>10. \A q \in Waiting' : \E i \in 1..Len(queue') : queue'[i] = q
      <3> SUFFICES ASSUME NEW q \in Waiting, q # h
                   PROVE  \E i \in 1..Len(queue') : queue'[i] = q
        BY <2>6
      <3>1. PICK i \in 1..Len(queue) : queue[i] = q
        BY DEF SlotInv
      <3>2. i - 1 \in 1..Len(Tail(queue)) /\ Tail(queue)[i - 1] = queue[i]
        BY <1>5, <2>1, <3>1 DEF TypeOK
      <3>3. QED
        BY <2>3, <3>1, <3>2
    <2>11. QED
      BY <2>3, <2>6, <2>7, <2>8, <2>9, <2>10, SlotNumbers DEF SlotInv
  <1>6. QED
    BY <1>4, <1>5

LEMMA SlotStep ==
  ASSUME TypeOK, IInv, SlotInv, [Next]_vars
  PROVE  SlotInv'
  <1>0. QueueInv /\ \A r \in Requests : req[r] \in Request
    BY DEF IInv, TypeOK
  <1>1. CASE UNCHANGED vars
    BY <1>1 DEF vars, SlotInv, Holders, Paging, Waiting
  <1>2. CASE Tick \/ \E t \in Tables : Swap(t) \/ Stamp(t) \/ Record(t) \/ LoadDies(t)
    <2>1. UNCHANGED <<req, limits>>
      BY <1>2 DEF Tick, Swap, Stamp, Record, LoadDies
    <2>2. QED
      BY <2>1 DEF limits, SlotInv, Holders, Paging, Waiting
  <1>3. ASSUME NEW r \in Requests,
               \/ Start(r) \/ ReadVersion(r) \/ Hit(r) \/ Answered(r)
               \/ Execute(r) \/ ReadPage(r) \/ ReadCount(r)
        PROVE  SlotInv'
    <2> DEFINE w == req[r]
    <2>0. w \in Request /\ UNCHANGED limits
      BY <1>0, <1>3 DEF Start, ReadVersion, Hit, Answered, Execute, ReadPage, ReadCount
    <2>1. PICK v : req' = [req EXCEPT ![r] = v] /\ SameClass(r, v)
      <3>1. CASE Start(r)
        <4>1. PICK path, scope : req' = [req EXCEPT ![r] = [NoReq EXCEPT !.path = path, !.pc = "started",
                                             !.scope = scope, !.seen = In(scope, recorded)]]
          BY <3>1 DEF Start
        <4> DEFINE v == [NoReq EXCEPT !.path = path, !.pc = "started",
                                      !.scope = scope, !.seen = In(scope, recorded)]
        <4>2. v.pc = "started" /\ w.pc = "idle"
          BY <3>1 DEF NoReq, Start, Idle
        <4>3. SameClass(r, v)
          BY <4>2 DEF SameClass, Holding, OnPage
        <4>4. QED
          BY <4>1, <4>3
      <3>2. CASE ReadVersion(r)
        <4>1. PICK t : req' = [req EXCEPT ![r] = [w EXCEPT !.pc = "versioned", !.version = stamp[t]]]
          BY <3>2 DEF ReadVersion
        <4> DEFINE v == [w EXCEPT !.pc = "versioned", !.version = stamp[t]]
        <4>2. v.pc = "versioned" /\ w.pc = "started"
          BY <2>0, <3>2 DEF ReadVersion, Request
        <4>3. SameClass(r, v)
          BY <4>2 DEF SameClass, Holding, OnPage
        <4>4. QED
          BY <4>1, <4>3
      <3>3. CASE Hit(r)
        <4>1. PICK e : req' = [req EXCEPT ![r] = [w EXCEPT !.pc = "answered", !.rows = e.rows, !.count = e.count]]
          BY <3>3 DEF Hit
        <4> DEFINE v == [w EXCEPT !.pc = "answered", !.rows = e.rows, !.count = e.count]
        <4>2. v.pc = "answered" /\ w.pc = "versioned"
          BY <2>0, <3>3 DEF Hit, Request
        <4>3. SameClass(r, v)
          BY <4>2 DEF SameClass, Holding, OnPage
        <4>4. QED
          BY <4>1, <4>3
      <3>4. CASE Answered(r)
        <4>1. req' = [req EXCEPT ![r] = NoReq] /\ w.pc = "answered"
          BY <3>4 DEF Answered, Leave
        <4>2. SameClass(r, NoReq)
          BY <4>1 DEF NoReq, SameClass, Holding, OnPage
        <4>3. QED
          BY <4>1, <4>2
      <3>5. CASE Execute(r)
        <4> DEFINE v == [w EXCEPT !.pc = "executed", !.rows = In(w.scope, rows), !.count = In(w.scope, rows)]
        <4>1. req' = [req EXCEPT ![r] = v] /\ v.pc = "executed" /\ w.pc = "running"
          BY <2>0, <3>5 DEF Execute, At, Request
        <4>2. SameClass(r, v)
          BY <4>1 DEF SameClass, Holding, OnPage
        <4>3. QED
          BY <4>1, <4>2
      <3>6. CASE ReadPage(r)
        <4> DEFINE v == [w EXCEPT !.pc = IF w.counted THEN "paged" ELSE "counting", !.rows = In(w.scope, rows)]
        <4>1. req' = [req EXCEPT ![r] = v] /\ v.pc \in {"paged", "counting"} /\ w.pc = "paging"
          BY <2>0, <3>6 DEF ReadPage, At, Request
        <4>2. SameClass(r, v)
          BY <4>1 DEF SameClass, Holding, OnPage
        <4>3. QED
          BY <4>1, <4>2
      <3>7. CASE ReadCount(r)
        <4> DEFINE v == [w EXCEPT !.pc = IF w.pc = "paging" THEN "paging" ELSE "paged",
                                  !.counted = TRUE, !.count = In(w.scope, rows)]
        <4>1. req' = [req EXCEPT ![r] = v] /\ v.pc \in {"paging", "paged"} /\ w.pc \in {"paging", "counting"}
          BY <2>0, <3>7 DEF ReadCount, Request
        <4>2. SameClass(r, v)
          BY <4>1 DEF SameClass, Holding, OnPage
        <4>3. QED
          BY <4>1, <4>2
      <3>8. QED
        BY <1>3, <3>1, <3>2, <3>3, <3>4, <3>5, <3>6, <3>7
    <2>2. QED
      BY <2>0, <2>1, NothingTaken
  <1>4. ASSUME NEW r \in Requests, NEW pc \in {"running", "streaming"},
               req[r].pc \in {"started", "versioned"}, Acquire(r, pc), UNCHANGED <<pages, queue>>
        PROVE  SlotInv'
    <2>1. CASE active < MaxQueries
      <3> DEFINE v == [req[r] EXCEPT !.pc = pc]
      <3>1. req' = [req EXCEPT ![r] = v] /\ active' = active + 1
        BY <1>4, <2>1 DEF Acquire, Goto
      <3>2. Holding(v)
        BY <1>0 DEF Holding, Request
      <3> HIDE DEF v
      <3>3. QED
        BY <1>4, <2>1, <3>1, <3>2, SlotTaken
    <2>2. CASE ~(active < MaxQueries)
      <3>1. req' = [req EXCEPT ![r] = NoReq] /\ UNCHANGED limits
        BY <1>4, <2>2 DEF Acquire, Leave, limits
      <3>2. SameClass(r, NoReq)
        BY <1>4 DEF SameClass, NoReq, Holding, OnPage
      <3>3. QED
        BY <3>1, <3>2, NothingTaken
    <2>3. QED
      BY <2>1, <2>2
  <1>5. ASSUME NEW r \in Requests, Miss(r) \/ StreamOpen(r) PROVE SlotInv'
    BY <1>4, <1>5 DEF Miss, StreamOpen, At
  <1>6. ASSUME NEW r \in Requests, NEW pc \in {"answered", "cancelled"},
               Holding(req[r]), Release, UNCHANGED <<pages, queue>>, Leave(r) \/ Goto(r, pc)
        PROVE  SlotInv'
    <2>1. CASE Leave(r)
      <3>1. req' = [req EXCEPT ![r] = NoReq]
        BY <2>1 DEF Leave
      <3>2. ~Holding(NoReq) /\ ~OnPage(NoReq) /\ NoReq.pc # "waiting"
        BY DEF NoReq, Holding, OnPage
      <3>3. QED
        BY <1>6, <3>1, <3>2, SlotReleased
    <2>2. CASE Goto(r, pc)
      <3> DEFINE v == [req[r] EXCEPT !.pc = pc]
      <3>1. req' = [req EXCEPT ![r] = v]
        BY <2>2 DEF Goto
      <3>2. ~Holding(v) /\ ~OnPage(v) /\ v.pc # "waiting"
        BY <1>0 DEF Holding, OnPage, Request
      <3> HIDE DEF v
      <3>3. QED
        BY <1>6, <3>1, <3>2, SlotReleased
    <2>3. QED
      BY <1>6, <2>1, <2>2
  <1>7. ASSUME NEW r \in Requests, Finish(r) \/ QueryFails(r) \/ StreamCancel(r) PROVE SlotInv'
    BY <1>6, <1>7 DEF Finish, QueryFails, StreamCancel, At, Holding
  <1>8. ASSUME NEW r \in Requests, StreamEnds(r) PROVE SlotInv'
    <2>1. CASE req[r].pc = "streaming"
      BY <1>6, <1>8, <2>1 DEF StreamEnds, ReleasesAtEnd, Holding
    <2>2. CASE req[r].pc = "cancelled"
      <3>1. req' = [req EXCEPT ![r] = NoReq] /\ UNCHANGED limits
        BY <1>8, <2>2 DEF StreamEnds, ReleasesAtEnd, Leave, limits
      <3>2. SameClass(r, NoReq)
        BY <2>2 DEF SameClass, NoReq, Holding, OnPage
      <3>3. QED
        BY <3>1, <3>2, NothingTaken
    <2>3. QED
      BY <1>8, <2>1, <2>2 DEF StreamEnds
  <1>9. ASSUME NEW r \in Requests, Enter(r) PROVE SlotInv'
    <2>1. req[r].pc = "versioned" /\ req[r] \in Request /\ UNCHANGED active
      BY <1>0, <1>9 DEF Enter, At
    <2>2. PICK v : /\ req' = [req EXCEPT ![r] = v]
                   /\ v.pc = IF pages < MaxPages THEN "paging" ELSE "waiting"
      <3> DEFINE here == [req[r] EXCEPT !.pc = IF pages < MaxPages THEN "paging" ELSE "waiting"]
                 found(e) == [here EXCEPT !.counted = TRUE, !.count = e.count]
      <3>1. here \in Request
        BY <2>1 DEF Request, Pcs
      <3>2. here.pc = IF pages < MaxPages THEN "paging" ELSE "waiting"
        BY <2>1 DEF Request
      <3>3. req' = [req EXCEPT ![r] = here] \/ \E e : req' = [req EXCEPT ![r] = found(e)]
        BY <1>9 DEF Enter
      <3> HIDE DEF here
      <3>4. \A e : found(e).pc = here.pc
        BY <3>1 DEF Request
      <3> HIDE DEF found
      <3>5. QED
        BY <3>2, <3>3, <3>4
    <2>3. CASE pages < MaxPages
      BY <1>9, <2>1, <2>2, <2>3, PlaceTaken DEF Enter, OnPage
    <2>4. CASE ~(pages < MaxPages)
      BY <1>9, <2>1, <2>2, <2>4, PlaceAwaited DEF Enter
    <2>5. QED
      BY <2>3, <2>4
  <1>10. ASSUME NEW r \in Requests, PageDone(r) PROVE SlotInv'
    <2> DEFINE v == [req[r] EXCEPT !.pc = "answered"]
    <2>1. GiveBack([req EXCEPT ![r] = v]) /\ OnPage(req[r]) /\ UNCHANGED active
      BY <1>10 DEF PageDone, At, OnPage
    <2>2. ~Holding(v) /\ ~OnPage(v) /\ v.pc # "waiting"
      BY <1>0 DEF Holding, OnPage, Request
    <2> HIDE DEF v
    <2>3. QED
      BY <1>0, <2>1, <2>2, PlaceGivenBack
  <1>11. ASSUME NEW r \in Requests, PageFails(r) PROVE SlotInv'
    <2>1. GiveBack([req EXCEPT ![r] = NoReq]) /\ OnPage(req[r]) /\ UNCHANGED active
      BY <1>11 DEF PageFails, OnPage
    <2>2. ~Holding(NoReq) /\ ~OnPage(NoReq) /\ NoReq.pc # "waiting"
      BY DEF NoReq, Holding, OnPage
    <2>3. QED
      BY <1>0, <2>1, <2>2, PlaceGivenBack
  <1>12. QED
    BY <1>1, <1>2, <1>3, <1>5, <1>7, <1>8, <1>9, <1>10, <1>11 DEF Next

\* Every slot and every place is held by a request that uses it and is given
\* back once, whatever fails or is cancelled; the limits are never exceeded,
\* and nobody waits for a place that is free.
THEOREM SlotsAreExact == Spec => []SlotsExact
  <1>1. Init => SlotInv
    <2> SUFFICES ASSUME Init PROVE SlotInv
      OBVIOUS
    <2>1. Holders = {} /\ Paging = {} /\ Waiting = {}
      BY DEF Init, Holders, Paging, Waiting, NoReq
    <2>2. IsFiniteSet({}) /\ Cardinality({}) = 0
      BY FS_EmptySet
    <2>3. QED
      BY <2>1, <2>2, QueryAssumption DEF Init, SlotInv
  <1>2. TypeOK /\ IInv /\ SlotInv /\ [Next]_vars => SlotInv'
    BY SlotStep
  <1>3. SlotInv => SlotsExact
    BY DEF SlotInv, SlotsExact
  <1>4. QED
    BY <1>1, <1>2, <1>3, Invariant, PTL DEF Spec

------------------------------------------------------------------------------
(* SinceProtocol: the greatest of some numbers *)

\* A bounded set of numbers has a greatest one: the distances to the bound have a
\* least, since the order of the numbers is well-founded.
LEMMA MaxOfBounded ==
  ASSUME NEW n \in Nat, NEW S \in SUBSET (0..n), S # {}
  PROVE  \E x \in S : \A y \in S : x >= y
<1>. DEFINE T == {n - x : x \in S}
<1>1. T \subseteq Nat /\ T # {}
  <2>1. ASSUME NEW x \in S PROVE n - x \in Nat
    <3>1. x \in 0..n OBVIOUS
    <3>. QED BY <3>1
  <2>. QED BY <2>1
<1>2. PICK t \in T : \A u \in T : ~(<<u, t>> \in OpToRel(<, Nat))
  BY <1>1, NatLessThanWellFounded, WFMin, Zenon
<1>3. ASSUME NEW u \in T, u < t PROVE FALSE
  <2>. HIDE DEF T
  <2>1. u \in Nat /\ t \in Nat BY <1>1
  <2>2. <<u, t>> \in {q \in Nat \X Nat : q[1] < q[2]} BY <1>3, <2>1
  <2>3. <<u, t>> \in OpToRel(<, Nat) BY <2>2 DEF OpToRel
  <2>. QED BY <1>2, <2>3
<1>4. PICK x \in S : t = n - x OBVIOUS
<1>5. ASSUME NEW y \in S PROVE x >= y
  <2>1. n - y \in T OBVIOUS
  <2>2. ~(n - y < n - x) BY <1>3, <1>4, <2>1
  <2>3. x \in 0..n /\ y \in 0..n OBVIOUS
  <2>. QED BY <2>2, <2>3
<1>. QED BY <1>5

LEMMA MaxIsGreatest ==
  ASSUME NEW n \in Nat, NEW S \in SUBSET (0..n), S # {}
  PROVE  Max(S) \in S /\ \A y \in S : Max(S) >= y
<1>1. PICK x \in S : \A y \in S : x >= y BY MaxOfBounded
<1>. QED BY <1>1 DEF Max

LEMMA MaxOfTwo ==
  ASSUME NEW a \in Int, NEW b \in Int
  PROVE  Max({a, b}) = IF a >= b THEN a ELSE b
<1>1. \E x \in {a, b} : \A y \in {a, b} : x >= y OBVIOUS
<1>2. Max({a, b}) \in {a, b} /\ \A y \in {a, b} : Max({a, b}) >= y BY <1>1 DEF Max
<1>. QED BY <1>2

LEMMA MinOfTwo ==
  ASSUME NEW a \in Int, NEW b \in Int
  PROVE  Min({a, b}) = IF a <= b THEN a ELSE b
<1>1. \E x \in {a, b} : \A y \in {a, b} : x <= y OBVIOUS
<1>2. Min({a, b}) \in {a, b} /\ \A y \in {a, b} : Min({a, b}) <= y BY <1>1 DEF Min
<1>. QED BY <1>2

\* A finite set of numbers has a bound: of an enumeration of it, take the least
\* prefix that has none.
LEMMA FiniteIsBounded ==
  ASSUME NEW S \in SUBSET Nat, IsFiniteSet(S)
  PROVE  \E n \in Nat : S \subseteq 0..n
<1>. DEFINE n == Cardinality(S)
<1>1. n \in Nat BY FS_CardinalityType
<1>2. PICK f : f \in Bijection(1..n, S)
  <2>. HIDE DEF n
  <2>1. n = Cardinality(S) BY DEF n
  <2>2. ExistsBijection(1..n, S) BY <2>1, FS_CardinalityType
  <2>. QED BY <2>2 DEF ExistsBijection
<1>3. f \in [1..n -> S] /\ \A s \in S : \E i \in 1..n : f[i] = s
  BY <1>2 DEF Bijection, Injection, Surjection
<1>. DEFINE Bounded(i) == \E b \in Nat : \A j \in 1..i : f[j] <= b
            T == {i \in 0..n : ~Bounded(i)}
<1>. HIDE DEF n
<1>4. SUFFICES T = {}
  <2>1. n \in 0..n BY <1>1
  <2>2. Bounded(n) BY <1>4, <2>1
  <2>3. PICK b \in Nat : \A j \in 1..n : f[j] <= b BY <2>2
  <2>4. ASSUME NEW s \in S PROVE s \in 0..b BY <1>3, <2>3
  <2>. QED BY <2>4
<1>5. SUFFICES ASSUME T # {} PROVE FALSE OBVIOUS
<1>6. T \subseteq Nat BY <1>1
<1>7. PICK t \in T : \A u \in T : ~(<<u, t>> \in OpToRel(<, Nat))
  BY <1>5, <1>6, NatLessThanWellFounded, WFMin, Zenon
<1>8. t \in 0..n /\ ~Bounded(t) BY <1>7
<1>9. t # 0
  <2>1. Bounded(0) OBVIOUS
  <2>. QED BY <1>8, <2>1
<1>10. Bounded(t - 1)
  <2>1. t - 1 \in 0..n /\ t - 1 < t BY <1>1, <1>8, <1>9
  <2>2. <<t - 1, t>> \in {q \in Nat \X Nat : q[1] < q[2]} BY <1>8, <2>1
  <2>3. <<t - 1, t>> \in OpToRel(<, Nat) BY <2>2 DEF OpToRel
  <2>4. t - 1 \notin T BY <1>7, <2>3
  <2>. QED BY <2>1, <2>4
<1>11. PICK b \in Nat : \A j \in 1..(t - 1) : f[j] <= b BY <1>10
<1>12. f[t] \in Nat
  <2>1. t \in 1..n BY <1>1, <1>8, <1>9
  <2>. QED BY <1>3, <2>1
<1>13. \A j \in 1..t : f[j] <= b + f[t]
  <2>1. ASSUME NEW j \in 1..t PROVE f[j] <= b + f[t]
    <3>1. f[j] \in Nat
      <4>1. j \in 1..n BY <1>1, <1>8
      <4>. QED BY <1>3, <4>1
    <3>2. CASE j = t BY <1>12, <3>1, <3>2
    <3>3. CASE j # t
      <4>1. j \in 1..(t - 1) BY <1>1, <1>8, <3>3
      <4>. QED BY <1>11, <1>12, <3>1, <4>1
    <3>. QED BY <3>2, <3>3
  <2>. QED BY <2>1
<1>14. b + f[t] \in Nat BY <1>12
<1>. QED BY <1>8, <1>13, <1>14

------------------------------------------------------------------------------
(* Rows in their order *)

\* The constants, one by one.
LEMMA SinceConstants ==
  /\ Keys \subseteq Nat \ {0} /\ IsFiniteSet(Keys) /\ Keyed \in BOOLEAN /\ DeletesFirst \in BOOLEAN
  /\ Limit \in Nat \ {0} /\ TIE_CAP \in Nat \ {0} /\ REMOVED_CAP \in Nat \ {0} /\ Limit <= TIE_CAP
  /\ Window \in Nat /\ Horizon \in Nat \ {0} /\ Loads \in Nat /\ MaxLoad \in Nat /\ MaxCall \in Nat
BY SinceAssumption

\* The order of rows is a strict and total one.
LEMMA BeforeIsOrder ==
  ASSUME NEW f \in Nat \X Nat, NEW g \in Nat \X Nat
  PROVE  /\ Before(f, g) => ~Before(g, f) /\ f # g
         /\ Before(f, g) \/ f = g \/ Before(g, f)
         /\ \A h \in Nat \X Nat : Before(f, g) /\ Before(g, h) => Before(f, h)
BY DEF Before

\* What the first n rows are: all of them when they are fewer, and before the others.
LEMMA FirstsFacts ==
  ASSUME NEW R, IsFiniteSet(R), NEW n \in Nat, NEW p \in Firsts(R, n)
  PROVE  /\ p \subseteq R /\ IsFiniteSet(p) /\ Cardinality(p) \in Nat /\ Cardinality(p) <= n
         /\ Cardinality(p) < n => p = R
         /\ \A f \in p, g \in R \ p : Before(f, g)
<1>1. p \in SUBSET R /\ Cardinality(p) = Min({n, Cardinality(R)}) BY DEF Firsts
<1>2. \A f \in p, g \in R \ p : Before(f, g) BY DEF Firsts
<1>3. IsFiniteSet(p) /\ (Cardinality(p) = Cardinality(R) => p = R) BY <1>1, FS_Subset
<1>4. Cardinality(R) \in Nat /\ Cardinality(p) \in Nat BY <1>3, FS_CardinalityType
<1>5. Cardinality(p) = IF n <= Cardinality(R) THEN n ELSE Cardinality(R) BY <1>1, <1>4, MinOfTwo
<1>. QED BY <1>1, <1>2, <1>3, <1>4, <1>5

\* The rows of some keys, with a number for each, are finitely many.
LEMMA RowsAreFinite ==
  ASSUME NEW T \in SUBSET Keys, NEW h
  PROVE  IsFiniteSet({<<k, h[k]>> : k \in T})
<1>. DEFINE f == [k \in T |-> <<k, h[k]>>]
            B == {<<k, h[k]>> : k \in T}
<1>1. IsFiniteSet(T) BY SinceConstants, FS_Subset
<1>2. f \in Surjection(T, B) BY DEF Surjection
<1>. QED BY <1>1, <1>2, FS_Surjection

\* The greatest stamp of a page is one of its stamps.
LEMMA MaxStampIsGreatest ==
  ASSUME NEW p \in SUBSET Stamped, p # {}
  PROVE  /\ MaxStamp(p) = Max(Stamps(p)) /\ MaxStamp(p) \in Time
         /\ \E f \in p : f[2] = MaxStamp(p)
         /\ \A f \in p : f[2] <= MaxStamp(p)
<1>1. Stamps(p) \in SUBSET (0..Horizon) /\ Stamps(p) # {} BY DEF Stamps, Stamped, Time
<1>2. Max(Stamps(p)) \in Stamps(p) /\ \A t \in Stamps(p) : Max(Stamps(p)) >= t
  BY <1>1, SinceConstants, MaxIsGreatest
<1>3. MaxStamp(p) = Max(Stamps(p)) BY DEF MaxStamp
<1>4. MaxStamp(p) \in Time BY <1>1, <1>2, <1>3 DEF Time
<1>5. \E f \in p : f[2] = MaxStamp(p) BY <1>2, <1>3 DEF Stamps
<1>6. ASSUME NEW f \in p PROVE f[2] <= MaxStamp(p)
  <2>1. f[2] \in Stamps(p) BY DEF Stamps
  <2>2. f[2] \in 0..Horizon BY <1>1, <2>1
  <2>3. MaxStamp(p) >= f[2] BY <1>2, <1>3, <2>1
  <2>. QED BY <1>4, <2>2, <2>3 DEF Time
<1>. QED BY <1>3, <1>4, <1>5, <1>6

\* The last row of a page: of the greatest stamp, and among those of the greatest key.
LEMMA LastIsLast ==
  ASSUME NEW p \in SUBSET Stamped, p # {}
  PROVE  Last(p) \in p /\ \A g \in p \ {Last(p)} : Before(g, Last(p))
<1>1. PICK t \in Time : (\E f \in p : f[2] = t) /\ \A f \in p : f[2] <= t
  BY MaxStampIsGreatest
<1>. DEFINE S == {k \in Keys : <<k, t>> \in p}
<1>2. S # {}
  <2>1. PICK f \in p : f[2] = t BY <1>1
  <2>2. f \in Keys \X Time BY DEF Stamped
  <2>3. f = <<f[1], t>> /\ f[1] \in Keys BY <2>1, <2>2
  <2>. QED BY <2>3
<1>3. PICK n \in Nat : Keys \subseteq 0..n
  <2>1. Keys \in SUBSET Nat BY SinceConstants
  <2>. QED BY <2>1, SinceConstants, FiniteIsBounded
<1>4. S \in SUBSET (0..n) BY <1>3
<1>5. PICK m \in S : \A k \in S : m >= k BY <1>2, <1>4, MaxOfBounded
<1>6. <<m, t>> \in p BY <1>5
<1>7. ASSUME NEW g \in p \ {<<m, t>>} PROVE Before(g, <<m, t>>)
  <2>1. g \in Keys \X Time BY DEF Stamped
  <2>2. g[1] \in Nat /\ g[2] \in Nat /\ t \in Nat /\ m \in Nat
    <3>1. m \in Keys /\ g[1] \in Keys /\ g[2] \in Time BY <2>1
    <3>2. Time \subseteq Nat BY SinceConstants DEF Time
    <3>. QED BY <3>1, <3>2, SinceConstants
  <2>3. g[2] <= t BY <1>1
  <2>4. CASE g[2] < t BY <2>4 DEF Before
  <2>5. CASE g[2] = t
    <3>1. g = <<g[1], t>> BY <2>1, <2>5
    <3>2. g[1] \in S BY <2>1, <3>1
    <3>3. m >= g[1] /\ g[1] # m BY <1>5, <3>1, <3>2
    <3>. QED BY <2>2, <2>5, <3>3 DEF Before
  <2>. QED BY <2>2, <2>3, <2>4, <2>5
<1>8. \E f \in p : \A g \in p \ {f} : Before(g, f) BY <1>6, <1>7
<1>. QED BY <1>8 DEF Last

Row(k) == <<k, table[k].stamp>>

\* The page of an answer, cut from the rows that match: nothing left out comes before it.
Cut(page) == page \subseteq Matching /\ \A f \in page, g \in Matching \ page : Before(f, g)

\* The types; the rows kept for the second query are a page.
SinceTypes ==
  /\ SinceTypeOK
  /\ Cardinality(call.rows) <= Limit
  /\ call.pc = "big" => call.rows # {}

LEMMA TimeIsNat == Time \subseteq Nat /\ 0 \in Time /\ 1 \in Nat
BY SinceConstants DEF Time

\* An answer is settled: the request keeps what it has, and waits for the deletions.
LEMMA SettledFields ==
  ASSUME call \in Calls, NEW page, NEW hasMore, NEW next,
         call' = Settled(page, hasMore, next)
  PROVE  /\ call'.pc = "removed" /\ call'.rows = {} /\ call'.page = page
         /\ call'.hasMore = hasMore /\ call'.next = next
         /\ call'.started = Began
         /\ call'.cursor = (IF hasMore /\ Keyed THEN Last(page) ELSE NoCursor)
         /\ call'.since = call.since /\ call'.removedMax = call.removedMax /\ call'.cut = call.cut
         /\ call'.got = call.got /\ call'.occ = call.occ /\ call'.removed = call.removed
         /\ call'.first = call.first
BY DEF Settled, Calls

LEMMA SettledIsRequest ==
  ASSUME call \in Calls, now \in Time, NEW page \in SUBSET Stamped, NEW hasMore \in BOOLEAN,
         NEW next \in Time, hasMore => page # {}, call' = Settled(page, hasMore, next)
  PROVE  call' \in Calls
<1>. DEFINE cursor == IF hasMore /\ Keyed THEN Last(page) ELSE NoCursor
<1>1. cursor \in Stamped \cup {NoCursor} BY LastIsLast
<1>2. Began \in Time BY DEF Calls, Began
<1>3. call' = [call EXCEPT !.pc = "removed", !.rows = {}, !.page = page, !.hasMore = hasMore,
                           !.next = next, !.started = Began, !.cursor = cursor]
  BY DEF Settled
<1>4. /\ "removed" \in {"idle", "rows", "big", "removed", "now", "done", "error"}
      /\ {} \in SUBSET Stamped
  OBVIOUS
<1>. HIDE DEF cursor
<1>5. [call EXCEPT !.pc = "removed", !.rows = {}, !.page = page] \in Calls BY <1>4 DEF Calls
<1>6. \A c \in Calls : [c EXCEPT !.hasMore = hasMore, !.next = next, !.started = Began,
                                  !.cursor = cursor] \in Calls
  BY <1>1, <1>2 DEF Calls
<1>7. call' = [[call EXCEPT !.pc = "removed", !.rows = {}, !.page = page] EXCEPT
                 !.hasMore = hasMore, !.next = next, !.started = Began, !.cursor = cursor]
  BY <1>3 DEF Calls
<1>. QED BY <1>5, <1>6, <1>7

LEMMA SinceTxtFacts ==
  ASSUME call \in Calls
  PROVE  /\ SinceTxt = (IF call.since >= 0 THEN call.since ELSE 0)
         /\ SinceTxt \in Time /\ SinceTxt >= call.since
<1>1. call.since \in Time \cup {-1} BY DEF Calls
<1>2. call.since \in Int
  <2>1. CASE call.since \in Time
    <3>1. call.since \in Nat BY <2>1, TimeIsNat
    <3>. QED BY <3>1
  <2>2. CASE call.since = -1 BY <2>2
  <2>. QED BY <1>1, <2>1, <2>2
<1>3. SinceTxt = IF call.since >= 0 THEN call.since ELSE 0 BY <1>2, MaxOfTwo DEF SinceTxt
<1>. QED BY <1>1, <1>2, <1>3, TimeIsNat

LEMMA MatchingFacts ==
  ASSUME table \in Table, call \in Calls
  PROVE  /\ Matching \in SUBSET Stamped /\ IsFiniteSet(Matching)
         /\ \A f \in Matching :
              /\ f[1] \in Keys /\ f = Row(f[1]) /\ Alive(f[1])
              /\ IF call.cursor = NoCursor THEN f[2] > SinceTxt ELSE Before(call.cursor, f)
         /\ \A k \in Keys :
              Alive(k) /\ (IF call.cursor = NoCursor THEN table[k].stamp > SinceTxt
                           ELSE Before(call.cursor, Row(k)))
                => Row(k) \in Matching
<1>. DEFINE T == {x \in Keys : Alive(x) /\ IF call.cursor = NoCursor THEN table[x].stamp > SinceTxt
                                           ELSE Before(call.cursor, <<x, table[x].stamp>>)}
            h == [k \in Keys |-> table[k].stamp]
<1>1. Matching = {<<k, h[k]>> : k \in T} BY DEF Matching
<1>2. IsFiniteSet(Matching)
  <2>1. T \in SUBSET Keys OBVIOUS
  <2>. HIDE DEF T, h
  <2>. QED BY <1>1, <2>1, RowsAreFinite
<1>3. ASSUME NEW f \in Matching
      PROVE  /\ f \in Stamped /\ f[1] \in Keys /\ f = Row(f[1]) /\ Alive(f[1])
             /\ IF call.cursor = NoCursor THEN f[2] > SinceTxt ELSE Before(call.cursor, f)
  <2>1. PICK k \in T : f = <<k, table[k].stamp>> BY <1>1
  <2>2. table[k].stamp \in Time BY DEF Table
  <2>3. f[1] = k /\ f[2] = table[k].stamp BY <2>1
  <2>. QED BY <2>1, <2>2, <2>3 DEF Row, Stamped
<1>4. ASSUME NEW k \in Keys, Alive(k), IF call.cursor = NoCursor THEN table[k].stamp > SinceTxt
                                         ELSE Before(call.cursor, Row(k))
      PROVE  Row(k) \in Matching
  BY <1>4 DEF Matching, Row
<1>. QED BY <1>2, <1>3, <1>4

\* The first query: all there is, a page with more after it, or a page whose last
\* group of stamps goes on.
LEMMA QueryRowsEffect ==
  ASSUME SinceTypeOK, QueryRows
  PROVE  \E page : \E next \in Time :
           /\ Cut(page) /\ page \in SUBSET Stamped /\ Cardinality(page) <= Limit
           /\ \/ page = Matching /\ call' = Settled(page, FALSE, next)
              \/ page # {} /\ call' = Settled(page, TRUE, next)
              \/ /\ page # {} /\ call.cursor = NoCursor
                 /\ call' = [call EXCEPT !.pc = "big", !.rows = page, !.started = Began]
<1>. DEFINE earlier(p) == Stamps(p) \ {MaxStamp(p)}
            conservative(p) == IF earlier(p) = {} THEN SinceTxt ELSE Max(earlier(p))
<1>1. call \in Calls /\ table \in Table BY DEF SinceTypeOK
<1>2. Matching \in SUBSET Stamped /\ IsFiniteSet(Matching) BY <1>1, MatchingFacts
<1>3. PICK first \in Firsts(Matching, Limit + 1) : \E page \in Firsts(first, Limit) :
        call' = IF first = page THEN Settled(page, FALSE, MaxStamp(page))
                ELSE IF call.cursor # NoCursor
                THEN Settled(page, TRUE, conservative(page))
                ELSE IF MaxStamp(first) # MaxStamp(page)
                THEN Settled(page, TRUE, MaxStamp(page))
                ELSE [call EXCEPT !.pc = "big", !.rows = page, !.started = Began]
  BY DEF QueryRows
<1>4. PICK page \in Firsts(first, Limit) :
        call' = IF first = page THEN Settled(page, FALSE, MaxStamp(page))
                ELSE IF call.cursor # NoCursor
                THEN Settled(page, TRUE, conservative(page))
                ELSE IF MaxStamp(first) # MaxStamp(page)
                THEN Settled(page, TRUE, MaxStamp(page))
                ELSE [call EXCEPT !.pc = "big", !.rows = page, !.started = Began]
  BY <1>3
<1>5. Limit \in Nat /\ Limit + 1 \in Nat /\ Limit >= 1 BY SinceConstants
<1>6. /\ first \subseteq Matching /\ IsFiniteSet(first) /\ Cardinality(first) \in Nat
      /\ Cardinality(first) < Limit + 1 => first = Matching
      /\ \A f \in first, g \in Matching \ first : Before(f, g)
  BY <1>2, <1>5, FirstsFacts
<1>7. /\ page \subseteq first /\ IsFiniteSet(page) /\ Cardinality(page) \in Nat
      /\ Cardinality(page) <= Limit /\ (Cardinality(page) < Limit => page = first)
      /\ \A f \in page, g \in first \ page : Before(f, g)
  BY <1>5, <1>6, FirstsFacts
<1>8. first = page => page = Matching BY <1>5, <1>6, <1>7
<1>9. first # page => page # {} BY <1>5, <1>7, FS_EmptySet
<1>10. Cut(page)
  <2>1. ASSUME NEW f \in page, NEW g \in Matching \ page PROVE Before(f, g)
    <3>1. CASE g \in first BY <1>7, <3>1
    <3>2. CASE g \notin first BY <1>6, <1>7, <3>2
    <3>. QED BY <3>1, <3>2
  <2>. QED BY <1>6, <1>7, <2>1 DEF Cut
<1>11. page \in SUBSET Stamped BY <1>2, <1>6, <1>7
<1>12. MaxStamp(page) \in Time BY <1>1, <1>11, MaxStampIsGreatest, SinceTxtFacts DEF MaxStamp
<1>13. conservative(page) \in Time
  <2>1. earlier(page) \in SUBSET (0..Horizon) BY <1>11 DEF Stamps, Stamped, Time
  <2>2. CASE earlier(page) = {} BY <1>1, <2>2, SinceTxtFacts
  <2>3. CASE earlier(page) # {}
    <3>. HIDE DEF earlier
    <3>1. Max(earlier(page)) \in earlier(page) BY <2>1, <2>3, SinceConstants, MaxIsGreatest
    <3>. QED BY <2>1, <2>3, <3>1 DEF Time
  <2>. QED BY <2>2, <2>3
<1>. HIDE DEF conservative, earlier
<1>14. CASE first = page BY <1>4, <1>7, <1>8, <1>10, <1>11, <1>12, <1>14
<1>15. CASE first # page
  <2>1. CASE call.cursor # NoCursor
    BY <1>4, <1>7, <1>9, <1>10, <1>11, <1>13, <1>15, <2>1
  <2>2. CASE call.cursor = NoCursor
    BY <1>4, <1>7, <1>9, <1>10, <1>11, <1>12, <1>15, <2>2
  <2>. QED BY <2>1, <2>2
<1>. QED BY <1>14, <1>15

\* The second: up to the end of a group, or all there is, or the page of the first,
\* or an error.
LEMMA QueryBigEffect ==
  ASSUME SinceTypeOK, call.rows # {}, QueryBig
  PROVE  \/ call' = [call EXCEPT !.pc = "error"]
         \/ \E next \in Time : call' = Settled(call.rows, TRUE, next)
         \/ \E page : \E next \in Time :
              /\ Cut(page) /\ page \in SUBSET Stamped /\ Cardinality(page) <= TIE_CAP
              /\ \/ page = Matching /\ call' = Settled(page, FALSE, next)
                 \/ page # {} /\ call' = Settled(page, TRUE, next)
<1>. DEFINE others(b) == {f \in b : f[2] # MaxStamp(call.rows)}
            prefix(b) == {f \in b : \A g \in others(b) : Before(f, g)}
<1>1. call \in Calls /\ table \in Table BY DEF SinceTypeOK
<1>2. Matching \in SUBSET Stamped /\ IsFiniteSet(Matching) BY <1>1, MatchingFacts
<1>3. PICK big \in Firsts(Matching, TIE_CAP + 1) :
        call' = IF others(big) = {} /\ Cardinality(big) <= TIE_CAP
                THEN Settled(big, FALSE, MaxStamp(big))
                ELSE IF others(big) = {} THEN Settled(call.rows, TRUE, MaxStamp(call.rows))
                ELSE IF prefix(big) = {} THEN [call EXCEPT !.pc = "error"]
                ELSE Settled(prefix(big), TRUE, MaxStamp(prefix(big)))
  BY DEF QueryBig
<1>4. TIE_CAP \in Nat /\ TIE_CAP + 1 \in Nat BY SinceConstants
<1>5. /\ big \subseteq Matching /\ IsFiniteSet(big) /\ Cardinality(big) \in Nat
      /\ Cardinality(big) <= TIE_CAP + 1
      /\ Cardinality(big) < TIE_CAP + 1 => big = Matching
      /\ \A f \in big, g \in Matching \ big : Before(f, g)
  BY <1>2, <1>4, FirstsFacts
<1>6. \A p \in SUBSET Stamped : MaxStamp(p) \in Time
  BY <1>1, MaxStampIsGreatest, SinceTxtFacts DEF MaxStamp
<1>7. call.rows \in SUBSET Stamped BY <1>1 DEF Calls
<1>8. prefix(big) \subseteq big /\ others(big) \subseteq big OBVIOUS
<1>9. CASE others(big) = {} /\ Cardinality(big) <= TIE_CAP
  <2>1. big = Matching BY <1>4, <1>5, <1>9
  <2>2. Cut(big) BY <1>5 DEF Cut
  <2>3. call' = Settled(big, FALSE, MaxStamp(big)) BY <1>3, <1>9
  <2>4. big \in SUBSET Stamped /\ MaxStamp(big) \in Time BY <1>2, <1>5, <1>6
  <2>. QED BY <1>9, <2>1, <2>2, <2>3, <2>4
<1>10. CASE others(big) = {} /\ ~(Cardinality(big) <= TIE_CAP) BY <1>3, <1>6, <1>7, <1>10
<1>11. CASE others(big) # {} /\ prefix(big) = {} BY <1>3, <1>11
<1>12. CASE others(big) # {} /\ prefix(big) # {}
  <2>1. call' = Settled(prefix(big), TRUE, MaxStamp(prefix(big))) BY <1>3, <1>12
  <2>2. prefix(big) \in SUBSET Stamped BY <1>2, <1>5, <1>8
  <2>3. PICK h \in others(big) : TRUE BY <1>12
  <2>4. \A f \in Stamped : f \in Nat \X Nat BY SinceConstants, TimeIsNat DEF Stamped
  <2>5. h \in big /\ h \notin prefix(big)
    <3>1. h \in Nat \X Nat BY <1>2, <1>5, <1>8, <2>3, <2>4
    <3>2. ~Before(h, h) BY <3>1, BeforeIsOrder
    <3>. QED BY <2>3, <3>2
  <2>6. Cardinality(prefix(big)) <= TIE_CAP
    <3>. HIDE DEF prefix, others
    <3>1. IsFiniteSet(prefix(big)) /\ Cardinality(prefix(big)) <= Cardinality(big)
          /\ (Cardinality(big) = Cardinality(prefix(big)) => prefix(big) = big)
      BY <1>5, <1>8, FS_Subset
    <3>2. Cardinality(prefix(big)) \in Nat BY <3>1, FS_CardinalityType
    <3>. QED BY <1>4, <1>5, <2>5, <3>1, <3>2
  <2>7. ASSUME NEW f \in prefix(big), NEW g \in Matching \ prefix(big) PROVE Before(f, g)
    <3>1. f \in Nat \X Nat /\ g \in Nat \X Nat BY <1>2, <2>2, <2>4
    <3>2. CASE g \notin big BY <1>5, <1>8, <3>2
    <3>3. CASE g \in big
      <4>1. PICK o \in others(big) : ~Before(g, o) BY <3>3
      <4>2. o \in Nat \X Nat BY <1>2, <1>5, <1>8, <2>4
      <4>3. Before(f, o) OBVIOUS
      <4>4. o = g \/ Before(o, g) BY <3>1, <4>1, <4>2, BeforeIsOrder
      <4>. QED BY <3>1, <4>2, <4>3, <4>4, BeforeIsOrder
    <3>. QED BY <3>2, <3>3
  <2>8. Cut(prefix(big)) BY <1>5, <1>8, <2>7 DEF Cut
  <2>9. MaxStamp(prefix(big)) \in Time BY <1>6, <2>2
  <2>. HIDE DEF prefix, others
  <2>. QED BY <1>12, <2>1, <2>2, <2>6, <2>8, <2>9
<1>. QED BY <1>9, <1>10, <1>11, <1>12

\* The deletions: some of those that are due; all of them when the answer is not cut.
LEMMA QueryRemovedEffect ==
  ASSUME SinceTypeOK, QueryRemoved
  PROVE  \/ /\ call.since >= 0 /\ Keyed /\ call.first
            /\ \E removed \in SUBSET Keys : \E removedMax \in Time : \E cut \in BOOLEAN :
                 /\ call' = [call EXCEPT !.pc = "now", !.removed = removed,
                                         !.removedMax = removedMax, !.cut = cut]
                 /\ \A k \in removed : table[k].gone > SinceTxt
                 /\ ~cut => \A k \in Keys : table[k].gone > SinceTxt => k \in removed
                 /\ cut => Cardinality(Keys) > REMOVED_CAP
         \/ /\ ~(call.since >= 0 /\ Keyed /\ call.first)
            /\ call' = [call EXCEPT !.pc = "now", !.removedMax = 0, !.cut = FALSE]
<1>. DEFINE T == {x \in Keys : table[x].gone > SinceTxt}
            h == [k \in Keys |-> table[k].gone]
            gone == {<<k, h[k]>> : k \in T}
<1>1. call \in Calls /\ table \in Table BY DEF SinceTypeOK
<1>2. PICK sent \in Firsts(gone, REMOVED_CAP) :
        call' = IF call.since >= 0 /\ Keyed /\ call.first
                THEN [call EXCEPT !.pc = "now", !.removed = {f[1] : f \in sent},
                        !.removedMax = IF sent = {} THEN 0 ELSE Max(Stamps(sent)),
                        !.cut = Cardinality(gone) > REMOVED_CAP]
                ELSE [call EXCEPT !.pc = "now", !.removedMax = 0, !.cut = FALSE]
  <2>1. gone = {<<k, table[k].gone>> : k \in T} OBVIOUS
  <2>. HIDE DEF gone
  <2>. QED BY <2>1 DEF QueryRemoved
<1>. DEFINE removed == {f[1] : f \in sent}
            removedMax == IF sent = {} THEN 0 ELSE Max(Stamps(sent))
            cut == Cardinality(gone) > REMOVED_CAP
<1>3. IsFiniteSet(gone) /\ REMOVED_CAP \in Nat
  <2>. HIDE DEF T, h
  <2>1. T \in SUBSET Keys BY DEF T
  <2>. QED BY <2>1, RowsAreFinite, SinceConstants
<1>4. /\ sent \subseteq gone /\ Cardinality(sent) \in Nat
      /\ Cardinality(sent) < REMOVED_CAP => sent = gone
      /\ IsFiniteSet(sent) /\ Cardinality(sent) <= REMOVED_CAP
  <2>. HIDE DEF gone
  <2>. QED BY <1>2, <1>3, FirstsFacts
<1>5. ~cut => sent = gone
  <2>. HIDE DEF gone
  <2>1. Cardinality(gone) \in Nat BY <1>3, FS_CardinalityType
  <2>2. Cardinality(sent) = Min({REMOVED_CAP, Cardinality(gone)}) BY <1>2 DEF Firsts
  <2>3. Cardinality(sent) = Cardinality(gone) => sent = gone BY <1>3, <1>4, FS_Subset
  <2>. QED BY <1>3, <2>1, <2>2, <2>3, MinOfTwo
<1>6. ASSUME NEW f \in sent PROVE f[1] \in Keys /\ f[2] = table[f[1]].gone /\ f[2] > SinceTxt /\ f[2] \in Time
  <2>1. PICK k \in T : f = <<k, table[k].gone>> BY <1>4
  <2>2. table[k].gone \in Time BY <1>1 DEF Table
  <2>. QED BY <2>1, <2>2
<1>7. removed \in SUBSET Keys /\ \A k \in removed : table[k].gone > SinceTxt
  <2>. HIDE DEF gone
  <2>1. ASSUME NEW k \in removed PROVE k \in Keys /\ table[k].gone > SinceTxt
    <3>1. PICK f \in sent : k = f[1] OBVIOUS
    <3>. QED BY <1>6, <3>1
  <2>. QED BY <2>1
<1>8. removedMax \in Time
  <2>. HIDE DEF gone
  <2>1. Stamps(sent) \in SUBSET (0..Horizon) BY <1>6 DEF Stamps, Time
  <2>2. CASE sent = {} BY <2>2, TimeIsNat
  <2>3. CASE sent # {}
    <3>1. Stamps(sent) # {} BY <2>3 DEF Stamps
    <3>2. Max(Stamps(sent)) \in Stamps(sent) BY <2>1, <3>1, SinceConstants, MaxIsGreatest
    <3>. QED BY <2>1, <2>3, <3>2 DEF Time
  <2>. QED BY <2>2, <2>3
<1>9. ~cut => \A k \in Keys : table[k].gone > SinceTxt => k \in removed
  <2>1. ASSUME sent = gone, NEW k \in Keys, table[k].gone > SinceTxt PROVE k \in removed
    <3>1. <<k, table[k].gone>> \in sent BY <2>1
    <3>2. <<k, table[k].gone>>[1] = k OBVIOUS
    <3>. QED BY <3>1, <3>2
  <2>. HIDE DEF gone, removed, cut
  <2>. QED BY <1>5, <2>1
<1>10. cut => Cardinality(Keys) > REMOVED_CAP
  <2>. DEFINE d == [f \in gone |-> f[1]]
  <2>1. d \in Injection(gone, Keys)
    <3>1. ASSUME NEW f \in gone PROVE f[1] \in Keys /\ f = <<f[1], table[f[1]].gone>>
      <4>1. PICK k \in T : f = <<k, table[k].gone>> OBVIOUS
      <4>. QED BY <4>1
    <3>. HIDE DEF gone
    <3>2. d \in [gone -> Keys] BY <3>1
    <3>3. ASSUME NEW f \in gone, NEW g \in gone, d[f] = d[g] PROVE f = g
      <4>1. f[1] = g[1] BY <3>3
      <4>. QED BY <3>1, <4>1
    <3>. HIDE DEF d
    <3>. QED BY <3>2, <3>3 DEF Injection, IsInjective
  <2>2. Cardinality(gone) <= Cardinality(Keys)
    <3>. HIDE DEF gone, d
    <3>. QED BY <1>3, <2>1, SinceConstants, FS_Injection
  <2>3. Cardinality(gone) \in Nat /\ Cardinality(Keys) \in Nat
    <3>. HIDE DEF gone
    <3>. QED BY <1>3, SinceConstants, FS_CardinalityType
  <2>. HIDE DEF gone
  <2>. QED BY <1>3, <2>2, <2>3
<1>11. cut \in BOOLEAN OBVIOUS
<1>12. CASE call.since >= 0 /\ Keyed /\ call.first
  <2>1. call' = [call EXCEPT !.pc = "now", !.removed = removed, !.removedMax = removedMax, !.cut = cut]
    BY <1>2, <1>12
  <2>. HIDE DEF removed, removedMax, cut
  <2>. QED BY <1>7, <1>8, <1>9, <1>10, <1>11, <1>12, <2>1
<1>13. CASE ~(call.since >= 0 /\ Keyed /\ call.first) BY <1>2, <1>13
<1>. QED BY <1>12, <1>13

\* No stamp to come is lower: that of the load under way, or the clock.
Floor == IF loading.pc \in {"carried", "stamped"} THEN loading.carried ELSE now

\* The clock and the loads: a load stamps above all there is, and is not too long ago.
StampInv ==
  /\ now >= 1 /\ now - Floor <= MaxLoad /\ Floor <= now /\ Floor >= 1
  /\ loading.pc = "stamped" => loading.carried <= loading.stamped /\ loading.stamped <= now
  /\ \A k \in Keys :
       /\ table[k].stamp <= now /\ table[k].gone \in {0, table[k].stamp}
       /\ loading.pc \in {"carried", "stamped"} => table[k].stamp < loading.carried

\* The swap leaves a row alone, or gives it a stamp of its load.
LEMMA PublishEffect ==
  ASSUME SinceTypeOK, StampInv, Publish
  PROVE  /\ table' \in Table /\ loading' = NotLoading
         /\ \A k \in Keys :
              \/ table'[k] = table[k]
              \/ /\ table'[k].stamp \in {loading.carried, loading.stamped}
                 /\ table'[k].gone \in {0, table'[k].stamp}
         /\ loading.carried = Floor /\ Floor <= loading.stamped
<1>1. loading \in Loading /\ table \in Table BY DEF SinceTypeOK
<1>2. loading.pc = "stamped" /\ loading' = NotLoading BY DEF Publish
<1>3. loading.carried \in Time /\ loading.stamped \in Time /\ 0 \in Time
  BY <1>1, TimeIsNat DEF Loading
<1>4. ASSUME NEW k \in Keys
      PROVE  \/ table'[k] = table[k]
             \/ table'[k] = [stamp |-> loading.carried, gone |-> loading.carried]
             \/ table'[k] = [stamp |-> loading.carried, gone |-> 0]
             \/ table'[k] = [stamp |-> loading.stamped, gone |-> 0]
  <2>1. table'[k] = IF k \notin loading.staged THEN carryPlan(k)
                    ELSE IF Alive(k) /\ k \notin loading.changed THEN table[k]
                    ELSE [stamp |-> loading.stamped, gone |-> 0]
    BY DEF Publish
  <2>2. \/ carryPlan(k) = table[k]
        \/ carryPlan(k) = [stamp |-> loading.carried, gone |-> loading.carried]
        \/ carryPlan(k) = [stamp |-> loading.carried, gone |-> 0]
    <3>1. loading.kind \in {"delta", "keys", "full"} BY <1>1 DEF Loading
    <3>. QED BY <3>1 DEF carryPlan
  <2>. QED BY <2>1, <2>2
<1>5. ASSUME NEW k \in Keys PROVE table'[k] \in [stamp : Time, gone : Time]
  <2>1. table[k] \in [stamp : Time, gone : Time] BY <1>1 DEF Table
  <2>. QED BY <1>3, <1>4, <2>1
<1>6. table' \in Table
  <2>1. table' = [k \in Keys |-> table'[k]] BY DEF Publish
  <2>. QED BY <1>5, <2>1 DEF Table
<1>7. ASSUME NEW k \in Keys
      PROVE  \/ table'[k] = table[k]
             \/ /\ table'[k].stamp \in {loading.carried, loading.stamped}
                /\ table'[k].gone \in {0, table'[k].stamp}
  BY <1>4
<1>8. loading.carried = Floor /\ Floor <= loading.stamped BY <1>2 DEF StampInv, Floor
<1>. QED BY <1>2, <1>6, <1>7, <1>8

\* The next since: what the call asked for at least and, at the end, outside the window.
LEMMA FinalizeFacts ==
  ASSUME SinceTypeOK
  PROVE  /\ finalizeNextSince \in Time /\ finalizeNextSince >= SinceTxt
         /\ ~call.hasMore /\ ~call.cut =>
              finalizeNextSince = SinceTxt \/ finalizeNextSince <= now - Window
<1>1. call \in Calls /\ now \in Time BY DEF SinceTypeOK
<1>2. call.next \in Time /\ call.removedMax \in Time /\ SinceTxt \in Time
  BY <1>1, SinceTxtFacts DEF Calls
<1>3. /\ call.next \in Nat /\ call.removedMax \in Nat /\ SinceTxt \in Nat /\ now \in Nat
      /\ Window \in Nat /\ now - Window \in Int
  <2>1. call.next \in Nat /\ call.removedMax \in Nat /\ SinceTxt \in Nat /\ now \in Nat
    BY <1>1, <1>2, TimeIsNat
  <2>2. Window \in Nat BY SinceConstants
  <2>. QED BY <2>1, <2>2
<1>. DEFINE a == Max({call.next, SinceTxt})
            b == Max({call.next, call.removedMax})
            c == Min({b, now - Window})
            d == Max({SinceTxt, c})
<1>4. a = IF call.next >= SinceTxt THEN call.next ELSE SinceTxt BY <1>3, MaxOfTwo
<1>5. b = IF call.next >= call.removedMax THEN call.next ELSE call.removedMax BY <1>3, MaxOfTwo
<1>6. b \in Time /\ b \in Nat BY <1>2, <1>3, <1>5
<1>7. c = IF b <= now - Window THEN b ELSE now - Window
  <2>. HIDE DEF b
  <2>. QED BY <1>3, <1>6, MinOfTwo
<1>8. c \in Int /\ c <= b /\ c <= now - Window
  <2>. HIDE DEF b, c
  <2>. QED BY <1>3, <1>6, <1>7
<1>9. d = IF SinceTxt >= c THEN SinceTxt ELSE c
  <2>. HIDE DEF c
  <2>. QED BY <1>3, <1>8, MaxOfTwo
<1>10. d \in Time /\ d >= SinceTxt /\ (d = SinceTxt \/ d <= now - Window)
  <2>. HIDE DEF b, c, d
  <2>1. SinceTxt \in 0..Horizon /\ b \in 0..Horizon BY <1>2, <1>6 DEF Time
  <2>2. d \in 0..Horizon BY <1>3, <1>8, <1>9, <2>1, SinceConstants
  <2>. QED BY <1>3, <1>8, <1>9, <2>2 DEF Time
<1>11. a \in Time /\ a >= SinceTxt BY <1>2, <1>3, <1>4
<1>12. finalizeNextSince = IF call.hasMore \/ call.cut THEN a ELSE d BY DEF finalizeNextSince
<1>. HIDE DEF a, d
<1>. QED BY <1>10, <1>11, <1>12

\* An answer arrives.
LEMMA ReceiveEffect ==
  ASSUME SinceTypeOK, Receive
  PROVE  /\ call.pc = "now" /\ call' \in Calls
         /\ call'.got = call.got \cup (call.page \ client.seen)
         /\ call'.occ = call.occ \cup call.page /\ call'.page = {} /\ call'.rows = call.rows
         /\ call'.next = finalizeNextSince /\ call'.removed = call.removed
         /\ call'.started = call.started /\ call'.cursor = call.cursor /\ ~call'.first
         /\ \/ call'.pc = "done" /\ call'.since = call.since
               /\ (call.hasMore => call.cursor = NoCursor)
            \/ /\ call'.pc = "rows" /\ call.hasMore
               /\ call'.since = IF call.cursor = NoCursor THEN finalizeNextSince ELSE call.since
<1>. DEFINE follow == call.hasMore /\ (call.cursor # NoCursor \/ finalizeNextSince # call.since)
            pc == IF follow THEN "rows" ELSE "done"
            since == IF follow /\ call.cursor = NoCursor THEN finalizeNextSince ELSE call.since
            got == call.got \cup (call.page \ client.seen)
            occ == call.occ \cup call.page
<1>1. call \in Calls /\ client \in Client BY DEF SinceTypeOK
<1>2. call' = [call EXCEPT !.got = got, !.occ = occ, !.pc = pc, !.page = {}, !.since = since,
                           !.next = finalizeNextSince, !.hasMore = FALSE, !.removedMax = 0,
                           !.cut = FALSE, !.first = FALSE]
  BY DEF Receive
<1>3. /\ got \in SUBSET Stamped /\ occ \in SUBSET Stamped /\ pc \in {"rows", "done"}
      /\ since \in Time \cup {-1} /\ finalizeNextSince \in Time /\ 0 \in Time
  BY <1>1, FinalizeFacts, TimeIsNat DEF Calls
<1>4. pc = "done" => (call.hasMore => call.cursor = NoCursor) /\ since = call.since OBVIOUS
<1>5. pc = "rows" => call.hasMore /\ since = IF call.cursor = NoCursor THEN finalizeNextSince ELSE call.since
  OBVIOUS
<1>6. call.pc = "now" BY DEF Receive
<1>. HIDE DEF got, occ, pc, since
<1>7. /\ call'.got = got /\ call'.occ = occ /\ call'.pc = pc /\ call'.page = {} /\ call'.since = since
      /\ call'.next = finalizeNextSince /\ ~call'.first /\ call'.removed = call.removed
      /\ call'.started = call.started /\ call'.cursor = call.cursor /\ call'.rows = call.rows
  BY <1>1, <1>2 DEF Calls
<1>8. call' \in Calls BY <1>1, <1>2, <1>3 DEF Calls
<1>. QED BY <1>3, <1>4, <1>5, <1>6, <1>7, <1>8 DEF got, occ

\* What becomes of a row of the copy.
LEMMA AppliedFacts ==
  ASSUME SinceTypeOK, NEW k \in Keys
  PROVE  LET given == {f \in call.got : f[1] = k}
         IN  /\ Applied(k) \in Time
             /\ given = {} => Applied(k) = IF k \in call.removed THEN 0 ELSE client.copy[k]
             /\ given # {} /\ (k \in call.removed => DeletesFirst) =>
                  <<k, Applied(k)>> \in call.got /\ \A f \in given : f[2] <= Applied(k)
             /\ Applied(k) \in {0, client.copy[k]} \/ <<k, Applied(k)>> \in call.got
<1>. DEFINE given == {f \in call.got : f[1] = k}
            versions == {f[2] : f \in given}
<1>1. call \in Calls /\ client \in Client BY DEF SinceTypeOK
<1>2. call.got \in SUBSET Stamped /\ client.copy[k] \in Time BY <1>1 DEF Calls, Client
<1>3. Applied(k) = IF k \in call.removed /\ (versions = {} \/ ~DeletesFirst) THEN 0
                   ELSE IF versions # {} THEN Max(versions) ELSE client.copy[k]
  BY DEF Applied
<1>4. versions = {} <=> given = {} OBVIOUS
<1>5. versions \in SUBSET (0..Horizon) BY <1>2 DEF Stamped, Time
<1>6. ASSUME versions # {}
      PROVE  /\ Max(versions) \in Time /\ <<k, Max(versions)>> \in call.got
             /\ \A f \in given : f[2] <= Max(versions)
  <2>1. Max(versions) \in versions /\ \A y \in versions : Max(versions) >= y
    <3>. HIDE DEF versions
    <3>. QED BY <1>5, <1>6, SinceConstants, MaxIsGreatest
  <2>2. PICK f \in given : Max(versions) = f[2] BY <2>1
  <2>3. f = <<k, Max(versions)>>
    <3>1. f \in Keys \X Time /\ f[1] = k BY <1>2 DEF Stamped
    <3>. QED BY <2>2, <3>1
  <2>4. ASSUME NEW g \in given PROVE g[2] <= Max(versions)
    <3>1. g[2] \in versions OBVIOUS
    <3>2. Max(versions) \in 0..Horizon /\ g[2] \in 0..Horizon
      <4>. HIDE DEF versions
      <4>. QED BY <1>5, <2>1, <3>1
    <3>3. Max(versions) >= g[2] BY <2>1, <3>1
    <3>. HIDE DEF versions
    <3>. QED BY <3>2, <3>3
  <2>5. Max(versions) \in Time
    <3>. HIDE DEF versions
    <3>. QED BY <1>5, <2>1 DEF Time
  <2>. QED BY <2>2, <2>3, <2>4, <2>5
<1>. HIDE DEF versions
<1>7. Applied(k) \in Time BY <1>2, <1>3, <1>6, TimeIsNat
<1>8. given = {} => Applied(k) = IF k \in call.removed THEN 0 ELSE client.copy[k] BY <1>3, <1>4
<1>9. given # {} /\ (k \in call.removed => DeletesFirst) =>
        <<k, Applied(k)>> \in call.got /\ \A f \in given : f[2] <= Applied(k)
  BY <1>3, <1>4, <1>6
<1>10. Applied(k) \in {0, client.copy[k]} \/ <<k, Applied(k)>> \in call.got BY <1>3, <1>6
<1>. QED BY <1>7, <1>8, <1>9, <1>10

LEMMA ApplyEffect ==
  ASSUME SinceTypeOK, Apply
  PROVE  /\ call.pc = "done" /\ call' = NoCall /\ client' \in Client
         /\ client'.since = call.next /\ client'.seen = Remembered(call.next)
         /\ client'.copy = [k \in Keys |-> Applied(k)]
<1>. DEFINE copy == [k \in Keys |-> Applied(k)]
<1>1. client \in Client /\ call \in Calls BY DEF SinceTypeOK
<1>2. client' = [client EXCEPT !.since = call.next, !.copy = copy, !.seen = Remembered(call.next)]
  BY DEF Apply
<1>3. copy \in [Keys -> Time] BY AppliedFacts
<1>4. call.next \in Time \cup {-1} /\ Remembered(call.next) \in SUBSET Stamped
  BY <1>1 DEF Calls, Client, Remembered
<1>5. call.pc = "done" /\ call' = NoCall BY DEF Apply
<1>6. client'.since = call.next /\ client'.seen = Remembered(call.next) /\ client'.copy = copy
  <2>. HIDE DEF copy
  <2>. QED BY <1>1, <1>2 DEF Client
<1>7. client' \in Client
  <2>. HIDE DEF copy
  <2>. QED BY <1>1, <1>2, <1>3, <1>4 DEF Client
<1>. QED BY <1>5, <1>6, <1>7

------------------------------------------------------------------------------
(* Types *)

LEMMA BeganIsTime == ASSUME SinceTypeOK PROVE Began \in Time
BY DEF SinceTypeOK, Calls, Began

LEMMA PagesAreFinite ==
  ASSUME NEW p \in SUBSET Stamped PROVE IsFiniteSet(p) /\ Cardinality(p) \in Nat
<1>1. 0 \in Int /\ Horizon \in Int BY SinceConstants
<1>2. IsFiniteSet(Time) BY <1>1, FS_Interval DEF Time
<1>3. IsFiniteSet(Stamped) BY <1>2, SinceConstants, FS_Product DEF Stamped
<1>. QED BY <1>3, FS_Subset, FS_CardinalityType

LEMMA NoCallIsRequest ==
  NoCall \in Calls /\ NotLoading \in Loading /\ Cardinality({}) = 0
<1>1. 0 \in Time BY TimeIsNat
<1>2. NoCall \in Calls BY <1>1 DEF NoCall, Calls
<1>3. NotLoading \in Loading BY <1>1 DEF NotLoading, Loading
<1>. QED BY <1>2, <1>3, FS_EmptySet

LEMMA TypesLoad ==
  ASSUME SinceTypes, LoadBegin \/ LoadCarry \/ LoadStamp \/ Elapse PROVE SinceTypes'
<1>1. /\ now \in Time /\ table \in Table /\ loading \in Loading /\ client \in Client
      /\ call \in Calls
  BY DEF SinceTypes, SinceTypeOK
<1>2. call' = call /\ table' = table BY DEF LoadBegin, LoadCarry, LoadStamp, Elapse
<1>3. CASE LoadBegin
  <2>1. PICK kind \in {"delta", "keys", "full"}, s \in SUBSET Keys, ks \in SUBSET Keys :
          \E changed \in SUBSET {k \in s : Alive(k)} :
            loading' = [NotLoading EXCEPT !.pc = "keys", !.kind = kind, !.staged = s, !.keys = ks,
                                          !.changed = changed, !.before = now]
    BY <1>3 DEF LoadBegin
  <2>2. PICK changed \in SUBSET {k \in s : Alive(k)} :
          loading' = [NotLoading EXCEPT !.pc = "keys", !.kind = kind, !.staged = s, !.keys = ks,
                                        !.changed = changed, !.before = now]
    BY <2>1
  <2>3. changed \in SUBSET Keys OBVIOUS
  <2>4. loading' \in Loading BY <1>1, <2>2, <2>3, NoCallIsRequest DEF Loading
  <2>5. client.loads + 1 \in 0..Loads
    <3>1. client.loads \in 0..Loads BY <1>1 DEF Client
    <3>2. client.loads < Loads BY <1>3 DEF LoadBegin
    <3>. QED BY <3>1, <3>2, SinceConstants
  <2>6. client' = [client EXCEPT !.loads = client.loads + 1] /\ now' = now BY <1>3 DEF LoadBegin
  <2>7. client' \in Client BY <1>1, <2>5, <2>6 DEF Client
  <2>. QED BY <1>1, <1>2, <2>4, <2>6, <2>7 DEF SinceTypes, SinceTypeOK
<1>4. CASE LoadCarry
  <2>1. loading' = [loading EXCEPT !.pc = "carried", !.carried = now] /\ now' = now /\ client' = client
    BY <1>4 DEF LoadCarry
  <2>2. loading' \in Loading BY <1>1, <2>1 DEF Loading
  <2>. QED BY <1>1, <1>2, <2>1, <2>2 DEF SinceTypes, SinceTypeOK
<1>5. CASE LoadStamp
  <2>1. loading' = [loading EXCEPT !.pc = "stamped", !.stamped = now] /\ now' = now /\ client' = client
    BY <1>5 DEF LoadStamp
  <2>2. loading' \in Loading BY <1>1, <2>1 DEF Loading
  <2>. QED BY <1>1, <1>2, <2>1, <2>2 DEF SinceTypes, SinceTypeOK
<1>6. CASE Elapse
  <2>1. now' = now + 1 /\ now < Horizon /\ loading' = loading /\ client' = client BY <1>6 DEF Elapse
  <2>2. now' \in Time BY <1>1, <2>1, SinceConstants DEF Time
  <2>. QED BY <1>1, <1>2, <2>1, <2>2 DEF SinceTypes, SinceTypeOK
<1>. QED BY <1>3, <1>4, <1>5, <1>6

LEMMA TypesPublish ==
  ASSUME SinceTypes, StampInv, Publish PROVE SinceTypes'
<1>1. now' = now /\ client' = client /\ call' = call BY DEF Publish
<1>2. table' \in Table /\ loading' = NotLoading BY PublishEffect DEF SinceTypes
<1>3. loading' \in Loading BY <1>2, NoCallIsRequest
<1>. QED BY <1>1, <1>2, <1>3 DEF SinceTypes, SinceTypeOK

\* An answer is settled with a page that is not too long.
LEMMA TypesSettled ==
  ASSUME SinceTypes, UNCHANGED <<now, table, loading, client>>,
         NEW page \in SUBSET Stamped, NEW hasMore \in BOOLEAN, NEW next \in Time,
         hasMore => page # {}, Cardinality(page) <= TIE_CAP,
         call' = Settled(page, hasMore, next)
  PROVE  SinceTypes'
<1>1. call \in Calls /\ now \in Time BY DEF SinceTypes, SinceTypeOK
<1>2. call' \in Calls BY <1>1, SettledIsRequest
<1>3. call'.pc = "removed" /\ call'.rows = {} /\ call'.page = page BY <1>1, SettledFields
<1>4. Cardinality(call'.rows) <= Limit BY <1>3, NoCallIsRequest, SinceConstants
<1>. QED BY <1>2, <1>3, <1>4 DEF SinceTypes, SinceTypeOK

LEMMA TypesQueryRows ==
  ASSUME SinceTypes, QueryRows PROVE SinceTypes'
<1>1. call \in Calls /\ now \in Time BY DEF SinceTypes, SinceTypeOK
<1>2. UNCHANGED <<now, table, loading, client>> BY DEF QueryRows
<1>3. PICK page : \E next \in Time :
        /\ page \in SUBSET Stamped /\ Cardinality(page) <= Limit
        /\ \/ call' = Settled(page, FALSE, next)
           \/ page # {} /\ call' = Settled(page, TRUE, next)
           \/ page # {} /\ call' = [call EXCEPT !.pc = "big", !.rows = page, !.started = Began]
  BY QueryRowsEffect DEF SinceTypes
<1>4. PICK next \in Time :
        /\ page \in SUBSET Stamped /\ Cardinality(page) <= Limit
        /\ \/ call' = Settled(page, FALSE, next)
           \/ page # {} /\ call' = Settled(page, TRUE, next)
           \/ page # {} /\ call' = [call EXCEPT !.pc = "big", !.rows = page, !.started = Began]
  BY <1>3
<1>5. Cardinality(page) <= TIE_CAP
  <2>1. Cardinality(page) \in Nat BY <1>4, PagesAreFinite
  <2>. QED BY <1>4, <2>1, SinceConstants
<1>6. CASE call' = Settled(page, FALSE, next) BY <1>2, <1>4, <1>5, <1>6, TypesSettled
<1>7. CASE page # {} /\ call' = Settled(page, TRUE, next) BY <1>2, <1>4, <1>5, <1>7, TypesSettled
<1>8. CASE page # {} /\ call' = [call EXCEPT !.pc = "big", !.rows = page, !.started = Began]
  <2>1. call' \in Calls BY <1>1, <1>4, <1>8, BeganIsTime DEF Calls, SinceTypes
  <2>2. call'.rows = page /\ call'.page = call.page BY <1>1, <1>8 DEF Calls
  <2>. QED BY <1>2, <1>4, <1>8, <2>1, <2>2 DEF SinceTypes, SinceTypeOK
<1>. QED BY <1>4, <1>6, <1>7, <1>8

LEMMA TypesQueryBig ==
  ASSUME SinceTypes, QueryBig PROVE SinceTypes'
<1>1. call \in Calls /\ now \in Time /\ Cardinality(call.rows) <= Limit
  BY DEF SinceTypes, SinceTypeOK
<1>2. call.pc = "big" /\ call.rows # {} /\ UNCHANGED <<now, table, loading, client>>
  BY DEF QueryBig, SinceTypes
<1>3. \/ call' = [call EXCEPT !.pc = "error"]
      \/ \E next \in Time : call' = Settled(call.rows, TRUE, next)
      \/ \E page : \E next \in Time :
           /\ page \in SUBSET Stamped /\ Cardinality(page) <= TIE_CAP
           /\ \/ call' = Settled(page, FALSE, next)
              \/ page # {} /\ call' = Settled(page, TRUE, next)
  BY <1>2, QueryBigEffect DEF SinceTypes
<1>4. CASE call' = [call EXCEPT !.pc = "error"]
  <2>1. call' \in Calls /\ call'.pc = "error" /\ call'.rows = call.rows /\ call'.page = call.page
    BY <1>1, <1>4 DEF Calls
  <2>. QED BY <1>1, <1>2, <2>1 DEF SinceTypes, SinceTypeOK
<1>5. ASSUME NEW next \in Time, call' = Settled(call.rows, TRUE, next) PROVE SinceTypes'
  <2>1. call.rows \in SUBSET Stamped BY <1>1 DEF Calls
  <2>2. Cardinality(call.rows) \in Nat BY <2>1, PagesAreFinite
  <2>3. Cardinality(call.rows) <= TIE_CAP BY <1>1, <2>2, SinceConstants
  <2>. QED BY <1>2, <1>5, <2>1, <2>3, TypesSettled
<1>6. ASSUME NEW page \in SUBSET Stamped, NEW next \in Time, Cardinality(page) <= TIE_CAP,
             \/ call' = Settled(page, FALSE, next)
             \/ page # {} /\ call' = Settled(page, TRUE, next)
      PROVE  SinceTypes'
  BY <1>2, <1>6, TypesSettled
<1>. QED BY <1>3, <1>4, <1>5, <1>6

LEMMA TypesCall ==
  ASSUME SinceTypes, QueryRemoved \/ Call \/ Receive \/ Apply \/ Fails PROVE SinceTypes'
<1>1. /\ call \in Calls /\ client \in Client /\ now \in Time /\ table \in Table
      /\ loading \in Loading /\ Cardinality(call.page) <= TIE_CAP /\ Cardinality(call.rows) <= Limit
  BY DEF SinceTypes, SinceTypeOK
<1>2. UNCHANGED <<now, table, loading>> BY DEF QueryRemoved, Call, Receive, Apply, Fails
<1>3. 0 <= TIE_CAP /\ 0 <= Limit BY SinceConstants
<1>4. CASE QueryRemoved
  <2>1. \/ \E removed \in SUBSET Keys : \E removedMax \in Time : \E cut \in BOOLEAN :
             call' = [call EXCEPT !.pc = "now", !.removed = removed,
                                  !.removedMax = removedMax, !.cut = cut]
        \/ call' = [call EXCEPT !.pc = "now", !.removedMax = 0, !.cut = FALSE]
    BY <1>4, QueryRemovedEffect DEF SinceTypes
  <2>2. /\ call' \in Calls /\ call'.pc = "now" /\ call'.rows = call.rows
        /\ call'.page = call.page
    <3>1. ASSUME NEW removed \in SUBSET Keys, NEW removedMax \in Time, NEW cut \in BOOLEAN,
                 call' = [call EXCEPT !.pc = "now", !.removed = removed,
                                      !.removedMax = removedMax, !.cut = cut]
          PROVE  /\ call' \in Calls /\ call'.pc = "now" /\ call'.rows = call.rows
                 /\ call'.page = call.page
      BY <1>1, <3>1 DEF Calls
    <3>2. ASSUME call' = [call EXCEPT !.pc = "now", !.removedMax = 0, !.cut = FALSE]
          PROVE  /\ call' \in Calls /\ call'.pc = "now" /\ call'.rows = call.rows
                 /\ call'.page = call.page
      BY <1>1, <3>2, TimeIsNat DEF Calls
    <3>. QED BY <2>1, <3>1, <3>2
  <2>3. client' = client BY <1>4 DEF QueryRemoved
  <2>. QED BY <1>1, <1>2, <2>2, <2>3 DEF SinceTypes, SinceTypeOK
<1>5. CASE Call
  <2>1. call' = [NoCall EXCEPT !.pc = "rows", !.since = client.since] /\ client' = client
    BY <1>5 DEF Call
  <2>2. client.since \in Time \cup {-1} BY <1>1 DEF Client
  <2>3. call' \in Calls BY <2>1, <2>2, NoCallIsRequest DEF Calls
  <2>4. call'.pc = "rows" /\ call'.rows = {} /\ call'.page = {} BY <2>1 DEF NoCall
  <2>. QED BY <1>1, <1>2, <1>3, <2>1, <2>3, <2>4, NoCallIsRequest DEF SinceTypes, SinceTypeOK
<1>6. CASE Receive
  <2>1. /\ call' \in Calls /\ call'.page = {} /\ call'.rows = call.rows
        /\ call'.pc \in {"rows", "done"}
    BY <1>6, ReceiveEffect DEF SinceTypes
  <2>2. client' = client BY <1>6 DEF Receive
  <2>. QED BY <1>1, <1>2, <1>3, <2>1, <2>2, NoCallIsRequest DEF SinceTypes, SinceTypeOK
<1>7. CASE Apply
  <2>1. call' = NoCall /\ client' \in Client BY <1>7, ApplyEffect DEF SinceTypes
  <2>2. call'.pc = "idle" /\ call'.rows = {} /\ call'.page = {} BY <2>1 DEF NoCall
  <2>. QED BY <1>1, <1>2, <1>3, <2>1, <2>2, NoCallIsRequest DEF SinceTypes, SinceTypeOK
<1>8. CASE Fails
  <2>1. call' = NoCall /\ client' = client BY <1>8 DEF Fails
  <2>2. call'.pc = "idle" /\ call'.rows = {} /\ call'.page = {} BY <2>1 DEF NoCall
  <2>. QED BY <1>1, <1>2, <1>3, <2>1, <2>2, NoCallIsRequest DEF SinceTypes, SinceTypeOK
<1>. QED BY <1>4, <1>5, <1>6, <1>7, <1>8

\* The clock and the loads.
LEMMA StampStep ==
  ASSUME SinceTypes, StampInv, [SinceNext]_sinceVars PROVE StampInv'
<1>1. /\ now \in Nat /\ loading \in Loading /\ loading.carried \in Nat /\ loading.stamped \in Nat
      /\ MaxLoad \in Nat
  BY TimeIsNat, SinceConstants DEF SinceTypes, SinceTypeOK, Loading
<1>2. \A k \in Keys : table[k].stamp \in Nat /\ table[k].gone \in Nat
  BY TimeIsNat DEF SinceTypes, SinceTypeOK, Table
<1>3. CASE LoadBegin
  <2>1. loading'.pc = "keys" /\ loading.pc = "none" /\ now' = now /\ table' = table
    BY <1>3 DEF LoadBegin, NotLoading
  <2>. QED BY <1>1, <1>2, <2>1 DEF StampInv, Floor
<1>4. CASE LoadCarry
  <2>1. /\ loading'.pc = "carried" /\ loading'.carried = now /\ loading.pc = "keys" /\ now' = now
        /\ table' = table /\ \A k \in Keys : table[k].stamp < now
    BY <1>1, <1>4 DEF LoadCarry, Loading
  <2>. QED BY <1>1, <1>2, <2>1 DEF StampInv, Floor
<1>5. CASE LoadStamp
  <2>1. /\ loading'.pc = "stamped" /\ loading'.carried = loading.carried /\ loading'.stamped = now
        /\ loading.pc = "carried" /\ now' = now /\ table' = table
    BY <1>1, <1>5 DEF LoadStamp, Loading
  <2>. QED BY <1>1, <1>2, <2>1 DEF StampInv, Floor
<1>6. CASE Publish
  <2>1. loading'.pc = "none" /\ now' = now BY <1>6, PublishEffect DEF SinceTypes, NotLoading, Publish
  <2>2. loading.carried <= now /\ loading.stamped <= now /\ loading.pc = "stamped"
    BY <1>1, <1>6 DEF Publish, StampInv, Floor
  <2>3. ASSUME NEW k \in Keys PROVE table'[k].stamp <= now /\ table'[k].gone \in {0, table'[k].stamp}
    <3>1. \/ table'[k] = table[k]
          \/ /\ table'[k].stamp \in {loading.carried, loading.stamped}
             /\ table'[k].gone \in {0, table'[k].stamp}
      BY <1>6, PublishEffect DEF SinceTypes
    <3>. QED BY <2>2, <3>1 DEF StampInv
  <2>4. Floor' = now BY <2>1 DEF Floor
  <2>5. loading'.pc \notin {"carried", "stamped"} BY <2>1
  <2>6. now >= 1 BY DEF StampInv
  <2>. QED BY <1>1, <2>1, <2>3, <2>4, <2>5, <2>6 DEF StampInv
<1>7. CASE Elapse
  <2>1. /\ now' = now + 1 /\ loading' = loading /\ table' = table
        /\ loading.pc \in {"carried", "stamped"} => now - loading.carried < MaxLoad
    BY <1>7 DEF Elapse
  <2>. QED BY <1>1, <1>2, <2>1 DEF StampInv, Floor
<1>8. CASE UNCHANGED <<now, table, loading>>
  BY <1>8 DEF StampInv, Floor
<1>9. UNCHANGED <<now, table, loading>> \/ LoadBegin \/ LoadCarry \/ LoadStamp \/ Publish \/ Elapse
  BY DEF SinceNext, Call, QueryRows, QueryBig, QueryRemoved, Receive, Apply, Fails, sinceVars
<1>. QED BY <1>3, <1>4, <1>5, <1>6, <1>7, <1>8, <1>9

LEMMA TypesStep ==
  ASSUME SinceTypes, StampInv, [SinceNext]_sinceVars PROVE SinceTypes'
<1>1. CASE UNCHANGED sinceVars BY <1>1 DEF SinceTypes, SinceTypeOK, sinceVars
<1>2. CASE SinceNext
  BY <1>2, TypesLoad, TypesPublish, TypesQueryRows, TypesQueryBig, TypesCall DEF SinceNext
<1>. QED BY <1>1, <1>2

LEMMA SinceInits == SinceInit => SinceTypes /\ StampInv
<1>. SUFFICES ASSUME SinceInit PROVE SinceTypes /\ StampInv OBVIOUS
<1>1. /\ now = 1 /\ table = [k \in Keys |-> [stamp |-> 0, gone |-> 0]] /\ loading = NotLoading
      /\ client = [since |-> -1, copy |-> [k \in Keys |-> 0], seen |-> {}, loads |-> 0]
      /\ call = NoCall
  BY DEF SinceInit
<1>2. call.rows = {} /\ call.page = {} /\ call.pc = "idle" /\ loading.pc = "none"
  BY <1>1 DEF NoCall, NotLoading
<1>3. 0 <= TIE_CAP /\ 0 <= Limit /\ 0 \in 0..Loads /\ MaxLoad \in Nat BY SinceConstants
<1>4. client \in Client BY <1>1, <1>3, TimeIsNat DEF Client
<1>5. table \in Table BY <1>1, TimeIsNat DEF Table
<1>6. 1 \in Time BY SinceConstants DEF Time
<1>7. SinceTypes
  BY <1>1, <1>2, <1>3, <1>4, <1>5, <1>6, NoCallIsRequest DEF SinceTypes, SinceTypeOK
<1>8. StampInv BY <1>1, <1>2, <1>3 DEF StampInv, Floor
<1>. QED BY <1>7, <1>8

\* The variables keep their types, and a page its bound.
THEOREM SinceTypeCorrect == SinceSpec => []SinceTypeOK
<1>1. SinceInit => SinceTypes /\ StampInv BY SinceInits
<1>2. (SinceTypes /\ StampInv) /\ [SinceNext]_sinceVars => (SinceTypes /\ StampInv)'
  BY TypesStep, StampStep
<1>3. SinceTypes => SinceTypeOK BY DEF SinceTypes
<1>. QED BY <1>1, <1>2, <1>3, PTL DEF SinceSpec

------------------------------------------------------------------------------
(* No version of a row is delivered twice *)

\* What the client has asked for up to now, and the rows a call has been given.
Asked == Max({client.since, 0})
InHand == call.occ \cup call.page \cup call.rows

\* What the client has beyond its since it remembers, and a call reads beyond it.
DeliveryInv ==
  /\ \A k \in Keys : client.copy[k] > Asked => <<k, client.copy[k]>> \in client.seen
  /\ call.pc # "idle" => call.since >= client.since
  /\ \A f \in InHand : f[2] > Asked
  /\ call.cursor # NoCursor => call.cursor[2] > Asked
  /\ call.got \subseteq call.occ
  /\ call.pc = "done" => call.next >= Asked

\* The deletions change nothing else of a request.
LEMMA RemovedFields ==
  ASSUME SinceTypes, QueryRemoved
  PROVE  /\ call'.pc = "now" /\ call'.occ = call.occ /\ call'.page = call.page
         /\ call'.rows = call.rows /\ call'.got = call.got /\ call'.since = call.since
         /\ call'.cursor = call.cursor /\ call'.hasMore = call.hasMore /\ call'.next = call.next
         /\ call'.first = call.first /\ call'.started = call.started
<1>1. call \in Calls BY DEF SinceTypes, SinceTypeOK
<1>2. \/ \E removed \in SUBSET Keys : \E removedMax \in Time : \E cut \in BOOLEAN :
           call' = [call EXCEPT !.pc = "now", !.removed = removed,
                                !.removedMax = removedMax, !.cut = cut]
      \/ call' = [call EXCEPT !.pc = "now", !.removedMax = 0, !.cut = FALSE]
  BY QueryRemovedEffect DEF SinceTypes
<1>3. ASSUME NEW removed, NEW removedMax, NEW cut,
             call' = [call EXCEPT !.pc = "now", !.removed = removed,
                                  !.removedMax = removedMax, !.cut = cut]
      PROVE  /\ call'.pc = "now" /\ call'.occ = call.occ /\ call'.page = call.page
             /\ call'.rows = call.rows /\ call'.got = call.got /\ call'.since = call.since
             /\ call'.cursor = call.cursor /\ call'.hasMore = call.hasMore /\ call'.next = call.next
             /\ call'.first = call.first /\ call'.started = call.started
  BY <1>1, <1>3 DEF Calls
<1>4. CASE call' = [call EXCEPT !.pc = "now", !.removedMax = 0, !.cut = FALSE]
  BY <1>1, <1>4 DEF Calls
<1>. QED BY <1>2, <1>3, <1>4

\* A query adds nothing to what has been received.
LEMMA QueryFields ==
  ASSUME SinceTypes, QueryRows \/ QueryBig \/ QueryRemoved
  PROVE  call'.got = call.got /\ call'.occ = call.occ
<1>1. call \in Calls BY DEF SinceTypes, SinceTypeOK
<1>2. ASSUME NEW page, NEW next,
             \/ call' = Settled(page, FALSE, next)
             \/ call' = Settled(page, TRUE, next)
             \/ call' = [call EXCEPT !.pc = "big", !.rows = page, !.started = Began]
             \/ call' = [call EXCEPT !.pc = "error"]
      PROVE  call'.got = call.got /\ call'.occ = call.occ
  <2>1. CASE call' = Settled(page, FALSE, next) BY <1>1, <2>1, SettledFields
  <2>2. CASE call' = Settled(page, TRUE, next) BY <1>1, <2>2, SettledFields
  <2>3. CASE call' = [call EXCEPT !.pc = "big", !.rows = page, !.started = Began]
    BY <1>1, <2>3 DEF Calls
  <2>4. CASE call' = [call EXCEPT !.pc = "error"] BY <1>1, <2>4 DEF Calls
  <2>. QED BY <1>2, <2>1, <2>2, <2>3, <2>4
<1>3. CASE QueryRows
  <2>1. \E page : \E next \in Time :
          \/ call' = Settled(page, FALSE, next)
          \/ call' = Settled(page, TRUE, next)
          \/ call' = [call EXCEPT !.pc = "big", !.rows = page, !.started = Began]
    BY <1>3, QueryRowsEffect DEF SinceTypes
  <2>. QED BY <1>2, <2>1
<1>4. CASE QueryBig
  <2>1. call.rows # {} BY <1>4 DEF QueryBig, SinceTypes
  <2>2. \/ call' = [call EXCEPT !.pc = "error"]
        \/ \E next \in Time : call' = Settled(call.rows, TRUE, next)
        \/ \E page : \E next \in Time :
             \/ call' = Settled(page, FALSE, next)
             \/ call' = Settled(page, TRUE, next)
    BY <1>4, <2>1, QueryBigEffect DEF SinceTypes
  <2>. QED BY <1>2, <2>2
<1>5. CASE QueryRemoved BY <1>5, RemovedFields
<1>. QED BY <1>3, <1>4, <1>5

LEMMA AskedFacts ==
  ASSUME client \in Client
  PROVE  /\ Asked = (IF client.since >= 0 THEN client.since ELSE 0)
         /\ Asked \in Time /\ Asked \in Nat /\ client.since \in Int
<1>1. client.since \in Time \cup {-1} BY DEF Client
<1>2. client.since \in Int
  <2>1. CASE client.since \in Time
    <3>1. client.since \in Nat BY <2>1, TimeIsNat
    <3>. QED BY <3>1
  <2>2. CASE client.since = -1 BY <2>2
  <2>. QED BY <1>1, <2>1, <2>2
<1>3. Asked = IF client.since >= 0 THEN client.since ELSE 0 BY <1>2, MaxOfTwo DEF Asked
<1>4. Asked \in Time BY <1>1, <1>3, TimeIsNat
<1>. QED BY <1>2, <1>3, <1>4, TimeIsNat

\* A request under way asks beyond what the client has asked for.
LEMMA SinceTxtIsBeyond ==
  ASSUME SinceTypes, DeliveryInv, call.pc # "idle"
  PROVE  SinceTxt >= Asked /\ SinceTxt \in Nat /\ Asked \in Nat
<1>1. client \in Client /\ call \in Calls BY DEF SinceTypes, SinceTypeOK
<1>2. SinceTxt = (IF call.since >= 0 THEN call.since ELSE 0) /\ SinceTxt \in Time
  BY <1>1, SinceTxtFacts
<1>3. Asked = (IF client.since >= 0 THEN client.since ELSE 0) /\ Asked \in Nat /\ client.since \in Int
  BY <1>1, AskedFacts
<1>4. SinceTxt \in Nat BY <1>2, TimeIsNat
<1>5. call.since >= client.since BY DEF DeliveryInv
<1>6. call.since \in Int
  <2>1. call.since \in Time \cup {-1} BY <1>1 DEF Calls
  <2>2. CASE call.since \in Time
    <3>1. call.since \in Nat BY <2>2, TimeIsNat
    <3>. QED BY <3>1
  <2>3. CASE call.since = -1 BY <2>3
  <2>. QED BY <2>1, <2>2, <2>3
<1>. QED BY <1>2, <1>3, <1>4, <1>5, <1>6

\* So do the rows that match it.
LEMMA MatchingIsBeyond ==
  ASSUME SinceTypes, DeliveryInv, call.pc # "idle", NEW f \in Matching
  PROVE  f[2] > Asked /\ f[2] \in Nat
<1>1. client \in Client /\ call \in Calls /\ table \in Table BY DEF SinceTypes, SinceTypeOK
<1>2. /\ f \in Stamped
      /\ IF call.cursor = NoCursor THEN f[2] > SinceTxt ELSE Before(call.cursor, f)
  BY <1>1, MatchingFacts
<1>3. f[2] \in Nat
  <2>1. f[2] \in Time BY <1>2 DEF Stamped
  <2>. QED BY <2>1, TimeIsNat
<1>4. SinceTxt >= Asked /\ SinceTxt \in Nat /\ Asked \in Nat BY SinceTxtIsBeyond
<1>5. CASE call.cursor = NoCursor BY <1>2, <1>3, <1>4, <1>5
<1>6. CASE call.cursor # NoCursor
  <2>1. call.cursor \in Stamped BY <1>1, <1>6 DEF Calls
  <2>2. call.cursor[2] \in Time BY <2>1 DEF Stamped
  <2>3. call.cursor[2] \in Nat BY <2>2, TimeIsNat
  <2>4. call.cursor[2] > Asked BY <1>6 DEF DeliveryInv
  <2>5. call.cursor[2] <= f[2] BY <1>2, <1>3, <1>6, <2>3 DEF Before
  <2>. QED BY <1>3, <1>4, <2>3, <2>4, <2>5
<1>. QED BY <1>5, <1>6

\* A settled answer has rows beyond what was asked for, and its cursor is one of them.
LEMMA DeliverySettled ==
  ASSUME SinceTypes, DeliveryInv, client' = client, call.pc # "idle",
         NEW page \in SUBSET Stamped, NEW hasMore \in BOOLEAN, NEW next \in Time,
         hasMore => page # {}, \A f \in page : f[2] > Asked,
         call' = Settled(page, hasMore, next)
  PROVE  DeliveryInv'
<1>1. call \in Calls BY DEF SinceTypes, SinceTypeOK
<1>2. /\ call'.pc = "removed" /\ call'.rows = {} /\ call'.page = page /\ call'.since = call.since
      /\ call'.got = call.got /\ call'.occ = call.occ
      /\ call'.cursor = (IF hasMore /\ Keyed THEN Last(page) ELSE NoCursor)
  BY <1>1, SettledFields
<1>3. Asked' = Asked BY DEF Asked
<1>4. call'.cursor # NoCursor => call'.cursor \in page BY <1>2, LastIsLast
<1>5. \A f \in InHand' : f[2] > Asked BY <1>2 DEF InHand, DeliveryInv
<1>. QED BY <1>2, <1>3, <1>4, <1>5 DEF DeliveryInv

LEMMA DeliveryQuery ==
  ASSUME SinceTypes, DeliveryInv, QueryRows \/ QueryBig PROVE DeliveryInv'
<1>1. call \in Calls /\ table \in Table BY DEF SinceTypes, SinceTypeOK
<1>2. client' = client /\ call.pc # "idle" BY DEF QueryRows, QueryBig
<1>3. Asked' = Asked BY <1>2 DEF Asked
<1>4. ASSUME NEW page \in SUBSET Stamped, Cut(page) PROVE \A f \in page : f[2] > Asked
  BY <1>2, <1>4, MatchingIsBeyond DEF Cut
<1>5. CASE QueryRows
  <2>1. PICK page : \E next \in Time :
          /\ Cut(page) /\ page \in SUBSET Stamped
          /\ \/ call' = Settled(page, FALSE, next)
             \/ page # {} /\ call' = Settled(page, TRUE, next)
             \/ call' = [call EXCEPT !.pc = "big", !.rows = page, !.started = Began]
    BY <1>5, QueryRowsEffect DEF SinceTypes
  <2>2. PICK next \in Time :
          /\ Cut(page) /\ page \in SUBSET Stamped
          /\ \/ call' = Settled(page, FALSE, next)
             \/ page # {} /\ call' = Settled(page, TRUE, next)
             \/ call' = [call EXCEPT !.pc = "big", !.rows = page, !.started = Began]
    BY <2>1
  <2>3. \A f \in page : f[2] > Asked BY <1>4, <2>2
  <2>4. CASE call' = Settled(page, FALSE, next) BY <1>2, <2>2, <2>3, <2>4, DeliverySettled
  <2>5. CASE page # {} /\ call' = Settled(page, TRUE, next)
    BY <1>2, <2>2, <2>3, <2>5, DeliverySettled
  <2>6. CASE call' = [call EXCEPT !.pc = "big", !.rows = page, !.started = Began]
    <3>1. /\ call'.pc = "big" /\ call'.rows = page /\ call'.page = call.page /\ call'.occ = call.occ
          /\ call'.got = call.got /\ call'.since = call.since /\ call'.cursor = call.cursor
      BY <1>1, <2>6 DEF Calls
    <3>2. \A f \in InHand' : f[2] > Asked BY <2>3, <3>1 DEF InHand, DeliveryInv
    <3>. QED BY <1>2, <1>3, <3>1, <3>2 DEF DeliveryInv
  <2>. QED BY <2>2, <2>4, <2>5, <2>6
<1>6. CASE QueryBig
  <2>1. call.rows # {} /\ call.rows \in SUBSET Stamped BY <1>1, <1>6 DEF QueryBig, SinceTypes, Calls
  <2>2. \/ call' = [call EXCEPT !.pc = "error"]
        \/ \E next \in Time : call' = Settled(call.rows, TRUE, next)
        \/ \E page : \E next \in Time :
             /\ Cut(page) /\ page \in SUBSET Stamped
             /\ \/ call' = Settled(page, FALSE, next)
                \/ page # {} /\ call' = Settled(page, TRUE, next)
    BY <1>6, <2>1, QueryBigEffect DEF SinceTypes
  <2>3. CASE call' = [call EXCEPT !.pc = "error"]
    <3>1. /\ call'.pc = "error" /\ call'.rows = call.rows /\ call'.page = call.page
          /\ call'.occ = call.occ /\ call'.got = call.got /\ call'.since = call.since
          /\ call'.cursor = call.cursor
      BY <1>1, <2>3 DEF Calls
    <3>. QED BY <1>2, <1>3, <3>1 DEF DeliveryInv, InHand
  <2>4. ASSUME NEW next \in Time, call' = Settled(call.rows, TRUE, next) PROVE DeliveryInv'
    <3>1. \A f \in call.rows : f[2] > Asked BY DEF DeliveryInv, InHand
    <3>. QED BY <1>2, <2>1, <2>4, <3>1, DeliverySettled
  <2>5. ASSUME NEW page \in SUBSET Stamped, NEW next \in Time, Cut(page),
               \/ call' = Settled(page, FALSE, next)
               \/ page # {} /\ call' = Settled(page, TRUE, next)
        PROVE  DeliveryInv'
    <3>1. \A f \in page : f[2] > Asked BY <1>4, <2>5
    <3>. QED BY <1>2, <2>5, <3>1, DeliverySettled
  <2>. QED BY <2>2, <2>3, <2>4, <2>5
<1>. QED BY <1>5, <1>6

LEMMA DeliveryApply ==
  ASSUME SinceTypes, DeliveryInv, Apply PROVE DeliveryInv'
<1>1. client \in Client /\ call \in Calls BY DEF SinceTypes, SinceTypeOK
<1>2. /\ call.pc = "done" /\ call' = NoCall /\ client' \in Client
      /\ client'.since = call.next /\ client'.seen = Remembered(call.next)
      /\ client'.copy = [k \in Keys |-> Applied(k)]
  BY ApplyEffect DEF SinceTypes
<1>3. call.next \in Nat /\ Asked \in Nat /\ Asked' = call.next
  <2>1. call.next \in Time BY <1>1 DEF Calls
  <2>2. call.next \in Nat BY <2>1, TimeIsNat
  <2>. QED BY <1>1, <1>2, <2>2, AskedFacts, MaxOfTwo DEF Asked
<1>4. call.next >= Asked BY <1>2 DEF DeliveryInv
<1>5. ASSUME NEW k \in Keys, client'.copy[k] > Asked' PROVE <<k, client'.copy[k]>> \in client'.seen
  <2>1. client'.copy[k] = Applied(k) BY <1>2
  <2>2. Applied(k) \in Nat
    <3>1. Applied(k) \in Time BY AppliedFacts DEF SinceTypes
    <3>. QED BY <3>1, TimeIsNat
  <2>3. Applied(k) > call.next BY <1>3, <1>5, <2>1
  <2>4. Applied(k) \in {0, client.copy[k]} \/ <<k, Applied(k)>> \in call.got
    BY AppliedFacts DEF SinceTypes
  <2>5. <<k, Applied(k)>> \in client.seen \cup call.occ
    <3>1. CASE <<k, Applied(k)>> \in call.got BY <3>1 DEF DeliveryInv
    <3>2. CASE <<k, Applied(k)>> \notin call.got
      <4>1. Applied(k) = client.copy[k] BY <1>3, <2>2, <2>3, <2>4, <3>2
      <4>2. client.copy[k] > Asked BY <1>3, <1>4, <2>2, <2>3, <4>1
      <4>. QED BY <4>1, <4>2 DEF DeliveryInv
    <3>. QED BY <3>1, <3>2
  <2>6. <<k, Applied(k)>>[2] >= call.next BY <1>3, <2>2, <2>3
  <2>. QED BY <1>2, <2>1, <2>5, <2>6 DEF Remembered
<1>6. call'.pc = "idle" /\ InHand' = {} /\ call'.got = {} /\ call'.occ = {} /\ call'.cursor = NoCursor
  BY <1>2 DEF NoCall, InHand
<1>. QED BY <1>5, <1>6 DEF DeliveryInv

LEMMA DeliveryReceive ==
  ASSUME SinceTypes, DeliveryInv, Receive PROVE DeliveryInv'
<1>1. client \in Client /\ call \in Calls BY DEF SinceTypes, SinceTypeOK
<1>2. client' = client BY DEF Receive
<1>3. Asked' = Asked BY <1>2 DEF Asked
<1>4. /\ call.pc = "now" /\ call'.got = call.got \cup (call.page \ client.seen)
      /\ call'.occ = call.occ \cup call.page /\ call'.page = {} /\ call'.rows = call.rows
      /\ call'.next = finalizeNextSince /\ call'.cursor = call.cursor
      /\ \/ call'.pc = "done" /\ call'.since = call.since
         \/ /\ call'.pc = "rows"
            /\ call'.since = IF call.cursor = NoCursor THEN finalizeNextSince ELSE call.since
  BY ReceiveEffect DEF SinceTypes
<1>5. InHand' = InHand BY <1>4 DEF InHand
<1>6. finalizeNextSince >= SinceTxt /\ finalizeNextSince \in Nat /\ SinceTxt >= Asked
      /\ SinceTxt \in Nat /\ Asked \in Nat
  BY <1>4, FinalizeFacts, TimeIsNat, SinceTxtIsBeyond DEF SinceTypes
<1>7. finalizeNextSince >= Asked BY <1>6
<1>8. Asked >= client.since /\ client.since \in Int BY <1>1, AskedFacts
<1>9. call'.since >= client.since
  <2>1. call.since >= client.since BY <1>4 DEF DeliveryInv
  <2>2. finalizeNextSince >= client.since BY <1>6, <1>7, <1>8
  <2>. QED BY <1>4, <2>1, <2>2
<1>. QED BY <1>2, <1>3, <1>4, <1>5, <1>7, <1>9 DEF DeliveryInv

LEMMA DeliveryStep ==
  ASSUME SinceTypes, DeliveryInv, [SinceNext]_sinceVars PROVE DeliveryInv'
<1>1. client \in Client /\ call \in Calls BY DEF SinceTypes, SinceTypeOK
<1>2. ASSUME call' = call, client'.since = client.since, client'.copy = client.copy,
             client'.seen = client.seen
      PROVE  DeliveryInv'
  BY <1>2 DEF DeliveryInv, Asked, InHand
<1>3. CASE LoadBegin
  <2>1. call' = call /\ client' = [client EXCEPT !.loads = client.loads + 1] BY <1>3 DEF LoadBegin
  <2>2. /\ client'.since = client.since /\ client'.copy = client.copy
        /\ client'.seen = client.seen
    BY <1>1, <2>1 DEF Client
  <2>. QED BY <1>2, <2>1, <2>2
<1>4. CASE LoadCarry \/ LoadStamp \/ Publish \/ Elapse \/ UNCHANGED sinceVars
  <2>1. call' = call /\ client' = client
    BY <1>4 DEF LoadCarry, LoadStamp, Publish, Elapse, sinceVars
  <2>. QED BY <1>2, <2>1
<1>5. CASE Call
  <2>1. call' = [NoCall EXCEPT !.pc = "rows", !.since = client.since] /\ client' = client
    BY <1>5 DEF Call
  <2>2. /\ call'.pc = "rows" /\ call'.since = client.since /\ call'.occ = {} /\ call'.page = {}
        /\ call'.rows = {} /\ call'.got = {} /\ call'.cursor = NoCursor
    BY <2>1 DEF NoCall
  <2>3. client.since >= client.since BY <1>1, AskedFacts
  <2>. QED BY <2>1, <2>2, <2>3 DEF DeliveryInv, Asked, InHand
<1>6. CASE QueryRows \/ QueryBig BY <1>6, DeliveryQuery
<1>7. CASE QueryRemoved
  <2>1. client' = client /\ call.pc = "removed" BY <1>7 DEF QueryRemoved
  <2>3. /\ call'.pc = "now" /\ call'.occ = call.occ /\ call'.page = call.page
        /\ call'.rows = call.rows /\ call'.got = call.got /\ call'.since = call.since
        /\ call'.cursor = call.cursor
    BY <1>7, RemovedFields
  <2>. QED BY <2>1, <2>3 DEF DeliveryInv, Asked, InHand
<1>8. CASE Receive BY <1>8, DeliveryReceive
<1>9. CASE Apply BY <1>9, DeliveryApply
<1>10. CASE Fails
  <2>1. call' = NoCall /\ client' = client BY <1>10 DEF Fails
  <2>2. /\ call'.pc = "idle" /\ call'.occ = {} /\ call'.page = {}
        /\ call'.rows = {} /\ call'.got = {} /\ call'.cursor = NoCursor
    BY <2>1 DEF NoCall
  <2>. QED BY <2>1, <2>2 DEF DeliveryInv, Asked, InHand
<1>. QED BY <1>3, <1>4, <1>5, <1>6, <1>7, <1>8, <1>9, <1>10 DEF SinceNext

LEMMA DeliveryInit == SinceInit => DeliveryInv
<1>. SUFFICES ASSUME SinceInit PROVE DeliveryInv OBVIOUS
<1>1. /\ client = [since |-> -1, copy |-> [k \in Keys |-> 0], seen |-> {}, loads |-> 0]
      /\ call = NoCall
  BY DEF SinceInit
<1>2. Asked = 0 BY <1>1, MaxOfTwo DEF Asked
<1>3. call.pc = "idle" /\ InHand = {} /\ call.cursor = NoCursor /\ call.got = {}
  BY <1>1 DEF NoCall, InHand
<1>. QED BY <1>1, <1>2, <1>3 DEF DeliveryInv

\* A row comes back as long as the window holds it back; a client that has been
\* given a version of it, and has kept what the SDK returned, is not given it again.
\* Whatever the table and the loads do, and however the calls fail.
THEOREM NoVersionTwice == SinceSpec => DeliveredOnce
<1>1. SinceInit => SinceTypes /\ StampInv /\ DeliveryInv BY SinceInits, DeliveryInit
<1>2. (SinceTypes /\ StampInv /\ DeliveryInv) /\ [SinceNext]_sinceVars
        => (SinceTypes /\ StampInv /\ DeliveryInv)'
  BY TypesStep, StampStep, DeliveryStep
<1>3. (SinceTypes /\ StampInv /\ DeliveryInv) /\ [SinceNext]_sinceVars
        => [\A f \in call'.got \ call.got : client.copy[f[1]] # f[2]]_sinceVars
  <2>. SUFFICES ASSUME SinceTypes, DeliveryInv, SinceNext, NEW f \in call'.got \ call.got,
                       client.copy[f[1]] = f[2]
                PROVE  FALSE
    BY Zenon
  <2>1. client \in Client /\ call \in Calls BY DEF SinceTypes, SinceTypeOK
  <2>2. CASE Receive
    <3>1. call'.got = call.got \cup (call.page \ client.seen) BY <2>2, ReceiveEffect DEF SinceTypes
    <3>2. f \in call.page /\ f \notin client.seen BY <3>1
    <3>3. f[2] > Asked BY <3>2 DEF DeliveryInv, InHand
    <3>4. f \in Keys \X Time BY <2>1, <3>2 DEF Calls, Stamped
    <3>5. f = <<f[1], client.copy[f[1]]>> /\ f[1] \in Keys BY <3>4
    <3>6. f \in client.seen BY <3>3, <3>5 DEF DeliveryInv
    <3>. QED BY <3>2, <3>6
  <2>3. CASE ~Receive
    <3>1. call'.got \subseteq call.got
      <4>1. CASE LoadBegin \/ LoadCarry \/ LoadStamp \/ Publish \/ Elapse
        BY <4>1 DEF LoadBegin, LoadCarry, LoadStamp, Publish, Elapse
      <4>2. CASE Call \/ Apply \/ Fails
        <5>1. \/ call' = NoCall
              \/ call' = [NoCall EXCEPT !.pc = "rows", !.since = client.since]
          BY <4>2 DEF Call, Apply, Fails
        <5>2. CASE call' = NoCall
          <6>1. call'.got = {} BY <5>2 DEF NoCall
          <6>. QED BY <6>1
        <5>3. CASE call' = [NoCall EXCEPT !.pc = "rows", !.since = client.since]
          <6>1. call'.got = {} BY <5>3 DEF NoCall
          <6>. QED BY <6>1
        <5>. QED BY <5>1, <5>2, <5>3
      <4>3. CASE QueryRows \/ QueryBig \/ QueryRemoved
        <5>1. call'.got = call.got BY <4>3, QueryFields
        <5>. QED BY <5>1
      <4>. QED BY <2>3, <4>1, <4>2, <4>3 DEF SinceNext
    <3>. QED BY <3>1
  <2>. QED BY <2>2, <2>3
<1>. QED BY <1>1, <1>2, <1>3, PTL DEF SinceSpec, DeliveredOnce

------------------------------------------------------------------------------
(* No change is skipped *)

\* A row that had its stamp for good when the first answer of a call was read, at t:
\* whatever a load under way will stamp comes later.
OldAt(k, t) == table[k].stamp + MaxLoad < t
Old(k) == OldAt(k, call.started)

\* Up to its since the client has the table.
CopyInv ==
  \A k \in Keys : table[k].stamp # 0 /\ table[k].stamp <= client.since
    => client.copy[k] = IF Alive(k) THEN table[k].stamp ELSE 0

\* Beyond it, the client has the rows it remembers, as long as they are in the table.
SeenInv ==
  /\ \A f \in client.seen : f[2] <= table[f[1]].stamp
  /\ \A k \in Keys : Alive(k) /\ Row(k) \in client.seen => client.copy[k] = table[k].stamp
  /\ client.since = -1 => client.copy = [k \in Keys |-> 0] /\ client.seen = {}

\* The since of the client is one that no load to come stamps below, and that of a
\* call one that none stamped below since its first answer.
ClockInv ==
  /\ client.since <= 0 \/ client.since + MaxLoad < now
  /\ call.started <= now /\ (call.started # 0 => now - call.started <= MaxCall)
  /\ call.pc = "done" => call.next = Asked \/ call.next + MaxLoad < call.started

\* The course of a call.
CourseInv ==
  /\ call.pc = "idle" => call = NoCall
  /\ call.pc \in {"big", "removed", "now", "done"} \/ call.cursor # NoCursor \/ ~call.first
       => call.started # 0
  /\ call.started = 0 => call.occ = {} /\ call.removed = {}
  /\ call.pc # "idle" => call.since = client.since
  /\ call.pc = "big" => call.cursor = NoCursor
  /\ call.pc \in {"removed", "now"} /\ call.hasMore => call.cursor # NoCursor
  /\ call.pc \notin {"removed", "now"} => call.page = {}
  /\ call.pc \notin {"big", "error"} => call.rows = {}
  /\ call.pc = "done" => ~call.first

\* The rows a call has in hand: no older than those remembered, and if they were old
\* when it began as they are in the table.
RowsInv ==
  /\ call.got \cap client.seen = {} /\ call.occ \subseteq call.got \cup client.seen
  /\ \A f \in InHand :
       /\ f[2] <= table[f[1]].stamp
       /\ Old(f[1]) => f = Row(f[1]) /\ Alive(f[1])
       /\ \A g \in client.seen : g[1] = f[1] => g[2] <= f[2]

\* How far the pages have come: a page, and the rows kept for the second query,
\* leave out only what comes after them.
Reached(f) ==
  CASE call.pc = "rows" -> call.cursor # NoCursor /\ ~Before(call.cursor, f)
    [] call.pc = "big" -> \E g \in call.rows : Before(f, g)
    [] call.pc \in {"removed", "now"} -> call.hasMore => ~Before(call.cursor, f)
    [] OTHER -> call.pc = "done"

\* The old rows up to there have all been received.
CoverInv ==
  \A k \in Keys : Old(k) /\ Alive(k) /\ table[k].stamp > Asked /\ Reached(Row(k)) => Row(k) \in InHand

\* The deletions a call has received: of rows that are gone or have come back since,
\* and of all that were gone when it began.
RemovedInv ==
  /\ \A k \in call.removed :
       /\ table[k].stamp > Asked
       /\ Old(k) => ~Alive(k)
       /\ \A g \in client.seen : g[1] = k /\ Alive(k) => g[2] < table[k].stamp
  /\ client.since >= 0 /\ (call.pc = "now" \/ ~call.first) =>
       \A k \in Keys : Old(k) /\ table[k].gone > Asked => k \in call.removed

LossInv == CopyInv /\ SeenInv /\ ClockInv /\ CourseInv /\ RowsInv /\ CoverInv /\ RemovedInv

\* The numbers of a state.
LEMMA SinceNumbers ==
  ASSUME SinceTypes
  PROVE  /\ now \in Nat /\ call.started \in Nat /\ call.next \in Nat /\ Asked \in Nat
         /\ client.since \in Int /\ client.since >= -1 /\ MaxLoad \in Nat /\ MaxCall \in Nat
         /\ Asked = (IF client.since >= 0 THEN client.since ELSE 0)
         /\ \A k \in Keys : table[k].stamp \in Nat /\ table[k].gone \in Nat
         /\ \A f \in InHand \cup client.seen : f[1] \in Keys /\ f[2] \in Nat /\ f = <<f[1], f[2]>>
<1>1. /\ now \in Time /\ table \in Table /\ client \in Client /\ call \in Calls
  BY DEF SinceTypes, SinceTypeOK
<1>2. call.started \in Time /\ call.next \in Time BY <1>1 DEF Calls
<1>3. now \in Nat /\ call.started \in Nat /\ call.next \in Nat BY <1>1, <1>2, TimeIsNat
<1>4. Asked = (IF client.since >= 0 THEN client.since ELSE 0) /\ Asked \in Nat /\ client.since \in Int
  BY <1>1, AskedFacts
<1>5. client.since >= -1
  <2>1. client.since \in Time \cup {-1} BY <1>1 DEF Client
  <2>2. CASE client.since \in Time
    <3>1. client.since \in Nat BY <2>2, TimeIsNat
    <3>. QED BY <3>1
  <2>3. CASE client.since = -1 BY <2>3
  <2>. QED BY <2>1, <2>2, <2>3
<1>6. \A k \in Keys : table[k].stamp \in Nat /\ table[k].gone \in Nat
  BY <1>1, TimeIsNat DEF Table
<1>7. InHand \cup client.seen \subseteq Keys \X Time BY <1>1 DEF InHand, Calls, Client, Stamped
<1>8. ASSUME NEW f \in Keys \X Time PROVE f[1] \in Keys /\ f[2] \in Nat /\ f = <<f[1], f[2]>>
  <2>1. f[1] \in Keys /\ f[2] \in Time /\ f = <<f[1], f[2]>> OBVIOUS
  <2>. QED BY <2>1, TimeIsNat
<1>9. MaxLoad \in Nat /\ MaxCall \in Nat BY SinceConstants
<1>. QED BY <1>3, <1>4, <1>5, <1>6, <1>7, <1>8, <1>9

\* Rows in the table are pairs of numbers.
LEMMA RowIsPair ==
  ASSUME SinceTypes, NEW k \in Keys
  PROVE  Row(k) \in Nat \X Nat /\ Row(k)[1] = k /\ Row(k)[2] = table[k].stamp
<1>1. table[k].stamp \in Nat BY SinceNumbers
<1>2. k \in Nat BY SinceConstants
<1>. QED BY <1>1, <1>2 DEF Row

\* Steps that change nothing of what this is about.
LEMMA LossKept ==
  ASSUME LossInv, call' = call, table' = table, now' = now, client'.since = client.since,
         client'.copy = client.copy, client'.seen = client.seen
  PROVE  LossInv'
<1>1. Asked' = Asked /\ InHand' = InHand BY DEF Asked, InHand
<1>2. \A k \in Keys : (Old(k)' <=> Old(k)) /\ (Alive(k)' <=> Alive(k)) /\ Row(k)' = Row(k)
  BY DEF Old, OldAt, Alive, Row
<1>3. \A k \in Keys : Reached(Row(k))' <=> Reached(Row(k))
  BY DEF Reached, Before, Row
<1>4. CopyInv' BY <1>2 DEF LossInv, CopyInv
<1>5. SeenInv' BY <1>2 DEF LossInv, SeenInv
<1>6. ClockInv' BY <1>1 DEF LossInv, ClockInv
<1>7. CourseInv' BY DEF LossInv, CourseInv
<1>8. RowsInv'
  <2>1. ASSUME NEW f \in InHand
        PROVE  /\ f[2] <= table'[f[1]].stamp
               /\ Old(f[1])' => f = Row(f[1])' /\ Alive(f[1])'
               /\ \A g \in client'.seen : g[1] = f[1] => g[2] <= f[2]
    BY <2>1 DEF LossInv, RowsInv, Old, OldAt, Alive, Row
  <2>. QED BY <1>1, <2>1 DEF LossInv, RowsInv
<1>9. CoverInv' BY <1>1, <1>2, <1>3 DEF LossInv, CoverInv
<1>10. RemovedInv' BY <1>1 DEF LossInv, RemovedInv, Old, OldAt, Alive
<1>. QED BY <1>4, <1>5, <1>6, <1>7, <1>8, <1>9, <1>10 DEF LossInv

LEMMA LossElapse ==
  ASSUME SinceTypes, LossInv, Elapse PROVE LossInv'
<1>1. UNCHANGED <<table, client, call>> /\ now' = now + 1 BY DEF Elapse
<1>2. Asked' = Asked /\ InHand' = InHand BY <1>1 DEF Asked, InHand
<1>3. ClockInv'
  <2>1. /\ now \in Nat /\ call.started \in Nat /\ client.since \in Int /\ MaxLoad \in Nat
        /\ MaxCall \in Nat
    BY SinceNumbers
  <2>2. call.started # 0 => now - call.started < MaxCall
    <3>1. call.pc = "idle" => call.started = 0 BY DEF LossInv, CourseInv, NoCall
    <3>. QED BY <3>1 DEF Elapse
  <2>3. client.since <= 0 \/ client.since + MaxLoad < now' BY <1>1, <2>1 DEF LossInv, ClockInv
  <2>4. call.started <= now' BY <1>1, <2>1 DEF LossInv, ClockInv
  <2>5. call.started # 0 => now' - call.started <= MaxCall BY <1>1, <2>1, <2>2
  <2>. QED BY <1>1, <1>2, <2>3, <2>4, <2>5 DEF LossInv, ClockInv
<1>4. CopyInv' /\ SeenInv' /\ CourseInv'
  BY <1>1 DEF LossInv, CopyInv, SeenInv, CourseInv, Alive, Row
<1>5. RowsInv' BY <1>1, <1>2 DEF LossInv, RowsInv, Old, OldAt, Alive, Row
<1>6. CoverInv' BY <1>1, <1>2 DEF LossInv, CoverInv, Old, OldAt, Alive, Row, Reached, Before
<1>7. RemovedInv' BY <1>1, <1>2 DEF LossInv, RemovedInv, Old, OldAt, Alive
<1>. QED BY <1>3, <1>4, <1>5, <1>6, <1>7 DEF LossInv

\* The swap: a row stays as it is, or is renewed beyond all that a client or a call
\* has asked for, and too late to be old for a call under way.
LEMMA PublishRenews ==
  ASSUME SinceTypes, StampInv, LossInv, Publish, NEW k \in Keys
  PROVE  \/ table'[k] = table[k]
         \/ /\ table'[k].stamp > table[k].stamp /\ table'[k].stamp > client.since
            /\ table'[k].stamp > Asked /\ ~Old(k)' /\ table'[k].stamp \in Nat
<1>1. /\ now \in Nat /\ call.started \in Nat /\ Asked \in Nat /\ client.since \in Int
      /\ MaxLoad \in Nat /\ Asked = (IF client.since >= 0 THEN client.since ELSE 0)
      /\ table[k].stamp \in Nat
  BY SinceNumbers
<1>2. \/ table'[k] = table[k]
      \/ table'[k].stamp \in {loading.carried, loading.stamped}
  BY PublishEffect DEF SinceTypes
<1>3. loading.carried = Floor /\ Floor <= loading.stamped BY PublishEffect DEF SinceTypes
<1>4. loading.carried \in Nat /\ loading.stamped \in Nat
  <2>1. loading \in Loading BY DEF SinceTypes, SinceTypeOK
  <2>. QED BY <2>1, TimeIsNat DEF Loading
<1>5. loading.pc = "stamped" /\ call' = call BY DEF Publish
<1>6. table[k].stamp < loading.carried /\ now - Floor <= MaxLoad /\ Floor >= 1
  BY <1>5 DEF StampInv
<1>7. client.since <= 0 \/ client.since + MaxLoad < now BY DEF LossInv, ClockInv
<1>8. call.started <= now BY DEF LossInv, ClockInv
<1>9. CASE table'[k].stamp \in {loading.carried, loading.stamped}
  <2>1. table'[k].stamp >= Floor /\ table'[k].stamp \in Nat /\ Floor \in Nat BY <1>3, <1>4, <1>9
  <2>2. table'[k].stamp + MaxLoad >= now
    <3>. HIDE DEF Floor
    <3>. QED BY <1>1, <1>6, <2>1
  <2>3. table'[k].stamp > table[k].stamp BY <1>1, <1>3, <1>6, <2>1
  <2>4. table'[k].stamp > client.since /\ table'[k].stamp > Asked
    <3>1. CASE client.since <= 0 BY <1>1, <1>6, <2>1, <3>1
    <3>2. CASE client.since + MaxLoad < now BY <1>1, <2>1, <2>2, <3>2, <1>6
    <3>. QED BY <1>7, <3>1, <3>2
  <2>5. ~Old(k)'
    <3>1. ~(table'[k].stamp + MaxLoad < call.started) BY <1>1, <1>8, <2>1, <2>2
    <3>. QED BY <1>5, <3>1 DEF Old, OldAt
  <2>. QED BY <2>1, <2>3, <2>4, <2>5
<1>. QED BY <1>2, <1>9

LEMMA LossPublish ==
  ASSUME SinceTypes, StampInv, LossInv, Publish PROVE LossInv'
<1>1. UNCHANGED <<now, client, call>> BY DEF Publish
<1>2. Asked' = Asked /\ InHand' = InHand BY <1>1 DEF Asked, InHand
<1>3. \A k \in Keys :
        \/ table'[k] = table[k]
        \/ /\ table'[k].stamp > table[k].stamp /\ table'[k].stamp > client.since
           /\ table'[k].stamp > Asked /\ ~Old(k)' /\ table'[k].stamp \in Nat
  BY PublishRenews
<1>4. /\ client.since \in Int /\ Asked \in Nat /\ \A k \in Keys : table[k].stamp \in Nat
      /\ \A f \in InHand \cup client.seen : f[1] \in Keys /\ f[2] \in Nat
  BY SinceNumbers
<1>5. \A k \in Keys : table'[k] = table[k]
        => (Old(k)' <=> Old(k)) /\ (Alive(k)' <=> Alive(k)) /\ Row(k)' = Row(k)
  BY <1>1 DEF Old, OldAt, Alive, Row
<1>6. CopyInv'
  <2>1. ASSUME NEW k \in Keys, table'[k].stamp # 0, table'[k].stamp <= client.since
        PROVE  client.copy[k] = IF Alive(k)' THEN table'[k].stamp ELSE 0
    <3>1. table'[k] = table[k] BY <1>3, <1>4, <2>1
    <3>2. client.copy[k] = IF Alive(k) THEN table[k].stamp ELSE 0 BY <2>1, <3>1 DEF LossInv, CopyInv
    <3>. QED BY <1>5, <3>1, <3>2
  <2>. QED BY <1>1, <2>1 DEF CopyInv
<1>7. \A k \in Keys : table'[k].stamp \in Nat /\ table[k].stamp <= table'[k].stamp
  BY <1>3, <1>4
<1>8. SeenInv'
  <2>1. ASSUME NEW f \in client.seen PROVE f[2] <= table'[f[1]].stamp
    <3>1. f[2] <= table[f[1]].stamp BY DEF LossInv, SeenInv
    <3>. QED BY <1>4, <1>7, <3>1
  <2>2. ASSUME NEW k \in Keys, Alive(k)', Row(k)' \in client.seen
        PROVE  client.copy[k] = table'[k].stamp
    <3>1. table'[k] = table[k]
      <4>1. Row(k)'[1] = k /\ Row(k)'[2] = table'[k].stamp BY DEF Row
      <4>2. table'[k].stamp <= table[k].stamp BY <2>2, <4>1 DEF LossInv, SeenInv
      <4>. QED BY <1>3, <1>4, <4>2
    <3>. QED BY <1>5, <2>2, <3>1 DEF LossInv, SeenInv
  <2>. QED BY <1>1, <2>1, <2>2 DEF LossInv, SeenInv
<1>9. ClockInv' /\ CourseInv' BY <1>1, <1>2 DEF LossInv, ClockInv, CourseInv
<1>10. RowsInv'
  <2>1. ASSUME NEW f \in InHand
        PROVE  /\ f[2] <= table'[f[1]].stamp
               /\ Old(f[1])' => f = Row(f[1])' /\ Alive(f[1])'
               /\ \A g \in client.seen : g[1] = f[1] => g[2] <= f[2]
    <3>1. /\ f[2] <= table[f[1]].stamp /\ (Old(f[1]) => f = Row(f[1]) /\ Alive(f[1]))
          /\ \A g \in client.seen : g[1] = f[1] => g[2] <= f[2]
      BY DEF LossInv, RowsInv
    <3>2. f[1] \in Keys BY <1>4
    <3>3. f[2] <= table'[f[1]].stamp BY <1>4, <1>7, <3>1, <3>2
    <3>4. Old(f[1])' => table'[f[1]] = table[f[1]] BY <1>3, <3>2
    <3>. QED BY <1>5, <3>1, <3>2, <3>3, <3>4
  <2>. QED BY <1>1, <1>2, <2>1 DEF LossInv, RowsInv
<1>11. CoverInv'
  <2>1. ASSUME NEW k \in Keys, Old(k)', Alive(k)', table'[k].stamp > Asked, Reached(Row(k))'
        PROVE  Row(k)' \in InHand
    <3>1. table'[k] = table[k] BY <1>3, <2>1
    <3>2. Old(k) /\ Alive(k) /\ Row(k)' = Row(k) /\ table[k].stamp > Asked BY <1>5, <2>1, <3>1
    <3>3. Reached(Row(k)) BY <1>1, <2>1, <3>2 DEF Reached, Before
    <3>. QED BY <3>2, <3>3 DEF LossInv, CoverInv
  <2>. QED BY <1>2, <2>1 DEF CoverInv
<1>12. RemovedInv'
  <2>1. ASSUME NEW k \in call.removed
        PROVE  /\ table'[k].stamp > Asked /\ (Old(k)' => ~Alive(k)')
               /\ \A g \in client.seen : g[1] = k /\ Alive(k)' => g[2] < table'[k].stamp
    <3>0. k \in Keys
      <4>1. call \in Calls BY DEF SinceTypes, SinceTypeOK
      <4>. QED BY <4>1 DEF Calls
    <3>1. /\ table[k].stamp > Asked /\ (Old(k) => ~Alive(k))
          /\ \A g \in client.seen : g[1] = k /\ Alive(k) => g[2] < table[k].stamp
      BY DEF LossInv, RemovedInv
    <3>2. CASE table'[k] = table[k] BY <1>5, <3>0, <3>1, <3>2
    <3>3. CASE table'[k] # table[k]
      <4>1. table'[k].stamp > table[k].stamp /\ table'[k].stamp > Asked /\ ~Old(k)'
        BY <1>3, <3>0, <3>3
      <4>2. \A g \in client.seen : g[1] = k => g[2] < table'[k].stamp
        <5>1. \A g \in client.seen : g[1] = k => g[2] <= table[k].stamp BY DEF LossInv, SeenInv
        <5>. QED BY <1>4, <1>7, <3>0, <4>1, <5>1
      <4>. QED BY <4>1, <4>2
    <3>. QED BY <3>2, <3>3
  <2>2. ASSUME client.since >= 0, call.pc = "now" \/ ~call.first,
               NEW k \in Keys, Old(k)', table'[k].gone > Asked
        PROVE  k \in call.removed
    <3>1. table'[k] = table[k] BY <1>3, <2>2
    <3>. QED BY <1>5, <2>2, <3>1 DEF LossInv, RemovedInv
  <2>. QED BY <1>1, <1>2, <2>1, <2>2 DEF RemovedInv
<1>. QED BY <1>6, <1>8, <1>9, <1>10, <1>11, <1>12 DEF LossInv

\* What a row that matches must be: beyond the since, or the cursor.
LEMMA MatchingOf ==
  ASSUME SinceTypes, LossInv, call.pc \in {"rows", "big"}, NEW k \in Keys, Alive(k),
         table[k].stamp > Asked, call.cursor # NoCursor => Before(call.cursor, Row(k))
  PROVE  Row(k) \in Matching
<1>1. call \in Calls /\ table \in Table /\ client \in Client BY DEF SinceTypes, SinceTypeOK
<1>2. SinceTxt = Asked
  <2>1. call.since = client.since BY DEF LossInv, CourseInv
  <2>. QED BY <2>1 DEF SinceTxt, Asked
<1>. QED BY <1>1, <1>2, MatchingFacts

\* The rows of a page that is cut from those that match.
LEMMA CutRows ==
  ASSUME SinceTypes, LossInv, NEW page, Cut(page)
  PROVE  \A f \in page :
           /\ f[1] \in Keys /\ f = Row(f[1]) /\ Alive(f[1]) /\ f[2] = table[f[1]].stamp
           /\ \A g \in client.seen : g[1] = f[1] => g[2] <= f[2]
<1>1. call \in Calls /\ table \in Table BY DEF SinceTypes, SinceTypeOK
<1>2. ASSUME NEW f \in page
      PROVE  /\ f[1] \in Keys /\ f = Row(f[1]) /\ Alive(f[1]) /\ f[2] = table[f[1]].stamp
             /\ \A g \in client.seen : g[1] = f[1] => g[2] <= f[2]
  <2>1. f \in Matching BY DEF Cut
  <2>2. f[1] \in Keys /\ f = Row(f[1]) /\ Alive(f[1]) BY <1>1, <2>1, MatchingFacts
  <2>3. f[2] = table[f[1]].stamp BY <2>2, RowIsPair
  <2>4. ASSUME NEW g \in client.seen, g[1] = f[1] PROVE g[2] <= f[2]
    <3>1. g[2] <= table[g[1]].stamp BY DEF LossInv, SeenInv
    <3>. QED BY <2>3, <2>4, <3>1
  <2>. QED BY <2>2, <2>3, <2>4
<1>. QED BY <1>2

\* What a page that is cut from those that match leaves out comes after all its rows.
LEMMA CutCovers ==
  ASSUME SinceTypes, LossInv, call.pc \in {"rows", "big"}, NEW page, Cut(page),
         NEW k \in Keys, OldAt(k, Began), Alive(k), table[k].stamp > Asked,
         Row(k) \notin call.occ \cup page
  PROVE  Row(k) \in Matching /\ \A f \in page : Before(f, Row(k))
<1>1. call.cursor # NoCursor => Before(call.cursor, Row(k))
  <2>. SUFFICES ASSUME call.cursor # NoCursor, ~Before(call.cursor, Row(k)) PROVE FALSE
    OBVIOUS
  <2>1. call.pc = "rows" /\ call.started # 0 BY DEF LossInv, CourseInv
  <2>2. Old(k) BY <2>1 DEF Old, Began
  <2>3. Reached(Row(k)) BY <2>1 DEF Reached
  <2>4. Row(k) \in InHand BY <2>2, <2>3 DEF LossInv, CoverInv
  <2>5. call.page = {} /\ call.rows = {} BY <2>1 DEF LossInv, CourseInv
  <2>. QED BY <2>4, <2>5 DEF InHand
<1>2. Row(k) \in Matching BY <1>1, MatchingOf
<1>. QED BY <1>2 DEF Cut

\* What an answer that is settled must have brought.
Brought(page, hasMore) ==
  /\ \A f \in page :
       /\ f[2] <= table[f[1]].stamp
       /\ OldAt(f[1], Began) => f = Row(f[1]) /\ Alive(f[1])
       /\ \A g \in client.seen : g[1] = f[1] => g[2] <= f[2]
  /\ \A k \in Keys :
       OldAt(k, Began) /\ Alive(k) /\ table[k].stamp > Asked
         /\ (hasMore => ~Before(Last(page), Row(k)))
       => Row(k) \in call.occ \cup page

\* All that matched, or the first of it, or the rows kept for the second query.
LEMMA CutBrought ==
  ASSUME SinceTypes, LossInv, call.pc \in {"rows", "big"}, NEW page \in SUBSET Stamped, Cut(page),
         NEW hasMore \in BOOLEAN, hasMore => page # {}, ~hasMore => page = Matching
  PROVE  Brought(page, hasMore)
<1>1. ASSUME NEW f \in page
      PROVE  /\ f[2] <= table[f[1]].stamp
             /\ OldAt(f[1], Began) => f = Row(f[1]) /\ Alive(f[1])
             /\ \A g \in client.seen : g[1] = f[1] => g[2] <= f[2]
  <2>1. /\ f[1] \in Keys /\ f = Row(f[1]) /\ Alive(f[1]) /\ f[2] = table[f[1]].stamp
        /\ \A g \in client.seen : g[1] = f[1] => g[2] <= f[2]
    BY CutRows
  <2>2. table[f[1]].stamp \in Nat BY <2>1, SinceNumbers
  <2>. QED BY <2>1, <2>2
<1>2. ASSUME NEW k \in Keys, OldAt(k, Began), Alive(k), table[k].stamp > Asked,
             hasMore => ~Before(Last(page), Row(k)), Row(k) \notin call.occ \cup page
      PROVE  FALSE
  <2>1. Row(k) \in Matching /\ \A f \in page : Before(f, Row(k)) BY <1>2, CutCovers
  <2>2. CASE hasMore
    <3>1. Last(page) \in page BY <2>2, LastIsLast
    <3>. QED BY <1>2, <2>1, <2>2, <3>1
  <2>3. CASE ~hasMore BY <1>2, <2>1, <2>3
  <2>. QED BY <2>2, <2>3
<1>. QED BY <1>1, <1>2 DEF Brought

LEMMA KeptBrought ==
  ASSUME SinceTypes, LossInv, call.pc = "big"
  PROVE  Brought(call.rows, TRUE)
<1>1. call \in Calls /\ call.rows \in SUBSET Stamped /\ call.rows # {}
  BY DEF SinceTypes, SinceTypeOK, Calls
<1>2. call.started # 0 /\ call.page = {} BY DEF LossInv, CourseInv
<1>3. \A k \in Keys : OldAt(k, Began) <=> Old(k) BY <1>2 DEF Old, Began
<1>4. ASSUME NEW f \in call.rows
      PROVE  /\ f[2] <= table[f[1]].stamp
             /\ OldAt(f[1], Began) => f = Row(f[1]) /\ Alive(f[1])
             /\ \A g \in client.seen : g[1] = f[1] => g[2] <= f[2]
  <2>1. f \in InHand BY DEF InHand
  <2>2. f[1] \in Keys BY <2>1, SinceNumbers
  <2>. QED BY <1>3, <2>1, <2>2 DEF LossInv, RowsInv
<1>5. ASSUME NEW k \in Keys, OldAt(k, Began), Alive(k), table[k].stamp > Asked,
             ~Before(Last(call.rows), Row(k)), Row(k) \notin call.occ \cup call.rows
      PROVE  FALSE
  <2>1. Last(call.rows) \in call.rows BY <1>1, LastIsLast
  <2>2. Row(k) \in Nat \X Nat BY RowIsPair
  <2>3. Last(call.rows) \in Nat \X Nat
    <3>1. Last(call.rows) \in Keys \X Time BY <1>1, <2>1 DEF Stamped
    <3>. QED BY <3>1, SinceConstants, TimeIsNat
  <2>4. Before(Row(k), Last(call.rows)) BY <1>5, <2>1, <2>2, <2>3, BeforeIsOrder
  <2>5. Reached(Row(k)) BY <2>1, <2>4 DEF Reached
  <2>6. Row(k) \in InHand BY <1>3, <1>5, <2>5 DEF LossInv, CoverInv
  <2>. QED BY <1>2, <1>5, <2>6 DEF InHand
<1>. QED BY <1>4, <1>5 DEF Brought

\* When the first answer of a call is read, it has nothing yet.
LEMMA BeganFacts ==
  ASSUME SinceTypes, StampInv, LossInv, call.pc # "idle"
  PROVE  /\ Began \in Nat /\ Began # 0 /\ Began <= now /\ now - Began <= MaxCall
         /\ \A f \in call.occ : OldAt(f[1], Began) => Old(f[1])
         /\ \A k \in call.removed : OldAt(k, Began) => Old(k)
         /\ ~call.first => \A k \in Keys : OldAt(k, Began) => Old(k)
<1>1. now \in Nat /\ call.started \in Nat /\ MaxCall \in Nat BY SinceNumbers
<1>2. now >= 1 BY DEF StampInv
<1>3. call.started <= now /\ (call.started # 0 => now - call.started <= MaxCall)
  BY DEF LossInv, ClockInv
<1>4. CASE call.started = 0
  <2>1. Began = now /\ call.occ = {} /\ call.removed = {} /\ call.first
    BY <1>4 DEF Began, LossInv, CourseInv
  <2>. QED BY <1>1, <1>2, <2>1
<1>5. CASE call.started # 0
  <2>1. Began = call.started BY <1>5 DEF Began
  <2>. QED BY <1>1, <1>3, <1>5, <2>1 DEF Old
<1>. QED BY <1>4, <1>5

\* An answer is settled.
LEMMA LossSettled ==
  ASSUME SinceTypes, StampInv, LossInv, Keyed, UNCHANGED <<now, table, loading, client>>,
         call.pc \in {"rows", "big"},
         NEW page \in SUBSET Stamped, NEW hasMore \in BOOLEAN, NEW next \in Time,
         hasMore => page # {}, Brought(page, hasMore),
         call' = Settled(page, hasMore, next)
  PROVE  LossInv'
<1>1. call \in Calls BY DEF SinceTypes, SinceTypeOK
<1>2. /\ call'.pc = "removed" /\ call'.rows = {} /\ call'.page = page
      /\ call'.hasMore = hasMore /\ call'.started = Began
      /\ call'.cursor = (IF hasMore THEN Last(page) ELSE NoCursor)
      /\ call'.since = call.since /\ call'.got = call.got /\ call'.occ = call.occ
      /\ call'.removed = call.removed /\ call'.first = call.first
  BY <1>1, SettledFields
<1>3. Asked' = Asked /\ InHand' = call.occ \cup page BY <1>2 DEF Asked, InHand
<1>4. \A k \in Keys : (Old(k)' <=> OldAt(k, Began)) /\ (Alive(k)' <=> Alive(k)) /\ Row(k)' = Row(k)
  BY <1>2 DEF Old, OldAt, Alive, Row
<1>5. /\ Began # 0 /\ Began <= now /\ now - Began <= MaxCall
      /\ \A f \in call.occ : OldAt(f[1], Began) => Old(f[1])
      /\ \A k \in call.removed : OldAt(k, Began) => Old(k)
      /\ ~call.first => \A k \in Keys : OldAt(k, Began) => Old(k)
  BY BeganFacts
<1>6. CopyInv' /\ SeenInv' BY DEF LossInv, CopyInv, SeenInv, Alive, Row
<1>7. ClockInv' BY <1>2, <1>5 DEF LossInv, ClockInv
<1>8. hasMore => Last(page) # NoCursor
  <2>. SUFFICES ASSUME hasMore, Last(page) = NoCursor PROVE FALSE OBVIOUS
  <2>1. Last(page) \in page BY LastIsLast
  <2>2. Last(page) \in Keys \X Time BY <2>1 DEF Stamped
  <2>. QED BY <2>2, SinceConstants DEF NoCursor
<1>9. CourseInv'
  <2>1. call.since = client.since BY DEF LossInv, CourseInv
  <2>. QED BY <1>2, <1>5, <1>8, <2>1 DEF LossInv, CourseInv
<1>10. RowsInv'
  <2>1. ASSUME NEW f \in call.occ \cup page
        PROVE  /\ f[2] <= table[f[1]].stamp
               /\ OldAt(f[1], Began) => f = Row(f[1]) /\ Alive(f[1])
               /\ \A g \in client.seen : g[1] = f[1] => g[2] <= f[2]
    <3>1. CASE f \in page BY <3>1 DEF Brought
    <3>2. CASE f \in call.occ
      <4>1. f \in InHand BY <3>2 DEF InHand
      <4>. QED BY <1>5, <3>2, <4>1 DEF LossInv, RowsInv
    <3>. QED BY <3>1, <3>2
  <2>2. ASSUME NEW f \in InHand'
        PROVE  /\ f[2] <= table'[f[1]].stamp
               /\ Old(f[1])' => f = Row(f[1])' /\ Alive(f[1])'
               /\ \A g \in client'.seen : g[1] = f[1] => g[2] <= f[2]
    BY <1>2, <1>3, <2>1 DEF Old, OldAt, Alive, Row
  <2>3. call.got \cap client.seen = {} /\ call.occ \subseteq call.got \cup client.seen
    BY DEF LossInv, RowsInv
  <2>. QED BY <1>2, <2>2, <2>3 DEF RowsInv
<1>11. CoverInv'
  <2>1. ASSUME NEW k \in Keys, Old(k)', Alive(k)', table'[k].stamp > Asked', Reached(Row(k))'
        PROVE  Row(k)' \in InHand'
    <3>1. hasMore => ~Before(Last(page), Row(k)) BY <1>2, <2>1 DEF Reached, Before, Row
    <3>. QED BY <1>3, <1>4, <2>1, <3>1 DEF Brought
  <2>. QED BY <2>1 DEF CoverInv
<1>12. RemovedInv'
  <2>0. call.removed \subseteq Keys BY <1>1 DEF Calls
  <2>1. ASSUME NEW k \in call.removed
        PROVE  /\ table[k].stamp > Asked /\ (Old(k)' => ~Alive(k)')
               /\ \A g \in client.seen : g[1] = k /\ Alive(k)' => g[2] < table[k].stamp
    BY <1>4, <1>5, <2>0 DEF LossInv, RemovedInv
  <2>2. ASSUME client.since >= 0, ~call.first, NEW k \in Keys, Old(k)', table[k].gone > Asked
        PROVE  k \in call.removed
    <3>1. Old(k) BY <1>4, <1>5, <2>2
    <3>. QED BY <2>2, <3>1 DEF LossInv, RemovedInv
  <2>. QED BY <1>2, <1>3, <2>1, <2>2 DEF RemovedInv
<1>. QED BY <1>6, <1>7, <1>9, <1>10, <1>11, <1>12 DEF LossInv

\* The first page of a request, kept for its second query.
LEMMA LossBig ==
  ASSUME SinceTypes, StampInv, LossInv, UNCHANGED <<now, table, loading, client>>,
         call.pc = "rows", call.cursor = NoCursor, NEW page \in SUBSET Stamped, Cut(page),
         call' = [call EXCEPT !.pc = "big", !.rows = page, !.started = Began]
  PROVE  LossInv'
<1>1. call \in Calls BY DEF SinceTypes, SinceTypeOK
<1>2. /\ call'.pc = "big" /\ call'.rows = page /\ call'.page = call.page
      /\ call'.started = Began /\ call'.cursor = call.cursor
      /\ call'.since = call.since /\ call'.got = call.got /\ call'.occ = call.occ
      /\ call'.removed = call.removed /\ call'.first = call.first
  BY <1>1 DEF Calls
<1>3. call.page = {} /\ Asked' = Asked /\ InHand' = call.occ \cup page
  <2>1. call.page = {} BY DEF LossInv, CourseInv
  <2>. QED BY <1>2, <2>1 DEF Asked, InHand
<1>4. \A k \in Keys : (Old(k)' <=> OldAt(k, Began)) /\ (Alive(k)' <=> Alive(k)) /\ Row(k)' = Row(k)
  BY <1>2 DEF Old, OldAt, Alive, Row
<1>5. /\ Began # 0 /\ Began <= now /\ now - Began <= MaxCall
      /\ \A f \in call.occ : OldAt(f[1], Began) => Old(f[1])
      /\ \A k \in call.removed : OldAt(k, Began) => Old(k)
      /\ ~call.first => \A k \in Keys : OldAt(k, Began) => Old(k)
  BY BeganFacts
<1>6. CopyInv' /\ SeenInv' BY DEF LossInv, CopyInv, SeenInv, Alive, Row
<1>7. ClockInv' BY <1>2, <1>5 DEF LossInv, ClockInv
<1>8. CourseInv'
  <2>1. call.since = client.since BY DEF LossInv, CourseInv
  <2>. QED BY <1>2, <1>3, <1>5, <2>1 DEF LossInv, CourseInv
<1>9. RowsInv'
  <2>1. ASSUME NEW f \in call.occ \cup page
        PROVE  /\ f[1] \in Keys /\ f[2] <= table[f[1]].stamp
               /\ OldAt(f[1], Began) => f = Row(f[1]) /\ Alive(f[1])
               /\ \A g \in client.seen : g[1] = f[1] => g[2] <= f[2]
    <3>1. CASE f \in page
      <4>1. /\ f[1] \in Keys /\ f = Row(f[1]) /\ Alive(f[1]) /\ f[2] = table[f[1]].stamp
            /\ \A g \in client.seen : g[1] = f[1] => g[2] <= f[2]
        BY <3>1, CutRows
      <4>2. table[f[1]].stamp \in Nat BY <4>1, SinceNumbers
      <4>. QED BY <4>1, <4>2
    <3>2. CASE f \in call.occ
      <4>1. f \in InHand BY <3>2 DEF InHand
      <4>2. f[1] \in Keys BY <4>1, SinceNumbers
      <4>. QED BY <1>5, <3>2, <4>1, <4>2 DEF LossInv, RowsInv
    <3>. QED BY <3>1, <3>2
  <2>2. ASSUME NEW f \in InHand'
        PROVE  /\ f[2] <= table'[f[1]].stamp
               /\ Old(f[1])' => f = Row(f[1])' /\ Alive(f[1])'
               /\ \A g \in client'.seen : g[1] = f[1] => g[2] <= f[2]
    BY <1>2, <1>3, <2>1 DEF Old, OldAt, Alive, Row
  <2>3. call.got \cap client.seen = {} /\ call.occ \subseteq call.got \cup client.seen
    BY DEF LossInv, RowsInv
  <2>. QED BY <1>2, <2>2, <2>3 DEF RowsInv
<1>10. CoverInv'
  <2>1. ASSUME NEW k \in Keys, Old(k)', Alive(k)', table'[k].stamp > Asked', Reached(Row(k))',
               Row(k)' \notin InHand'
        PROVE  FALSE
    <3>1. \E g \in page : Before(Row(k), g) BY <1>2, <2>1 DEF Reached, Before, Row
    <3>2. PICK g \in page : Before(Row(k), g) BY <3>1
    <3>3. Before(g, Row(k)) BY <1>3, <1>4, <2>1, CutCovers
    <3>4. g \in Nat \X Nat
      <4>1. g \in Keys \X Time BY DEF Stamped
      <4>. QED BY <4>1, SinceConstants, TimeIsNat
    <3>. QED BY <3>2, <3>3, <3>4, RowIsPair, BeforeIsOrder
  <2>. QED BY <2>1 DEF CoverInv
<1>11. RemovedInv'
  <2>0. call.removed \subseteq Keys BY <1>1 DEF Calls
  <2>1. ASSUME NEW k \in call.removed
        PROVE  /\ table[k].stamp > Asked /\ (Old(k)' => ~Alive(k)')
               /\ \A g \in client.seen : g[1] = k /\ Alive(k)' => g[2] < table[k].stamp
    BY <1>4, <1>5, <2>0 DEF LossInv, RemovedInv
  <2>2. ASSUME client.since >= 0, ~call.first, NEW k \in Keys, Old(k)', table[k].gone > Asked
        PROVE  k \in call.removed
    <3>1. Old(k) BY <1>4, <1>5, <2>2
    <3>. QED BY <2>2, <3>1 DEF LossInv, RemovedInv
  <2>. QED BY <1>2, <1>3, <2>1, <2>2 DEF RemovedInv
<1>. QED BY <1>6, <1>7, <1>8, <1>9, <1>10, <1>11 DEF LossInv

\* An answer that fails keeps what it has.
LEMMA LossError ==
  ASSUME SinceTypes, LossInv, UNCHANGED <<now, table, loading, client>>, call.pc = "big",
         call' = [call EXCEPT !.pc = "error"]
  PROVE  LossInv'
<1>1. call \in Calls BY DEF SinceTypes, SinceTypeOK
<1>2. /\ call'.pc = "error" /\ call'.rows = call.rows /\ call'.page = call.page
      /\ call'.started = call.started /\ call'.cursor = call.cursor
      /\ call'.since = call.since /\ call'.got = call.got /\ call'.occ = call.occ
      /\ call'.removed = call.removed /\ call'.first = call.first
  BY <1>1 DEF Calls
<1>3. Asked' = Asked /\ InHand' = InHand BY <1>2 DEF Asked, InHand
<1>4. CopyInv' /\ SeenInv' BY DEF LossInv, CopyInv, SeenInv, Alive, Row
<1>5. ClockInv' /\ CourseInv' BY <1>2, <1>3 DEF LossInv, ClockInv, CourseInv
<1>6. RowsInv'
  <2>1. ASSUME NEW f \in InHand
        PROVE  /\ f[2] <= table'[f[1]].stamp
               /\ Old(f[1])' => f = Row(f[1])' /\ Alive(f[1])'
               /\ \A g \in client'.seen : g[1] = f[1] => g[2] <= f[2]
    BY <1>2, <2>1 DEF LossInv, RowsInv, Old, OldAt, Alive, Row
  <2>. QED BY <1>2, <1>3, <2>1 DEF LossInv, RowsInv
<1>7. CoverInv' BY <1>2 DEF CoverInv, Reached
<1>8. RemovedInv' BY <1>2, <1>3 DEF LossInv, RemovedInv, Old, OldAt, Alive
<1>. QED BY <1>4, <1>5, <1>6, <1>7, <1>8 DEF LossInv

LEMMA LossQuery ==
  ASSUME SinceTypes, StampInv, LossInv, Keyed, QueryRows \/ QueryBig PROVE LossInv'
<1>1. UNCHANGED <<now, table, loading, client>> /\ call.pc \in {"rows", "big"}
  BY DEF QueryRows, QueryBig
<1>2. CASE QueryRows
  <2>1. call.pc = "rows" BY <1>2 DEF QueryRows
  <2>2. PICK page : \E next \in Time :
          /\ Cut(page) /\ page \in SUBSET Stamped
          /\ \/ page = Matching /\ call' = Settled(page, FALSE, next)
             \/ page # {} /\ call' = Settled(page, TRUE, next)
             \/ /\ call.cursor = NoCursor
                /\ call' = [call EXCEPT !.pc = "big", !.rows = page, !.started = Began]
    BY <1>2, QueryRowsEffect DEF SinceTypes
  <2>3. PICK next \in Time :
          /\ Cut(page) /\ page \in SUBSET Stamped
          /\ \/ page = Matching /\ call' = Settled(page, FALSE, next)
             \/ page # {} /\ call' = Settled(page, TRUE, next)
             \/ /\ call.cursor = NoCursor
                /\ call' = [call EXCEPT !.pc = "big", !.rows = page, !.started = Began]
    BY <2>2
  <2>4. CASE page = Matching /\ call' = Settled(page, FALSE, next)
    <3>1. Brought(page, FALSE) BY <1>1, <2>3, <2>4, CutBrought
    <3>. QED BY <1>1, <2>3, <2>4, <3>1, LossSettled
  <2>5. CASE page # {} /\ call' = Settled(page, TRUE, next)
    <3>1. Brought(page, TRUE) BY <1>1, <2>3, <2>5, CutBrought
    <3>. QED BY <1>1, <2>3, <2>5, <3>1, LossSettled
  <2>6. CASE /\ call.cursor = NoCursor
             /\ call' = [call EXCEPT !.pc = "big", !.rows = page, !.started = Began]
    BY <1>1, <2>1, <2>3, <2>6, LossBig
  <2>. QED BY <2>3, <2>4, <2>5, <2>6
<1>3. CASE QueryBig
  <2>1. call.pc = "big" BY <1>3 DEF QueryBig
  <2>2. call.rows # {} /\ call.rows \in SUBSET Stamped
    BY <2>1 DEF SinceTypes, SinceTypeOK, Calls
  <2>3. \/ call' = [call EXCEPT !.pc = "error"]
        \/ \E next \in Time : call' = Settled(call.rows, TRUE, next)
        \/ \E page : \E next \in Time :
             /\ Cut(page) /\ page \in SUBSET Stamped
             /\ \/ page = Matching /\ call' = Settled(page, FALSE, next)
                \/ page # {} /\ call' = Settled(page, TRUE, next)
    BY <1>3, <2>2, QueryBigEffect DEF SinceTypes
  <2>4. CASE call' = [call EXCEPT !.pc = "error"] BY <1>1, <2>1, <2>4, LossError
  <2>5. ASSUME NEW next \in Time, call' = Settled(call.rows, TRUE, next) PROVE LossInv'
    BY <1>1, <2>1, <2>2, <2>5, KeptBrought, LossSettled
  <2>6. ASSUME NEW page \in SUBSET Stamped, NEW next \in Time, Cut(page),
               \/ page = Matching /\ call' = Settled(page, FALSE, next)
               \/ page # {} /\ call' = Settled(page, TRUE, next)
        PROVE  LossInv'
    <3>1. CASE page = Matching /\ call' = Settled(page, FALSE, next)
      <4>1. Brought(page, FALSE) BY <1>1, <2>6, <3>1, CutBrought
      <4>. QED BY <1>1, <3>1, <4>1, LossSettled
    <3>2. CASE page # {} /\ call' = Settled(page, TRUE, next)
      <4>1. Brought(page, TRUE) BY <1>1, <2>6, <3>2, CutBrought
      <4>. QED BY <1>1, <3>2, <4>1, LossSettled
    <3>. QED BY <2>6, <3>1, <3>2
  <2>. QED BY <2>3, <2>4, <2>5, <2>6
<1>. QED BY <1>2, <1>3

\* The deletions are read: all that are due, when the answer can hold them.
LEMMA LossRemoved ==
  ASSUME SinceTypes, StampInv, LossInv, Keyed, QueryRemoved, ~call'.cut PROVE LossInv'
<1>1. call \in Calls /\ client \in Client BY DEF SinceTypes, SinceTypeOK
<1>2. UNCHANGED <<now, table, loading, client>> /\ call.pc = "removed" BY DEF QueryRemoved
<1>3. /\ call'.pc = "now" /\ call'.occ = call.occ /\ call'.page = call.page
      /\ call'.rows = call.rows /\ call'.got = call.got /\ call'.since = call.since
      /\ call'.cursor = call.cursor /\ call'.hasMore = call.hasMore /\ call'.next = call.next
      /\ call'.first = call.first /\ call'.started = call.started
  BY RemovedFields
<1>4. Asked' = Asked /\ InHand' = InHand BY <1>2, <1>3 DEF Asked, InHand
<1>5. \A k \in Keys : (Old(k)' <=> Old(k)) /\ (Alive(k)' <=> Alive(k)) /\ Row(k)' = Row(k)
  BY <1>2, <1>3 DEF Old, OldAt, Alive, Row
<1>6. CopyInv' /\ SeenInv' BY <1>2 DEF LossInv, CopyInv, SeenInv, Alive, Row
<1>7. ClockInv' BY <1>2, <1>3 DEF LossInv, ClockInv
<1>8. RowsInv'
  <2>1. ASSUME NEW f \in InHand
        PROVE  /\ f[2] <= table'[f[1]].stamp
               /\ Old(f[1])' => f = Row(f[1])' /\ Alive(f[1])'
               /\ \A g \in client'.seen : g[1] = f[1] => g[2] <= f[2]
    BY <1>2, <1>3, <2>1 DEF LossInv, RowsInv, Old, OldAt, Alive, Row
  <2>. QED BY <1>2, <1>3, <1>4, <2>1 DEF LossInv, RowsInv
<1>9. CoverInv'
  <2>1. \A k \in Keys : Reached(Row(k))' => Reached(Row(k))
    BY <1>2, <1>3 DEF Reached, Before, Row
  <2>. QED BY <1>2, <1>4, <1>5, <2>1 DEF LossInv, CoverInv
<1>10. CourseInv'
  <2>1. call.started # 0 /\ call.since = client.since /\ call.rows = {}
        /\ (call.hasMore => call.cursor # NoCursor)
    BY <1>2 DEF LossInv, CourseInv
  <2>. QED BY <1>2, <1>3, <2>1 DEF CourseInv
<1>11. RemovedInv'
  <2>1. CASE call.since >= 0 /\ call.first
    <3>1. SinceTxt = Asked
      <4>1. call.since = client.since BY <1>2 DEF LossInv, CourseInv
      <4>. QED BY <4>1 DEF SinceTxt, Asked
    <3>2. PICK removed \in SUBSET Keys : \E removedMax \in Time : \E cut \in BOOLEAN :
            /\ call' = [call EXCEPT !.pc = "now", !.removed = removed,
                                    !.removedMax = removedMax, !.cut = cut]
            /\ \A k \in removed : table[k].gone > SinceTxt
            /\ ~cut => \A k \in Keys : table[k].gone > SinceTxt => k \in removed
      BY <2>1, QueryRemovedEffect DEF SinceTypes
    <3>3. PICK removedMax \in Time, cut \in BOOLEAN :
            /\ call' = [call EXCEPT !.pc = "now", !.removed = removed,
                                    !.removedMax = removedMax, !.cut = cut]
            /\ \A k \in removed : table[k].gone > SinceTxt
            /\ ~cut => \A k \in Keys : table[k].gone > SinceTxt => k \in removed
      BY <3>2
    <3>4. call'.removed = removed /\ call'.cut = cut BY <1>1, <3>3 DEF Calls
    <3>5. ASSUME NEW k \in removed PROVE table[k].stamp > Asked /\ ~Alive(k)
      <4>1. table[k].gone > Asked /\ table[k].gone \in {0, table[k].stamp} /\ Asked \in Nat
        BY <3>1, <3>3, SinceNumbers DEF StampInv
      <4>2. table[k].gone # 0 BY <4>1
      <4>. QED BY <4>1, <4>2 DEF Alive
    <3>6. \A k \in Keys : table[k].gone > Asked => k \in removed BY <3>1, <3>3, <3>4
    <3>. QED BY <1>2, <1>4, <1>5, <3>4, <3>5, <3>6 DEF RemovedInv
  <2>2. CASE ~(call.since >= 0 /\ call.first)
    <3>1. call' = [call EXCEPT !.pc = "now", !.removedMax = 0, !.cut = FALSE]
      BY <2>2, QueryRemovedEffect DEF SinceTypes
    <3>2. call'.removed = call.removed BY <1>1, <3>1 DEF Calls
    <3>3. call.since = client.since BY <1>2 DEF LossInv, CourseInv
    <3>4. call.removed \subseteq Keys BY <1>1 DEF Calls
    <3>5. ASSUME NEW k \in call.removed
          PROVE  /\ table[k].stamp > Asked /\ (Old(k)' => ~Alive(k)')
                 /\ \A g \in client.seen : g[1] = k /\ Alive(k)' => g[2] < table[k].stamp
      BY <1>5, <3>4 DEF LossInv, RemovedInv
    <3>6. ASSUME client.since >= 0, NEW k \in Keys, Old(k)', table[k].gone > Asked
          PROVE  k \in call.removed
      <4>1. ~call.first BY <2>2, <3>3, <3>6
      <4>. QED BY <1>5, <3>6, <4>1 DEF LossInv, RemovedInv
    <3>. QED BY <1>2, <1>3, <1>4, <3>2, <3>5, <3>6 DEF RemovedInv
  <2>. QED BY <2>1, <2>2
<1>. QED BY <1>6, <1>7, <1>8, <1>9, <1>10, <1>11 DEF LossInv

\* An answer arrives: with a key the next page is asked for by the cursor, and at
\* the end the window keeps the next since below all that a load will stamp.
LEMMA LossReceive ==
  ASSUME SinceTypes, LossInv, MaxLoad + MaxCall < Window, Receive, ~call.cut PROVE LossInv'
<1>1. call \in Calls /\ client \in Client BY DEF SinceTypes, SinceTypeOK
<1>2. UNCHANGED <<now, table, loading, client>> BY DEF Receive
<1>3. /\ call.pc = "now"
      /\ call'.got = call.got \cup (call.page \ client.seen)
      /\ call'.occ = call.occ \cup call.page /\ call'.page = {} /\ call'.rows = call.rows
      /\ call'.next = finalizeNextSince /\ call'.removed = call.removed
      /\ call'.started = call.started /\ call'.cursor = call.cursor /\ ~call'.first
      /\ \/ call'.pc = "done" /\ call'.since = call.since
            /\ (call.hasMore => call.cursor = NoCursor)
         \/ /\ call'.pc = "rows" /\ call.hasMore
            /\ call'.since = IF call.cursor = NoCursor THEN finalizeNextSince ELSE call.since
  BY ReceiveEffect DEF SinceTypes
<1>4. /\ call.started # 0 /\ call.since = client.since /\ call.rows = {}
      /\ call.hasMore => call.cursor # NoCursor
  BY <1>3 DEF LossInv, CourseInv
<1>5. Asked' = Asked /\ InHand' = InHand BY <1>2, <1>3 DEF Asked, InHand
<1>6. \A k \in Keys : (Old(k)' <=> Old(k)) /\ (Alive(k)' <=> Alive(k)) /\ Row(k)' = Row(k)
  BY <1>2, <1>3 DEF Old, OldAt, Alive, Row
<1>7. CopyInv' /\ SeenInv' BY <1>2 DEF LossInv, CopyInv, SeenInv, Alive, Row
<1>8. CourseInv' BY <1>2, <1>3, <1>4 DEF CourseInv
<1>9. ClockInv'
  <2>1. ASSUME call'.pc = "done"
        PROVE  finalizeNextSince = Asked \/ finalizeNextSince + MaxLoad < call.started
    <3>1. ~call.hasMore BY <1>3, <1>4, <2>1
    <3>2. SinceTxt = Asked BY <1>4 DEF SinceTxt, Asked
    <3>3. finalizeNextSince = Asked \/ finalizeNextSince <= now - Window
      BY <3>1, <3>2, FinalizeFacts DEF SinceTypes
    <3>4. finalizeNextSince \in Nat BY FinalizeFacts, TimeIsNat DEF SinceTypes
    <3>5. now \in Nat /\ call.started \in Nat /\ MaxLoad \in Nat /\ MaxCall \in Nat /\ Window \in Nat
      BY SinceNumbers, SinceConstants
    <3>6. now - call.started <= MaxCall BY <1>4 DEF LossInv, ClockInv
    <3>. QED BY <3>3, <3>4, <3>5, <3>6
  <2>. QED BY <1>2, <1>3, <1>5, <2>1 DEF LossInv, ClockInv
<1>10. RowsInv'
  <2>1. ASSUME NEW f \in InHand
        PROVE  /\ f[2] <= table'[f[1]].stamp
               /\ Old(f[1])' => f = Row(f[1])' /\ Alive(f[1])'
               /\ \A g \in client'.seen : g[1] = f[1] => g[2] <= f[2]
    BY <1>2, <1>3, <2>1 DEF LossInv, RowsInv, Old, OldAt, Alive, Row
  <2>2. call.got \cap client.seen = {} /\ call.occ \subseteq call.got \cup client.seen
    BY DEF LossInv, RowsInv
  <2>3. call'.got \cap client.seen = {} /\ call'.occ \subseteq call'.got \cup client.seen
    BY <1>3, <2>2
  <2>. QED BY <1>2, <1>5, <2>1, <2>3 DEF RowsInv
<1>11. CoverInv'
  <2>1. ASSUME NEW k \in Keys PROVE Reached(Row(k))' => Reached(Row(k))
    <3>1. CASE call'.pc = "done"
      <4>1. ~call.hasMore BY <1>3, <1>4, <3>1
      <4>. QED BY <1>3, <4>1 DEF Reached
    <3>2. CASE call'.pc = "rows" BY <1>2, <1>3, <3>2 DEF Reached, Before, Row
    <3>. QED BY <1>3, <3>1, <3>2
  <2>. QED BY <1>2, <1>5, <1>6, <2>1 DEF LossInv, CoverInv
<1>12. RemovedInv'
  <2>1. call.removed \subseteq Keys BY <1>1 DEF Calls
  <2>2. ASSUME NEW k \in call.removed
        PROVE  /\ table[k].stamp > Asked /\ (Old(k)' => ~Alive(k)')
               /\ \A g \in client.seen : g[1] = k /\ Alive(k)' => g[2] < table[k].stamp
    BY <1>6, <2>1 DEF LossInv, RemovedInv
  <2>3. ASSUME client.since >= 0, NEW k \in Keys, Old(k)', table[k].gone > Asked
        PROVE  k \in call.removed
    BY <1>3, <1>6, <2>3 DEF LossInv, RemovedInv
  <2>. QED BY <1>2, <1>3, <1>5, <2>2, <2>3 DEF RemovedInv
<1>. QED BY <1>7, <1>8, <1>9, <1>10, <1>11, <1>12 DEF LossInv

\* A call begins, or ends with nothing to keep.
LEMMA NothingInHand ==
  ASSUME call' = NoCall \/ call' = [NoCall EXCEPT !.pc = "rows", !.since = client.since],
         call' = NoCall \/ client' = client
  PROVE  CourseInv' /\ RowsInv' /\ CoverInv' /\ RemovedInv'
         /\ call'.started = 0 /\ call'.pc \in {"idle", "rows"}
<1>1. CASE call' = NoCall
  <2>1. /\ call'.pc = "idle" /\ call'.occ = {} /\ call'.page = {} /\ call'.rows = {}
        /\ call'.got = {} /\ call'.removed = {} /\ call'.cursor = NoCursor /\ call'.first
        /\ call'.started = 0
    BY <1>1 DEF NoCall
  <2>2. InHand' = {} BY <2>1 DEF InHand
  <2>3. ASSUME NEW k \in Keys PROVE ~Reached(Row(k))' BY <2>1 DEF Reached
  <2>4. CourseInv' BY <1>1, <2>1 DEF CourseInv
  <2>5. RowsInv' BY <2>1, <2>2 DEF RowsInv
  <2>6. CoverInv' BY <2>3 DEF CoverInv
  <2>7. RemovedInv' BY <2>1 DEF RemovedInv
  <2>. QED BY <2>1, <2>4, <2>5, <2>6, <2>7
<1>2. CASE call' = [NoCall EXCEPT !.pc = "rows", !.since = client.since] /\ client' = client
  <2>1. /\ call'.pc = "rows" /\ call'.occ = {} /\ call'.page = {} /\ call'.rows = {}
        /\ call'.got = {} /\ call'.removed = {} /\ call'.cursor = NoCursor /\ call'.first
        /\ call'.started = 0 /\ call'.since = client.since
    BY <1>2 DEF NoCall
  <2>2. InHand' = {} BY <2>1 DEF InHand
  <2>3. ASSUME NEW k \in Keys PROVE ~Reached(Row(k))' BY <2>1 DEF Reached
  <2>4. CourseInv' BY <1>2, <2>1 DEF CourseInv
  <2>5. RowsInv' BY <2>1, <2>2 DEF RowsInv
  <2>6. CoverInv' BY <2>3 DEF CoverInv
  <2>7. RemovedInv' BY <2>1 DEF RemovedInv
  <2>. QED BY <2>1, <2>4, <2>5, <2>6, <2>7
<1>. QED BY <1>1, <1>2

LEMMA LossNothing ==
  ASSUME SinceTypes, LossInv, Call \/ Fails PROVE LossInv'
<1>1. UNCHANGED <<now, table, client>> BY DEF Call, Fails
<1>2. call' = NoCall \/ call' = [NoCall EXCEPT !.pc = "rows", !.since = client.since]
  BY DEF Call, Fails
<1>3. /\ CourseInv' /\ RowsInv' /\ CoverInv' /\ RemovedInv'
      /\ call'.started = 0 /\ call'.pc \in {"idle", "rows"}
  BY <1>1, <1>2, NothingInHand
<1>4. CopyInv' /\ SeenInv' BY <1>1 DEF LossInv, CopyInv, SeenInv, Alive, Row
<1>5. ClockInv'
  <2>1. now \in Nat BY SinceNumbers
  <2>2. client.since <= 0 \/ client.since + MaxLoad < now BY DEF LossInv, ClockInv
  <2>. QED BY <1>1, <1>3, <2>1, <2>2 DEF ClockInv
<1>. QED BY <1>3, <1>4, <1>5 DEF LossInv

\* What the caller makes of the rows and deletions of a call: up to the next since,
\* the table.
LEMMA CopyApplied ==
  ASSUME SinceTypes, StampInv, DeliveryInv, LossInv, call.pc = "done", NEW k \in Keys,
         table[k].stamp # 0, table[k].stamp <= call.next
  PROVE  Applied(k) = IF Alive(k) THEN table[k].stamp ELSE 0
<1>. DEFINE given == {f \in call.got : f[1] = k}
<1>1. /\ Asked \in Nat /\ call.next \in Nat /\ call.started \in Nat /\ MaxLoad \in Nat
      /\ table[k].stamp \in Nat /\ client.since \in Int /\ client.since >= -1
      /\ Asked = (IF client.since >= 0 THEN client.since ELSE 0)
  BY SinceNumbers
<1>2. /\ call.page = {} /\ call.rows = {} /\ ~call.first
      /\ call.next = Asked \/ call.next + MaxLoad < call.started
  BY DEF LossInv, CourseInv, ClockInv
<1>3. InHand = call.occ /\ given \subseteq InHand BY <1>2 DEF InHand, DeliveryInv
<1>4. /\ given = {} => Applied(k) = IF k \in call.removed THEN 0 ELSE client.copy[k]
      /\ given # {} /\ k \notin call.removed => <<k, Applied(k)>> \in call.got
  BY AppliedFacts DEF SinceTypes
<1>. HIDE DEF given
<1>5. CASE table[k].stamp <= Asked
  <2>1. table[k].stamp <= client.since /\ client.since >= 0 BY <1>1, <1>5
  <2>2. client.copy[k] = IF Alive(k) THEN table[k].stamp ELSE 0 BY <2>1 DEF LossInv, CopyInv
  <2>3. given = {}
    <3>. SUFFICES ASSUME NEW f \in given PROVE FALSE OBVIOUS
    <3>1. f \in InHand /\ f[1] = k BY <1>3 DEF given
    <3>2. f[2] > Asked /\ f[2] <= table[k].stamp BY <3>1 DEF DeliveryInv, LossInv, RowsInv
    <3>3. f[2] \in Nat BY <3>1, SinceNumbers
    <3>. QED BY <1>1, <1>5, <3>2, <3>3
  <2>4. k \notin call.removed
    <3>1. k \in call.removed => table[k].stamp > Asked BY DEF LossInv, RemovedInv
    <3>. QED BY <1>1, <1>5, <3>1
  <2>. QED BY <1>4, <2>2, <2>3, <2>4
<1>6. CASE table[k].stamp > Asked
  <2>1. Old(k) BY <1>1, <1>2, <1>6 DEF Old, OldAt
  <2>2. CASE Alive(k)
    <3>1. Row(k) \in call.occ
      <4>1. Reached(Row(k)) BY DEF Reached
      <4>. QED BY <1>3, <1>6, <2>1, <2>2, <4>1 DEF LossInv, CoverInv
    <3>2. k \notin call.removed BY <2>1, <2>2 DEF LossInv, RemovedInv
    <3>3. CASE given = {}
      <4>1. Row(k) \in client.seen
        <5>1. Row(k)[1] = k BY DEF Row
        <5>2. Row(k) \notin call.got BY <3>3, <5>1 DEF given
        <5>. QED BY <3>1, <5>2 DEF LossInv, RowsInv
      <4>2. client.copy[k] = table[k].stamp BY <2>2, <4>1 DEF LossInv, SeenInv
      <4>. QED BY <1>4, <2>2, <3>2, <3>3, <4>2
    <3>4. CASE given # {}
      <4>1. <<k, Applied(k)>> \in call.got BY <1>4, <3>2, <3>4
      <4>2. <<k, Applied(k)>> \in InHand BY <1>3, <4>1 DEF DeliveryInv
      <4>3. Old(<<k, Applied(k)>>[1]) BY <2>1
      <4>4. <<k, Applied(k)>> = Row(<<k, Applied(k)>>[1]) BY <4>2, <4>3 DEF LossInv, RowsInv
      <4>5. <<k, Applied(k)>> = <<k, table[k].stamp>> BY <4>4 DEF Row
      <4>. QED BY <2>2, <4>5
    <3>. QED BY <3>3, <3>4
  <2>3. CASE ~Alive(k)
    <3>1. table[k].gone = table[k].stamp
      <4>1. table[k].gone \in {0, table[k].stamp} BY DEF StampInv
      <4>2. table[k].gone # 0 BY <2>3 DEF Alive
      <4>. QED BY <4>1, <4>2
    <3>2. given = {}
      <4>. SUFFICES ASSUME NEW f \in given PROVE FALSE OBVIOUS
      <4>1. f \in InHand /\ f[1] = k BY <1>3 DEF given
      <4>2. Alive(f[1]) BY <2>1, <4>1 DEF LossInv, RowsInv
      <4>. QED BY <2>3, <4>1, <4>2
    <3>3. CASE client.since >= 0
      <4>1. k \in call.removed BY <1>2, <1>6, <2>1, <3>1, <3>3 DEF LossInv, RemovedInv
      <4>. QED BY <1>4, <2>3, <3>2, <4>1
    <3>4. CASE client.since = -1
      <4>1. client.copy[k] = 0 BY <3>4 DEF LossInv, SeenInv
      <4>. QED BY <1>4, <2>3, <3>2, <4>1
    <3>. QED BY <1>1, <3>3, <3>4
  <2>. QED BY <2>2, <2>3
<1>. QED BY <1>1, <1>5, <1>6

\* Beyond it, the rows that are remembered and still in the table are in the copy:
\* none was taken for one deleted, since deletions come first, nor for an older one.
LEMMA SeenApplied ==
  ASSUME SinceTypes, DeliveryInv, LossInv, DeletesFirst, NEW k \in Keys, Alive(k),
         Row(k) \in client.seen \cup call.occ
  PROVE  Applied(k) = table[k].stamp
<1>. DEFINE given == {f \in call.got : f[1] = k}
<1>1. /\ given = {} => Applied(k) = IF k \in call.removed THEN 0 ELSE client.copy[k]
      /\ given # {} => <<k, Applied(k)>> \in call.got /\ \A f \in given : f[2] <= Applied(k)
  BY AppliedFacts DEF SinceTypes
<1>2. Row(k)[1] = k /\ Row(k)[2] = table[k].stamp /\ table[k].stamp \in Nat
  BY SinceNumbers DEF Row
<1>3. Row(k) \in call.got \cup client.seen BY DEF LossInv, RowsInv
<1>4. CASE given = {}
  <2>1. Row(k) \in client.seen BY <1>2, <1>3, <1>4
  <2>2. client.copy[k] = table[k].stamp BY <2>1 DEF LossInv, SeenInv
  <2>3. k \notin call.removed
    <3>. SUFFICES ASSUME k \in call.removed PROVE FALSE OBVIOUS
    <3>1. Row(k)[2] < table[k].stamp BY <1>2, <2>1 DEF LossInv, RemovedInv
    <3>. QED BY <1>2, <3>1
  <2>. QED BY <1>1, <1>4, <2>2, <2>3
<1>5. CASE given # {}
  <2>. DEFINE f == <<k, Applied(k)>>
  <2>1. f \in call.got /\ f[1] = k /\ f[2] = Applied(k) BY <1>1, <1>5
  <2>2. f \in InHand BY <2>1 DEF DeliveryInv, InHand
  <2>3. Applied(k) \in Nat
    <3>1. Applied(k) \in Time BY AppliedFacts DEF SinceTypes
    <3>. QED BY <3>1, TimeIsNat
  <2>4. Applied(k) <= table[k].stamp
    <3>1. f[2] <= table[f[1]].stamp BY <2>2 DEF LossInv, RowsInv
    <3>. QED BY <2>1, <3>1
  <2>5. table[k].stamp <= Applied(k)
    <3>1. CASE Row(k) \in call.got
      <4>1. Row(k) \in given BY <1>2, <3>1
      <4>. QED BY <1>1, <1>2, <1>5, <4>1
    <3>2. CASE Row(k) \in client.seen
      <4>1. Row(k)[2] <= f[2] BY <1>2, <2>1, <2>2, <3>2 DEF LossInv, RowsInv
      <4>. QED BY <1>2, <2>1, <4>1
    <3>. QED BY <1>3, <3>1, <3>2
  <2>. QED BY <1>2, <2>3, <2>4, <2>5
<1>. QED BY <1>4, <1>5

LEMMA LossApply ==
  ASSUME SinceTypes, StampInv, DeliveryInv, LossInv, DeletesFirst, Apply PROVE LossInv'
<1>1. client \in Client /\ call \in Calls BY DEF SinceTypes, SinceTypeOK
<1>2. /\ call.pc = "done" /\ call' = NoCall /\ client'.since = call.next
      /\ client'.seen = Remembered(call.next) /\ client'.copy = [k \in Keys |-> Applied(k)]
  BY ApplyEffect DEF SinceTypes
<1>3. UNCHANGED <<now, table>> BY DEF Apply
<1>4. /\ CourseInv' /\ RowsInv' /\ CoverInv' /\ RemovedInv'
      /\ call'.started = 0 /\ call'.pc \in {"idle", "rows"}
  BY <1>2, NothingInHand
<1>5. /\ now \in Nat /\ call.started \in Nat /\ call.next \in Nat /\ Asked \in Nat
      /\ MaxLoad \in Nat /\ client.since \in Int
      /\ Asked = (IF client.since >= 0 THEN client.since ELSE 0)
  BY SinceNumbers
<1>6. ClockInv'
  <2>1. call.next = Asked \/ call.next + MaxLoad < call.started BY <1>2 DEF LossInv, ClockInv
  <2>2. call.started <= now /\ (client.since <= 0 \/ client.since + MaxLoad < now)
    BY DEF LossInv, ClockInv
  <2>3. call.next <= 0 \/ call.next + MaxLoad < now BY <1>5, <2>1, <2>2
  <2>. QED BY <1>2, <1>3, <1>4, <1>5, <2>3 DEF ClockInv
<1>7. CopyInv'
  <2>1. ASSUME NEW k \in Keys, table[k].stamp # 0, table[k].stamp <= call.next
        PROVE  Applied(k) = IF Alive(k) THEN table[k].stamp ELSE 0
    BY <1>2, <2>1, CopyApplied
  <2>2. ASSUME NEW k \in Keys, table'[k].stamp # 0, table'[k].stamp <= client'.since
        PROVE  client'.copy[k] = IF Alive(k)' THEN table'[k].stamp ELSE 0
    <3>1. client'.copy[k] = Applied(k) BY <1>2
    <3>. QED BY <1>2, <1>3, <2>1, <2>2, <3>1 DEF Alive
  <2>. QED BY <2>2 DEF CopyInv
<1>8. SeenInv'
  <2>1. client'.seen \subseteq client.seen \cup call.occ BY <1>2 DEF Remembered
  <2>2. ASSUME NEW f \in client'.seen PROVE f[2] <= table'[f[1]].stamp
    <3>1. CASE f \in client.seen BY <1>3, <3>1 DEF LossInv, SeenInv
    <3>2. CASE f \in call.occ
      <4>1. f \in InHand BY <3>2 DEF InHand
      <4>. QED BY <1>3, <4>1 DEF LossInv, RowsInv
    <3>. QED BY <2>1, <3>1, <3>2
  <2>3. ASSUME NEW k \in Keys, Alive(k)', Row(k)' \in client'.seen
        PROVE  client'.copy[k] = table'[k].stamp
    <3>1. Alive(k) /\ Row(k) \in client.seen \cup call.occ BY <1>3, <2>1, <2>3 DEF Alive, Row
    <3>2. Applied(k) = table[k].stamp BY <3>1, SeenApplied
    <3>. QED BY <1>2, <1>3, <3>2
  <2>4. client'.since # -1 BY <1>2, <1>5
  <2>. QED BY <2>2, <2>3, <2>4 DEF SeenInv
<1>. QED BY <1>4, <1>6, <1>7, <1>8 DEF LossInv

LEMMA LossInit == SinceInit => LossInv
<1>. SUFFICES ASSUME SinceInit PROVE LossInv OBVIOUS
<1>1. /\ now = 1 /\ table = [k \in Keys |-> [stamp |-> 0, gone |-> 0]]
      /\ client = [since |-> -1, copy |-> [k \in Keys |-> 0], seen |-> {}, loads |-> 0]
      /\ call = NoCall
  BY DEF SinceInit
<1>2. /\ call.pc = "idle" /\ call.started = 0 /\ InHand = {} /\ call.got = {} /\ call.removed = {}
      /\ call.occ = {} /\ call.page = {} /\ call.rows = {} /\ call.cursor = NoCursor /\ call.first
  BY <1>1 DEF NoCall, InHand
<1>3. client.since = -1 /\ client.seen = {} /\ client.copy = [k \in Keys |-> 0] BY <1>1
<1>4. \A k \in Keys : table[k].stamp = 0 BY <1>1
<1>5. CopyInv /\ SeenInv BY <1>3, <1>4 DEF CopyInv, SeenInv
<1>6. ClockInv /\ CourseInv BY <1>1, <1>2, <1>3 DEF ClockInv, CourseInv
<1>7. RowsInv /\ RemovedInv BY <1>2 DEF RowsInv, RemovedInv
<1>8. CoverInv BY <1>2 DEF CoverInv, Reached
<1>. QED BY <1>5, <1>6, <1>7, <1>8 DEF LossInv

LEMMA LossStep ==
  ASSUME Keyed, DeletesFirst, MaxLoad + MaxCall < Window,
         SinceTypes, StampInv, DeliveryInv, LossInv, [SinceNext]_sinceVars, ~call.cut, ~call'.cut
  PROVE  LossInv'
<1>1. client \in Client BY DEF SinceTypes, SinceTypeOK
<1>2. CASE LoadBegin
  <2>1. /\ call' = call /\ table' = table /\ now' = now
        /\ client' = [client EXCEPT !.loads = client.loads + 1]
    BY <1>2 DEF LoadBegin
  <2>2. /\ client'.since = client.since /\ client'.copy = client.copy
        /\ client'.seen = client.seen
    BY <1>1, <2>1 DEF Client
  <2>. QED BY <2>1, <2>2, LossKept
<1>3. CASE LoadCarry \/ LoadStamp \/ UNCHANGED sinceVars
  <2>1. call' = call /\ table' = table /\ now' = now /\ client' = client
    BY <1>3 DEF LoadCarry, LoadStamp, sinceVars
  <2>. QED BY <2>1, LossKept
<1>4. CASE Publish BY <1>4, LossPublish
<1>5. CASE Elapse BY <1>5, LossElapse
<1>6. CASE Call \/ Fails BY <1>6, LossNothing
<1>7. CASE QueryRows \/ QueryBig BY <1>7, LossQuery
<1>8. CASE QueryRemoved BY <1>8, LossRemoved
<1>9. CASE Receive BY <1>9, LossReceive
<1>10. CASE Apply BY <1>10, LossApply
<1>. QED BY <1>2, <1>3, <1>4, <1>5, <1>6, <1>7, <1>8, <1>9, <1>10 DEF SinceNext

\* Up to its since a client has the table, and what it missed of it is beyond: when
\* the table has a key, the deletions are applied before the rows, no answer leaves
\* deletions out, and the safety window exceeds a load and a call together.
THEOREM NothingIsLost ==
  ASSUME Keyed, DeletesFirst, MaxLoad + MaxCall < Window
  PROVE  SinceSpec /\ [](~call.cut) => []NothingLost
<1>. DEFINE LInv == SinceTypes /\ StampInv /\ DeliveryInv /\ LossInv
<1>1. SinceInit => LInv BY SinceInits, DeliveryInit, LossInit
<1>2. LInv /\ [SinceNext]_sinceVars /\ ~call.cut /\ (~call.cut)' => LInv'
  BY TypesStep, StampStep, DeliveryStep, LossStep
<1>3. LInv => NothingLost
  <2>. SUFFICES ASSUME LInv, NEW k \in Keys
                PROVE  /\ Alive(k) /\ table[k].stamp <= client.since => client.copy[k] = table[k].stamp
                       /\ table[k].gone # 0 /\ table[k].gone <= client.since => client.copy[k] = 0
    BY DEF NothingLost
  <2>1. table[k].stamp # 0 /\ table[k].stamp <= client.since
          => client.copy[k] = IF Alive(k) THEN table[k].stamp ELSE 0
    BY DEF LossInv, CopyInv
  <2>2. table[k].gone # 0 => table[k].gone = table[k].stamp /\ ~Alive(k)
    BY DEF StampInv, Alive
  <2>. QED BY <2>1, <2>2 DEF Alive
<1>. QED BY <1>1, <1>2, <1>3, PTL DEF SinceSpec

\* An answer leaves deletions out only of a table of more keys than it may list.
LEMMA CutStep ==
  ASSUME Cardinality(Keys) <= REMOVED_CAP, SinceTypes, ~call.cut, [SinceNext]_sinceVars
  PROVE  ~call'.cut
<1>1. call \in Calls BY DEF SinceTypes, SinceTypeOK
<1>2. CASE Fails \/ Apply
  <2>1. call' = NoCall BY <1>2 DEF Fails, Apply
  <2>. QED BY <2>1 DEF NoCall
<1>3. CASE Call
  <2>1. call' = [NoCall EXCEPT !.pc = "rows", !.since = client.since] BY <1>3 DEF Call
  <2>. QED BY <2>1 DEF NoCall
<1>4. CASE LoadBegin \/ LoadCarry \/ LoadStamp \/ Publish \/ Elapse \/ UNCHANGED sinceVars
  BY <1>4 DEF LoadBegin, LoadCarry, LoadStamp, Publish, Elapse, sinceVars
<1>5. ASSUME NEW page, NEW next,
             \/ call' = Settled(page, FALSE, next)
             \/ call' = Settled(page, TRUE, next)
             \/ call' = [call EXCEPT !.pc = "big", !.rows = page, !.started = Began]
             \/ call' = [call EXCEPT !.pc = "error"]
      PROVE  ~call'.cut
  <2>1. CASE call' = Settled(page, FALSE, next) BY <1>1, <2>1, SettledFields
  <2>2. CASE call' = Settled(page, TRUE, next) BY <1>1, <2>2, SettledFields
  <2>3. CASE call' = [call EXCEPT !.pc = "big", !.rows = page, !.started = Began]
    BY <1>1, <2>3 DEF Calls
  <2>4. CASE call' = [call EXCEPT !.pc = "error"] BY <1>1, <2>4 DEF Calls
  <2>. QED BY <1>5, <2>1, <2>2, <2>3, <2>4
<1>6. CASE QueryRows
  <2>1. \E page : \E next \in Time :
          \/ call' = Settled(page, FALSE, next)
          \/ call' = Settled(page, TRUE, next)
          \/ call' = [call EXCEPT !.pc = "big", !.rows = page, !.started = Began]
    BY <1>6, QueryRowsEffect DEF SinceTypes
  <2>. QED BY <1>5, <2>1
<1>7. CASE QueryBig
  <2>1. call.rows # {} BY <1>7 DEF QueryBig, SinceTypes
  <2>2. \/ call' = [call EXCEPT !.pc = "error"]
        \/ \E next \in Time : call' = Settled(call.rows, TRUE, next)
        \/ \E page : \E next \in Time :
             \/ call' = Settled(page, FALSE, next)
             \/ call' = Settled(page, TRUE, next)
    BY <1>7, <2>1, QueryBigEffect DEF SinceTypes
  <2>. QED BY <1>5, <2>2
<1>8. CASE QueryRemoved
  <2>1. \/ \E removed \in SUBSET Keys : \E removedMax \in Time : \E cut \in BOOLEAN :
             /\ call' = [call EXCEPT !.pc = "now", !.removed = removed,
                                     !.removedMax = removedMax, !.cut = cut]
             /\ cut => Cardinality(Keys) > REMOVED_CAP
        \/ call' = [call EXCEPT !.pc = "now", !.removedMax = 0, !.cut = FALSE]
    BY <1>8, QueryRemovedEffect DEF SinceTypes
  <2>2. ASSUME NEW removed, NEW removedMax, NEW cut \in BOOLEAN,
               call' = [call EXCEPT !.pc = "now", !.removed = removed,
                                    !.removedMax = removedMax, !.cut = cut],
               cut => Cardinality(Keys) > REMOVED_CAP
        PROVE  ~call'.cut
    <3>1. call'.cut = cut BY <1>1, <2>2 DEF Calls
    <3>2. Cardinality(Keys) \in Nat /\ REMOVED_CAP \in Nat BY SinceConstants, FS_CardinalityType
    <3>. QED BY <2>2, <3>1, <3>2
  <2>3. CASE call' = [call EXCEPT !.pc = "now", !.removedMax = 0, !.cut = FALSE]
    BY <1>1, <2>3 DEF Calls
  <2>. QED BY <2>1, <2>2, <2>3
<1>9. CASE Receive
  <2>1. call'.cut = FALSE BY <1>1, <1>9 DEF Receive, Calls
  <2>. QED BY <2>1
<1>. QED BY <1>2, <1>3, <1>4, <1>6, <1>7, <1>8, <1>9 DEF SinceNext

\* So nothing is lost of a table of no more keys than an answer may list as deleted.
THEOREM NothingIsLostOfFew ==
  ASSUME Keyed, DeletesFirst, MaxLoad + MaxCall < Window, Cardinality(Keys) <= REMOVED_CAP
  PROVE  SinceSpec => []NothingLost
<1>1. SinceInit => SinceTypes /\ StampInv /\ ~call.cut
  <2>1. SinceInit => ~call.cut BY DEF SinceInit, NoCall
  <2>. QED BY <2>1, SinceInits
<1>2. (SinceTypes /\ StampInv /\ ~call.cut) /\ [SinceNext]_sinceVars
        => (SinceTypes /\ StampInv /\ ~call.cut)'
  BY TypesStep, StampStep, CutStep
<1>3. SinceSpec => [](~call.cut) BY <1>1, <1>2, PTL DEF SinceSpec
<1>4. SinceSpec /\ [](~call.cut) => []NothingLost BY NothingIsLost
<1>. QED BY <1>3, <1>4, PTL
==============================================================================
