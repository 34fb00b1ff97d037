--------------------------- MODULE SourceDeltaProofs ---------------------------
(***************************************************************************)
(* Proofs about SourceDelta, for any keys and rows, settings and bounds:   *)
(* an incremental reading leaves nothing behind for good, and empties a    *)
(* table only when somebody asked it to.  Then what is proved of the file  *)
(* of a firebird-ftp connection, which other sources read.                 *)
(***************************************************************************)
EXTENDS SourceDelta, FirebirdMaterialization, FiniteSetTheorems, WellFoundedInduction, TLAPS

\* What carries the wishes of a person, the jobs and the rounds.
Marker == [for : Round \cup {"none"}, manual : BOOLEAN, acceptDrop : BOOLEAN,
           allowDropPct : Int]
RoundJob == [status : {"none", "queued", "running"}, manual : BOOLEAN, acceptDrop : BOOLEAN,
             accepted : BOOLEAN]
RoundRun ==
  [pc : {"none", "begun", "read", "keys", "swapped", "marking", "queueing"}, kind : Round,
   mark : Nat, column : Nat, skips : Nat, cap : Nat, marker : Marker, accepted : BOOLEAN,
   merge : BOOLEAN, delta : BOOLEAN, staged : [Keys -> Nat], shape : Nat,
   newMark : Nat \cup {-1}, keys : SUBSET Keys,
   check : {"none", "empty", "skipped", "applied"}, measured : Int]

Uses == [writes : Nat, events : Nat, cancelled : BOOLEAN]

\* The types, whatever the bounds; a table is never of a structure to come.
DeltaTypes ==
  /\ clock \in Nat /\ shape \in Nat \ {0} /\ mark \in Nat /\ column \in Nat /\ skips \in Nat
  /\ used \in Uses
  /\ src \in [Keys -> [delta : Nat, ver : Nat]]
  /\ open \in [key : SUBSET Keys, at : Nat, ver : Nat]
  /\ target \in [shape : Nat, rows : [Keys -> [ver : Nat, gone : BOOLEAN]]]
  /\ target.shape <= shape /\ run.shape <= shape
  /\ marker \in Marker /\ job \in [Round -> RoundJob] /\ run \in RoundRun

\* A bounded set of numbers has a greatest one: the distances to the bound have a
\* least, since the order of the numbers is well-founded.
LEMMA MaxOfBounded ==
  ASSUME NEW n \in Nat, NEW S \in SUBSET (0..n), S # {}
  PROVE  \E x \in S : \A y \in S : x >= y
<1>. DEFINE T == {n - x : x \in S}
<1>1. T \subseteq Nat /\ T # {}
  <2>1. ASSUME NEW x \in S PROVE n - x \in Nat
    <3>1. x \in 0..n OBVIOUS
    <3>. QED BY <3>1
  <2>. QED BY <2>1
<1>2. PICK t \in T : \A u \in T : ~(<<u, t>> \in OpToRel(<, Nat))
  BY <1>1, NatLessThanWellFounded, WFMin, Zenon
<1>3. ASSUME NEW u \in T, u < t PROVE FALSE
  <2>. HIDE DEF T
  <2>1. u \in Nat /\ t \in Nat BY <1>1
  <2>2. <<u, t>> \in {q \in Nat \X Nat : q[1] < q[2]} BY <1>3, <2>1
  <2>3. <<u, t>> \in OpToRel(<, Nat) BY <2>2 DEF OpToRel
  <2>. QED BY <1>2, <2>3
<1>4. PICK x \in S : t = n - x OBVIOUS
<1>5. ASSUME NEW y \in S PROVE x >= y
  <2>1. n - y \in T OBVIOUS
  <2>2. ~(n - y < n - x) BY <1>3, <1>4, <2>1
  <2>3. x \in 0..n /\ y \in 0..n OBVIOUS
  <2>. QED BY <2>2, <2>3
<1>. QED BY <1>5

\* The maximum of a set is the greatest of its members.
LEMMA MaxIsGreatest ==
  ASSUME NEW n \in Nat, NEW S \in SUBSET (0..n), S # {}
  PROVE  Max(S) \in S /\ \A y \in S : Max(S) >= y
<1>1. PICK x \in S : \A y \in S : x >= y BY MaxOfBounded
<1>. QED BY <1>1 DEF Max

\* The constants, one by one.
LEMMA DeltaConstants ==
  /\ Lookback \in Nat /\ Tolerance \in Nat /\ Future \in Nat /\ Lag \in Nat /\ EscalateAfter \in Nat
  /\ MaxWrites \in Nat /\ MaxEvents \in Nat /\ IsFiniteSet(Keys)
BY DeltaAssumption

\* The mark a round would leave is a value it has read that does not exceed the cap.
LEMMA MarkIsRead ==
  ASSUME DeltaTypes, NEW read \in SUBSET Keys
  PROVE  /\ NewMark(read) \in Nat \cup {-1}
         /\ NewMark(read) # -1 => \E k \in read : NewMark(read) = src[k].delta /\ NewMark(read) <= run.cap
<1>. DEFINE values == {src[k].delta : k \in read} \cap 1..run.cap
<1>1. run.cap \in Nat BY DEF DeltaTypes, RoundRun
<1>2. CASE values = {} BY <1>2 DEF NewMark
<1>3. CASE values # {}
  <2>1. values \in SUBSET (0..run.cap) BY <1>1
  <2>2. Max(values) \in values BY <1>1, <1>3, <2>1, MaxIsGreatest
  <2>3. NewMark(read) \in {-1, Max(values)} BY <1>3 DEF NewMark
  <2>4. PICK k \in read : Max(values) = src[k].delta BY <2>2
  <2>5. Max(values) \in 1..run.cap BY <2>2
  <2>. HIDE DEF values
  <2>. QED BY <1>1, <2>3, <2>4, <2>5
<1>. QED BY <1>2, <1>3

\* The rows of some keys, as many as they stand for.
LEMMA WeightIsSize ==
  ASSUME NEW S \in SUBSET Keys
  PROVE  Weight(S) \in Nat /\ (Weight(S) = 0 <=> S = {})
<1>. DEFINE block(k) == {k} \X (1..Rows[k])
            B == {block(k) : k \in S}
<1>1. IsFiniteSet(S) BY DeltaConstants, FS_Subset
<1>2. IsFiniteSet(B)
  <2>. DEFINE f == [k \in S |-> block(k)]
  <2>1. f \in Surjection(S, B) BY DEF Surjection
  <2>. QED BY <1>1, <2>1, FS_Surjection
<1>3. ASSUME NEW k \in S PROVE IsFiniteSet(block(k))
  <2>1. IsFiniteSet({k}) BY FS_Singleton
  <2>2. 1 \in Int /\ Rows[k] \in Int BY DeltaAssumption
  <2>3. IsFiniteSet(1..Rows[k]) BY <2>2, FS_Interval
  <2>. QED BY <2>1, <2>3, FS_Product
<1>4. IsFiniteSet(UNION B)
  <2>1. \A T \in B : IsFiniteSet(T) BY <1>3
  <2>. HIDE DEF B
  <2>. QED BY <1>2, <2>1, FS_UNION
<1>5. Weight(S) = Cardinality(UNION B) BY DEF Weight
<1>6. UNION B = {} <=> S = {}
  <2>1. ASSUME NEW k \in S PROVE <<k, 1>> \in UNION B
    <3>1. 1 \in 1..Rows[k] BY DeltaAssumption
    <3>. QED BY <3>1
  <2>. QED BY <2>1
<1>. HIDE DEF B
<1>. QED BY <1>4, <1>5, <1>6, FS_CardinalityType, FS_EmptySet

\* What is counted.
LEMMA UsesType ==
  ASSUME DeltaTypes
  PROVE  /\ [used EXCEPT !.events = @ + 1] \in Uses
         /\ [used EXCEPT !.events = @ + 1, !.cancelled = TRUE] \in Uses
         /\ [used EXCEPT !.writes = @ + 1] \in Uses
         /\ used.writes \in Nat
<1>1. used \in Uses BY DEF DeltaTypes
<1>2. used.events + 1 \in Nat /\ used.writes + 1 \in Nat /\ used.writes \in Nat BY <1>1 DEF Uses
<1>3. [used EXCEPT !.events = @ + 1] \in Uses BY <1>1, <1>2 DEF Uses
<1>4. [used EXCEPT !.writes = @ + 1] \in Uses BY <1>1, <1>2 DEF Uses
<1>5. ASSUME NEW w \in Uses PROVE [w EXCEPT !.cancelled = TRUE] \in Uses BY DEF Uses
<1>6. [[used EXCEPT !.events = @ + 1] EXCEPT !.cancelled = TRUE] \in Uses BY <1>3, <1>5
<1>7. [used EXCEPT !.events = @ + 1, !.cancelled = TRUE]
        = [[used EXCEPT !.events = @ + 1] EXCEPT !.cancelled = TRUE]
  BY <1>1 DEF Uses
<1>. QED BY <1>2, <1>3, <1>4, <1>6, <1>7

\* The origin: types.
LEMMA OriginTypes ==
  ASSUME DeltaTypes, Origin
  PROVE  DeltaTypes'
<1>. USE DeltaConstants, UsesType DEF roundsUnchanged
<1>1. ASSUME NEW k \in Keys, Write(k) PROVE DeltaTypes'
  <2>1. PICK d \in {0} \cup clock..clock + Future :
          src' = [src EXCEPT ![k] = [delta |-> d, ver |-> used.writes + 2]]
    BY <1>1 DEF Write
  <2>2. d \in Nat /\ used.writes + 2 \in Nat BY UsesType DEF DeltaTypes
  <2>3. src' \in [Keys -> [delta : Nat, ver : Nat]] BY <2>1, <2>2 DEF DeltaTypes
  <2>. QED BY <1>1, <2>3 DEF Write, DeltaTypes
<1>2. ASSUME NEW k \in Keys, WriteOpen(k) PROVE DeltaTypes'
  BY <1>2 DEF WriteOpen, DeltaTypes
<1>3. CASE Commit
  <2>1. \A k \in Keys : src'[k] \in [delta : Nat, ver : Nat] BY <1>3 DEF Commit, DeltaTypes
  <2>2. src' \in [Keys -> [delta : Nat, ver : Nat]] BY <1>3, <2>1 DEF Commit
  <2>3. open' \in [key : SUBSET Keys, at : Nat, ver : Nat] BY <1>3 DEF Commit
  <2>. QED BY <1>3, <2>2, <2>3 DEF Commit, DeltaTypes
<1>4. ASSUME NEW k \in Keys, Delete(k) PROVE DeltaTypes'
  BY <1>4 DEF Delete, DeltaTypes, NoRow
<1>5. CASE Reshape BY <1>5 DEF Reshape, DeltaTypes, RoundRun
<1>6. CASE Tick BY <1>6 DEF Tick, DeltaTypes
<1>. QED BY <1>1, <1>2, <1>3, <1>4, <1>5, <1>6 DEF Origin

\* What a request of a person leaves in the row of the job.
LEMMA ManualJob ==
  ASSUME DeltaTypes, NEW r \in Round, NEW drop \in BOOLEAN,
         job' = [job EXCEPT ![r] =
               CASE @.status = "none" -> [status |-> "queued", manual |-> TRUE,
                                          acceptDrop |-> drop, accepted |-> drop]
                 [] @.status = "queued" -> [@ EXCEPT !.accepted = @ \/ drop]
                 [] OTHER -> @]
  PROVE  /\ job' \in [Round -> RoundJob] /\ \A q \in Round : q # r => job'[q] = job[q]
         /\ job[r].status = "none" =>
              job'[r].status = "queued" /\ (job'[r].accepted <=> drop) /\ (job'[r].acceptDrop <=> drop)
         /\ job[r].status = "queued" =>
              /\ job'[r].status = "queued" /\ (job'[r].accepted <=> job[r].accepted \/ drop)
              /\ job'[r].acceptDrop <=> job[r].acceptDrop
         /\ job[r].status = "running" => job' = job
<1>0. job \in [Round -> RoundJob] /\ job[r] \in RoundJob BY DEF DeltaTypes
<1>. DEFINE v == job[r].accepted \/ drop
            asked == [status |-> "queued", manual |-> TRUE, acceptDrop |-> drop, accepted |-> drop]
            more == [job[r] EXCEPT !.accepted = v]
            c == CASE job[r].status = "none" -> asked
                   [] job[r].status = "queued" -> more
                   [] OTHER -> job[r]
<1>1. job' = [job EXCEPT ![r] = c] OBVIOUS
<1>2. v \in BOOLEAN /\ (v <=> job[r].accepted \/ drop) OBVIOUS
<1>3. asked \in RoundJob /\ asked.status = "queued" /\ (asked.accepted <=> drop) /\ (asked.acceptDrop <=> drop)
  BY DEF RoundJob
<1>. HIDE DEF v, asked
<1>4. /\ more \in RoundJob /\ more.status = job[r].status /\ (more.accepted <=> v)
      /\ more.acceptDrop <=> job[r].acceptDrop
  BY <1>0, <1>2 DEF RoundJob
<1>. HIDE DEF more
<1>5. c \in RoundJob BY <1>0, <1>3, <1>4
<1>6. /\ job[r].status = "none" => c = asked
      /\ job[r].status = "queued" => c = more
      /\ job[r].status = "running" => c = job[r]
  OBVIOUS
<1>. HIDE DEF c
<1>7. job'[r] = c /\ job' \in [Round -> RoundJob] /\ \A q \in Round : q # r => job'[q] = job[q]
  BY <1>0, <1>1, <1>5
<1>8. job[r].status = "running" => job' = job BY <1>0, <1>1, <1>6
<1>. QED BY <1>2, <1>3, <1>4, <1>6, <1>7, <1>8

\* Requests: types.
LEMMA RequestTypes ==
  ASSUME DeltaTypes, Requests
  PROVE  DeltaTypes'
<1>. USE DeltaConstants DEF originUnchanged
<1>0. NoJob \in RoundJob BY DEF NoJob, RoundJob
<1>1. ASSUME NEW r \in Round, Cron(r) PROVE DeltaTypes'
  <2>1. [NoJob EXCEPT !.status = "queued"] \in RoundJob BY <1>0 DEF RoundJob
  <2>. QED BY <1>1, <2>1 DEF Cron, DeltaTypes
<1>2. ASSUME NEW r \in Round, Manual(r) PROVE DeltaTypes'
  <2>1. PICK drop \in BOOLEAN :
          /\ job' = [job EXCEPT ![r] =
               CASE @.status = "none" -> [status |-> "queued", manual |-> TRUE,
                                          acceptDrop |-> drop, accepted |-> drop]
                 [] @.status = "queued" -> [@ EXCEPT !.accepted = @ \/ drop]
                 [] OTHER -> @]
          /\ marker' = IF job[r].status = "running" THEN marker
                       ELSE [for |-> r, manual |-> TRUE, acceptDrop |-> drop, allowDropPct |-> 0]
    BY <1>2 DEF Manual
  <2>5. job' \in [Round -> RoundJob] BY <2>1, ManualJob
  <2>6. [for |-> r, manual |-> TRUE, acceptDrop |-> drop, allowDropPct |-> 0] \in Marker
    BY DEF Marker
  <2>7. marker' \in Marker BY <2>1, <2>6 DEF DeltaTypes
  <2>8. used' \in Uses BY <1>2, UsesType DEF Manual
  <2>. QED BY <1>2, <2>5, <2>7, <2>8 DEF Manual, DeltaTypes
<1>3. CASE Cancel
  <2>1. job' \in [Round -> RoundJob] BY <1>0, <1>3 DEF Cancel
  <2>2. used' \in Uses BY <1>3, UsesType DEF Cancel
  <2>. QED BY <1>3, <2>1, <2>2 DEF Cancel, DeltaTypes
<1>4. CASE Edit BY <1>4, UsesType DEF Edit, DeltaTypes
<1>. QED BY <1>1, <1>2, <1>3, <1>4 DEF Requests

\* A round begins, is given up or fails: types.
LEMMA NoRunType == NoRun \in RoundRun /\ NoMarker \in Marker /\ NoJob \in RoundJob
<1>1. NoMarker \in Marker BY DEF NoMarker, Marker
<1>2. [k \in Keys |-> 0] \in [Keys -> Nat] OBVIOUS
<1>. QED BY <1>1, <1>2 DEF NoRun, RoundRun, Round, NoJob, RoundJob

\* A round begins: types.
LEMMA StartTypes ==
  ASSUME DeltaTypes, NEW r \in Round, Start(r)
  PROVE  DeltaTypes'
<1>. USE DeltaConstants, NoRunType DEF originUnchanged
<1>1. PICK expired \in BOOLEAN :
        /\ run' = [NoRun EXCEPT !.pc = "begun", !.kind = r, !.column = column,
                        !.mark = IF r = "inc" THEN mark ELSE 0, !.skips = skips,
                        !.cap = clock + Tolerance, !.accepted = job[r].accepted,
                        !.marker = [TakenMarker(r, expired) EXCEPT !.manual = @ \/ job[r].manual,
                                             !.acceptDrop = @ \/ job[r].acceptDrop]]
        /\ used' = [used EXCEPT !.events = IF expired THEN @ + 1 ELSE @]
  BY DEF Start
<1>2. job[r] \in RoundJob /\ job[r].accepted \in BOOLEAN BY DEF DeltaTypes, RoundJob
<1>3. TakenMarker(r, expired) \in Marker BY DEF TakenMarker, DeltaTypes
<1>. DEFINE m == [TakenMarker(r, expired) EXCEPT !.manual = @ \/ job[r].manual,
                                                 !.acceptDrop = @ \/ job[r].acceptDrop]
<1>4. m \in Marker BY <1>2, <1>3 DEF Marker, RoundJob
<1>5. run' = [NoRun EXCEPT !.pc = "begun", !.kind = r, !.column = column,
                        !.mark = IF r = "inc" THEN mark ELSE 0, !.skips = skips,
                        !.cap = clock + Tolerance, !.accepted = job[r].accepted, !.marker = m]
  BY <1>1
<1>. HIDE DEF m
<1>. DEFINE from == IF r = "inc" THEN mark ELSE 0
            cap == clock + Tolerance
<1>6. from \in Nat /\ cap \in Nat /\ column \in Nat /\ skips \in Nat BY DEF DeltaTypes
<1>a. run' = [NoRun EXCEPT !.pc = "begun", !.kind = r, !.column = column, !.mark = from,
                           !.skips = skips, !.cap = cap, !.accepted = job[r].accepted, !.marker = m]
  BY <1>5
<1>. HIDE DEF from, cap
<1>7. run' \in RoundRun BY <1>2, <1>4, <1>6, <1>a DEF RoundRun
<1>8. run'.shape = 0 BY <1>5 DEF NoRun
<1>9. job' \in [Round -> RoundJob]
  <2>1. [job[r] EXCEPT !.status = "running"] \in RoundJob BY <1>2 DEF RoundJob
  <2>. QED BY <2>1 DEF Start, DeltaTypes
<1>10. used' \in Uses
  <2>1. used' \in {used, [used EXCEPT !.events = @ + 1]}
    <3>1. used \in Uses BY DEF DeltaTypes
    <3>2. ~expired => used' = used BY <1>1, <3>1 DEF Uses
    <3>. QED BY <1>1, <3>2
  <2>. QED BY <2>1, UsesType DEF DeltaTypes
<1>11. marker' \in Marker BY DEF Start, DeltaTypes
<1>. QED BY <1>7, <1>8, <1>9, <1>10, <1>11 DEF Start, DeltaTypes

\* A round is given up, or fails: types.
LEMMA EndTypes ==
  ASSUME DeltaTypes, Fails \/ Rejected \/ (\E r \in Round : GivesUp(r))
  PROVE  DeltaTypes'
<1>. USE DeltaConstants, NoRunType DEF originUnchanged
<1>1. CASE Fails
  <2>1. PICK again \in BOOLEAN :
          job' = [job EXCEPT ![run.kind] = IF @.status # "running" THEN @
                                        ELSE IF again THEN [@ EXCEPT !.status = "queued"] ELSE NoJob]
    BY <1>1 DEF Fails
  <2>2. run.kind \in Round BY DEF DeltaTypes, RoundRun
  <2>3. job[run.kind] \in RoundJob BY <2>2 DEF DeltaTypes
  <2>4. [job[run.kind] EXCEPT !.status = "queued"] \in RoundJob BY <2>3 DEF RoundJob
  <2>5. job' \in [Round -> RoundJob] BY <2>1, <2>2, <2>3, <2>4 DEF DeltaTypes
  <2>6. used' \in Uses BY <1>1, UsesType DEF Fails
  <2>7. run' = NoRun /\ run'.shape = 0 BY <1>1 DEF Fails, NoRun
  <2>. QED BY <1>1, <2>5, <2>6, <2>7 DEF Fails, DeltaTypes
<1>2. CASE Rejected
  <2>1. job' \in [Round -> RoundJob] BY <1>2 DEF Rejected, DeltaTypes
  <2>2. run' = NoRun /\ run'.shape = 0 BY <1>2 DEF Rejected, NoRun
  <2>. QED BY <1>2, <2>1, <2>2 DEF Rejected, DeltaTypes
<1>3. ASSUME NEW r \in Round, GivesUp(r) PROVE DeltaTypes'
  <2>1. job' \in [Round -> RoundJob] BY <1>3 DEF GivesUp, DeltaTypes
  <2>2. used' \in Uses BY <1>3, UsesType DEF GivesUp
  <2>. QED BY <1>3, <2>1, <2>2 DEF GivesUp, DeltaTypes
<1>. QED BY <1>1, <1>2, <1>3

\* What a round reads or measures: types.
LEMMA ReadTypes ==
  ASSUME DeltaTypes, ReadRows \/ ReadKeys \/ KeysFail
  PROVE  DeltaTypes'
<1>. USE DeltaConstants DEF originUnchanged
<1>0. run \in RoundRun BY DEF DeltaTypes
<1>1. CASE ReadRows
  <2>. DEFINE s == [k \in Keys |-> IF k \in ToRead THEN src[k].ver ELSE 0]
              n == NewMark(ToRead)
              d == UseDelta
              g == (target.shape = shape)
  <2>1. s \in [Keys -> Nat] BY DEF DeltaTypes
  <2>2. n \in Nat \cup {-1} BY MarkIsRead DEF ToRead, Present
  <2>3. run' = [run EXCEPT !.pc = "read", !.delta = d, !.shape = shape, !.merge = g,
                  !.staged = s, !.newMark = n, !.mark = 0, !.cap = 0, !.marker = NoMarker]
    BY <1>1 DEF ReadRows
  <2>4. d \in BOOLEAN /\ g \in BOOLEAN BY DEF UseDelta
  <2>5. shape \in Nat /\ NoMarker \in Marker BY NoRunType DEF DeltaTypes
  <2>. HIDE DEF s, n, d, g
  <2>6. run' \in RoundRun BY ZenonT(60), <1>0, <2>1, <2>2, <2>3, <2>4, <2>5 DEF RoundRun
  <2>7. run'.shape = shape BY <1>0, <2>3 DEF RoundRun
  <2>. QED BY <1>1, <2>6, <2>7 DEF ReadRows, DeltaTypes
<1>2. CASE ReadKeys
  <2>. DEFINE candidates == Weight(Live \ Present)
              live == Weight(Live)
              c == CASE Present = {} -> "empty"
                     [] Present # {} /\ keysCheckExceeds(candidates, live) -> "skipped"
                     [] OTHER -> "applied"
              m == IF Present # {} /\ live > 0 THEN MeasuredDrop(candidates, live) ELSE 0
  <2>1. run' = [run EXCEPT !.pc = "keys", !.keys = Present, !.check = c, !.measured = m]
    BY <1>2 DEF ReadKeys
  <2>2. c \in {"none", "empty", "skipped", "applied"} OBVIOUS
  <2>3. m \in Int
    <3>1. \A S \in SUBSET Keys : Weight(S) \in Nat BY WeightIsSize
    <3>2. candidates \in Nat /\ live \in Nat BY <3>1 DEF Live, Present
    <3>. HIDE DEF candidates, live
    <3>. QED BY <3>2 DEF MeasuredDrop
  <2>4. Present \in SUBSET Keys BY DEF Present
  <2>. HIDE DEF c, m
  <2>5. run' \in RoundRun BY <1>0, <2>1, <2>2, <2>3, <2>4 DEF RoundRun
  <2>6. run'.shape = run.shape BY <1>0, <2>1 DEF RoundRun
  <2>. QED BY <1>2, <2>5, <2>6 DEF ReadKeys, DeltaTypes
<1>3. CASE KeysFail
  <2>1. run' = [run EXCEPT !.pc = "keys", !.check = "skipped"] BY <1>3 DEF KeysFail
  <2>2. run' \in RoundRun /\ run'.shape = run.shape BY <1>0, <2>1 DEF RoundRun
  <2>3. used' \in Uses BY <1>3, UsesType DEF KeysFail
  <2>. QED BY <1>3, <2>2, <2>3 DEF KeysFail, DeltaTypes
<1>. QED BY <1>1, <1>2, <1>3

\* What a round publishes and leaves: types.
LEMMA PublishTypes ==
  ASSUME DeltaTypes, Swap \/ Final \/ EscalateMarks \/ EscalateQueues
  PROVE  DeltaTypes'
<1>. USE DeltaConstants, NoRunType DEF originUnchanged
<1>0. run \in RoundRun BY DEF DeltaTypes
<1>1. CASE Swap
  <2>1. run' = [NoRun EXCEPT !.pc = "swapped", !.kind = run.kind, !.column = run.column,
                  !.skips = run.skips, !.newMark = run.newMark, !.check = run.check,
                  !.measured = run.measured]
    BY <1>1 DEF Swap
  <2>2. run' \in RoundRun BY <1>0, <2>1 DEF RoundRun
  <2>3. run'.shape = 0 BY <2>1 DEF NoRun
  <2>4. ASSUME NEW k \in Keys PROVE Swapped(k) \in [ver : Nat, gone : BOOLEAN]
    <3>. DEFINE g == /\ target.rows[k].ver # 0
                     /\ \/ ~run.delta
                        \/ run.check = "applied" /\ k \notin run.keys
                        \/ run.check # "applied" /\ target.rows[k].gone
    <3>1. target.rows[k] \in [ver : Nat, gone : BOOLEAN] /\ run.staged[k] \in Nat
      BY <1>0 DEF DeltaTypes, RoundRun
    <3>2. g \in BOOLEAN OBVIOUS
    <3>. HIDE DEF g
    <3>3. Swapped(k) \in {[ver |-> run.staged[k], gone |-> FALSE], [ver |-> 0, gone |-> FALSE],
                          [target.rows[k] EXCEPT !.gone = g]}
      BY DEF Swapped, g
    <3>4. [target.rows[k] EXCEPT !.gone = g] \in [ver : Nat, gone : BOOLEAN] BY <3>1, <3>2
    <3>5. /\ [ver |-> run.staged[k], gone |-> FALSE] \in [ver : Nat, gone : BOOLEAN]
          /\ [ver |-> 0, gone |-> FALSE] \in [ver : Nat, gone : BOOLEAN]
      BY <3>1
    <3>. QED BY <3>3, <3>4, <3>5
  <2>5. target' = [shape |-> run.shape, rows |-> [k \in Keys |-> Swapped(k)]] BY <1>1 DEF Swap
  <2>6. [k \in Keys |-> Swapped(k)] \in [Keys -> [ver : Nat, gone : BOOLEAN]] BY <2>4
  <2>7. run.shape \in Nat BY <1>0 DEF RoundRun
  <2>8. target' \in [shape : Nat, rows : [Keys -> [ver : Nat, gone : BOOLEAN]]] /\ target'.shape = run.shape
    BY <2>5, <2>6, <2>7
  <2>. QED BY <1>1, <2>2, <2>3, <2>8 DEF Swap, DeltaTypes
<1>2. CASE Final
  <2>1. mark' \in Nat BY <1>0, <1>2 DEF Final, DeltaTypes, RoundRun
  <2>2. skips' \in Nat BY <1>0, <1>2 DEF Final, Skips, Counted, DeltaTypes, RoundRun
  <2>3. run' \in {NoRun, [NoRun EXCEPT !.pc = "marking", !.measured = run.measured]}
    BY <1>2 DEF Final
  <2>4. run' \in RoundRun /\ run'.shape = 0
    <3>1. run.measured \in Int BY <1>0 DEF RoundRun
    <3>2. [NoRun EXCEPT !.pc = "marking", !.measured = run.measured] \in RoundRun
      BY <3>1 DEF RoundRun
    <3>3. NoRun.shape = 0 /\ [NoRun EXCEPT !.pc = "marking", !.measured = run.measured].shape = 0
      BY DEF NoRun
    <3>. QED BY <2>3, <3>2, <3>3
  <2>5. job' \in [Round -> RoundJob] BY <1>2 DEF Final, Done, DeltaTypes
  <2>. QED BY <1>2, <2>1, <2>2, <2>4, <2>5 DEF Final, DeltaTypes
<1>3. CASE EscalateMarks
  <2>1. run' = [run EXCEPT !.pc = "queueing"] BY <1>3 DEF EscalateMarks
  <2>2. run' \in RoundRun /\ run'.shape = run.shape BY <1>0, <2>1 DEF RoundRun
  <2>3. run.measured \in Int BY <1>0 DEF RoundRun
  <2>4. [NoMarker EXCEPT !.for = "rec", !.allowDropPct = run.measured] \in Marker
    BY <2>3 DEF NoMarker, Marker, Round
  <2>5. marker' \in Marker BY <1>3, <2>4 DEF EscalateMarks, DeltaTypes
  <2>. QED BY <1>3, <2>2, <2>5 DEF EscalateMarks, DeltaTypes
<1>4. CASE EscalateQueues
  <2>1. run' = NoRun /\ run'.shape = 0 BY <1>4 DEF EscalateQueues, NoRun
  <2>2. [NoJob EXCEPT !.status = "queued"] \in RoundJob BY DEF RoundJob
  <2>3. job' \in [Round -> RoundJob] BY <1>4, <2>2 DEF EscalateQueues, DeltaTypes
  <2>4. run' \in RoundRun /\ run'.shape <= shape' BY <1>4, <2>1 DEF EscalateQueues, DeltaTypes
  <2>. QED BY <1>4, <2>3, <2>4 DEF EscalateQueues, DeltaTypes
<1>. QED BY <1>1, <1>2, <1>3, <1>4

\* The record of a round that has ended, or that escalates.
LEMMA FinalRun ==
  ASSUME Final
  PROVE  /\ run'.pc \in {"none", "marking"} /\ run'.kind = "inc" /\ run'.mark = 0 /\ run'.cap = 0
         /\ run'.newMark = -1
<1>1. CASE run' = NoRun BY <1>1 DEF NoRun
<1>2. CASE run' = [NoRun EXCEPT !.pc = "marking", !.measured = run.measured] BY <1>2 DEF NoRun
<1>. QED BY <1>1, <1>2 DEF Final

\* The types at the beginning, and after every step.
LEMMA DeltaStart == ASSUME Init PROVE DeltaTypes
<1>. USE DeltaConstants, NoRunType DEF Init
<1>1. NoRun.shape = 0 BY DEF NoRun
<1>2. [NoJob EXCEPT !.status = "queued"] \in RoundJob BY DEF RoundJob
<1>3. job \in [Round -> RoundJob] BY <1>2
<1>. QED BY SMTT(30), <1>1, <1>3 DEF DeltaTypes, Uses

LEMMA DeltaTypeStep == ASSUME DeltaTypes, [Next]_vars PROVE DeltaTypes'
<1>1. CASE UNCHANGED vars BY <1>1 DEF vars, DeltaTypes
<1>. QED
  BY <1>1, OriginTypes, RequestTypes, StartTypes, EndTypes, ReadTypes, PublishTypes
  DEF Next, Steps

\* Rows, marks, jobs and rounds keep their types.
THEOREM TypeCorrect == Spec => []DeltaTypes
<1>1. Init => DeltaTypes BY DeltaStart
<1>2. DeltaTypes /\ [Next]_vars => DeltaTypes' BY DeltaTypeStep
<1>. QED BY <1>1, <1>2, PTL DEF Spec

\* How far a mark may be ahead of the clock.
Ahead == IF Future <= Tolerance THEN Future ELSE Tolerance

\* No value is further ahead than Future, no transaction is open for longer than
\* Lag, and no mark is further ahead than values and tolerance allow.
TimeInv ==
  /\ \A k \in Keys : src[k].delta <= clock + Future
  /\ open.key # {} => open.at <= clock /\ clock <= open.at + Lag
  /\ run.cap <= clock + Tolerance
  /\ mark <= clock + Ahead /\ run.mark <= clock + Ahead /\ run.newMark <= clock + Ahead

\* A step of a round that takes no new time or value.
LEMMA TimeStays ==
  ASSUME DeltaTypes, TimeInv, originUnchanged,
         mark' \in {mark, 0, run.newMark}, run'.mark \in {run.mark, 0}, run'.cap \in {run.cap, 0},
         run'.newMark \in {run.newMark, -1}
  PROVE  TimeInv'
<1>1. clock' = clock /\ src' = src /\ open' = open BY DEF originUnchanged
<1>2. clock \in Nat /\ Ahead \in Nat /\ Tolerance \in Nat BY DeltaConstants DEF DeltaTypes, Ahead
<1>3. mark' <= clock + Ahead /\ run'.mark <= clock + Ahead /\ run'.newMark <= clock + Ahead
  BY <1>2 DEF TimeInv
<1>4. run'.cap <= clock + Tolerance BY <1>2 DEF TimeInv
<1>. QED BY <1>1, <1>3, <1>4 DEF TimeInv

\* What is written is of now or of no more than Future ahead; a transaction commits
\* within Lag.
LEMMA TimeOfOrigin ==
  ASSUME DeltaTypes, TimeInv, Origin
  PROVE  TimeInv'
<1>. USE DeltaConstants DEF roundsUnchanged
<1>0. Ahead \in Nat BY DEF Ahead
<1>1. ASSUME NEW k \in Keys, Write(k) PROVE TimeInv'
  <2>1. PICK d \in {0} \cup clock..clock + Future :
          src' = [src EXCEPT ![k] = [delta |-> d, ver |-> used.writes + 2]]
    BY <1>1 DEF Write
  <2>2. d <= clock + Future BY DEF DeltaTypes
  <2>3. \A q \in Keys : src'[q].delta <= clock + Future BY <2>1, <2>2 DEF TimeInv, DeltaTypes
  <2>. QED BY <1>1, <2>3 DEF Write, TimeInv
<1>2. ASSUME NEW k \in Keys, WriteOpen(k) PROVE TimeInv'
  BY <1>2 DEF WriteOpen, DeltaTypes, TimeInv
<1>3. CASE Commit
  <2>1. open.at <= clock + Future BY <1>3 DEF Commit, DeltaTypes, TimeInv
  <2>2. \A q \in Keys : src'[q].delta <= clock + Future
    BY <1>3, <2>1 DEF Commit, TimeInv, DeltaTypes
  <2>. QED BY <1>3, <2>2 DEF Commit, TimeInv
<1>4. ASSUME NEW k \in Keys, Delete(k) PROVE TimeInv'
  <2>1. \A q \in Keys : src'[q].delta <= clock + Future
    BY <1>4 DEF Delete, NoRow, TimeInv, DeltaTypes
  <2>. QED BY <1>4, <2>1 DEF Delete, TimeInv
<1>5. CASE Reshape BY <1>5 DEF Reshape, TimeInv
<1>6. CASE Tick
  <2>1. clock' = clock + 1 /\ src' = src /\ open' = open /\ mark' = mark /\ run' = run
    BY <1>6 DEF Tick
  <2>2. open.key # {} => clock < open.at + Lag BY <1>6 DEF Tick
  <2>3. \A k \in Keys : src[k].delta <= clock + 1 + Future BY DEF TimeInv, DeltaTypes
  <2>4. run.cap <= clock + 1 + Tolerance BY DEF TimeInv, DeltaTypes, RoundRun
  <2>5. mark <= clock + 1 + Ahead /\ run.mark <= clock + 1 + Ahead /\ run.newMark <= clock + 1 + Ahead
    BY <1>0 DEF TimeInv, DeltaTypes, RoundRun
  <2>6. open.key # {} => open.at <= clock + 1 /\ clock + 1 <= open.at + Lag
    BY <2>2 DEF TimeInv, DeltaTypes
  <2>. QED BY <2>1, <2>3, <2>4, <2>5, <2>6 DEF TimeInv
<1>. QED BY <1>1, <1>2, <1>3, <1>4, <1>5, <1>6 DEF Origin

\* Marks come from what was read, and never from above the cap.
LEMMA TimeStep == ASSUME DeltaTypes, TimeInv, [Next]_vars PROVE TimeInv'
<1>. USE DeltaConstants
<1>0. run \in RoundRun /\ mark \in Nat /\ clock \in Nat BY DEF DeltaTypes
<1>1. CASE UNCHANGED vars BY <1>1 DEF vars, TimeInv
<1>2. CASE Requests BY <1>2, TimeStays DEF Requests, Cron, Manual, Cancel, Edit
<1>3. ASSUME NEW r \in Round, Start(r) PROVE TimeInv'
  <2>1. /\ run'.cap = clock + Tolerance /\ run'.mark \in {mark, 0} /\ run'.newMark = -1
        /\ mark' = mark
    BY <1>3 DEF Start, NoRun
  <2>2. Ahead \in Nat BY DEF Ahead
  <2>3. clock' = clock /\ src' = src /\ open' = open BY <1>3 DEF Start, originUnchanged
  <2>. QED BY <1>0, <2>1, <2>2, <2>3 DEF TimeInv
<1>4. CASE ReadRows
  <2>1. /\ run'.cap = 0 /\ run'.mark = 0 /\ run'.newMark = NewMark(ToRead) /\ mark' = mark
        /\ clock' = clock /\ src' = src /\ open' = open
    BY <1>0, <1>4 DEF ReadRows, RoundRun, originUnchanged
  <2>2. NewMark(ToRead) <= clock + Ahead
    <3>1. ToRead \in SUBSET Keys BY DEF ToRead, Present
    <3>2. CASE NewMark(ToRead) = -1 BY <1>0, <3>2 DEF Ahead
    <3>3. CASE NewMark(ToRead) # -1
      <4>1. PICK k \in ToRead : NewMark(ToRead) = src[k].delta /\ NewMark(ToRead) <= run.cap
        BY <3>1, <3>3, MarkIsRead
      <4>2. src[k].delta \in Nat /\ run.cap \in Nat BY <1>0, <3>1 DEF DeltaTypes, RoundRun
      <4>3. src[k].delta <= clock + Future /\ run.cap <= clock + Tolerance BY <3>1 DEF TimeInv
      <4>. QED BY <1>0, <4>1, <4>2, <4>3 DEF Ahead
    <3>. QED BY <3>2, <3>3
  <2>3. Ahead \in Nat BY DEF Ahead
  <2>. QED BY <1>0, <2>1, <2>2, <2>3 DEF TimeInv
<1>5. CASE ReadKeys \/ KeysFail
  <2>1. run'.mark = run.mark /\ run'.cap = run.cap /\ run'.newMark = run.newMark
    BY <1>0, <1>5 DEF ReadKeys, KeysFail, RoundRun
  <2>. QED BY <1>5, <2>1, TimeStays DEF ReadKeys, KeysFail
<1>6. CASE Fails \/ Rejected \/ EscalateQueues
  <2>1. run' = NoRun /\ mark' = mark /\ originUnchanged
    BY <1>6 DEF Fails, Rejected, EscalateQueues
  <2>2. run'.mark = 0 /\ run'.cap = 0 /\ run'.newMark = -1 BY <2>1 DEF NoRun
  <2>. QED BY <2>1, <2>2, TimeStays
<1>7. ASSUME NEW r \in Round, GivesUp(r) PROVE TimeInv' BY <1>7, TimeStays DEF GivesUp
<1>8. CASE Swap
  <2>1. run'.mark = 0 /\ run'.cap = 0 /\ run'.newMark = run.newMark BY <1>8 DEF Swap, NoRun
  <2>. QED BY <1>8, <2>1, TimeStays DEF Swap
<1>9. CASE Final BY <1>9, FinalRun, TimeStays DEF Final
<1>10. CASE EscalateMarks
  <2>1. run'.mark = run.mark /\ run'.cap = run.cap /\ run'.newMark = run.newMark
    BY <1>0, <1>10 DEF EscalateMarks, RoundRun
  <2>. QED BY <1>10, <2>1, TimeStays DEF EscalateMarks
<1>. QED
  BY <1>1, <1>2, <1>3, <1>4, <1>5, <1>6, <1>7, <1>8, <1>9, <1>10, TimeOfOrigin DEF Next, Steps

\* An incremental round whose mark is m reads the row, or leaves it to reconciliations.
Seen(k, m) == src[k].delta = 0 \/ src[k].delta >= m - Lookback

\* What a round that has read its rows has of one: its present version; the
\* table has it, and will keep it; or the next round will read it.
Covered(k) ==
  \/ run.staged[k] = src[k].ver
  \/ /\ run.staged[k] = 0 /\ run.merge /\ run.delta /\ InTarget(k)
     /\ (run.pc = "keys" /\ run.check = "applied") => k \in run.keys
  \/ Seen(k, mark) /\ Seen(k, run.newMark)

\* What the table lacks, the next round reads; what a round that begins, has read or
\* has published lacks, the round or the one after it does.
TargetInv == target.shape = shape => \A k \in Present : InTarget(k) \/ Seen(k, mark)

BegunInv ==
  run.pc = "begun" /\ run.mark # 0 /\ target.shape = shape =>
    \A k \in Present : InTarget(k) \/ Seen(k, run.mark)

ReadInv == run.pc \in {"read", "keys"} /\ run.shape = shape => \A k \in Present : Covered(k)

SwappedInv ==
  run.pc = "swapped" /\ target.shape = shape =>
    \A k \in Present : InTarget(k) \/ (Seen(k, mark) /\ Seen(k, run.newMark))

\* The inductive invariant.
BehindInv ==
  /\ target.shape = 0 => mark = 0 /\ run.mark = 0
  /\ run.pc \in {"begun", "read"} => run.check = "none"
  /\ run.pc \in {"read", "keys"} => run.shape # 0
  /\ run.pc = "swapped" => target.shape # 0
  /\ TargetInv /\ BegunInv /\ ReadInv /\ SwappedInv

\* What is committed now is read by every round whose mark is one there can be by now.
LEMMA WrittenIsSeen ==
  ASSUME Lag + Ahead <= Lookback, DeltaTypes, TimeInv, Origin, NEW k \in Keys, src'[k].ver # 0
  PROVE  \/ src'[k] = src[k]
         \/ \A m \in Nat \cup {-1} : m <= clock + Ahead => Seen(k, m)'
<1>. USE DeltaConstants
<1>0. Ahead \in Nat /\ clock \in Nat BY DEF Ahead, DeltaTypes
<1>1. ASSUME NEW q \in Keys, Write(q)
      PROVE  src'[k] = src[k] \/ src'[k].delta \in {0} \cup clock..clock + Future
  BY <1>1 DEF Write, DeltaTypes
<1>2. ASSUME NEW q \in Keys, WriteOpen(q) PROVE src'[k] = src[k]
  BY <1>2 DEF WriteOpen
<1>3. CASE Commit
  <2>1. src'[k] = src[k] \/ (src'[k].delta = open.at /\ open.key # {})
    BY <1>3 DEF Commit
  <2>2. open.key # {} => open.at \in Nat /\ clock <= open.at + Lag BY DEF TimeInv, DeltaTypes
  <2>3. ASSUME src'[k].delta = open.at, open.key # {}, NEW m \in Nat \cup {-1}, m <= clock + Ahead
        PROVE  Seen(k, m)'
    BY <1>0, <2>2, <2>3 DEF Seen
  <2>. QED BY <2>1, <2>3
<1>4. ASSUME NEW q \in Keys, Delete(q) PROVE src'[k] = src[k]
  <2>1. CASE k = q BY <1>4, <2>1 DEF Delete, NoRow, DeltaTypes
  <2>2. CASE k # q BY <1>4, <2>2 DEF Delete, DeltaTypes
  <2>. QED BY <2>1, <2>2
<1>5. CASE Reshape \/ Tick BY <1>5 DEF Reshape, Tick
<1>6. ASSUME src'[k].delta \in {0} \cup clock..clock + Future, NEW m \in Nat \cup {-1}, m <= clock + Ahead
      PROVE  Seen(k, m)'
  BY <1>0, <1>6 DEF Seen
<1>. QED BY <1>1, <1>2, <1>3, <1>4, <1>5, <1>6 DEF Origin

\* A row that is written shows, or is within reach of every mark.
LEMMA BehindOfOrigin ==
  ASSUME Lag + Ahead <= Lookback, DeltaTypes, DeltaTypes', TimeInv, BehindInv, Origin
  PROVE  BehindInv'
<1>1. /\ target' = target /\ mark' = mark /\ run' = run
      /\ shape' = shape \/ (shape' = shape + 1 /\ target.shape # shape' /\ run.shape # shape')
  BY DEF Origin, roundsUnchanged, Write, WriteOpen, Commit, Delete, Reshape, Tick, DeltaTypes
<1>2. run \in RoundRun /\ mark \in Nat BY DEF DeltaTypes
<1>3. ASSUME NEW k \in Present', src'[k] # src[k]
      PROVE  /\ Seen(k, mark)' /\ Seen(k, run.mark)' /\ Seen(k, run.newMark)'
  <2>1. k \in Keys /\ src'[k].ver # 0 BY DEF Present
  <2>2. \A m \in Nat \cup {-1} : m <= clock + Ahead => Seen(k, m)' BY <1>3, <2>1, WrittenIsSeen
  <2>3. mark \in Nat /\ run.mark \in Nat /\ run.newMark \in Nat \cup {-1} BY <1>2 DEF RoundRun
  <2>. QED BY <1>1, <2>2, <2>3 DEF TimeInv, Seen
<1>4. ASSUME NEW k \in Present', src'[k] = src[k]
      PROVE  /\ k \in Present /\ (InTarget(k) <=> InTarget(k)')
             /\ (Seen(k, mark) <=> Seen(k, mark)') /\ (Seen(k, run.mark) <=> Seen(k, run.mark)')
             /\ (Seen(k, run.newMark) <=> Seen(k, run.newMark)')
  BY <1>1, <1>4 DEF Present, InTarget, Seen
<1>5. TargetInv' BY <1>1, <1>3, <1>4 DEF TargetInv, BehindInv
<1>6. BegunInv' BY <1>1, <1>3, <1>4 DEF BegunInv, BehindInv
<1>7. ReadInv'
  <2>1. SUFFICES ASSUME run.pc \in {"read", "keys"}, run.shape = shape, shape' = shape, NEW k \in Present'
                 PROVE  Covered(k)'
    BY <1>1 DEF ReadInv
  <2>2. CASE src'[k] # src[k] BY <1>3, <2>2 DEF Covered
  <2>3. CASE src'[k] = src[k]
    <3>1. Covered(k) BY <1>4, <2>1, <2>3 DEF BehindInv, ReadInv
    <3>. QED BY <1>1, <1>4, <2>3, <3>1 DEF Covered
  <2>. QED BY <2>2, <2>3
<1>8. SwappedInv' BY <1>1, <1>3, <1>4 DEF SwappedInv, BehindInv
<1>. QED BY <1>1, <1>5, <1>6, <1>7, <1>8 DEF BehindInv

\* The origin and the table rest, and the mark stays or is cleared.
LEMMA BehindStays ==
  ASSUME DeltaTypes, BehindInv, originUnchanged, target' = target, mark' \in {mark, 0},
         \/ run' = run
         \/ run'.pc \notin {"begun", "read", "keys", "swapped"} /\ run'.mark = 0
  PROVE  BehindInv'
<1>. USE DeltaConstants
<1>1. src' = src /\ shape' = shape BY DEF originUnchanged
<1>2. \A k \in Keys : Seen(k, 0) BY DEF Seen, DeltaTypes
<1>3. \A k \in Keys : Seen(k, mark) => Seen(k, mark)' BY <1>1, <1>2 DEF Seen
<1>4. Present' = Present /\ Present \subseteq Keys /\ \A k \in Keys : InTarget(k)' = InTarget(k)
  BY <1>1 DEF Present, InTarget
<1>5. TargetInv' BY <1>1, <1>3, <1>4 DEF TargetInv, BehindInv
<1>6. CASE run' = run
  <2>1. \A k \in Keys : Seen(k, run.mark)' = Seen(k, run.mark) /\ Seen(k, run.newMark)' = Seen(k, run.newMark)
    BY <1>1, <1>6 DEF Seen
  <2>2. BegunInv' BY <1>1, <1>4, <1>6, <2>1 DEF BegunInv, BehindInv
  <2>3. \A k \in Keys : Covered(k) => Covered(k)' BY <1>1, <1>3, <1>4, <1>6, <2>1 DEF Covered
  <2>4. ReadInv' BY <1>1, <1>4, <1>6, <2>3 DEF ReadInv, BehindInv
  <2>5. SwappedInv' BY <1>1, <1>3, <1>4, <1>6, <2>1 DEF SwappedInv, BehindInv
  <2>. QED BY <1>5, <1>6, <2>2, <2>4, <2>5 DEF BehindInv
<1>7. CASE run'.pc \notin {"begun", "read", "keys", "swapped"} /\ run'.mark = 0
  BY <1>5, <1>7 DEF BehindInv, BegunInv, ReadInv, SwappedInv
<1>. QED BY <1>6, <1>7

\* A round takes the mark as it is.
LEMMA BehindOfStart ==
  ASSUME DeltaTypes, BehindInv, NEW r \in Round, Start(r)
  PROVE  BehindInv'
<1>1. run'.pc = "begun" /\ run'.mark \in {mark, 0} BY DEF Start, NoRun
<1>2. src' = src /\ shape' = shape /\ target' = target /\ mark' = mark
  BY DEF Start, originUnchanged
<1>3. Present' = Present /\ \A k : InTarget(k)' = InTarget(k) BY <1>2 DEF Present, InTarget
<1>4. \A k : Seen(k, mark)' = Seen(k, mark) BY <1>2 DEF Seen
<1>5. TargetInv' BY <1>2, <1>3, <1>4 DEF TargetInv, BehindInv
<1>6. BegunInv'
  <2>1. CASE run'.mark = 0 BY <2>1 DEF BegunInv
  <2>2. CASE run'.mark = mark
    <3>1. \A k : Seen(k, run.mark)' = Seen(k, mark) BY <1>2, <2>2 DEF Seen
    <3>. QED BY <1>2, <1>3, <3>1 DEF BegunInv, BehindInv, TargetInv
  <2>. QED BY <1>1, <2>1, <2>2
<1>7. run'.check = "none" BY DEF Start, NoRun
<1>. QED BY <1>1, <1>2, <1>5, <1>6, <1>7 DEF BehindInv, ReadInv, SwappedInv

\* A round that reads has each row, or its reason not to.
LEMMA BehindOfRead ==
  ASSUME DeltaTypes, BehindInv, ReadRows
  PROVE  BehindInv'
<1>. USE DeltaConstants
<1>0. run \in RoundRun BY DEF DeltaTypes
<1>1. src' = src /\ shape' = shape /\ target' = target /\ mark' = mark
  BY DEF ReadRows, originUnchanged
<1>2. /\ run'.pc = "read" /\ run'.delta = UseDelta /\ run'.shape = shape /\ run'.mark = 0
      /\ run'.merge = (target.shape = shape) /\ run'.check = run.check /\ run'.newMark = NewMark(ToRead)
      /\ run'.staged = [k \in Keys |-> IF k \in ToRead THEN src[k].ver ELSE 0]
  BY <1>0 DEF ReadRows, RoundRun
<1>3. Present' = Present /\ Present \subseteq Keys /\ \A k : InTarget(k)' = InTarget(k)
  BY <1>1 DEF Present, InTarget
<1>4. \A k : Seen(k, mark)' = Seen(k, mark) BY <1>1 DEF Seen
<1>5. TargetInv' BY <1>1, <1>3, <1>4 DEF TargetInv, BehindInv
<1>6. ASSUME NEW k \in Present PROVE Covered(k)'
  <2>1. CASE k \in ToRead BY <1>1, <1>2, <1>3, <2>1 DEF Covered
  <2>2. CASE k \notin ToRead
    <3>1. UseDelta /\ ~Predicate(src[k].delta) BY <2>2 DEF ToRead
    <3>2. run.mark # 0 /\ target.shape = shape BY <3>1 DEF UseDelta, BehindInv
    <3>3. CASE src[k].delta = 0 BY <1>1, <3>3 DEF Covered, Seen
    <3>4. CASE src[k].delta # 0
      <4>1. ~Seen(k, run.mark) BY <3>1, <3>4 DEF Predicate, Seen
      <4>2. run.pc = "begun" BY DEF ReadRows
      <4>3. InTarget(k) BY <3>2, <4>1, <4>2 DEF BehindInv, BegunInv
      <4>4. run'.staged[k] = 0 /\ run'.merge /\ run'.delta BY <1>2, <1>3, <2>2, <3>1, <3>2
      <4>. QED BY <1>2, <1>3, <4>3, <4>4 DEF Covered
    <3>. QED BY <3>3, <3>4
  <2>. QED BY <2>1, <2>2
<1>7. ReadInv' BY <1>3, <1>6 DEF ReadInv
<1>8. run.check = "none" BY DEF BehindInv, ReadRows
<1>9. shape # 0 BY DEF DeltaTypes
<1>. QED BY <1>1, <1>2, <1>5, <1>7, <1>8, <1>9 DEF BehindInv, BegunInv, SwappedInv

\* The check of the keys finds what is present.
LEMMA BehindOfKeys ==
  ASSUME DeltaTypes, BehindInv, ReadKeys \/ KeysFail
  PROVE  BehindInv'
<1>0. run \in RoundRun BY DEF DeltaTypes
<1>1. src' = src /\ shape' = shape /\ target' = target /\ mark' = mark
  BY DEF ReadKeys, KeysFail, originUnchanged
<1>2. /\ run.pc = "read" /\ run'.pc = "keys" /\ run'.delta = run.delta /\ run'.shape = run.shape
      /\ run'.mark = run.mark /\ run'.merge = run.merge /\ run'.newMark = run.newMark
      /\ run'.staged = run.staged
  BY ZenonT(60), <1>0 DEF ReadKeys, KeysFail, RoundRun
<1>3. run'.check = "applied" => run'.keys = Present
  <2>1. CASE KeysFail BY <1>0, <2>1 DEF KeysFail, RoundRun
  <2>2. CASE ReadKeys BY <1>0, <2>2 DEF ReadKeys, RoundRun
  <2>. QED BY <2>1, <2>2
<1>4. Present' = Present /\ \A k : InTarget(k)' = InTarget(k) BY <1>1 DEF Present, InTarget
<1>5. \A k : Seen(k, mark)' = Seen(k, mark) /\ Seen(k, run.newMark)' = Seen(k, run.newMark)
  BY <1>1, <1>2 DEF Seen
<1>6. TargetInv' BY <1>1, <1>4, <1>5 DEF TargetInv, BehindInv
<1>7. ASSUME NEW k \in Present, Covered(k) PROVE Covered(k)'
  BY <1>1, <1>2, <1>3, <1>4, <1>5, <1>7 DEF Covered
<1>8. ReadInv' BY <1>1, <1>2, <1>4, <1>7 DEF ReadInv, BehindInv
<1>. QED BY <1>1, <1>2, <1>6, <1>8 DEF BehindInv, BegunInv, SwappedInv

\* A row the table has, and the check of the keys found or did not speak of, stays.
LEMMA SwapShows ==
  ASSUME DeltaTypes, BehindInv, Swap, run.shape = shape, NEW k \in Present
  PROVE  InTarget(k)' \/ (Seen(k, mark) /\ Seen(k, run.newMark))
<1>0. run \in RoundRun /\ k \in Keys /\ src[k].ver # 0 BY DEF DeltaTypes, Present
<1>1. src' = src /\ target'.rows[k] = Swapped(k) BY <1>0 DEF Swap, originUnchanged
<1>2. run.pc \in {"read", "keys"} BY DEF Swap
<1>3. Covered(k) BY <1>2 DEF BehindInv, ReadInv
<1>4. CASE run.staged[k] = src[k].ver
  <2>1. Swapped(k) = [ver |-> src[k].ver, gone |-> FALSE] BY <1>0, <1>4 DEF Swapped
  <2>. QED BY <1>1, <2>1 DEF InTarget
<1>5. CASE /\ run.staged[k] = 0 /\ run.merge /\ run.delta /\ InTarget(k)
           /\ (run.pc = "keys" /\ run.check = "applied") => k \in run.keys
  <2>. DEFINE old == target.rows[k]
              g == /\ old.ver # 0
                   /\ \/ ~run.delta
                      \/ run.check = "applied" /\ k \notin run.keys
                      \/ run.check # "applied" /\ old.gone
  <2>1. old = [ver |-> src[k].ver, gone |-> FALSE] BY <1>5 DEF InTarget
  <2>2. run.check = "applied" => k \in run.keys BY <1>2, <1>5 DEF BehindInv
  <2>3. g = FALSE BY <1>5, <2>1, <2>2
  <2>4. [old EXCEPT !.gone = FALSE] = old
    <3>1. old \in [ver : Nat, gone : BOOLEAN] BY <1>0 DEF DeltaTypes
    <3>2. old.gone = FALSE BY <2>1
    <3>. HIDE DEF old
    <3>. QED BY <3>1, <3>2
  <2>. HIDE DEF g
  <2>5. Swapped(k) = [old EXCEPT !.gone = g] BY <1>5 DEF Swapped, g
  <2>. QED BY <1>1, <2>1, <2>3, <2>4, <2>5 DEF InTarget
<1>. QED BY <1>3, <1>4, <1>5 DEF Covered

\* What is published was read.
LEMMA BehindOfSwap ==
  ASSUME DeltaTypes, BehindInv, Swap
  PROVE  BehindInv'
<1>0. run \in RoundRun BY DEF DeltaTypes
<1>1. src' = src /\ shape' = shape /\ mark' = mark /\ target'.shape = run.shape
  BY DEF Swap, originUnchanged
<1>2. run'.pc = "swapped" /\ run'.newMark = run.newMark /\ run'.mark = 0 BY DEF Swap, NoRun
<1>3. run.shape # 0 BY DEF BehindInv, Swap
<1>4. Present' = Present BY <1>1 DEF Present
<1>5. \A k : Seen(k, mark)' = Seen(k, mark) /\ Seen(k, run.newMark)' = Seen(k, run.newMark)
  BY <1>1, <1>2 DEF Seen
<1>6. run.shape = shape => \A k \in Present : InTarget(k)' \/ (Seen(k, mark) /\ Seen(k, run.newMark))
  BY SwapShows
<1>7. TargetInv' /\ SwappedInv' BY <1>1, <1>4, <1>5, <1>6 DEF TargetInv, SwappedInv
<1>. QED BY <1>1, <1>2, <1>3, <1>7 DEF BehindInv, BegunInv, ReadInv

\* The mark that is stored is one the round may leave.
LEMMA BehindOfFinal ==
  ASSUME DeltaTypes, BehindInv, Final
  PROVE  BehindInv'
<1>0. run \in RoundRun BY DEF DeltaTypes
<1>1. src' = src /\ shape' = shape /\ target' = target /\ mark' \in {mark, run.newMark}
  BY DEF Final, originUnchanged
<1>3. run'.pc \in {"none", "marking"} /\ run'.mark = 0 BY FinalRun
<1>4. Present' = Present /\ \A k : InTarget(k)' = InTarget(k) BY <1>1 DEF Present, InTarget
<1>5. \A k : Seen(k, mark) /\ Seen(k, run.newMark) => Seen(k, mark)' BY <1>1 DEF Seen
<1>6. TargetInv' BY <1>1, <1>4, <1>5 DEF Final, TargetInv, SwappedInv, BehindInv
<1>7. target.shape # 0 BY DEF BehindInv, Final
<1>. QED BY <1>1, <1>3, <1>6, <1>7 DEF BehindInv, BegunInv, ReadInv, SwappedInv

\* Every step.
LEMMA BehindStep ==
  ASSUME Lag + Ahead <= Lookback, DeltaTypes, DeltaTypes', TimeInv, BehindInv, [Next]_vars
  PROVE  BehindInv'
<1>0. run \in RoundRun BY DEF DeltaTypes
<1>1. CASE UNCHANGED vars BY <1>1, BehindStays DEF vars, originUnchanged
<1>2. CASE Requests BY <1>2, BehindStays DEF Requests, Cron, Manual, Cancel, Edit
<1>3. CASE Fails \/ Rejected \/ EscalateQueues
  <2>1. run'.pc = "none" /\ run'.mark = 0 BY <1>3 DEF Fails, Rejected, EscalateQueues, NoRun
  <2>. QED BY <1>3, <2>1, BehindStays DEF Fails, Rejected, EscalateQueues
<1>4. ASSUME NEW r \in Round, GivesUp(r) PROVE BehindInv' BY <1>4, BehindStays DEF GivesUp
<1>5. CASE EscalateMarks
  <2>1. run'.pc = "queueing" /\ run'.mark = run.mark BY <1>0, <1>5 DEF EscalateMarks, RoundRun
  <2>2. target' = target /\ mark' = mark /\ src' = src /\ shape' = shape
    BY <1>5 DEF EscalateMarks, originUnchanged
  <2>3. TargetInv' BY <2>2 DEF BehindInv, TargetInv, Present, InTarget, Seen
  <2>. QED BY <2>1, <2>2, <2>3 DEF BehindInv, BegunInv, ReadInv, SwappedInv
<1>. QED
  BY <1>1, <1>2, <1>3, <1>4, <1>5, BehindOfOrigin, BehindOfStart, BehindOfRead, BehindOfKeys,
            BehindOfSwap, BehindOfFinal DEF Next, Steps

\* Whatever the origin writes while rounds read it, and however they fail, a row
\* that the table does not show has no time, or a time the next round will read:
\* the lookback reaches behind every mark.  It must cover the longest time from
\* the value of a row to its commit and how far a mark may be in the future.
THEOREM NothingStaysBehind ==
  ASSUME Lag + Ahead <= Lookback
  PROVE  Spec => []NothingBehind
<1>1. Init => DeltaTypes /\ TimeInv /\ BehindInv
  <2>. SUFFICES ASSUME Init PROVE DeltaTypes /\ TimeInv /\ BehindInv OBVIOUS
  <2>. USE DeltaConstants, NoRunType DEF Init
  <2>1. NoRun.cap = 0 /\ NoRun.mark = 0 /\ NoRun.newMark = -1 /\ NoRun.pc = "none" BY DEF NoRun
  <2>4. DeltaTypes BY DeltaStart
  <2>5. TimeInv BY <2>1 DEF TimeInv, Ahead
  <2>6. BehindInv BY <2>1 DEF BehindInv, TargetInv, BegunInv, ReadInv, SwappedInv
  <2>. QED BY <2>4, <2>5, <2>6
<1>2. DeltaTypes /\ TimeInv /\ BehindInv /\ [Next]_vars => (DeltaTypes /\ TimeInv /\ BehindInv)'
  BY DeltaTypeStep, TimeStep, BehindStep
<1>3. BehindInv => NothingBehind BY DEF BehindInv, TargetInv, NothingBehind, Seen
<1>. QED BY <1>1, <1>2, <1>3, PTL DEF Spec

\* Nothing is live in a table that does not exist; only incremental rounds read a
\* difference and skip the check of the keys.
RoundInv ==
  /\ target.shape = 0 => Live = {}
  /\ run.pc \in {"read", "keys"} => run.shape # 0
  /\ run.mark # 0 \/ run.delta \/ run.check = "skipped" \/ run.pc \in {"marking", "queueing"}
       => run.kind = "inc"

\* Unless a request was cancelled: whoever runs has its job; what the marker accepts
\* was asked of a job that waits; what a round accepts was asked of it, and a round
\* that read nothing over a table with rows accepts it.
TrustInv ==
  /\ run.pc # "none" => job[run.kind].status = "running"
  /\ marker.acceptDrop =>
       marker.for \in Round /\ job[marker.for].status = "queued" /\ job[marker.for].accepted
  /\ \A r \in Round : job[r].acceptDrop => job[r].accepted
  /\ run.marker.acceptDrop => run.accepted
  /\ run.pc \in {"read", "keys"} /\ ~run.delta /\ Live # {} /\ (\A k \in Keys : run.staged[k] = 0)
       => run.accepted

\* The inductive invariant.
AcceptInv == RoundInv /\ (used.cancelled \/ TrustInv)

\* A round that read nothing of a table with rows was allowed to.
LEMMA EmptyReadIsAccepted ==
  ASSUME DeltaTypes, RoundInv, ReadRows, ~UseDelta, Live # {}, \A k \in Keys : run'.staged[k] = 0
  PROVE  run.marker.acceptDrop
<1>0. run \in RoundRun BY DEF DeltaTypes
<1>1. run'.staged = [k \in Keys |-> IF k \in ToRead THEN src[k].ver ELSE 0]
  BY <1>0 DEF ReadRows, RoundRun
<1>2. ToRead = {} BY <1>1 DEF ToRead, Present
<1>3. Weight({}) = 0 BY WeightIsSize
<1>4. Weight(Live) \in Nat /\ Weight(Live) # 0
  <2>1. Live \in SUBSET Keys BY DEF Live
  <2>. QED BY <2>1, WeightIsSize
<1>5. Verdict({}) # "FAILED"
  <2>1. target.shape # 0 BY DEF RoundInv
  <2>2. ~Blocked({}) BY <1>2 DEF ReadRows
  <2>. QED BY <2>1, <2>2 DEF Blocked
<1>. DEFINE cfg == EffectiveSettings(Defaults, [allowEmpty |-> FALSE, maxDropPct |-> 0], run.marker)
            f == [fullState |-> TRUE, deltaOnly |-> FALSE, expected |-> 0,
                  parsed |-> Weight({}), staged |-> -1, prev |-> Weight(Live),
                  retry |-> FALSE, scheduled |-> Scheduled(run.marker, FALSE),
                  softEmpty |-> FALSE, unverified |-> FALSE, disagrees |-> FALSE]
<1>6. Verdict({}) = evaluateLoad(f, cfg) BY DEF Verdict
<1>7. cfg.mode = "enforce" BY DEF EffectiveSettings, Defaults
<1>8. cfg.allowEmpty => run.marker.acceptDrop
  <2>1. cfg.allowEmpty = (FALSE \/ FALSE \/ run.marker.acceptDrop)
    BY DEF EffectiveSettings, Defaults
  <2>. QED BY <2>1
<1>9. f.parsed = 0 /\ f.prev > 0 /\ f.fullState /\ ~f.deltaOnly /\ ~f.softEmpty BY <1>3, <1>4
<1>. HIDE DEF f, cfg
<1>10. ASSUME ~cfg.allowEmpty PROVE FALSE
  <2>1. Emptied(f, cfg) BY <1>9, <1>10 DEF Emptied
  <2>2. "EMPTY_REPLACE" \in Reasons(f, cfg) BY <1>9, <2>1 DEF Reasons, ReasonCode
  <2>3. "EMPTY_REPLACE" \in Blocking(f) BY <1>9 DEF Blocking
  <2>. QED BY <1>5, <1>6, <1>7, <2>2, <2>3 DEF evaluateLoad
<1>. QED BY <1>8, <1>10

\* A request, an edit or a cancellation.
LEMMA AcceptOfRequests ==
  ASSUME DeltaTypes, AcceptInv, Requests
  PROVE  AcceptInv'
<1>0. job \in [Round -> RoundJob] /\ run \in RoundRun /\ used \in Uses /\ marker \in Marker
  BY DEF DeltaTypes
<1>1. target' = target /\ run' = run BY DEF Requests, Cron, Manual, Cancel, Edit
<1>2. RoundInv' BY <1>1 DEF AcceptInv, RoundInv, Live
<1>3. Live' = Live BY <1>1 DEF Live
<1>4. CASE used.cancelled
  <2>1. used'.cancelled BY <1>0, <1>4 DEF Requests, Cron, Manual, Cancel, Edit, Uses
  <2>. QED BY <1>2, <2>1 DEF AcceptInv
<1>5. CASE TrustInv
  <2>1. ASSUME NEW r \in Round, Cron(r) PROVE TrustInv'
    <3>1. job' = [job EXCEPT ![r] = [NoJob EXCEPT !.status = "queued"]] /\ marker' = marker
          /\ job[r].status = "none"
      BY <2>1 DEF Cron
    <3>2. ~job'[r].acceptDrop /\ \A q \in Round : q # r => job'[q] = job[q]
      BY <1>0, <3>1 DEF NoJob
    <3>3. run.kind \in Round BY <1>0 DEF RoundRun
    <3>. QED BY <1>1, <1>3, <1>5, <3>1, <3>2, <3>3 DEF TrustInv
  <2>2. ASSUME NEW r \in Round, Manual(r) PROVE TrustInv'
    <3>1. PICK drop \in BOOLEAN :
          /\ job' = [job EXCEPT ![r] =
               CASE @.status = "none" -> [status |-> "queued", manual |-> TRUE,
                                          acceptDrop |-> drop, accepted |-> drop]
                 [] @.status = "queued" -> [@ EXCEPT !.accepted = @ \/ drop]
                 [] OTHER -> @]
          /\ marker' = IF job[r].status = "running" THEN marker
                       ELSE [for |-> r, manual |-> TRUE, acceptDrop |-> drop, allowDropPct |-> 0]
      BY <2>2 DEF Manual
    <3>2. /\ \A q \in Round : q # r => job'[q] = job[q]
          /\ job[r].status = "none" =>
               job'[r].status = "queued" /\ (job'[r].accepted <=> drop) /\ (job'[r].acceptDrop <=> drop)
          /\ job[r].status = "queued" =>
               /\ job'[r].status = "queued" /\ (job'[r].accepted <=> job[r].accepted \/ drop)
               /\ job'[r].acceptDrop <=> job[r].acceptDrop
          /\ job[r].status = "running" => job' = job
      BY <3>1, ManualJob
    <3>3. job[r] \in RoundJob /\ run.kind \in Round BY <1>0 DEF RoundRun
    <3>4. CASE job[r].status = "running" BY <1>1, <1>3, <1>5, <3>1, <3>2, <3>4 DEF TrustInv
    <3>5. CASE job[r].status = "none" BY <1>1, <1>3, <1>5, <3>1, <3>2, <3>3, <3>5 DEF TrustInv
    <3>6. CASE job[r].status = "queued" BY <1>1, <1>3, <1>5, <3>1, <3>2, <3>3, <3>6 DEF TrustInv
    <3>. QED BY <3>3, <3>4, <3>5, <3>6 DEF RoundJob
  <2>3. CASE Edit
    <3>1. marker' = marker /\ job' = job BY <2>3 DEF Edit
    <3>2. TrustInv' BY <1>1, <1>3, <1>5, <3>1 DEF TrustInv
    <3>. QED BY <1>2, <3>2 DEF AcceptInv
  <2>4. CASE Cancel
    <3>1. used'.cancelled BY <1>0, <2>4 DEF Cancel, Uses
    <3>. QED BY <1>2, <3>1 DEF AcceptInv
  <2>. QED BY <1>2, <2>1, <2>2, <2>3, <2>4 DEF Requests, AcceptInv
<1>. QED BY <1>4, <1>5 DEF AcceptInv

\* What has been cancelled stays so.
LEMMA CancelledStays == ASSUME DeltaTypes, [Next]_vars, used.cancelled PROVE used'.cancelled
<1>1. used \in Uses BY DEF DeltaTypes
<1>2. \/ used' = used
      \/ used' = [used EXCEPT !.writes = @ + 1]
      \/ used' = [used EXCEPT !.events = @ + 1]
      \/ used' = [used EXCEPT !.events = @ + 1, !.cancelled = TRUE]
  <2>1. ASSUME NEW r \in Round, Start(r)
        PROVE  used' = used \/ used' = [used EXCEPT !.events = @ + 1]
    <3>1. PICK expired \in BOOLEAN : used' = [used EXCEPT !.events = IF expired THEN @ + 1 ELSE @]
      BY <2>1 DEF Start
    <3>2. CASE ~expired
      <4>1. used' = [used EXCEPT !.events = @] BY <3>1, <3>2
      <4>. QED BY <1>1, <4>1 DEF Uses
    <3>. QED BY <3>1, <3>2
  <2>2. CASE Origin BY <2>2 DEF Origin, Write, WriteOpen, Commit, Delete, Reshape, Tick
  <2>3. CASE Requests BY <2>3 DEF Requests, Cron, Manual, Cancel, Edit
  <2>4. CASE Steps
    BY <2>4 DEF Steps, ReadRows, Rejected, ReadKeys, Swap, Final, EscalateMarks, EscalateQueues
  <2>5. ASSUME NEW r \in Round, GivesUp(r)
        PROVE  used' = [used EXCEPT !.events = @ + 1, !.cancelled = TRUE]
    BY <2>5 DEF GivesUp
  <2>6. CASE KeysFail \/ Fails BY <2>6 DEF KeysFail, Fails
  <2>. QED BY <2>1, <2>2, <2>3, <2>4, <2>5, <2>6 DEF Next, vars
<1>. QED BY <1>1, <1>2 DEF Uses

\* The requests, the marker, the rounds and the table rest.
LEMMA AcceptStays ==
  ASSUME RoundInv, TrustInv, target' = target, marker' = marker, job' = job, run' = run
  PROVE  TrustInv'
<1>1. Live' = Live BY DEF Live
<1>. QED BY <1>1 DEF TrustInv

\* A round that begins takes the marker, if it is for its job.
LEMMA TrustOfStart ==
  ASSUME DeltaTypes, TrustInv, NEW r \in Round, Start(r)
  PROVE  TrustInv'
<1>0. /\ job \in [Round -> RoundJob] /\ job[r] \in RoundJob /\ marker \in Marker
      /\ job[r].acceptDrop \in BOOLEAN
  BY DEF DeltaTypes, RoundJob
<1>1. PICK expired \in BOOLEAN :
        run' = [NoRun EXCEPT !.pc = "begun", !.kind = r, !.column = column,
                        !.mark = IF r = "inc" THEN mark ELSE 0, !.skips = skips,
                        !.cap = clock + Tolerance, !.accepted = job[r].accepted,
                        !.marker = [TakenMarker(r, expired) EXCEPT !.manual = @ \/ job[r].manual,
                                             !.acceptDrop = @ \/ job[r].acceptDrop]]
  BY DEF Start
<1>. DEFINE tm == TakenMarker(r, expired)
            mm == [tm EXCEPT !.manual = @ \/ job[r].manual, !.acceptDrop = @ \/ job[r].acceptDrop]
<1>2. tm \in Marker /\ (tm.acceptDrop => marker.for = r /\ marker.acceptDrop)
  <2>1. ~NoMarker.acceptDrop BY DEF NoMarker
  <2>2. tm = NoMarker \/ (tm = marker /\ marker.for = r) BY DEF TakenMarker
  <2>. QED BY <1>0, <2>1, <2>2, NoRunType
<1>3. mm.acceptDrop <=> (tm.acceptDrop \/ job[r].acceptDrop)
  <2>. DEFINE v == tm.manual \/ job[r].manual
              w == tm.acceptDrop \/ job[r].acceptDrop
  <2>1. mm = [tm EXCEPT !.manual = v, !.acceptDrop = w] OBVIOUS
  <2>2. (w <=> (tm.acceptDrop \/ job[r].acceptDrop)) /\ v \in BOOLEAN /\ w \in BOOLEAN OBVIOUS
  <2>. HIDE DEF v, w, tm, mm
  <2>3. mm.acceptDrop <=> w BY <1>2, <2>1, <2>2 DEF Marker
  <2>. QED BY <2>2, <2>3
<1>4. run'.marker = mm /\ run'.accepted = job[r].accepted /\ run'.pc = "begun" /\ run'.kind = r
  BY <1>1 DEF NoRun
<1>. HIDE DEF tm, mm
<1>5. run'.marker.acceptDrop => run'.accepted BY <1>2, <1>3, <1>4 DEF TrustInv
<1>6. /\ job' = [job EXCEPT ![r].status = "running"] /\ job[r].status = "queued"
      /\ marker' = IF marker.for = r THEN NoMarker ELSE marker
  BY DEF Start
<1>7. /\ job'[r].status = "running" /\ \A q \in Round : q # r => job'[q] = job[q]
      /\ (job'[r].acceptDrop <=> job[r].acceptDrop) /\ (job'[r].accepted <=> job[r].accepted)
  BY <1>0, <1>6 DEF RoundJob
<1>8. \A q \in Round : job'[q].acceptDrop => job'[q].accepted BY <1>7 DEF TrustInv
<1>9. ~NoMarker.acceptDrop BY DEF NoMarker
<1>10. marker'.acceptDrop =>
         marker'.for \in Round /\ job'[marker'.for].status = "queued" /\ job'[marker'.for].accepted
  BY <1>6, <1>7, <1>9 DEF TrustInv
<1>. QED BY <1>4, <1>5, <1>7, <1>8, <1>10 DEF TrustInv

\* A round that reads nothing of a table with rows is one that accepts it.
LEMMA TrustOfReading ==
  ASSUME DeltaTypes, RoundInv, TrustInv, ReadRows \/ ReadKeys \/ KeysFail
  PROVE  TrustInv'
<1>0. run \in RoundRun BY DEF DeltaTypes
<1>1. target' = target /\ job' = job /\ marker' = marker BY DEF ReadRows, ReadKeys, KeysFail
<1>2. Live' = Live BY <1>1 DEF Live
<1>3. CASE ReadRows
  <2>. DEFINE d == UseDelta
  <2>1. /\ run'.pc = "read" /\ run'.kind = run.kind /\ run'.accepted = run.accepted /\ run'.marker = NoMarker
        /\ run.pc = "begun"
    BY <1>0, <1>3 DEF ReadRows, RoundRun
  <2>2. run'.delta <=> d
    <3>1. d \in BOOLEAN BY DEF UseDelta
    <3>2. run' = [run EXCEPT !.pc = "read", !.delta = d, !.shape = shape, !.merge = (target.shape = shape),
                    !.staged = [k \in Keys |-> IF k \in ToRead THEN src[k].ver ELSE 0],
                    !.newMark = NewMark(ToRead), !.mark = 0, !.cap = 0, !.marker = NoMarker]
      BY <1>3 DEF ReadRows
    <3>. HIDE DEF d
    <3>. QED BY <1>0, <3>1, <3>2 DEF RoundRun
  <2>3. ~run'.delta /\ Live # {} /\ (\A k \in Keys : run'.staged[k] = 0) => run.accepted
    BY <1>3, <2>2, EmptyReadIsAccepted DEF TrustInv
  <2>4. ~NoMarker.acceptDrop BY DEF NoMarker
  <2>. QED BY <1>1, <1>2, <2>1, <2>3, <2>4 DEF TrustInv
<1>4. CASE ReadKeys \/ KeysFail
  <2>1. /\ run'.pc = "keys" /\ run'.kind = run.kind /\ run'.accepted = run.accepted /\ run'.marker = run.marker
        /\ run.pc = "read" /\ run'.delta = run.delta /\ run'.staged = run.staged
    BY ZenonT(60), <1>0, <1>4 DEF ReadKeys, KeysFail, RoundRun
  <2>. QED BY <1>1, <1>2, <2>1 DEF TrustInv
<1>. QED BY <1>3, <1>4

\* The job of the round under way leaves its row, or goes back to wait.
LEMMA TrustOfDone ==
  ASSUME DeltaTypes, TrustInv, target' = target, marker' = marker, run' = NoRun,
         NEW r \in Round, job[r].status = "running",
         \A q \in Round : q # r => \/ job'[q] = job[q]
                                   \/ job[q].status = "none" /\ ~job'[q].acceptDrop,
         job'[r].acceptDrop => job'[r].accepted
  PROVE  TrustInv'
<1>1. Live' = Live BY DEF Live
<1>2. run'.pc = "none" /\ ~run'.marker.acceptDrop BY DEF NoRun, NoMarker
<1>3. \A q \in Round : job'[q].acceptDrop => job'[q].accepted BY DEF TrustInv
<1>4. marker.acceptDrop => marker.for # r /\ job[marker.for].status = "queued" BY DEF TrustInv
<1>. QED BY <1>1, <1>2, <1>3, <1>4 DEF TrustInv

\* A round that ends without publishing.
LEMMA TrustOfEnd ==
  ASSUME DeltaTypes, TrustInv, Fails \/ Rejected
  PROVE  TrustInv'
<1>0. job \in [Round -> RoundJob] /\ run.kind \in Round BY DEF DeltaTypes, RoundRun
<1>1. job[run.kind].status = "running" BY DEF TrustInv, Fails, Rejected
<1>2. target' = target /\ marker' = marker /\ run' = NoRun BY DEF Fails, Rejected
<1>3. PICK w \in {job[run.kind], NoJob, [job[run.kind] EXCEPT !.status = "queued"]} :
        job' = [job EXCEPT ![run.kind] = w]
  <2>1. CASE Rejected BY <2>1 DEF Rejected
  <2>2. CASE Fails
    <3>1. PICK again \in BOOLEAN :
            job' = [job EXCEPT ![run.kind] = IF @.status # "running" THEN @
                                          ELSE IF again THEN [@ EXCEPT !.status = "queued"] ELSE NoJob]
      BY <2>2 DEF Fails
    <3>. QED BY <1>1, <3>1
  <2>. QED BY <2>1, <2>2
<1>4. \A q \in Round : q # run.kind => job'[q] = job[q] BY <1>0, <1>3
<1>5. w.acceptDrop => w.accepted
  <2>1. ~NoJob.acceptDrop BY DEF NoJob
  <2>2. CASE w = [job[run.kind] EXCEPT !.status = "queued"]
    <3>1. job[run.kind] \in RoundJob /\ (job[run.kind].acceptDrop => job[run.kind].accepted)
      BY <1>0 DEF TrustInv
    <3>. QED BY <2>2, <3>1 DEF RoundJob
  <2>. QED BY <1>0, <1>3, <2>1, <2>2 DEF TrustInv
<1>6. job'[run.kind] = w BY <1>0, <1>3
<1>. QED BY <1>0, <1>1, <1>2, <1>4, <1>5, <1>6, TrustOfDone

\* A round that publishes.
LEMMA TrustOfPublish ==
  ASSUME DeltaTypes, RoundInv, TrustInv, Swap \/ Final \/ EscalateMarks
  PROVE  TrustInv'
<1>0. job \in [Round -> RoundJob] /\ run \in RoundRun /\ run.kind \in Round
  BY DEF DeltaTypes, RoundRun
<1>1. job[run.kind].status = "running" BY DEF TrustInv, Swap, Final, EscalateMarks
<1>2. ~NoMarker.acceptDrop /\ ~NoJob.acceptDrop BY DEF NoMarker, NoJob
<1>3. CASE Swap
  <2>1. run'.pc = "swapped" /\ run'.kind = run.kind /\ run'.marker = NoMarker
    BY <1>3 DEF Swap, NoRun
  <2>2. job' = job /\ marker' = marker BY <1>3 DEF Swap
  <2>. QED BY <1>1, <1>2, <2>1, <2>2 DEF TrustInv
<1>4. CASE Final /\ ~Escalates
  <2>1. target' = target /\ marker' = marker /\ run' = NoRun BY <1>4 DEF Final
  <2>2. job' = [job EXCEPT ![run.kind] = NoJob] BY <1>1, <1>4 DEF Final, Done
  <2>3. job'[run.kind] = NoJob /\ \A q \in Round : q # run.kind => job'[q] = job[q] BY <1>0, <2>2
  <2>. QED BY <1>0, <1>1, <1>2, <2>1, <2>3, TrustOfDone
<1>5. CASE Final /\ Escalates
  <2>1. run.kind = "inc"
    <3>1. run.check = "skipped" BY <1>5, DeltaConstants DEF Escalates, Skips
    <3>. QED BY <3>1 DEF RoundInv
  <2>2. run' = [NoRun EXCEPT !.pc = "marking", !.measured = run.measured] BY <1>5 DEF Final
  <2>3. run'.pc = "marking" /\ run'.kind = "inc" /\ run'.marker = NoMarker BY <2>2 DEF NoRun
  <2>4. job' = job /\ marker' = marker /\ Live' = Live BY <1>5 DEF Final, Live
  <2>. QED BY <1>1, <1>2, <2>1, <2>3, <2>4 DEF TrustInv
<1>6. CASE EscalateMarks
  <2>1. /\ run'.pc = "queueing" /\ run'.kind = run.kind /\ run'.marker = run.marker
        /\ run'.accepted = run.accepted
    BY <1>0, <1>6 DEF EscalateMarks, RoundRun
  <2>2. ~[NoMarker EXCEPT !.for = "rec", !.allowDropPct = run.measured].acceptDrop BY DEF NoMarker
  <2>3. job' = job /\ (marker' = marker \/ ~marker'.acceptDrop) BY <1>6, <2>2 DEF EscalateMarks
  <2>. QED BY <1>1, <2>1, <2>3 DEF TrustInv
<1>. QED BY <1>3, <1>4, <1>5, <1>6

\* A round that escalates queues a reconciliation, which nobody has asked for.
LEMMA TrustOfQueueing ==
  ASSUME DeltaTypes, RoundInv, TrustInv, EscalateQueues
  PROVE  TrustInv'
<1>0. job \in [Round -> RoundJob] BY DEF DeltaTypes
<1>1. job["inc"].status = "running" BY DEF TrustInv, RoundInv, EscalateQueues
<1>2. target' = target /\ marker' = marker /\ run' = NoRun BY DEF EscalateQueues
<1>3. ~NoJob.acceptDrop /\ ~[NoJob EXCEPT !.status = "queued"].acceptDrop BY DEF NoJob
<1>4. /\ job'["inc"] = NoJob
      /\ \/ job'["rec"] = job["rec"]
         \/ job["rec"].status = "none" /\ job'["rec"] = [NoJob EXCEPT !.status = "queued"]
  BY <1>0, <1>1 DEF EscalateQueues, Round
<1>5. \A q \in Round : q # "inc" => job'[q] = job[q] \/ (job[q].status = "none" /\ ~job'[q].acceptDrop)
  BY <1>3, <1>4 DEF Round
<1>6. "inc" \in Round BY DEF Round
<1>. QED BY <1>1, <1>2, <1>3, <1>4, <1>5, <1>6, TrustOfDone

\* The kinds of rounds, after every step.
LEMMA RoundStep == ASSUME DeltaTypes, RoundInv, [Next]_vars PROVE RoundInv'
<1>0. run \in RoundRun BY DEF DeltaTypes
<1>1. CASE target' = target /\ run' = run
  <2>1. Live' = Live BY <1>1 DEF Live
  <2>. QED BY <1>1, <2>1 DEF RoundInv
<1>2. CASE target' = target /\ run' = NoRun
  <2>1. Live' = Live BY <1>2 DEF Live
  <2>. QED BY <1>2, <2>1 DEF RoundInv, NoRun
<1>3. ASSUME NEW r \in Round, Start(r) PROVE RoundInv'
  <2>1. target' = target /\ Live' = Live BY <1>3 DEF Start, Live
  <2>2. /\ run'.pc = "begun" /\ run'.kind = r /\ run'.mark = (IF r = "inc" THEN mark ELSE 0)
        /\ ~run'.delta /\ run'.check = "none"
    BY <1>3 DEF Start, NoRun
  <2>. QED BY <2>1, <2>2 DEF RoundInv
<1>4. CASE ReadRows
  <2>1. target' = target /\ Live' = Live /\ run.pc = "begun" BY <1>4 DEF ReadRows, Live
  <2>. DEFINE d == UseDelta
  <2>2. d \in BOOLEAN /\ (d => run.mark # 0) BY DEF UseDelta
  <2>3. run' = [run EXCEPT !.pc = "read", !.delta = d, !.shape = shape, !.merge = (target.shape = shape),
                  !.staged = [k \in Keys |-> IF k \in ToRead THEN src[k].ver ELSE 0],
                  !.newMark = NewMark(ToRead), !.mark = 0, !.cap = 0, !.marker = NoMarker]
    BY <1>4 DEF ReadRows
  <2>. HIDE DEF d
  <2>4. /\ run'.pc = "read" /\ run'.kind = run.kind /\ run'.mark = 0 /\ (run'.delta <=> d)
        /\ run'.check = run.check /\ run'.shape = shape
    BY <1>0, <2>2, <2>3 DEF RoundRun
  <2>5. shape # 0 BY DEF DeltaTypes
  <2>. QED BY <2>1, <2>2, <2>4, <2>5 DEF RoundInv
<1>5. CASE ReadKeys \/ KeysFail
  <2>1. target' = target /\ Live' = Live /\ run.pc = "read" /\ run.delta
    BY <1>5 DEF ReadKeys, KeysFail, KeysDue, Live
  <2>2. run'.pc = "keys" /\ run'.kind = run.kind /\ run'.shape = run.shape
    BY <1>0, <1>5 DEF ReadKeys, KeysFail, RoundRun
  <2>. QED BY <2>1, <2>2 DEF RoundInv
<1>6. CASE Swap
  <2>1. target'.shape = run.shape /\ run.pc \in {"read", "keys"} BY <1>6 DEF Swap
  <2>2. /\ run'.pc = "swapped" /\ run'.kind = run.kind /\ run'.mark = 0 /\ ~run'.delta
        /\ run'.check = run.check
    BY <1>6 DEF Swap, NoRun
  <2>. QED BY <2>1, <2>2 DEF RoundInv
<1>7. CASE Final
  <2>1. target' = target /\ Live' = Live BY <1>7 DEF Final, Live
  <2>3. run'.pc \notin {"read", "keys"} /\ run'.kind = "inc" BY <1>7, FinalRun
  <2>. QED BY <2>1, <2>3 DEF RoundInv
<1>8. CASE EscalateMarks
  <2>1. target' = target /\ Live' = Live /\ run.pc = "marking" BY <1>8 DEF EscalateMarks, Live
  <2>2. run'.pc = "queueing" /\ run'.kind = run.kind BY <1>0, <1>8 DEF EscalateMarks, RoundRun
  <2>. QED BY <2>1, <2>2 DEF RoundInv
<1>9. ASSUME \/ UNCHANGED vars \/ Origin \/ Requests \/ \E r \in Round : GivesUp(r)
      PROVE  RoundInv'
  BY <1>1, <1>9
  DEF vars, Origin, Write, WriteOpen, Commit, Delete, Reshape, Tick, roundsUnchanged,
     Requests, Cron, Manual, Cancel, Edit, GivesUp
<1>10. CASE Fails \/ Rejected \/ EscalateQueues BY <1>2, <1>10 DEF Fails, Rejected, EscalateQueues
<1>. QED BY <1>3, <1>4, <1>5, <1>6, <1>7, <1>8, <1>9, <1>10 DEF Next, Steps

\* Every step.
LEMMA AcceptStep == ASSUME DeltaTypes, AcceptInv, [Next]_vars PROVE AcceptInv'
<1>. USE DEF AcceptInv
<1>1. RoundInv' BY RoundStep
<1>2. CASE used.cancelled BY <1>1, <1>2, CancelledStays
<1>3. CASE ~used.cancelled
  <2>1. TrustInv BY <1>3
  <2>2. ASSUME UNCHANGED vars \/ Origin PROVE TrustInv'
    BY <2>1, <2>2, AcceptStays
    DEF vars, Origin, Write, WriteOpen, Commit, Delete, Reshape, Tick, roundsUnchanged
  <2>3. ASSUME NEW r \in Round, GivesUp(r) PROVE used'.cancelled
    <3>1. used \in Uses BY DEF DeltaTypes
    <3>. QED BY <2>3, <3>1 DEF GivesUp, Uses
  <2>. QED BY <1>1, <2>1, <2>2, <2>3, AcceptOfRequests, TrustOfStart, TrustOfReading, TrustOfEnd,
              TrustOfPublish, TrustOfQueueing DEF Next, Steps
<1>. QED BY <1>2, <1>3

\* A table that a round empties is one of which the round read nothing.
LEMMA EmptyingReadNothing ==
  ASSUME DeltaTypes, AcceptInv, Swap, ~run.delta, Live # {}, Live' = {}
  PROVE  run.accepted \/ used.cancelled
<1>0. run \in RoundRun BY DEF DeltaTypes
<1>1. ASSUME NEW k \in Keys, run.staged[k] # 0 PROVE k \in Live'
  <2>1. target'.rows[k] = [ver |-> run.staged[k], gone |-> FALSE] BY <1>1 DEF Swap, Swapped
  <2>. QED BY <1>1, <2>1 DEF Live
<1>2. \A k \in Keys : run.staged[k] = 0 BY <1>1
<1>3. run.pc \in {"read", "keys"} BY DEF Swap
<1>. QED BY <1>2, <1>3 DEF AcceptInv, TrustInv

\* A round that reads the whole origin and finds nothing empties a table with rows
\* only if a person asked that round to accept it, as long as no request was
\* cancelled: no acceptance outlives its job, or passes to another.
THEOREM NothingEmptiedUnasked == Spec => EmptiedOnRequest
<1>1. Init => DeltaTypes /\ AcceptInv
  <2>. SUFFICES ASSUME Init PROVE DeltaTypes /\ AcceptInv OBVIOUS
  <2>1. DeltaTypes BY DeltaStart
  <2>2. run = NoRun /\ run.pc = "none" /\ run.mark = 0 /\ ~run.delta /\ run.check = "none" /\ ~run.marker.acceptDrop
    BY DEF Init, NoRun, NoMarker
  <2>3. Live = {} BY DEF Init, Live
  <2>4. ~marker.acceptDrop BY DEF Init, NoMarker
  <2>5. \A r \in Round : ~job[r].acceptDrop BY DEF Init, NoJob
  <2>. QED BY <2>1, <2>2, <2>3, <2>4, <2>5 DEF AcceptInv, RoundInv, TrustInv
<1>2. DeltaTypes /\ AcceptInv /\ [Next]_vars => (DeltaTypes /\ AcceptInv)'
  BY DeltaTypeStep, AcceptStep
<1>3. DeltaTypes /\ AcceptInv /\ [Next]_vars => (Empties => run.accepted \/ used.cancelled)
  <2>. SUFFICES ASSUME DeltaTypes, AcceptInv, [Next]_vars, Empties PROVE run.accepted \/ used.cancelled
    OBVIOUS
  <2>1. CASE Swap BY <2>1, EmptyingReadNothing DEF Empties
  <2>2. CASE ~Swap
    <3>1. run \in RoundRun BY DEF DeltaTypes
    <3>2. CASE UNCHANGED vars \/ Origin \/ Requests \/ \E r \in Round : GivesUp(r)
      <4>1. run' = run
        BY <3>2
        DEF vars, Origin, Write, WriteOpen, Commit, Delete, Reshape, Tick, roundsUnchanged,
           Requests, Cron, Manual, Cancel, Edit, GivesUp
      <4>. QED BY <4>1 DEF Empties
    <3>3. CASE Fails \/ Rejected \/ EscalateQueues
      <4>1. run'.pc = "none" BY <3>3 DEF Fails, Rejected, EscalateQueues, NoRun
      <4>. QED BY <4>1 DEF Empties
    <3>4. ASSUME NEW r \in Round, Start(r) PROVE run'.pc = "begun" BY <3>4 DEF Start, NoRun
    <3>5. CASE ReadRows \/ ReadKeys \/ KeysFail \/ EscalateMarks
      <4>1. run'.pc \in {"read", "keys", "queueing"}
        BY ZenonT(60), <3>1, <3>5 DEF ReadRows, ReadKeys, KeysFail, EscalateMarks, RoundRun
      <4>. QED BY <4>1 DEF Empties
    <3>6. Final => run'.pc # "swapped" BY FinalRun
    <3>. QED BY <2>2, <3>2, <3>3, <3>4, <3>5, <3>6 DEF Next, Steps, Empties
  <2>. QED BY <2>1, <2>2
<1>. QED BY <1>1, <1>2, <1>3, PTL DEF Spec, EmptiedOnRequest
------------------------------------------------------------------------------
(* The file of a firebird-ftp connection, which the sources of the connection
   read: a run reads the version it found on the server or a later one, and the
   cleanup removes nothing that is being read, for any number of sources, files
   and faults. *)

\* The directory of an extraction is one that nobody had.
LEMMA ExtractTakesUnused ==
  ASSUME NEW s \in Sources, Extract(s)
  PROVE  \E new \in Dirs, v \in fetch[s].sig..remote :
           /\ Unused(new)
           /\ disk' = [d \in Dirs |-> IF d = new THEN v ELSE IF Unused(d) THEN 0 ELSE disk[d]]
           /\ fetch' = [fetch EXCEPT ![s] = [fetch[s] EXCEPT !.pc = "publish", !.dir = new]]
<1>. DEFINE new == CHOOSE d \in Dirs : Unused(d)
<1>1. new \in Dirs /\ Unused(new) BY DEF Extract
<1>. QED BY <1>1 DEF Extract

\* What the assumption on the constants gives.
LEMMA NoneIsNoDir == None \notin Dirs /\ 0 \in 0..MaxVersion /\ MaxVersion \in Nat \ {0}
BY FirebirdAssumption

\* Runs that have just begun, and that read.
LEMMA FreshRun == NoFetch \in Run /\ \A pc \in Pcs : [NoFetch EXCEPT !.pc = pc] \in Run
BY NoneIsNoDir DEF NoFetch, Run, Pcs

\* A run that reads is a run.
LEMMA ReadingIsRun ==
  ASSUME NEW d \in Dirs \cup {None}, NEW v \in 0..MaxVersion
  PROVE  Reading(d, v) \in Run
BY DEF Reading, NoFetch, Run, Pcs

\* Versions, names, ages and counters keep their types.
THEOREM FilesAreTyped == FilesSpec => []FilesTypeOK
<1>. USE NoneIsNoDir, FirebirdAssumption
<1>1. FilesInit => FilesTypeOK
  BY DEF FilesInit, FilesTypeOK, NoFile, NoPurge, NoFetch, Versions, Pcs, Run, Row
<1>2. FilesTypeOK /\ [FilesNext]_filesVars => FilesTypeOK'
  <2>. SUFFICES ASSUME FilesTypeOK, [FilesNext]_filesVars PROVE FilesTypeOK' OBVIOUS
  <2>0. ASSUME NEW s \in Sources PROVE fetch[s] \in Run BY DEF FilesTypeOK
  <2>. USE DEF Versions
  <2>1. CASE NewFile BY <2>1 DEF NewFile, FilesTypeOK
  <2>2. CASE Poll BY <2>0, <2>2, FreshRun DEF Poll, Queued, Pcs, FilesTypeOK
  <2>3. CASE Redeploy BY <2>3, FreshRun DEF Redeploy, Fault, NoPurge, Pcs, FilesTypeOK
  <2>4. CASE Settle BY <2>4 DEF Settle, Fault, FilesTypeOK, Row
  <2>5. CASE Age BY <2>5 DEF Age, Fault, FilesTypeOK, Row
  <2>6. CASE Expire BY <2>6 DEF Expire, FilesTypeOK, Row
  <2>7. CASE Lapse BY <2>7 DEF Lapse, FilesTypeOK, Row
  <2>8. CASE PurgeList BY <2>8 DEF PurgeList, FilesTypeOK, Row
  <2>9. CASE PurgeRemove BY <2>9 DEF PurgeRemove, FilesTypeOK
  <2>10. CASE PurgeMark BY <2>10 DEF PurgeMark, Unready, NoFile, NoPurge, FilesTypeOK, Row
  <2>11. ASSUME NEW s \in Sources, Look(s) PROVE FilesTypeOK'
    <3>1. Current \in Dirs \cup {None} BY DEF Current, FilesTypeOK, Row
    <3>2. [NoFetch EXCEPT !.pc = "stat", !.already = Current, !.found = Current] \in Run
      BY <3>1 DEF NoFetch, Run, Pcs
    <3>. QED BY <2>11, <3>2 DEF Look, FilesTypeOK
  <2>12. ASSUME NEW s \in Sources, Stat(s) PROVE FilesTypeOK'
    <3>1. remote \in 0..MaxVersion BY DEF FilesTypeOK
    <3>2. CASE fetch' = [fetch EXCEPT ![s] = Reading(fetch[s].found, remote)]
      <4>1. Reading(fetch[s].found, remote) \in Run BY <2>0, <3>1, ReadingIsRun DEF Run
      <4>. QED BY <2>12, <3>2, <4>1 DEF Stat, FilesTypeOK
    <3>3. CASE fetch' = [fetch EXCEPT ![s] = [fetch[s] EXCEPT !.pc = "claim", !.found = None, !.sig = remote]]
      <4>1. [fetch[s] EXCEPT !.pc = "claim", !.found = None, !.sig = remote] \in Run
        BY <2>0, <3>1 DEF Run, Pcs
      <4>. QED BY <2>12, <3>3, <4>1 DEF Stat, FilesTypeOK
    <3>. QED BY <2>12, <3>2, <3>3 DEF Stat
  <2>13. ASSUME NEW s \in Sources, Compare(s) PROVE FilesTypeOK'
    <3>1. CASE fetch' = [fetch EXCEPT ![s] = Reading(fetch[s].found, fetch[s].sig)]
      <4>1. Reading(fetch[s].found, fetch[s].sig) \in Run BY <2>0, ReadingIsRun DEF Run
      <4>. QED BY <2>13, <3>1, <4>1 DEF Compare, FilesTypeOK
    <3>2. CASE fetch' = [fetch EXCEPT ![s] = [fetch[s] EXCEPT !.pc = "claim", !.found = None]]
      <4>1. [fetch[s] EXCEPT !.pc = "claim", !.found = None] \in Run BY <2>0 DEF Run, Pcs
      <4>. QED BY <2>13, <3>2, <4>1 DEF Compare, FilesTypeOK
    <3>. QED BY <2>13, <3>1, <3>2 DEF Compare
  <2>14. ASSUME NEW s \in Sources, Claim(s) PROVE FilesTypeOK'
    <3>1. fetch' \in [Sources -> Run] BY <2>0, <2>14 DEF Claim, Goto, FilesTypeOK, Run, Pcs
    <3>2. row' \in Row BY <2>14 DEF Claim, Unready, NoFile, FilesTypeOK, Row
    <3>. QED BY <2>14, <3>1, <3>2 DEF Claim, FilesTypeOK
  <2>15. ASSUME NEW s \in Sources, Check(s) PROVE FilesTypeOK'
    BY <2>0, <2>15 DEF Check, Goto, FilesTypeOK, Run, Pcs
  <2>16. ASSUME NEW s \in Sources, Retry(s) PROVE FilesTypeOK'
    <3>1. Current \in Dirs \cup {None} BY DEF Current, FilesTypeOK, Row
    <3>2. PICK pc \in Pcs :
            fetch' = [fetch EXCEPT ![s] = [fetch[s] EXCEPT !.pc = pc, !.found = Current]]
      BY <2>16 DEF Retry, Pcs
    <3>3. [fetch[s] EXCEPT !.pc = pc, !.found = Current] \in Run BY <2>0, <3>1 DEF Run
    <3>. QED BY <2>16, <3>2, <3>3 DEF Retry, FilesTypeOK
  <2>17. ASSUME NEW s \in Sources, Extract(s) PROVE FilesTypeOK'
    <3>1. PICK new \in Dirs, v \in fetch[s].sig..remote :
            /\ Unused(new)
            /\ disk' = [d \in Dirs |-> IF d = new THEN v ELSE IF Unused(d) THEN 0 ELSE disk[d]]
            /\ fetch' = [fetch EXCEPT ![s] = [fetch[s] EXCEPT !.pc = "publish", !.dir = new]]
      BY <2>17, ExtractTakesUnused
    <3>2. v \in 0..MaxVersion BY <2>0 DEF FilesTypeOK, Run
    <3>3. fetch' \in [Sources -> Run]
      <4>1. [fetch[s] EXCEPT !.pc = "publish", !.dir = new] \in Run BY <2>0 DEF Run, Pcs
      <4>. QED BY <3>1, <4>1 DEF FilesTypeOK
    <3>4. disk' \in [Dirs -> 0..MaxVersion] BY <3>1, <3>2 DEF FilesTypeOK
    <3>. QED BY <2>17, <3>3, <3>4 DEF Extract, FilesTypeOK
  <2>18. ASSUME NEW s \in Sources, Publish(s) PROVE FilesTypeOK'
    <3>1. fetch' \in [Sources -> Run]
      BY <2>0, <2>18 DEF Publish, Goto, FilesTypeOK, Run, Pcs
    <3>2. row' \in Row BY <2>0, <2>18 DEF Publish, Published, Run, Row
    <3>. QED BY <2>18, <3>1, <3>2 DEF Publish, FilesTypeOK
  <2>19. ASSUME NEW s \in Sources, RemovePrevious(s) PROVE FilesTypeOK'
    <3>1. Reading(fetch[s].dir, fetch[s].sig) \in Run BY <2>0, ReadingIsRun DEF Run
    <3>. QED BY <2>19, <3>1 DEF RemovePrevious, FilesTypeOK
  <2>20. ASSUME NEW s \in Sources, NEW pc \in Pcs, fetch' = Ended(s, pc)
         PROVE  fetch' \in [Sources -> Run]
    BY <2>20, FreshRun DEF Ended, FilesTypeOK
  <2>21. ASSUME NEW s \in Sources, ReadDone(s) \/ ReadFails(s) PROVE FilesTypeOK'
    BY <2>20, <2>21 DEF ReadDone, ReadFails, Pcs, FilesTypeOK
  <2>22. ASSUME NEW s \in Sources, Request(s) PROVE FilesTypeOK'
    BY <2>0, <2>22, FreshRun DEF Request, Queued, Pcs, FilesTypeOK
  <2>23. ASSUME NEW s \in Sources, Renew(s) PROVE FilesTypeOK'
    BY <2>23 DEF Renew, FilesTypeOK, Row
  <2>24. ASSUME NEW s \in Sources, GiveUp(s) \/ Crash(s) PROVE FilesTypeOK'
    BY <2>20, <2>24 DEF GiveUp, Crash, Fault, Pcs, FilesTypeOK
  <2>25. ASSUME NEW s \in Sources, Fail(s) PROVE FilesTypeOK'
    <3>1. row' \in Row BY <2>25 DEF Fail, Unready, NoFile, FilesTypeOK, Row
    <3>2. fetch' \in [Sources -> Run] BY <2>20, <2>25 DEF Fail, Pcs
    <3>. QED BY <2>25, <3>1, <3>2 DEF Fail, Fault, FilesTypeOK
  <2>26. CASE UNCHANGED filesVars BY <2>26 DEF filesVars, FilesTypeOK
  <2>. QED
    BY <2>1, <2>2, <2>3, <2>4, <2>5, <2>6, <2>7, <2>8, <2>9, <2>10, <2>11, <2>12, <2>13, <2>14,
       <2>15, <2>16, <2>17, <2>18, <2>19, <2>21, <2>22, <2>23, <2>24, <2>25, <2>26
    DEF FilesNext, RunNext
<1>. QED BY <1>1, <1>2, PTL DEF FilesSpec

\* A run that reuses a file reads the row's own, or one that is not the row's any more.
LEMMA ReuseKeeps ==
  ASSUME IInv, FilesTypeOK', NEW s \in Sources, NEW v \in 0..MaxVersion,
         fetch[s].pc \in {"stat", "compare"}, Reusable(fetch[s].found, v),
         fetch' = [fetch EXCEPT ![s] = Reading(fetch[s].found, v)],
         UNCHANGED <<remote, row, disk, purge>>
  PROVE  IInv'
<1>. USE NoneIsNoDir
<1>0. /\ FilesTypeOK /\ UnpublishedIsPrivate /\ ExtractsListed /\ LapsedIsUnheld /\ ListedIsUnheld
      /\ SignatureTrue /\ FreshEnough
  BY DEF IInv
<1>1. /\ fetch'[s].pc = "read" /\ fetch'[s].already = None /\ fetch'[s].found = None
      /\ fetch'[s].sig = v /\ fetch'[s].dir = fetch[s].found
      /\ \A t \in Sources \ {s} : fetch'[t] = fetch[t]
  BY <1>0 DEF FilesTypeOK, Reading, NoFetch
<1>2. /\ row.sig = v /\ fetch[s].found # None /\ disk[fetch[s].found] # 0
      /\ row' = row /\ disk' = disk /\ purge' = purge
  BY DEF Reusable, OnDisk
<1>3. UnpublishedIsPrivate' BY <1>0, <1>1, <1>2 DEF UnpublishedIsPrivate
<1>4. ExtractsListed' BY <1>0, <1>1, <1>2 DEF ExtractsListed, OnDisk
<1>5. LapsedIsUnheld' BY <1>0, <1>1, <1>2 DEF LapsedIsUnheld
<1>6. ListedIsUnheld' BY <1>0, <1>1, <1>2 DEF ListedIsUnheld
<1>7. SignatureTrue' BY <1>0, <1>2 DEF SignatureTrue, OnDisk
<1>8. FreshEnough' BY <1>0, <1>1, <1>2 DEF FreshEnough, SignatureTrue, OnDisk
<1>. QED BY <1>3, <1>4, <1>5, <1>6, <1>7, <1>8 DEF IInv

\* The run neither looks for a file nor holds one, and knows of no more than it did.
HoldsNothing(s) ==
  /\ fetch'[s].pc \notin {"stat", "compare", "publish", "remove", "read"}
  /\ fetch'[s].already \in {fetch[s].already, None}
  /\ fetch'[s].found \in {fetch[s].found, None}
  /\ fetch'[s].dir \in {fetch[s].dir, None}

\* Such runs have a say in nothing, when the row offers what it offered, or no file any more.
LEMMA HoldingNothingKeeps ==
  ASSUME IInv,
         \A s \in Sources : fetch'[s] = fetch[s] \/ HoldsNothing(s),
         row' = row \/ (row'.path = None /\ row'.status # "ready"), UNCHANGED purge,
         \A d \in Dirs : disk'[d] \in {0, disk[d]}, FilesTypeOK'
  PROVE  IInv'
<1>1. /\ UnpublishedIsPrivate /\ ExtractsListed /\ LapsedIsUnheld /\ ListedIsUnheld
      /\ SignatureTrue /\ FreshEnough
  BY DEF IInv
<1>t. /\ row.path \in Dirs \cup {None}
      /\ \A t \in Sources : fetch[t].dir \in Dirs \cup {None}
  BY DEF IInv, FilesTypeOK, Row, Run
<1>2. UnpublishedIsPrivate' BY <1>1 DEF HoldsNothing, UnpublishedIsPrivate
<1>3. ExtractsListed' BY <1>1, <1>t DEF HoldsNothing, ExtractsListed, OnDisk
<1>4. LapsedIsUnheld' BY <1>1 DEF HoldsNothing, LapsedIsUnheld
<1>5. ListedIsUnheld' BY <1>1 DEF HoldsNothing, ListedIsUnheld
<1>6. SignatureTrue' BY <1>1, <1>t DEF SignatureTrue, OnDisk
<1>7. FreshEnough' BY <1>1, <1>t DEF HoldsNothing, FreshEnough, OnDisk
<1>. QED BY <1>2, <1>3, <1>4, <1>5, <1>6, <1>7 DEF IInv

\* An extraction, a claim, a publication, the end of a run, the passing of time and the
\* cleanup all keep the inductive invariant.
LEMMA FileInvStep ==
  ASSUME IInv, FilesTypeOK', [FilesNext]_filesVars
  PROVE  IInv'
<1>. USE NoneIsNoDir
<1>0. /\ FilesTypeOK /\ UnpublishedIsPrivate /\ ExtractsListed /\ LapsedIsUnheld /\ ListedIsUnheld
      /\ SignatureTrue /\ FreshEnough
  BY DEF IInv
<1>1. CASE NewFile
  BY <1>0, <1>1 DEF NewFile, IInv, FilesTypeOK, Run, Row, OnDisk, UnpublishedIsPrivate,
     ExtractsListed, LapsedIsUnheld, ListedIsUnheld, SignatureTrue, FreshEnough
<1>2. CASE Poll
  <2>1. \A s \in Sources : fetch'[s] = fetch[s] \/ HoldsNothing(s)
    BY <1>0, <1>2 DEF HoldsNothing, Poll, Queued, NoFetch, FilesTypeOK
  <2>2. row' = row /\ disk' = disk /\ purge' = purge BY <1>2 DEF Poll
  <2>3. \A d \in Dirs : disk'[d] \in {0, disk[d]} BY <2>2
  <2>. QED BY <2>1, <2>2, <2>3, HoldingNothingKeeps
<1>3. CASE Redeploy
  BY <1>0, <1>3 DEF Redeploy, NoFetch, NoPurge, IInv, FilesTypeOK, Run, Row, OnDisk,
     UnpublishedIsPrivate, ExtractsListed, LapsedIsUnheld, ListedIsUnheld,
     SignatureTrue, FreshEnough
<1>4. CASE Settle
  BY <1>0, <1>4 DEF Settle, IInv, FilesTypeOK, Run, Row, OnDisk, UnpublishedIsPrivate,
     ExtractsListed, LapsedIsUnheld, ListedIsUnheld, SignatureTrue, FreshEnough
<1>5. CASE Age
  BY <1>0, <1>5
  DEF Age, IInv, FilesTypeOK, Run, Row, OnDisk, UnpublishedIsPrivate, ExtractsListed,
     LapsedIsUnheld, ListedIsUnheld, SignatureTrue, FreshEnough
<1>6. CASE Expire
  BY <1>0, <1>6 DEF Expire, IInv, FilesTypeOK, Run, Row, OnDisk, UnpublishedIsPrivate,
     ExtractsListed, LapsedIsUnheld, ListedIsUnheld, SignatureTrue, FreshEnough
<1>7. CASE Lapse
  BY <1>0, <1>7
  DEF Lapse, Holds, Renews, IInv, FilesTypeOK, Run, Row, OnDisk,
      UnpublishedIsPrivate,
     ExtractsListed, LapsedIsUnheld, ListedIsUnheld, SignatureTrue, FreshEnough
<1>8. CASE PurgeList
  BY <1>0, <1>8 DEF PurgeList, IInv, FilesTypeOK, Run, Row, OnDisk, UnpublishedIsPrivate,
     ExtractsListed, LapsedIsUnheld, ListedIsUnheld, SignatureTrue, FreshEnough
<1>9. CASE PurgeRemove
  BY <1>0, <1>9
  DEF PurgeRemove, IInv, FilesTypeOK, Run, Row, OnDisk, UnpublishedIsPrivate,
     ExtractsListed, LapsedIsUnheld, ListedIsUnheld, SignatureTrue, FreshEnough
<1>10. CASE PurgeMark
  <2>1. /\ row'.path = None /\ row'.status # "ready" /\ purge'.pc = "idle"
        /\ fetch' = fetch /\ disk' = disk
    BY <1>10 DEF PurgeMark, Unready, NoFile, NoPurge
  <2>2. UnpublishedIsPrivate'
    <3>1. purge'.path = None BY <1>10 DEF PurgeMark, NoPurge
    <3>. QED BY <1>0, <2>1, <3>1 DEF UnpublishedIsPrivate
  <2>3. ExtractsListed' BY <1>0, <2>1 DEF ExtractsListed, OnDisk
  <2>4. LapsedIsUnheld' BY <2>1 DEF LapsedIsUnheld
  <2>5. ListedIsUnheld' BY <2>1 DEF ListedIsUnheld
  <2>6. SignatureTrue' BY <2>1 DEF SignatureTrue, OnDisk
  <2>7. FreshEnough' BY <2>1 DEF FreshEnough, OnDisk
  <2>. QED BY <2>2, <2>3, <2>4, <2>5, <2>6, <2>7 DEF IInv
<1>11. ASSUME NEW s \in Sources, Look(s) PROVE IInv'
  <2>1. /\ fetch'[s].pc = "stat" /\ fetch'[s].dir = None
        /\ fetch'[s].already = Current /\ fetch'[s].found = Current
        /\ \A t \in Sources \ {s} : fetch'[t] = fetch[t]
    BY <1>0, <1>11 DEF Look, NoFetch, FilesTypeOK
  <2>2. row' = row /\ disk' = disk /\ purge' = purge BY <1>11 DEF Look
  <2>3. Current # None => Current = row.path /\ row.ttl = "live" BY DEF Current
  <2>. HIDE DEF Current
  <2>4. UnpublishedIsPrivate' BY <1>0, <2>1, <2>2, <2>3 DEF UnpublishedIsPrivate
  <2>5. ExtractsListed' BY <1>0, <2>1, <2>2 DEF ExtractsListed, OnDisk
  <2>6. LapsedIsUnheld' BY <1>0, <2>1, <2>2, <2>3 DEF LapsedIsUnheld
  <2>7. ListedIsUnheld' BY <1>0, <2>1, <2>2, <2>3 DEF ListedIsUnheld
  <2>8. SignatureTrue' BY <1>0, <2>2 DEF SignatureTrue, OnDisk
  <2>9. FreshEnough' BY <1>0, <2>1, <2>2 DEF FreshEnough, OnDisk
  <2>. QED BY <2>4, <2>5, <2>6, <2>7, <2>8, <2>9 DEF IInv
<1>12. ASSUME NEW s \in Sources, Stat(s) PROVE IInv'
  <2>1. CASE fetch[s].found # None /\ Reusable(fetch[s].found, remote)
    <3>1. remote \in 0..MaxVersion BY <1>0 DEF FilesTypeOK, Versions
    <3>. QED BY <1>12, <2>1, <3>1, ReuseKeeps DEF Stat
  <2>2. CASE ~(fetch[s].found # None /\ Reusable(fetch[s].found, remote))
    <3>1. fetch' = [fetch EXCEPT ![s] = [fetch[s] EXCEPT !.pc = "claim", !.found = None, !.sig = remote]]
      BY <1>12, <2>2 DEF Stat
    <3>2. /\ fetch'[s].pc = "claim" /\ fetch'[s].found = None
          /\ fetch'[s].already = fetch[s].already /\ fetch'[s].dir = fetch[s].dir
          /\ \A t \in Sources \ {s} : fetch'[t] = fetch[t]
      BY <1>0, <3>1 DEF FilesTypeOK, Run
    <3>3. row' = row /\ disk' = disk /\ purge' = purge BY <1>12 DEF Stat
    <3>. QED
      BY <1>0, <3>2, <3>3
      DEF IInv, OnDisk, UnpublishedIsPrivate, ExtractsListed, LapsedIsUnheld,
          ListedIsUnheld, SignatureTrue, FreshEnough
  <2>. QED BY <2>1, <2>2
<1>13. ASSUME NEW s \in Sources, Compare(s) PROVE IInv'
  <2>1. CASE Reusable(fetch[s].found, fetch[s].sig)
    <3>1. fetch[s].sig \in 0..MaxVersion BY <1>0 DEF FilesTypeOK, Run
    <3>. QED BY <1>13, <2>1, <3>1, ReuseKeeps DEF Compare
  <2>2. CASE ~Reusable(fetch[s].found, fetch[s].sig)
    <3>1. fetch' = [fetch EXCEPT ![s] = [fetch[s] EXCEPT !.pc = "claim", !.found = None]]
      BY <1>13, <2>2 DEF Compare
    <3>2. /\ fetch'[s].pc = "claim" /\ fetch'[s].found = None
          /\ fetch'[s].already = fetch[s].already /\ fetch'[s].dir = fetch[s].dir
          /\ \A t \in Sources \ {s} : fetch'[t] = fetch[t]
      BY <1>0, <3>1 DEF FilesTypeOK, Run
    <3>3. row' = row /\ disk' = disk /\ purge' = purge BY <1>13 DEF Compare
    <3>. QED
      BY <1>0, <3>2, <3>3
      DEF IInv, OnDisk, UnpublishedIsPrivate, ExtractsListed, LapsedIsUnheld,
          ListedIsUnheld, SignatureTrue, FreshEnough
  <2>. QED BY <2>1, <2>2
<1>14. ASSUME NEW s \in Sources, Claim(s) PROVE IInv'
  <2>1. HoldsNothing(s) /\ \A t \in Sources \ {s} : fetch'[t] = fetch[t]
    BY <1>0, <1>14 DEF HoldsNothing, Claim, Goto, FilesTypeOK, Run
  <2>2. (row' = row \/ (row'.path = None /\ row'.status # "ready")) /\ disk' = disk /\ purge' = purge
    BY <1>14 DEF Claim, Unready, NoFile
  <2>3. \A d \in Dirs : disk'[d] \in {0, disk[d]} BY <2>2
  <2>. QED BY <2>1, <2>2, <2>3, HoldingNothingKeeps
<1>15. ASSUME NEW s \in Sources, Check(s) PROVE IInv'
  <2>1. HoldsNothing(s) /\ \A t \in Sources \ {s} : fetch'[t] = fetch[t]
    BY <1>0, <1>15 DEF HoldsNothing, Check, Goto, FilesTypeOK, Run
  <2>2. row' = row /\ disk' = disk /\ purge' = purge
    BY <1>15 DEF Check
  <2>3. \A d \in Dirs : disk'[d] \in {0, disk[d]} BY <2>2
  <2>. QED BY <2>1, <2>2, <2>3, HoldingNothingKeeps
<1>16. ASSUME NEW s \in Sources, Retry(s) PROVE IInv'
  <2>1. PICK pc \in {"compare", "claim"} :
          /\ pc = "compare" => Current # None
          /\ fetch' = [fetch EXCEPT ![s] = [fetch[s] EXCEPT !.pc = pc, !.found = Current]]
    BY <1>16 DEF Retry
  <2>2. fetch[s] \in Run BY <1>0 DEF FilesTypeOK
  <2>3. /\ fetch'[s].pc = pc /\ fetch'[s].found = Current
        /\ fetch'[s].already = fetch[s].already /\ fetch'[s].dir = fetch[s].dir
        /\ \A t \in Sources \ {s} : fetch'[t] = fetch[t]
    BY <1>0, <2>1, <2>2 DEF FilesTypeOK, Run
  <2>4. row' = row /\ disk' = disk /\ purge' = purge BY <1>16 DEF Retry
  <2>5. Current # None => Current = row.path /\ row.ttl = "live" BY DEF Current
  <2>. HIDE DEF Current
  <2>6. UnpublishedIsPrivate' BY <1>0, <2>1, <2>3, <2>4, <2>5 DEF UnpublishedIsPrivate
  <2>7. ExtractsListed' BY <1>0, <2>1, <2>3, <2>4 DEF ExtractsListed, OnDisk
  <2>8. LapsedIsUnheld' BY <1>0, <2>1, <2>3, <2>4, <2>5 DEF LapsedIsUnheld
  <2>9. ListedIsUnheld' BY <1>0, <2>1, <2>3, <2>4, <2>5 DEF ListedIsUnheld
  <2>10. SignatureTrue' BY <1>0, <2>4 DEF SignatureTrue, OnDisk
  <2>11. FreshEnough' BY <1>0, <2>1, <2>3, <2>4 DEF FreshEnough, OnDisk
  <2>. QED BY <2>6, <2>7, <2>8, <2>9, <2>10, <2>11 DEF IInv
<1>17. ASSUME NEW s \in Sources, Extract(s) PROVE IInv'
  <2>0. PICK new \in Dirs, v \in fetch[s].sig..remote :
          /\ Unused(new)
          /\ disk' = [d \in Dirs |-> IF d = new THEN v ELSE IF Unused(d) THEN 0 ELSE disk[d]]
          /\ fetch' = [fetch EXCEPT ![s] = [fetch[s] EXCEPT !.pc = "publish", !.dir = new]]
    BY <1>17, ExtractTakesUnused
  <2>1. fetch[s] \in Run /\ v >= fetch[s].sig BY <1>0 DEF FilesTypeOK, Run
  <2>2. /\ fetch'[s].pc = "publish" /\ fetch'[s].dir = new /\ fetch'[s].sig = fetch[s].sig
        /\ fetch'[s].already = fetch[s].already /\ fetch'[s].found = fetch[s].found
        /\ \A t \in Sources \ {s} : fetch'[t] = fetch[t]
    BY <1>0, <2>0, <2>1 DEF FilesTypeOK, Run
  <2>3. disk'[new] = v /\ \A d \in Dirs : ~Unused(d) => disk'[d] = disk[d]
    BY <2>0
  <2>4. row' = row /\ purge' = purge /\ remote' = remote BY <1>17 DEF Extract
  <2>5. UnpublishedIsPrivate'
    BY <1>0, <2>0, <2>2, <2>4 DEF UnpublishedIsPrivate, Unused
  <2>6. ExtractsListed'
    <3>. SUFFICES ASSUME NEW t \in Sources, fetch'[t].pc \in {"publish", "remove"}, OnDisk(fetch[t].dir)'
                  PROVE  disk'[fetch'[t].dir] >= fetch'[t].sig
      BY DEF ExtractsListed
    <3>1. CASE t = s BY <2>1, <2>2, <2>3, <3>1
    <3>2. CASE t # s
      <4>1. fetch[t] \in Run /\ ~Unused(fetch[t].dir) /\ fetch'[t] = fetch[t]
        BY <1>0, <2>2, <3>2 DEF FilesTypeOK, Unused
      <4>2. fetch[t].dir # None /\ disk'[fetch[t].dir] = disk[fetch[t].dir]
        BY <2>3, <4>1 DEF OnDisk, Run
      <4>. QED BY <1>0, <4>1, <4>2 DEF ExtractsListed, OnDisk
    <3>. QED BY <3>1, <3>2
  <2>7. LapsedIsUnheld' BY <1>0, <2>2, <2>4 DEF LapsedIsUnheld
  <2>8. ListedIsUnheld' BY <1>0, <2>2, <2>4 DEF ListedIsUnheld
  <2>9. row.path # None => row.path \in Dirs /\ disk'[row.path] = disk[row.path]
    BY <1>0, <2>3 DEF FilesTypeOK, Row, Unused
  <2>10. SignatureTrue' BY <1>0, <2>4, <2>9 DEF SignatureTrue, OnDisk
  <2>11. FreshEnough' BY <1>0, <2>2, <2>4, <2>9 DEF FreshEnough, OnDisk
  <2>. QED BY <2>5, <2>6, <2>7, <2>8, <2>10, <2>11 DEF IInv
<1>18. ASSUME NEW s \in Sources, Publish(s) PROVE IInv'
  <2>1. /\ fetch[s].pc = "publish" /\ fetch'[s].pc = "remove" /\ fetch'[s].dir = fetch[s].dir
        /\ fetch'[s].already = fetch[s].already /\ fetch'[s].found = fetch[s].found
        /\ fetch'[s].sig = fetch[s].sig /\ \A t \in Sources \ {s} : fetch'[t] = fetch[t]
    BY <1>0, <1>18 DEF Publish, Goto, FilesTypeOK, Run
  <2>2. /\ row'.path = fetch[s].dir /\ row'.sig = fetch[s].sig
        /\ row'.status = "ready" /\ row'.ttl = "live"
    BY <1>18 DEF Publish, Published
  <2>3. disk' = disk /\ purge' = purge BY <1>18 DEF Publish
  <2>4. /\ fetch[s].dir \notin {row.path, purge.path, fetch[s].already, None}
        /\ \A t \in Sources \ {s} :
             fetch[s].dir \notin {fetch[t].already, fetch[t].found, fetch[t].dir}
    BY <1>0, <2>1 DEF UnpublishedIsPrivate
  <2>5. UnpublishedIsPrivate' BY <1>0, <2>1, <2>2, <2>3, <2>4 DEF UnpublishedIsPrivate
  <2>6. ExtractsListed' BY <1>0, <2>1, <2>3 DEF ExtractsListed, OnDisk
  <2>7. LapsedIsUnheld' BY <2>2, <2>4 DEF LapsedIsUnheld
  <2>8. ListedIsUnheld' BY <1>0, <2>1, <2>2, <2>3, <2>4 DEF ListedIsUnheld
  <2>9. SignatureTrue' BY <1>0, <2>1, <2>2, <2>3 DEF SignatureTrue, ExtractsListed, OnDisk
  <2>10. FreshEnough' BY <1>0, <2>1, <2>2, <2>3, <2>4 DEF FreshEnough, OnDisk
  <2>. QED BY <2>5, <2>6, <2>7, <2>8, <2>9, <2>10 DEF IInv
<1>19. ASSUME NEW s \in Sources, RemovePrevious(s) PROVE IInv'
  <2>1. fetch[s] \in Run /\ fetch[s].pc = "remove" BY <1>0, <1>19 DEF FilesTypeOK, RemovePrevious
  <2>2. /\ fetch'[s].pc = "read" /\ fetch'[s].already = None /\ fetch'[s].found = None
        /\ fetch'[s].dir = fetch[s].dir /\ fetch'[s].sig = fetch[s].sig
        /\ \A t \in Sources \ {s} : fetch'[t] = fetch[t]
    BY <1>0, <1>19 DEF RemovePrevious, Reading, NoFetch, FilesTypeOK
  <2>3. row' = row /\ purge' = purge BY <1>19 DEF RemovePrevious
  <2>4. \A d \in Dirs : disk'[d] \in {0, disk[d]} BY <1>0, <1>19 DEF RemovePrevious, FilesTypeOK
  <2>5. /\ row.path \in Dirs \cup {None}
        /\ \A t \in Sources : fetch[t].dir \in Dirs \cup {None}
    BY <1>0 DEF FilesTypeOK, Row, Run
  <2>6. UnpublishedIsPrivate' BY <1>0, <2>1, <2>2, <2>3 DEF UnpublishedIsPrivate
  <2>7. ExtractsListed'
    BY <1>0, <2>1, <2>2, <2>3, <2>4, <2>5 DEF ExtractsListed, OnDisk
  <2>8. LapsedIsUnheld' BY <1>0, <2>1, <2>2, <2>3 DEF LapsedIsUnheld
  <2>9. ListedIsUnheld' BY <1>0, <2>1, <2>2, <2>3 DEF ListedIsUnheld
  <2>10. SignatureTrue' BY <1>0, <2>3, <2>4, <2>5 DEF SignatureTrue, OnDisk
  <2>11. FreshEnough'
    BY <1>0, <2>1, <2>2, <2>3, <2>4, <2>5
    DEF FreshEnough, SignatureTrue, OnDisk, ExtractsListed
  <2>. QED BY <2>6, <2>7, <2>8, <2>9, <2>10, <2>11 DEF IInv
<1>20. ASSUME NEW s \in Sources, ReadDone(s) PROVE IInv'
  <2>1. HoldsNothing(s) /\ \A t \in Sources \ {s} : fetch'[t] = fetch[t]
    BY <1>0, <1>20 DEF HoldsNothing, ReadDone, Ended, NoFetch, FilesTypeOK, Run
  <2>2. row' = row /\ disk' = disk /\ purge' = purge
    BY <1>20 DEF ReadDone
  <2>3. \A d \in Dirs : disk'[d] \in {0, disk[d]} BY <2>2
  <2>. QED BY <2>1, <2>2, <2>3, HoldingNothingKeeps
<1>21. ASSUME NEW s \in Sources, ReadFails(s) PROVE IInv'
  <2>1. HoldsNothing(s) /\ \A t \in Sources \ {s} : fetch'[t] = fetch[t]
    BY <1>0, <1>21 DEF HoldsNothing, ReadFails, Ended, NoFetch, FilesTypeOK, Run
  <2>2. row' = row /\ disk' = disk /\ purge' = purge
    BY <1>21 DEF ReadFails
  <2>3. \A d \in Dirs : disk'[d] \in {0, disk[d]} BY <2>2
  <2>. QED BY <2>1, <2>2, <2>3, HoldingNothingKeeps
<1>22. ASSUME NEW s \in Sources, Request(s) PROVE IInv'
  <2>1. HoldsNothing(s) /\ \A t \in Sources \ {s} : fetch'[t] = fetch[t]
    BY <1>0, <1>22 DEF HoldsNothing, Request, Queued, NoFetch, FilesTypeOK
  <2>2. row' = row /\ disk' = disk /\ purge' = purge BY <1>22 DEF Request
  <2>3. \A d \in Dirs : disk'[d] \in {0, disk[d]} BY <2>2
  <2>. QED BY <2>1, <2>2, <2>3, HoldingNothingKeeps
<1>23. ASSUME NEW s \in Sources, Renew(s) PROVE IInv'
  BY <1>0, <1>23
  DEF Renew, Renews, IInv, FilesTypeOK, Run, Row, OnDisk, UnpublishedIsPrivate,
     ExtractsListed, LapsedIsUnheld, ListedIsUnheld, SignatureTrue, FreshEnough
<1>24. ASSUME NEW s \in Sources, GiveUp(s) PROVE IInv'
  <2>1. HoldsNothing(s) /\ \A t \in Sources \ {s} : fetch'[t] = fetch[t]
    BY <1>0, <1>24 DEF HoldsNothing, GiveUp, Ended, NoFetch, FilesTypeOK, Run
  <2>2. row' = row /\ disk' = disk /\ purge' = purge
    BY <1>24 DEF GiveUp
  <2>3. \A d \in Dirs : disk'[d] \in {0, disk[d]} BY <2>2
  <2>. QED BY <2>1, <2>2, <2>3, HoldingNothingKeeps
<1>25. ASSUME NEW s \in Sources, Fail(s) PROVE IInv'
  <2>1. HoldsNothing(s) /\ \A t \in Sources \ {s} : fetch'[t] = fetch[t]
    BY <1>0, <1>25 DEF HoldsNothing, Fail, Ended, NoFetch, FilesTypeOK, Run
  <2>2. (row' = row \/ (row'.path = None /\ row'.status # "ready")) /\ purge' = purge
    BY <1>25 DEF Fail, Unready, NoFile
  <2>3. \A d \in Dirs : disk'[d] \in {0, disk[d]} BY <1>0, <1>25 DEF Fail, FilesTypeOK
  <2>. QED BY <2>1, <2>2, <2>3, HoldingNothingKeeps
<1>26. ASSUME NEW s \in Sources, Crash(s) PROVE IInv'
  <2>1. HoldsNothing(s) /\ \A t \in Sources \ {s} : fetch'[t] = fetch[t]
    BY <1>0, <1>26 DEF HoldsNothing, Crash, Ended, NoFetch, FilesTypeOK, Run
  <2>2. row' = row /\ disk' = disk /\ purge' = purge
    BY <1>26 DEF Crash
  <2>3. \A d \in Dirs : disk'[d] \in {0, disk[d]} BY <2>2
  <2>. QED BY <2>1, <2>2, <2>3, HoldingNothingKeeps
<1>27. CASE UNCHANGED filesVars
  BY <1>0, <1>27
  DEF filesVars, IInv, FilesTypeOK, UnpublishedIsPrivate, ExtractsListed, LapsedIsUnheld,
      ListedIsUnheld,
     SignatureTrue, FreshEnough, OnDisk
<1>. QED
  BY <1>1, <1>2, <1>3, <1>4, <1>5, <1>6, <1>7, <1>8, <1>9, <1>10, <1>11, <1>12, <1>13, <1>14,
     <1>15, <1>16, <1>17, <1>18, <1>19, <1>20, <1>21, <1>22, <1>23, <1>24, <1>25, <1>26, <1>27
  DEF FilesNext, RunNext

\* What holds at the beginning.
LEMMA FileInvInit == ASSUME FilesInit PROVE IInv
BY NoneIsNoDir, FirebirdAssumption
DEF FilesInit, IInv, FilesTypeOK, NoFile, NoPurge, NoFetch, Versions,
    Pcs, Run, Row, UnpublishedIsPrivate,
    ExtractsListed, LapsedIsUnheld, ListedIsUnheld, SignatureTrue, FreshEnough, OnDisk

\* A run that reads the file of the row reads at least the version it listed,
\* whatever happens between its statements.
THEOREM ReadsFresh == FilesSpec => [](FreshEnough /\ SignatureTrue)
<1>1. IInv => FreshEnough /\ SignatureTrue BY DEF IInv
<1>2. FilesInit => IInv BY FileInvInit
<1>3. IInv /\ FilesTypeOK' /\ [FilesNext]_filesVars => IInv' BY FileInvStep
<1>4. FilesSpec => []FilesTypeOK BY FilesAreTyped
<1>. QED BY <1>1, <1>2, <1>3, <1>4, PTL DEF FilesSpec

\* The cleanup removes no file that a run is reading, however long it reads.
THEOREM CleanupSparesReaders == FilesSpec => []PurgeSparesReaders
<1>1. IInv => PurgeSparesReaders BY DEF IInv, ListedIsUnheld, PurgeSparesReaders
<1>2. FilesInit => IInv BY FileInvInit
<1>3. IInv /\ FilesTypeOK' /\ [FilesNext]_filesVars => IInv' BY FileInvStep
<1>4. FilesSpec => []FilesTypeOK BY FilesAreTyped
<1>. QED BY <1>1, <1>2, <1>3, <1>4, PTL DEF FilesSpec
==============================================================================
