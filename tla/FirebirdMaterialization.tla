------------------------ MODULE FirebirdMaterialization ------------------------
(***************************************************************************)
(* The Firebird file that the sources of one firebird-ftp connection read  *)
(* (src/src/server/connections/firebird-materialize.ts).  A run of a       *)
(* source looks up the row of cw_connection_materializations, lists the    *)
(* FTP server, and reuses the file the row offers or claims the row,       *)
(* downloads and extracts a new one, publishes it and removes the one it   *)
(* had seen.  A poll queues the sources when the remote file changes, and  *)
(* a cleanup removes what nobody renews.                                   *)
(*                                                                         *)
(* A remote file is the number of its version, which stands for its        *)
(* signature and its content.  Ages are "now" (below 5 s), "recent" and    *)
(* "stale" (over 30 min); a time to live is live, expired or over (past    *)
(* the grace of the cleanup).  Dirs are the random names of the attempts.  *)
(***************************************************************************)
EXTENDS Integers, FiniteSets

CONSTANTS
  Sources,      \* the sources of the connection; each has one job at a time
  Dirs,         \* directories of attempts
  None,
  MaxVersion,   \* bound on the files that arrive
  MaxExpiries,  \* bound on the times a time to live runs out
  MaxFaults     \* bound on errors, crashes, redeploys and overlong steps

ASSUME FirebirdAssumption ==
  /\ IsFiniteSet(Sources) /\ IsFiniteSet(Dirs) /\ None \notin Dirs
  /\ MaxVersion \in Nat \ {0} /\ MaxExpiries \in Nat /\ MaxFaults \in Nat

VARIABLES
  remote,   \* version of the file on the FTP server
  row,      \* the row of the connection
  disk,     \* version extracted in each directory, 0 if there is none
  fetch,    \* the run of each source
  purge,    \* where the cleanup is, and the path it listed
  spent     \* what the bounds count

filesVars == <<remote, row, disk, fetch, purge, spent>>

Versions == 1..MaxVersion
NoFile == [status |-> "idle", sig |-> 0, path |-> None, age |-> "stale", ttl |-> "over"]
NoPurge == [pc |-> "idle", path |-> None]
NoFetch == [pc |-> "idle", already |-> None, found |-> None, sig |-> 0, dir |-> None]

Pcs == {"idle", "queued", "stat", "compare", "claim", "check", "wait", "extract",
        "publish", "remove", "read"}

Run == [pc : Pcs, already : Dirs \cup {None}, found : Dirs \cup {None},
        sig : 0..MaxVersion, dir : Dirs \cup {None}]

Row == [status : {"idle", "materializing", "ready", "failed"}, sig : 0..MaxVersion,
        path : Dirs \cup {None}, age : {"now", "recent", "stale"},
        ttl : {"live", "expired", "over"}]

FilesTypeOK ==
  /\ remote \in Versions
  /\ row \in Row
  /\ disk \in [Dirs -> 0..MaxVersion]
  /\ fetch \in [Sources -> Run]
  /\ purge \in [pc : {"idle", "listed", "removed"}, path : Dirs \cup {None}]
  /\ spent \in [faults : 0..MaxFaults, expiries : 0..MaxExpiries]

\* A connection nobody has read yet: no row, which every test of the code
\* treats as an idle one.
FilesInit ==
  /\ remote = 1
  /\ row = NoFile
  /\ disk = [d \in Dirs |-> 0]
  /\ fetch = [s \in Sources |-> NoFetch]
  /\ purge = NoPurge
  /\ spent = [faults |-> 0, expiries |-> 0]

Goto(s, pc) == fetch' = [fetch EXCEPT ![s].pc = pc]
Fault == spent.faults < MaxFaults /\ spent' = [spent EXCEPT !.faults = @ + 1]

\* Only a row that is ready has its path and its time to live read, and only
\* one that is claimed its age: the model forgets the others.
Unready(status) == [NoFile EXCEPT !.status = status, !.sig = row.sig]

\* The file system answers for a path, at the moment it is asked.
OnDisk(d) == d # None /\ disk[d] # 0

------------------------------------------------------------------------------
(* The FTP server, the poll and the people who ask for a refresh *)

NewFile ==
  /\ remote < MaxVersion
  /\ remote' = remote + 1
  /\ UNCHANGED <<row, disk, fetch, purge, spent>>

\* queueSourceRefresh: a source with a job in the queue or running keeps it.
Queued(ss) ==
  [s \in Sources |-> IF s \in ss /\ fetch[s].pc = "idle" THEN [NoFetch EXCEPT !.pc = "queued"]
                                                       ELSE fetch[s]]

\* enqueueDueFirebirdFtpRefreshes: every source, when the signature changed.
Poll ==
  /\ row.sig # remote
  /\ fetch' = Queued(Sources) /\ fetch' # fetch
  /\ UNCHANGED <<remote, row, disk, purge, spent>>

\* The cron of a source, or a person.
Request(s) ==
  /\ fetch[s].pc = "idle"
  /\ fetch' = Queued({s})
  /\ UNCHANGED <<remote, row, disk, purge, spent>>

------------------------------------------------------------------------------
(* ensureMaterialized, statement by statement *)

Reading(dir, sig) == [NoFetch EXCEPT !.pc = "read", !.dir = dir, !.sig = sig]

\* currentMaterialization.
Current == IF row.status = "ready" /\ row.ttl = "live" THEN row.path ELSE None

Look(s) ==
  /\ fetch[s].pc = "queued"
  /\ fetch' = [fetch EXCEPT ![s] =
                  [NoFetch EXCEPT !.pc = "stat", !.already = Current, !.found = Current]]
  /\ UNCHANGED <<remote, row, disk, purge, spent>>

\* Mutant: what was found is taken without asking for its version.
Reusable_AnyVersion(found, sig) == OnDisk(found)

\* The row is read again for its signature: what was found may be of another.
Reusable(found, sig) == row.sig = sig /\ OnDisk(found)

\* statRemoteFile, and the comparison with what was found.
Stat(s) ==
  /\ fetch[s].pc = "stat"
  /\ fetch' = IF fetch[s].found # None /\ Reusable(fetch[s].found, remote)
              THEN [fetch EXCEPT ![s] = Reading(fetch[s].found, remote)]
              ELSE [fetch EXCEPT ![s] =
                     [fetch[s] EXCEPT !.pc = "claim", !.found = None, !.sig = remote]]
  /\ UNCHANGED <<remote, row, disk, purge, spent>>

\* Mutant: a claim is never taken over.
Claimable_NeverStale == row.status # "materializing"

Claimable == row.status # "materializing" \/ row.age = "stale"

Claim(s) ==
  /\ fetch[s].pc = "claim"
  /\ row' = IF Claimable THEN [Unready("materializing") EXCEPT !.age = "now"] ELSE row
  /\ Goto(s, "check")
  /\ UNCHANGED <<remote, disk, purge, spent>>

\* The winner is told by the age of the row, whoever has set it.
Check(s) ==
  /\ fetch[s].pc = "check"
  /\ Goto(s, IF row.status = "materializing" /\ row.age = "now" THEN "extract" ELSE "wait")
  /\ UNCHANGED <<remote, row, disk, purge, spent>>

\* Another round of the wait: look again,
Retry(s) ==
  /\ fetch[s].pc = "wait"
  /\ fetch' = [fetch EXCEPT ![s] =
                  [fetch[s] EXCEPT !.pc = IF Current # None THEN "compare" ELSE "claim",
                                   !.found = Current]]
  /\ UNCHANGED <<remote, row, disk, purge, spent>>

\* and compare with the version listed at the start.
Compare(s) ==
  /\ fetch[s].pc = "compare"
  /\ fetch' = IF Reusable(fetch[s].found, fetch[s].sig)
              THEN [fetch EXCEPT ![s] = Reading(fetch[s].found, fetch[s].sig)]
              ELSE [fetch EXCEPT ![s] = [fetch[s] EXCEPT !.pc = "claim", !.found = None]]
  /\ UNCHANGED <<remote, row, disk, purge, spent>>

\* A name no row, no run and no cleanup has.  What was left behind under a
\* name that nobody has any more is forgotten here, not on the disk.
Unused(d) ==
  /\ d \notin {row.path, purge.path}
  /\ \A s \in Sources : d \notin {fetch[s].already, fetch[s].found, fetch[s].dir}

\* Download, extraction and proof of life.  The path listed may hold a newer
\* file by now.
Extract(s) ==
  /\ fetch[s].pc = "extract" /\ \E d \in Dirs : Unused(d)
  /\ LET new == CHOOSE d \in Dirs : Unused(d)
     IN  /\ \E v \in fetch[s].sig..remote :
              disk' = [d \in Dirs |-> IF d = new THEN v ELSE IF Unused(d) THEN 0 ELSE disk[d]]
         /\ fetch' = [fetch EXCEPT ![s] = [fetch[s] EXCEPT !.pc = "publish", !.dir = new]]
  /\ UNCHANGED <<remote, row, purge, spent>>

\* markReady.
Published(s) ==
  [status |-> "ready", sig |-> fetch[s].sig, path |-> fetch[s].dir, age |-> "stale",
   ttl |-> "live"]

Publish(s) ==
  /\ fetch[s].pc = "publish"
  /\ row' = Published(s)
  /\ Goto(s, "remove")
  /\ UNCHANGED <<remote, disk, purge, spent>>

\* The directory of what the run saw first goes, whoever is reading it.
RemovePrevious(s) ==
  /\ fetch[s].pc = "remove"
  /\ disk' = [d \in Dirs |-> IF d = fetch[s].already THEN 0 ELSE disk[d]]
  /\ fetch' = [fetch EXCEPT ![s] = Reading(fetch[s].dir, fetch[s].sig)]
  /\ UNCHANGED <<remote, row, purge, spent>>

------------------------------------------------------------------------------
(* The rest of the run *)

\* The job is tried again, or has no attempt left.
Ended(s, pc) == [fetch EXCEPT ![s] = [NoFetch EXCEPT !.pc = pc]]

\* Mutant: the heartbeat renews the lease of the source alone.
Renews_Not(s) == FALSE

\* The heartbeat of a reader.
Renews(s) == fetch[s].pc = "read"

\* renewMaterialization.
Renew(s) ==
  /\ Renews(s) /\ row.status = "ready" /\ row.ttl # "live"
  /\ row' = [row EXCEPT !.ttl = "live"]
  /\ UNCHANGED <<remote, disk, fetch, purge, spent>>

ReadDone(s) ==
  /\ fetch[s].pc = "read" /\ OnDisk(fetch[s].dir)
  /\ fetch' = Ended(s, "idle")
  /\ UNCHANGED <<remote, row, disk, purge, spent>>

\* The server cannot open the file any more.
ReadFails(s) ==
  /\ fetch[s].pc = "read" /\ ~OnDisk(fetch[s].dir)
  /\ \E pc \in {"queued", "idle"} : fetch' = Ended(s, pc)
  /\ UNCHANGED <<remote, row, disk, purge, spent>>

\* The listing fails, or the wait has lasted five minutes: nothing is marked.
GiveUp(s) ==
  /\ fetch[s].pc \in {"stat", "wait"} /\ Fault
  /\ \E pc \in {"queued", "idle"} : fetch' = Ended(s, pc)
  /\ UNCHANGED <<remote, row, disk, purge>>

\* The catch of ensureMaterialized: markFailed, and the attempt is removed.
Fail(s) ==
  /\ fetch[s].pc \in {"extract", "publish"} /\ Fault
  /\ row' = Unready("failed")
  /\ disk' = [d \in Dirs |-> IF d = fetch[s].dir THEN 0 ELSE disk[d]]
  /\ \E pc \in {"queued", "idle"} : fetch' = Ended(s, pc)
  /\ UNCHANGED <<remote, purge>>

\* The process of a run dies; the job is recovered.
Crash(s) ==
  /\ fetch[s].pc \notin {"idle", "queued"} /\ Fault
  /\ fetch' = Ended(s, "queued")
  /\ UNCHANGED <<remote, row, disk, purge>>

\* A new container: the directory of the files starts empty.
Redeploy ==
  /\ Fault
  /\ disk' = [d \in Dirs |-> 0]
  /\ fetch' = [s \in Sources |-> IF fetch[s].pc = "idle" THEN NoFetch
                                ELSE [NoFetch EXCEPT !.pc = "queued"]]
  /\ purge' = NoPurge
  /\ UNCHANGED <<remote, row>>

------------------------------------------------------------------------------
(* Time *)

Working(s) == fetch[s].pc \in {"extract", "publish"}

\* Five seconds pass.  Between a claim and its check that is a fault.
Settle ==
  /\ row.age = "now"
  /\ row' = [row EXCEPT !.age = "recent"]
  /\ IF \E s \in Sources : fetch[s].pc = "check" THEN Fault ELSE UNCHANGED spent
  /\ UNCHANGED <<remote, disk, fetch, purge>>

\* Half an hour passes.  While somebody works that is a fault.
Age ==
  /\ row.age = "recent"
  /\ row' = [row EXCEPT !.age = "stale"]
  /\ IF \E s \in Sources : Working(s) THEN Fault ELSE UNCHANGED spent
  /\ UNCHANGED <<remote, disk, fetch, purge>>

Expire ==
  /\ row.ttl = "live" /\ spent.expiries < MaxExpiries
  /\ row' = [row EXCEPT !.ttl = "expired"]
  /\ spent' = [spent EXCEPT !.expiries = @ + 1]
  /\ UNCHANGED <<remote, disk, fetch, purge>>

\* A run between its look and the end of its reading: it takes moments, or
\* it beats.
Holds(s) == fetch[s].pc \in {"stat", "compare", "remove"} \/ Renews(s)

\* The grace of the cleanup is longer than many beats of a reader.
Lapse ==
  /\ row.ttl = "expired"
  /\ row.status = "ready" => ~\E s \in Sources : Holds(s)
  /\ row' = [row EXCEPT !.ttl = "over"]
  /\ UNCHANGED <<remote, disk, fetch, purge, spent>>

------------------------------------------------------------------------------
(* purgeExpiredMaterializations *)

PurgeList ==
  /\ purge.pc = "idle" /\ row.status = "ready" /\ row.path # None /\ row.ttl = "over"
  /\ purge' = [pc |-> "listed", path |-> row.path]
  /\ UNCHANGED <<remote, row, disk, fetch, spent>>

\* The directory of the connection goes, with all that is in it by now.
PurgeRemove ==
  /\ purge.pc = "listed"
  /\ disk' = [d \in Dirs |-> 0]
  /\ purge' = [pc |-> "removed", path |-> None]
  /\ UNCHANGED <<remote, row, fetch, spent>>

\* Whatever the row says by now.
PurgeMark ==
  /\ purge.pc = "removed"
  /\ row' = Unready("idle")
  /\ purge' = NoPurge
  /\ UNCHANGED <<remote, disk, fetch, spent>>

------------------------------------------------------------------------------
RunNext(s) ==
  \/ Look(s) \/ Stat(s) \/ Compare(s) \/ Claim(s) \/ Check(s) \/ Retry(s)
  \/ Extract(s) \/ Publish(s) \/ RemovePrevious(s) \/ ReadDone(s) \/ ReadFails(s)

FilesNext ==
  \/ NewFile \/ Poll \/ Redeploy
  \/ Settle \/ Age \/ Expire \/ Lapse
  \/ PurgeList \/ PurgeRemove \/ PurgeMark
  \/ \E s \in Sources : RunNext(s) \/ Request(s) \/ Renew(s) \/ GiveUp(s) \/ Fail(s) \/ Crash(s)

FilesSpec == FilesInit /\ [][FilesNext]_filesVars

\* The poll and the cleanup come back, time passes, and a run goes on.
\* Nothing is assumed of the people, the FTP server or the faults.
FilesFairSpec ==
  /\ FilesSpec
  /\ WF_filesVars(Poll) /\ WF_filesVars(Settle) /\ WF_filesVars(Age)
  /\ WF_filesVars(PurgeRemove) /\ WF_filesVars(PurgeMark)
  /\ \A s \in Sources : WF_filesVars(RunNext(s))

------------------------------------------------------------------------------
(* Properties *)

\* The row never offers a file older than the signature it is published with:
\* a poll that finds the signature unchanged may leave the sources alone.
SignatureTrue == OnDisk(row.path) => disk[row.path] >= row.sig

\* A run that reads the file of the row reads at least the version it found on
\* the FTP server, whatever was published, failed or removed between its look,
\* its listing and its comparison.
FreshEnough ==
  \A s \in Sources :
    fetch[s].pc = "read" /\ OnDisk(fetch[s].dir) /\ fetch[s].dir = row.path
      => disk[fetch[s].dir] >= fetch[s].sig

\* What the cleanup has listed nobody reads, however long the reading takes
\* and whoever materialises meanwhile.
PurgeSparesReaders ==
  purge.pc = "listed" =>
    \A s \in Sources : fetch[s].pc = "read" => fetch[s].dir # purge.path

\* The version on the server is materialised in the end, although claims are
\* won twice, lost, abandoned or overwritten by the cleanup.
VersionArrives == <>[](row.sig = remote)

\* A file that is not yet published is known to its own run alone.
UnpublishedIsPrivate ==
  \A s \in Sources : fetch[s].pc = "publish" =>
    /\ fetch[s].dir \notin {row.path, purge.path, fetch[s].already, None}
    /\ \A t \in Sources \ {s} : fetch[s].dir \notin {fetch[t].already, fetch[t].found, fetch[t].dir}

\* What a run extracts is at least the version it listed.
ExtractsListed ==
  \A s \in Sources : fetch[s].pc \in {"publish", "remove"} /\ OnDisk(fetch[s].dir)
                       => disk[fetch[s].dir] >= fetch[s].sig

\* A row lapses when no run holds a file, and gives its own to no run after.
LapsedIsUnheld ==
  /\ row.status = "ready" => row.path # None
  /\ row.status = "ready" /\ row.ttl = "over" =>
       \A s \in Sources : /\ fetch[s].pc \notin {"remove", "read"}
                          /\ fetch[s].pc \in {"stat", "compare"} => fetch[s].found = None

\* The file listed stays lapsed for as long as it is the row's.
ListedIsUnheld ==
  purge.pc = "listed" =>
    /\ purge.path # None
    /\ row.path = purge.path => row.status = "ready" /\ row.ttl = "over"
    /\ \A s \in Sources :
         /\ fetch[s].pc \in {"remove", "read"} => fetch[s].dir # purge.path
         /\ fetch[s].pc \in {"stat", "compare"} => fetch[s].found # purge.path

\* The inductive invariant: why a file is read at its version, and not removed
\* by the cleanup.
IInv ==
  /\ FilesTypeOK
  /\ UnpublishedIsPrivate
  /\ ExtractsListed
  /\ LapsedIsUnheld
  /\ ListedIsUnheld
  /\ SignatureTrue
  /\ FreshEnough

==============================================================================
