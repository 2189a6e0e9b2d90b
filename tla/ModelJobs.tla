------------------------------ MODULE ModelJobs ------------------------------
(***************************************************************************)
(* The durable model-job manager of the Node server                        *)
(* (server/node/executors/modelJobs.ts): generations that the server runs  *)
(* against a provider on behalf of a browser, journals to disk, indexes in  *)
(* index.json and replays to any client that asks.                          *)
(*                                                                         *)
(* One action is one turn of the event loop: an HTTP handler up to its     *)
(* first await, or the code between two awaits.  The index is written by a  *)
(* chain of promises; a link of the chain and the code that awaits it run   *)
(* in the same turn, so WriteIndex also does what its waiter does next.     *)
(***************************************************************************)
EXTENDS Naturals, Sequences, FiniteSets

CONSTANTS MaxJobs,        \* jobs that are ever created (their ids are 1..MaxJobs)
          Chats,          \* chats a job can belong to
          Readers,        \* GET /stream requests in flight
          MaxChunks,      \* chunks a provider may send for one job
          RetainTerminal, \* RETAIN_TERMINAL: terminal records kept by count
          MaxPending,     \* bound on unfinished index writes
          MaxRestarts,    \* bound on crashes of the server
          WriteFaults     \* whether a write of index.json may fail

ASSUME ModelJobsAssumption ==
  /\ MaxJobs \in Nat /\ MaxChunks \in Nat /\ RetainTerminal \in Nat
  /\ MaxPending \in Nat /\ MaxRestarts \in Nat
  /\ WriteFaults \in BOOLEAN

Jobs      == 1 .. MaxJobs
Terminal  == {"done", "failed", "aborted"}
Status    == Terminal \cup {"running"}
Absent    == [status |-> "absent"]     \* findRecord(id) === null

Record == [chat: Chats, recoverable: BOOLEAN, status: Status,
           upstream: BOOLEAN, claimed: BOOLEAN, endedAt: Nat, bytes: Nat]

VARIABLES
  records,   \* the in-memory records array, by id
  disk,      \* index.json
  writeChain,\* the unfinished persist() calls: their snapshots and who awaits them
  pc,        \* where runJob stands; "idle" = not in activeJobs
  aborted,   \* controller.signal.aborted
  sent,      \* bytesWritten, in chunks
  failure,   \* runJob's failure
  broken,    \* jobs whose journal stream has reported a writeError
  files,     \* journals that exist
  flushed,   \* chunks of a journal that have reached the file
  unlinking, \* deleteJob calls awaiting the unlink
  nextId,
  unmade,    \* rows createJob pushed before it threw, in this process
  clock, restarts,
  rpc, rjob, roff, rgot, rsaw,           \* streamJob, one per reader
  announced, ackedClaim, ackedDelete     \* what clients have been told

jobVars    == <<pc, aborted, sent, failure, broken>>
fileVars   == <<files, flushed>>
readerVars == <<rpc, rjob, roff, rgot, rsaw>>
toldVars   == <<announced, ackedClaim, ackedDelete>>
boundVars  == <<nextId, unmade, clock, restarts>>
vars == <<records, disk, writeChain, jobVars, fileVars, unlinking, boundVars,
          readerVars, toldVars>>

Present(j)  == records[j] # Absent
Active(j)   == pc[j] # "idle"                       \* activeJobs.has(j)
Nobody      == [kind |-> "none", job |-> 0]
Waiter(k,j) == [kind |-> k, job |-> j]

\* persist(): the snapshot is taken now, the write joins the end of the chain.
CanPersist == Len(writeChain) < MaxPending
\* Seeded bug: writes are not chained, a later one may land first.
Persist_Unchained(recs, waiter) == <<[snap |-> recs, waiter |-> waiter]>> \o writeChain
Persist(recs, waiter) == Append(writeChain, [snap |-> recs, waiter |-> waiter])

Init ==
  /\ records = [j \in Jobs |-> Absent] /\ disk = records /\ writeChain = <<>>
  /\ pc = [j \in Jobs |-> "idle"] /\ aborted = [j \in Jobs |-> FALSE]
  /\ sent = [j \in Jobs |-> 0] /\ failure = [j \in Jobs |-> "none"]
  /\ broken = {} /\ files = {} /\ flushed = [j \in Jobs |-> 0] /\ unlinking = {}
  /\ nextId = 1 /\ unmade = {} /\ clock = 0 /\ restarts = 0
  /\ rpc = [r \in Readers |-> "idle"] /\ rjob = [r \in Readers |-> 0]
  /\ roff = [r \in Readers |-> 0] /\ rgot = [r \in Readers |-> 0]
  /\ rsaw = [r \in Readers |-> FALSE]
  /\ announced = [j \in Jobs |-> "none"] /\ ackedClaim = {} /\ ackedDelete = {}

-----------------------------------------------------------------------------
(* Creating a job *)

\* A record that keeps its chat busy.
IsRunningModelJobActive(j) ==
  /\ records[j].status = "running"
  /\ \/ ~records[j].recoverable
     \/ ~Active(j)
     \/ ~aborted[j]

\* Seeded bug: only a job whose provider has answered counts as running.
Busy_Answered(c) ==
  \E j \in Jobs : records[j].status = "running" /\ records[j].chat = c /\ records[j].upstream
Busy(c) == \E j \in Jobs : Present(j) /\ records[j].chat = c /\ IsRunningModelJobActive(j)

NewRecord(c, recoverable) ==
  [chat |-> c, recoverable |-> recoverable, status |-> "running",
   upstream |-> FALSE, claimed |-> FALSE, endedAt |-> 0, bytes |-> 0]

\* The refusal (409) changes nothing and is the absence of this step.
CreateJob(c, recoverable) ==
  /\ nextId <= MaxJobs /\ CanPersist
  /\ recoverable => ~Busy(c)
  /\ records' = [records EXCEPT ![nextId] = NewRecord(c, recoverable)]
  /\ files' = files \cup {nextId}
  /\ pc' = [pc EXCEPT ![nextId] = "request"]
  /\ writeChain' = Persist(records', Nobody)
  /\ nextId' = nextId + 1
  /\ UNCHANGED <<disk, aborted, sent, failure, broken, flushed, unlinking, unmade, clock,
                 restarts, readerVars, toldVars>>

\* Opening the new journal throws: the row has been pushed, and nothing
\* after it is done.  No runJob, no persist; the request is answered with an error.
CreateThrows(c, recoverable) ==
  /\ nextId <= MaxJobs
  /\ recoverable => ~Busy(c)
  /\ records' = [records EXCEPT ![nextId] = NewRecord(c, recoverable)]
  /\ unmade' = unmade \cup {nextId}
  /\ nextId' = nextId + 1
  /\ UNCHANGED <<disk, writeChain, jobVars, fileVars, unlinking, clock, restarts,
                 readerVars, toldVars>>

-----------------------------------------------------------------------------
(* runJob: request the provider, journal its body, settle the record.       *)
(* requestUpstream is called without the abort signal, so an abort is seen  *)
(* only when something else wakes the job.  findRecord cannot fail before   *)
(* the record is terminal: see RunningHasDriver.                            *)

Leave(j, f) ==
  /\ pc' = [pc EXCEPT ![j] = "ending"] /\ failure' = [failure EXCEPT ![j] = f]
  /\ UNCHANGED <<records, disk, writeChain, aborted, sent, broken, fileVars, unlinking,
                 boundVars, readerVars, toldVars>>

UpstreamFails(j) == pc[j] = "request" /\ Leave(j, "error")

UpstreamAnswers(j) ==
  /\ pc[j] = "request" /\ CanPersist
  /\ records' = [records EXCEPT ![j].upstream = TRUE]
  /\ writeChain' = Persist(records', Waiter("head", j))
  /\ pc' = [pc EXCEPT ![j] = "head"]
  /\ UNCHANGED <<disk, aborted, sent, failure, broken, fileVars, unlinking, boundVars,
                 readerVars, toldVars>>

Chunk(j) ==
  /\ pc[j] = "body" /\ ~aborted[j] /\ j \notin broken /\ sent[j] < MaxChunks
  /\ sent' = [sent EXCEPT ![j] = @ + 1]
  /\ UNCHANGED <<records, disk, writeChain, pc, aborted, failure, broken, fileVars,
                 unlinking, boundVars, readerVars, toldVars>>

\* The loop ends: a last chunk seen after an abort, or the end of the body.
BodyEnds(j) ==
  /\ pc[j] = "body"
  /\ Leave(j, IF j \in broken THEN "error" ELSE IF aborted[j] THEN "abort" ELSE "none")

\* The provider's socket fails or times out, or a chunk meets a broken journal.
BodyFails(j) == pc[j] = "body" /\ Leave(j, "error")

JournalBreaks(j) ==
  /\ pc[j] \in {"body", "ending"} /\ j \notin broken /\ flushed[j] < sent[j]
  /\ broken' = broken \cup {j}
  /\ UNCHANGED <<records, disk, writeChain, pc, aborted, sent, failure, fileVars,
                 unlinking, boundVars, readerVars, toldVars>>

Flush(j) ==
  /\ Active(j) /\ j \notin broken /\ flushed[j] < sent[j]
  /\ flushed' = [flushed EXCEPT ![j] = @ + 1]
  /\ UNCHANGED <<records, disk, writeChain, jobVars, files, unlinking, boundVars,
                 readerVars, toldVars>>

FinalFailure(j) == IF failure[j] = "none" /\ j \in broken THEN "error" ELSE failure[j]
FinalStatus(j)  == IF FinalFailure(j) = "none" THEN "done"
                   ELSE IF FinalFailure(j) = "abort" \/ aborted[j] THEN "aborted"
                   ELSE "failed"

\* Seeded bug: waits for bytes a broken journal will never take.
Settle_Flushed(j) ==
  /\ pc[j] = "ending" /\ flushed[j] = sent[j] /\ CanPersist
  /\ clock' = clock + 1
  /\ records' = [records EXCEPT ![j].status = FinalStatus(j), ![j].endedAt = clock']
  /\ writeChain' = Persist(records', Waiter("end", j))
  /\ pc' = [pc EXCEPT ![j] = "closing"]
  /\ UNCHANGED <<disk, aborted, sent, failure, broken, fileVars, unlinking, nextId,
                 unmade, restarts, readerVars, toldVars>>

\* stream.end() has called back: the record becomes terminal and is persisted.
Settle(j) ==
  /\ pc[j] = "ending" /\ (flushed[j] = sent[j] \/ j \in broken) /\ CanPersist
  /\ clock' = clock + 1
  /\ records' = [records EXCEPT ![j].status = FinalStatus(j), ![j].endedAt = clock',
                                ![j].bytes = sent[j]]
  /\ writeChain' = Persist(records', Waiter("end", j))
  /\ pc' = [pc EXCEPT ![j] = "closing"]
  /\ UNCHANGED <<disk, aborted, sent, failure, broken, fileVars, unlinking, nextId,
                 unmade, restarts, readerVars, toldVars>>

-----------------------------------------------------------------------------
(* Clients: claim, delete; close() aborts everything *)

ClaimJob(j) ==
  /\ Present(j) /\ records[j].status \in Terminal /\ CanPersist
  /\ records' = [records EXCEPT ![j].claimed = TRUE]
  /\ writeChain' = Persist(records', Waiter("claim", j))
  /\ UNCHANGED <<disk, jobVars, fileVars, unlinking, boundVars, readerVars, toldVars>>

\* DELETE of a job in activeJobs only aborts it and answers at once.
AbortJob(j) ==
  /\ Present(j) /\ Active(j) /\ ~aborted[j]
  /\ aborted' = [aborted EXCEPT ![j] = TRUE]
  /\ UNCHANGED <<records, disk, writeChain, pc, sent, failure, broken, fileVars, unlinking,
                 boundVars, readerVars, toldVars>>

\* DELETE otherwise: the record goes now, the journal and the index later.
DeleteJob(j) ==
  /\ Present(j) /\ ~Active(j)
  /\ records' = [records EXCEPT ![j] = Absent]
  /\ unlinking' = unlinking \cup {j}
  /\ UNCHANGED <<disk, writeChain, jobVars, fileVars, boundVars, readerVars, toldVars>>

\* Seeded bug: the index is not rewritten after a delete.
Unlinked_Unsaved(j) ==
  /\ j \in unlinking
  /\ files' = files \ {j} /\ unlinking' = unlinking \ {j}
  /\ UNCHANGED <<records, disk, writeChain, jobVars, flushed, boundVars, readerVars, toldVars>>

Unlinked(j) ==
  /\ j \in unlinking /\ CanPersist
  /\ files' = files \ {j} /\ unlinking' = unlinking \ {j}
  /\ writeChain' = Persist(records, Waiter("delete", j))
  /\ UNCHANGED <<records, disk, jobVars, flushed, boundVars, readerVars, toldVars>>

Close ==
  /\ \E j \in Jobs : Active(j) /\ ~aborted[j]
  /\ aborted' = [j \in Jobs |-> aborted[j] \/ Active(j)]
  /\ UNCHANGED <<records, disk, writeChain, pc, sent, failure, broken, fileVars, unlinking,
                 boundVars, readerVars, toldVars>>

-----------------------------------------------------------------------------
(* The index on disk *)

\* One link of writeChain: tmp file and rename.  A failure is logged, the
\* chain goes on, and whoever awaited the write continues as if it had worked.
WriteIndex ==
  /\ writeChain # <<>>
  /\ \E ok \in {TRUE} \cup (IF WriteFaults THEN {FALSE} ELSE {}) :
        disk' = IF ok THEN Head(writeChain).snap ELSE disk
  /\ writeChain' = Tail(writeChain)
  /\ LET w == Head(writeChain).waiter
         k == w.kind
         j == w.job
     IN /\ pc' = IF k = "head" THEN [pc EXCEPT ![j] = "body"]
                 ELSE IF k = "end" THEN [pc EXCEPT ![j] = "idle"] ELSE pc
        /\ announced' = IF k = "end"
                        THEN [announced EXCEPT ![j] = Head(writeChain).snap[j].status]
                        ELSE announced
        /\ ackedClaim' = IF k = "claim" THEN ackedClaim \cup {j} ELSE ackedClaim
        /\ ackedDelete' = IF k = "delete" THEN ackedDelete \cup {j} ELSE ackedDelete
  /\ UNCHANGED <<records, aborted, sent, failure, broken, fileVars, unlinking, boundVars,
                 readerVars>>
-----------------------------------------------------------------------------
(* Retention, and the restart of the server *)

TerminalIn(recs)   == {j \in Jobs : recs[j].status \in Terminal}
MoreRecent(recs, k, j) ==
  \/ recs[k].endedAt > recs[j].endedAt
  \/ recs[k].endedAt = recs[j].endedAt /\ k < j

\* Seeded bug: the count limit also drops responses nobody has claimed.
CleanupIds_Unprotected(recs, cutoff) ==
  {j \in TerminalIn(recs) :
     Cardinality({k \in TerminalIn(recs) : MoreRecent(recs, k, j)}) >= RetainTerminal}

\* Jobs that cleanup() drops when the age limit lies at clock value cutoff.
CleanupIds(recs, cutoff) ==
  LET terminal  == TerminalIn(recs)
      removable == {j \in terminal : recs[j].claimed \/ ~recs[j].recoverable}
      aged      == {j \in removable : recs[j].endedAt < cutoff}
      overflow  == {j \in terminal :
                     Cardinality({k \in terminal : MoreRecent(recs, k, j)}) >= RetainTerminal}
  IN aged \cup (overflow \cap removable)

Drop(recs, gone) == [j \in Jobs |-> IF j \in gone THEN Absent ELSE recs[j]]

Cleanup ==
  \E cutoff \in 0 .. clock + 1 :
    LET gone == CleanupIds(records, cutoff)
    IN /\ gone # {} /\ CanPersist
       /\ records' = Drop(records, gone)
       /\ files' = files \ gone
       /\ writeChain' = Persist(records', Nobody)
       /\ UNCHANGED <<disk, jobVars, flushed, unlinking, boundVars, readerVars, toldVars>>

\* Seeded bug: orphaned rows stay running.
Recovered_AsRead(recs, now) == recs

\* What startup makes of the index it reads.
Recovered(recs, now) ==
  [j \in Jobs |-> IF recs[j].status = "running"
                  THEN [recs[j] EXCEPT !.status = "failed", !.endedAt = now] ELSE recs[j]]

\* The process dies at any point and a new one starts: unfinished writes,
\* running requests and open streams are gone, index.json and journals stay.
Restart ==
  /\ restarts < MaxRestarts
  /\ restarts' = restarts + 1 /\ clock' = clock + 1
  /\ LET woken == Recovered(disk, clock')
     IN \E gone \in {CleanupIds(woken, cutoff) : cutoff \in 0 .. clock' + 1} :
          /\ records' = Drop(woken, gone)
          /\ files' = files \ gone
          /\ writeChain' = (IF woken # disk THEN <<[snap |-> woken, waiter |-> Nobody]>> ELSE <<>>)
                       \o (IF gone # {} THEN <<[snap |-> records', waiter |-> Nobody]>> ELSE <<>>)
  /\ pc' = [j \in Jobs |-> "idle"] /\ aborted' = [j \in Jobs |-> FALSE]
  /\ sent' = [j \in Jobs |-> 0] /\ failure' = [j \in Jobs |-> "none"] /\ broken' = {}
  /\ unlinking' = {} /\ unmade' = {}
  /\ rpc' = [r \in Readers |-> "idle"] /\ rjob' = [r \in Readers |-> 0]
  /\ roff' = [r \in Readers |-> 0] /\ rgot' = [r \in Readers |-> 0]
  /\ rsaw' = [r \in Readers |-> FALSE]
  /\ UNCHANGED <<disk, flushed, nextId, toldVars>>

-----------------------------------------------------------------------------
(* streamJob: wait for the upstream status, replay the journal, tail it *)

NotReaders == <<records, disk, writeChain, jobVars, fileVars, unlinking, boundVars, toldVars>>

AwaitsStatus(j) == records[j].status = "running" /\ ~records[j].upstream /\ Active(j)
AfterPoll(j)    == IF AwaitsStatus(j) THEN "poll" ELSE "open"

StreamStart(r, j) ==
  /\ rpc[r] = "idle" /\ Present(j)
  /\ rjob' = [rjob EXCEPT ![r] = j]
  /\ rpc' = [rpc EXCEPT ![r] = AfterPoll(j)]
  /\ UNCHANGED <<NotReaders, roff, rgot, rsaw>>

\* A record that vanished between two polls leaves the request without any
\* answer ("hung"): the handler returns and never ends the response.
StreamPoll(r) ==
  /\ rpc[r] = "poll"
  /\ rpc' = [rpc EXCEPT ![r] = IF Present(rjob[r]) THEN AfterPoll(rjob[r]) ELSE "hung"]
  /\ UNCHANGED <<NotReaders, rjob, roff, rgot, rsaw>>

StreamOpen(r) ==
  /\ rpc[r] = "open"
  /\ rpc' = [rpc EXCEPT ![r] = IF rjob[r] \in files THEN "read" ELSE "empty"]
  /\ UNCHANGED <<NotReaders, rjob, roff, rgot, rsaw>>

\* The file is read now, the result is looked at later (StreamGot).
StreamRead(r) ==
  /\ rpc[r] = "read"
  /\ rgot' = [rgot EXCEPT ![r] = flushed[rjob[r]] - roff[r]]
  /\ rpc' = [rpc EXCEPT ![r] = "got"]
  /\ UNCHANGED <<NotReaders, rjob, roff, rsaw>>

\* Seeded bug: no last read after the job left activeJobs.
StreamGot_NoLastRead(r) ==
  /\ rpc[r] = "got"
  /\ roff' = [roff EXCEPT ![r] = @ + rgot[r]]
  /\ rpc' = [rpc EXCEPT ![r] = IF rgot[r] > 0 THEN "read"
                               ELSE IF Active(rjob[r]) THEN "tail" ELSE "ended"]
  /\ rgot' = [rgot EXCEPT ![r] = 0]
  /\ UNCHANGED <<NotReaders, rjob, rsaw>>

StreamGot(r) ==
  /\ rpc[r] = "got"
  /\ roff' = [roff EXCEPT ![r] = @ + rgot[r]]
  /\ \/ rgot[r] > 0 /\ rpc' = [rpc EXCEPT ![r] = "read"] /\ rsaw' = rsaw
     \/ rgot[r] = 0 /\ rsaw[r] /\ rpc' = [rpc EXCEPT ![r] = "ended"] /\ rsaw' = rsaw
     \/ /\ rgot[r] = 0 /\ ~rsaw[r] /\ ~Active(rjob[r])
        /\ rpc' = [rpc EXCEPT ![r] = "read"] /\ rsaw' = [rsaw EXCEPT ![r] = TRUE]
     \/ /\ rgot[r] = 0 /\ ~rsaw[r] /\ Active(rjob[r])
        /\ rpc' = [rpc EXCEPT ![r] = "tail"] /\ rsaw' = rsaw
  /\ rgot' = [rgot EXCEPT ![r] = 0]
  /\ UNCHANGED <<NotReaders, rjob>>

\* Seeded bug: only a new chunk wakes a tailing reader, no timer and no last notify.
StreamWake_OnChunk(r) ==
  /\ rpc[r] = "tail" /\ flushed[rjob[r]] > roff[r]
  /\ rpc' = [rpc EXCEPT ![r] = "read"]
  /\ UNCHANGED <<NotReaders, rjob, roff, rgot, rsaw>>

\* waitForEvent: a notify, or TAIL_WAIT_MS.
StreamWake(r) ==
  /\ rpc[r] = "tail"
  /\ rpc' = [rpc EXCEPT ![r] = "read"]
  /\ UNCHANGED <<NotReaders, rjob, roff, rgot, rsaw>>

\* The browser goes away, or is done with the response.
StreamClosed(r) ==
  /\ rpc[r] # "idle"
  /\ rpc' = [rpc EXCEPT ![r] = "idle"] /\ rjob' = [rjob EXCEPT ![r] = 0]
  /\ roff' = [roff EXCEPT ![r] = 0] /\ rgot' = [rgot EXCEPT ![r] = 0]
  /\ rsaw' = [rsaw EXCEPT ![r] = FALSE]
  /\ UNCHANGED NotReaders

-----------------------------------------------------------------------------
RunJob(j) ==
  \/ UpstreamFails(j) \/ UpstreamAnswers(j) \/ Chunk(j) \/ BodyEnds(j) \/ BodyFails(j)
  \/ JournalBreaks(j) \/ Flush(j) \/ Settle(j)

StreamJob(r) ==
  \/ StreamPoll(r) \/ StreamOpen(r) \/ StreamRead(r) \/ StreamGot(r) \/ StreamWake(r)

Next ==
  \/ \E c \in Chats, recoverable \in BOOLEAN :
       CreateJob(c, recoverable) \/ CreateThrows(c, recoverable)
  \/ \E j \in Jobs : RunJob(j) \/ ClaimJob(j) \/ AbortJob(j) \/ DeleteJob(j) \/ Unlinked(j)
  \/ \E r \in Readers, j \in Jobs : StreamStart(r, j)
  \/ \E r \in Readers : StreamJob(r) \/ StreamClosed(r)
  \/ WriteIndex \/ Cleanup \/ Close \/ Restart

Spec == Init /\ [][Next]_vars

\* The disk completes what it started, the provider answers, fails or meets
\* req.setTimeout, promises and timers are served.  Nothing obliges a client
\* to claim, delete or read, the age limit to pass, or the server to crash.
Fairness ==
  /\ WF_vars(WriteIndex)
  /\ \A j \in Jobs :
       /\ WF_vars(UpstreamFails(j) \/ UpstreamAnswers(j))
       /\ WF_vars(BodyEnds(j) \/ BodyFails(j))
       /\ WF_vars(Flush(j)) /\ WF_vars(Settle(j)) /\ WF_vars(Unlinked(j))
  /\ \A r \in Readers : WF_vars(StreamJob(r))

FairSpec == Spec /\ Fairness

-----------------------------------------------------------------------------
(* Properties *)

RunPhases == {"request", "head", "body", "ending"}
Snapshot  == [Jobs -> Record \cup {Absent}]
Waiters   == [kind : {"none", "head", "end", "claim", "delete"}, job : Jobs \cup {0}]

\* Every variable has its type; the chain holds snapshots of the records array.
TypeOK ==
  /\ records \in Snapshot /\ disk \in Snapshot
  /\ writeChain \in Seq([snap : Snapshot, waiter : Waiters])
  /\ pc \in [Jobs -> RunPhases \cup {"idle", "closing"}] /\ aborted \in [Jobs -> BOOLEAN]
  /\ sent \in [Jobs -> Nat] /\ failure \in [Jobs -> {"none", "abort", "error"}]
  /\ broken \subseteq Jobs /\ files \subseteq Jobs /\ flushed \in [Jobs -> Nat]
  /\ unlinking \subseteq Jobs /\ unmade \subseteq Jobs
  /\ nextId \in 1 .. MaxJobs + 1 /\ clock \in Nat /\ restarts \in Nat
  /\ rpc \in [Readers -> {"idle", "poll", "hung", "open", "empty", "read", "got", "tail", "ended"}]
  /\ rjob \in [Readers -> Jobs \cup {0}] /\ roff \in [Readers -> Nat]
  /\ rgot \in [Readers -> Nat] /\ rsaw \in [Readers -> BOOLEAN]
  /\ announced \in [Jobs -> Terminal \cup {"none"}]
  /\ ackedClaim \subseteq Jobs /\ ackedDelete \subseteq Jobs

\* A record says "running" exactly while a runJob drives it: across crashes,
\* deletes and retention no record can stay running with nothing left to settle
\* it (which answers 409 to its chat for ever), and no driver outlives its
\* record's running state.  The one exception is a row whose creation threw, and
\* only in the process in which it did: a restart settles it too.
RunningHasDriver ==
  \A j \in Jobs :
    records[j].status = "running" <=>
      pc[j] \in RunPhases \/ (j \in unmade /\ Present(j))

\* createJob's 409: a chat never has two recoverable generations running that
\* nobody asked to stop, whatever creates, aborts and restarts came before.
LiveGeneration(j) ==
  records[j].status = "running" /\ records[j].recoverable /\ ~aborted[j]
OneLiveGeneration ==
  \A j, k \in Jobs :
    LiveGeneration(j) /\ LiveGeneration(k) /\ records[j].chat = records[k].chat => j = k

\* What a client was told is on disk already and stays there: the status of a
\* "terminal" event, the success of a claim and of a delete.  Later snapshots of
\* the chain, and a restart from any of them, never take it back.
AnnouncedIn(recs) ==
  \A j \in Jobs : announced[j] # "none" => recs[j].status \in {"absent", announced[j]}
ClaimedIn(recs) == \A j \in ackedClaim : recs[j] = Absent \/ recs[j].claimed
DeletedIn(recs) == \A j \in ackedDelete : recs[j] = Absent
ToldIn(recs)    == AnnouncedIn(recs) /\ ClaimedIn(recs) /\ DeletedIn(recs)
ToldIsDurable   == ToldIn(disk) /\ ToldIn(records)

\* Whatever the order of handlers, once the chain has drained and no delete
\* awaits its unlink, index.json is the in-memory array: no handler forgets to
\* persist, and no late write puts an older array over a newer one.  Only a row
\* whose creation threw waits for another handler's persist.
LastWritten == IF writeChain = <<>> THEN disk ELSE writeChain[Len(writeChain)].snap
IndexConverges ==
  \A j \in Jobs :
    \/ records[j] = IF j \in unlinking THEN Absent ELSE LastWritten[j]
    \/ j \in unmade /\ LastWritten[j] = Absent

\* A finished response nobody has claimed is dropped by a client's DELETE only,
\* not by retention, by another job's delete or by a crash and restart.
UnclaimedKept ==
  [][\A j \in Jobs :
       /\ announced[j] # "none" /\ Present(j)
       /\ records[j].recoverable /\ ~records[j].claimed
       /\ records'[j] = Absent
       => DeleteJob(j)]_vars

\* A replay that ends normally has delivered the whole journal of a job that
\* can no longer write, also when the job settled between the reader's last
\* read and its look at activeJobs.
StreamComplete ==
  \A r \in Readers :
    rpc[r] = "ended" => ~Active(rjob[r]) /\ roff[r] = flushed[rjob[r]]

\* Every job the server accepts leaves activeJobs: settled by its provider, its
\* abort or a restart.
EveryJobSettles == \A j \in Jobs : pc[j] = "request" ~> pc[j] = "idle"

\* Every stream request comes to an end, unless its record is deleted while it
\* still waits for the upstream status.
Finished == {"ended", "empty", "hung", "idle"}
StreamEnds == \A r \in Readers : rpc[r] \in {"poll", "open", "tail"} ~> rpc[r] \in Finished

-----------------------------------------------------------------------------
(* What index.json promises about a job through all of it: module JobLedger. *)

\* The arrays from the one on disk to the one in memory, in the order in which
\* the disk is going to take them.
Versions    == 0 .. Len(writeChain) + 1
Version(i)  == IF i = 0 THEN disk
               ELSE IF i = Len(writeChain) + 1 THEN records ELSE writeChain[i].snap

\* A job without a row on disk is new as long as a row may still come.
Expected(j) == j >= nextId \/ \E i \in Versions : Version(i)[j] # Absent
Stage(j)    == IF disk[j] # Absent THEN disk[j].status
               ELSE IF Expected(j) THEN "new" ELSE "gone"

Ledger == INSTANCE JobLedger WITH
            stage   <- [j \in Jobs |-> Stage(j)],
            claimed <- {j \in Jobs : disk[j] # Absent /\ disk[j].claimed}

\* On disk every job only moves forward: handlers that persist beside each other,
\* writes that fail, deletes, retention and crashes never change how it ended,
\* take back a claim or bring back a row that was dropped.
LedgerKept == Ledger!Spec
=============================================================================
