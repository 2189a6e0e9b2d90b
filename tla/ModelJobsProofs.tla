-------------------------- MODULE ModelJobsProofs --------------------------
(***************************************************************************)
(* Proofs about ModelJobs, for any number of jobs, chats, chunks, readers,  *)
(* crashes and pending writes, with or without failing index writes.        *)
(***************************************************************************)
EXTENDS ModelJobs, Integers, TLAPS

-----------------------------------------------------------------------------
(* Facts about sequences.                                                    *)

\* An element put behind a sequence.
LEMMA AppendFacts ==
  ASSUME NEW S, NEW s \in Seq(S), NEW e \in S
  PROVE  /\ Append(s, e) \in Seq(S) /\ Len(Append(s, e)) = Len(s) + 1
         /\ \A i \in 1 .. Len(s) : Append(s, e)[i] = s[i]
         /\ Append(s, e)[Len(s) + 1] = e
  OBVIOUS

\* What is left of a sequence without its head.
LEMMA TailFacts ==
  ASSUME NEW S, NEW s \in Seq(S), s # <<>>
  PROVE  /\ Tail(s) \in Seq(S) /\ Len(Tail(s)) = Len(s) - 1 /\ Len(s) \in Nat \ {0}
         /\ \A i \in 1 .. Len(Tail(s)) : Tail(s)[i] = s[i + 1]
         /\ Head(s) = s[1] /\ s[1] \in S
  OBVIOUS

\* The shortest sequences.
LEMMA SingletonFacts ==
  ASSUME NEW S, NEW e \in S
  PROVE  <<>> \in Seq(S) /\ <<e>> \in Seq(S)
  OBVIOUS

\* Two sequences, one behind the other.
LEMMA ConcatFacts ==
  ASSUME NEW S, NEW a \in Seq(S), NEW b \in Seq(S)
  PROVE  a \o b \in Seq(S) /\ \A i \in 1 .. Len(a \o b) : (a \o b)[i] \in S
<1>1. a \o b \in Seq(S)
  OBVIOUS
<1> QED BY <1>1

\* An element put behind a sequence, by position.
LEMMA ThenFacts ==
  ASSUME NEW S, NEW a \in Seq(S), NEW e \in S
  PROVE  /\ a \o <<e>> \in Seq(S) /\ Len(a \o <<e>>) = Len(a) + 1
         /\ \A i \in 1 .. Len(a) : (a \o <<e>>)[i] = a[i]
         /\ (a \o <<e>>)[Len(a) + 1] = e
  OBVIOUS

-----------------------------------------------------------------------------

\* What the links of writeChain know about the runJob calls that await them:
\* each await has one link, and its job stands at that await.
Awaited(i) == writeChain[i].waiter
Awaiting   == {"head", "end"}
ChainInv ==
  \A i \in 1 .. Len(writeChain) :
    /\ Awaited(i).kind # "none" => Awaited(i).job \in Jobs
    /\ Awaited(i).kind = "head" => Awaited(i).job \in Jobs /\ pc[Awaited(i).job] = "head"
    /\ Awaited(i).kind = "end" =>
         /\ Awaited(i).job \in Jobs /\ pc[Awaited(i).job] = "closing"
         /\ writeChain[i].snap[Awaited(i).job].status \in Terminal
OneLink ==
  \A i, k \in 1 .. Len(writeChain) :
    Awaited(i) = Awaited(k) /\ Awaited(i).kind \in Awaiting => i = k

\* A reader never runs ahead of the journal it reads.
ReaderInv ==
  \A r \in Readers :
    /\ rpc[r] = "idle" => roff[r] = 0 /\ rgot[r] = 0
    /\ rpc[r] # "idle" => rjob[r] \in Jobs /\ roff[r] + rgot[r] <= flushed[rjob[r]]

\* Ids are handed out once: an id not yet handed out appears nowhere.
Unused(recs, n) == \A j \in Jobs : j >= n => recs[j] = Absent
Fresh ==
  /\ \A j \in Jobs : j >= nextId => pc[j] = "idle"
  /\ Unused(records, nextId) /\ Unused(disk, nextId)
  /\ \A i \in 1 .. Len(writeChain) : Unused(writeChain[i].snap, nextId)

\* RunningHasDriver, and what the rows that creation left behind are: old ids that
\* nothing drives.
DrivenInv ==
  \A j \in Jobs :
    /\ records[j].status = "running" <=> pc[j] \in RunPhases \/ (j \in unmade /\ Present(j))
    /\ j \in unmade => pc[j] = "idle" /\ j < nextId

\* The inductive invariant behind TypeOK and RunningHasDriver: a link resumes
\* its job, so typing the resumed phase needs to know where the job stands.
JobInv == TypeOK /\ DrivenInv /\ ChainInv /\ OneLink /\ ReaderInv /\ Fresh

Link == [snap : Snapshot, waiter : Waiters]

\* Appending a link keeps the chain facts when the new link's job stands at its await
\* and no earlier link awaits for the same job at the same point.
LEMMA PersistKeeps ==
  ASSUME TypeOK, ChainInv, OneLink, Fresh, nextId' >= nextId, nextId' \in Nat,
         NEW ACTION snap, snap \in Snapshot, NEW w \in Waiters,
         writeChain' = Persist(snap, w),
         \A j \in Jobs : pc[j] \in {"head", "closing"} => pc'[j] = pc[j],
         w.kind # "none" => w.job \in Jobs,
         w.kind = "head" => w.job \in Jobs /\ pc[w.job] # "head" /\ pc'[w.job] = "head",
         w.kind = "end" => /\ w.job \in Jobs /\ pc[w.job] # "closing"
                           /\ pc'[w.job] = "closing" /\ snap[w.job].status \in Terminal
  PROVE  /\ writeChain' \in Seq(Link) /\ ChainInv' /\ OneLink'
         /\ Unused(snap, nextId') =>
              \A i \in 1 .. Len(writeChain') : Unused(writeChain'[i].snap, nextId')
<1> DEFINE e == [snap |-> snap, waiter |-> w]
<1>1. writeChain \in Seq(Link) /\ e \in Link
  BY DEF TypeOK, Link
<1>2. /\ writeChain' \in Seq(Link) /\ Len(writeChain') = Len(writeChain) + 1
      /\ \A i \in 1 .. Len(writeChain) : writeChain'[i] = writeChain[i]
      /\ writeChain'[Len(writeChain) + 1] = e
  BY <1>1, AppendFacts DEF Persist
<1>3. Len(writeChain) \in Nat
  BY <1>1
<1>4. \A i \in 1 .. Len(writeChain') :
        i \in 1 .. Len(writeChain) \/ i = Len(writeChain) + 1
  BY <1>2, <1>3
<1>5. ChainInv'
  BY <1>2, <1>3, <1>4 DEF ChainInv, Awaited
<1>6. OneLink'
  <2> SUFFICES ASSUME NEW i \in 1 .. Len(writeChain'), NEW k \in 1 .. Len(writeChain'),
                      writeChain'[i].waiter = writeChain'[k].waiter,
                      writeChain'[i].waiter.kind \in Awaiting
               PROVE  i = k
    BY DEF OneLink, Awaited
  <2>1. CASE i \in 1 .. Len(writeChain) /\ k \in 1 .. Len(writeChain)
    BY <2>1, <1>2 DEF OneLink, Awaited
  <2>2. CASE i = Len(writeChain) + 1 /\ k = Len(writeChain) + 1
    BY <2>2
  <2>3. CASE i \in 1 .. Len(writeChain) /\ k = Len(writeChain) + 1
    BY <2>3, <1>2 DEF ChainInv, Awaited, Awaiting
  <2>4. CASE i = Len(writeChain) + 1 /\ k \in 1 .. Len(writeChain)
    BY <2>4, <1>2 DEF ChainInv, Awaited, Awaiting
  <2> QED BY <2>1, <2>2, <2>3, <2>4, <1>4
<1>7. ASSUME Unused(snap, nextId'), NEW i \in 1 .. Len(writeChain')
      PROVE  Unused(writeChain'[i].snap, nextId')
  <2>1. \A j \in Jobs : j >= nextId' => j >= nextId
    BY DEF TypeOK, Jobs
  <2>2. CASE i \in 1 .. Len(writeChain)
    BY <1>2, <2>1, <2>2 DEF Fresh, Unused
  <2>3. CASE i = Len(writeChain) + 1
    BY <1>2, <1>7, <2>3 DEF Unused
  <2> QED BY <1>4, <2>2, <2>3
<1> QED BY <1>2, <1>5, <1>6, <1>7

\* Readers only look: their steps disturb nothing but their own variables.
ReaderTypes ==
  /\ rpc \in [Readers -> {"idle", "poll", "hung", "open", "empty", "read", "got", "tail", "ended"}]
  /\ rjob \in [Readers -> Jobs \cup {0}] /\ roff \in [Readers -> Nat]
  /\ rgot \in [Readers -> Nat] /\ rsaw \in [Readers -> BOOLEAN]

LEMMA ReaderStep ==
  ASSUME JobInv, NEW r \in Readers,
         \/ \E j \in Jobs : StreamStart(r, j)
         \/ StreamJob(r) \/ StreamClosed(r)
  PROVE  JobInv'
<1>1. UNCHANGED NotReaders
  BY DEF StreamStart, StreamJob, StreamPoll, StreamOpen, StreamRead, StreamGot, StreamWake,
         StreamClosed
<1>2. DrivenInv' /\ ChainInv' /\ OneLink' /\ Fresh'
  BY <1>1 DEF JobInv, NotReaders, jobVars, boundVars, DrivenInv, Present, ChainInv, OneLink,
              Awaited, Fresh, Unused
<1>3. ReaderTypes /\ flushed \in [Jobs -> Nat] /\ ReaderInv
  BY DEF JobInv, TypeOK, ReaderTypes
<1>4. ReaderTypes' /\ ReaderInv'
  <2>1. flushed' = flushed
    BY <1>1 DEF NotReaders, fileVars
  <2>2. ASSUME NEW j \in Jobs, StreamStart(r, j) PROVE ReaderTypes' /\ ReaderInv'
    BY <1>3, <2>1, <2>2 DEF ReaderTypes, ReaderInv, StreamStart, AfterPoll
  <2>3. CASE StreamPoll(r)
    BY <1>3, <2>1, <2>3 DEF ReaderTypes, ReaderInv, StreamPoll, AfterPoll
  <2>4. CASE StreamOpen(r)
    BY <1>3, <2>1, <2>4 DEF ReaderTypes, ReaderInv, StreamOpen
  <2>5. CASE StreamRead(r)
    BY <1>3, <2>1, <2>5 DEF ReaderTypes, ReaderInv, StreamRead
  <2>6. CASE StreamGot(r)
    <3>1. PICK p \in {"read", "ended", "tail"}, b \in BOOLEAN :
            rpc' = [rpc EXCEPT ![r] = p] /\ rsaw' = [rsaw EXCEPT ![r] = b]
      BY <1>3, <2>6, rsaw = [rsaw EXCEPT ![r] = rsaw[r]] DEF ReaderTypes, StreamGot
    <3>2. /\ roff' = [roff EXCEPT ![r] = roff[r] + rgot[r]]
          /\ rgot' = [rgot EXCEPT ![r] = 0] /\ rjob' = rjob /\ rpc[r] = "got"
      BY <2>6 DEF StreamGot
    <3>3. ReaderTypes'
      BY <1>3, <3>1, <3>2 DEF ReaderTypes
    <3>4. ReaderInv'
      BY <1>3, <3>1, <3>2, <2>1 DEF ReaderTypes, ReaderInv
    <3> QED BY <3>3, <3>4
  <2>7. CASE StreamWake(r)
    BY <1>3, <2>1, <2>7 DEF ReaderTypes, ReaderInv, StreamWake
  <2>8. CASE StreamClosed(r)
    BY <1>3, <2>1, <2>8 DEF ReaderTypes, ReaderInv, StreamClosed
  <2> QED BY <2>2, <2>3, <2>4, <2>5, <2>6, <2>7, <2>8 DEF StreamJob
<1> QED
  BY <1>1, <1>2, <1>4 DEF JobInv, TypeOK, ReaderTypes, NotReaders, jobVars, fileVars, boundVars,
                         toldVars

\* Steps of the server leave the readers alone, and journals only grow.
LEMMA ReadersUntouched ==
  ASSUME JobInv, UNCHANGED readerVars,
         \A j \in Jobs : flushed'[j] \in Nat /\ flushed'[j] >= flushed[j]
  PROVE  ReaderInv'
<1> SUFFICES ASSUME NEW r \in Readers, rpc[r] # "idle"
             PROVE  roff[r] + rgot[r] <= flushed'[rjob[r]]
  BY DEF JobInv, ReaderInv, readerVars
<1> QED BY DEF JobInv, ReaderInv, TypeOK

\* The steps of runJob that neither touch the records nor persist.
LEMMA RunStep ==
  ASSUME JobInv, NEW j \in Jobs,
         \/ UpstreamFails(j) \/ Chunk(j) \/ BodyEnds(j) \/ BodyFails(j)
         \/ JournalBreaks(j) \/ Flush(j)
  PROVE  JobInv'
<1>1. UNCHANGED <<records, disk, writeChain, unlinking, boundVars, readerVars, toldVars>>
  BY DEF UpstreamFails, Chunk, BodyEnds, BodyFails, JournalBreaks, Flush, Leave
<1>2. \/ pc' = pc
      \/ pc[j] \in {"request", "body"} /\ pc' = [pc EXCEPT ![j] = "ending"]
  BY DEF UpstreamFails, Chunk, BodyEnds, BodyFails, JournalBreaks, Flush, Leave, jobVars
<1>3. \A k \in Jobs : flushed'[k] \in Nat /\ flushed'[k] >= flushed[k]
  BY DEF UpstreamFails, Chunk, BodyEnds, BodyFails, JournalBreaks, Flush, Leave, fileVars,
         JobInv, TypeOK
<1>4. ReaderInv'
  BY <1>1, <1>3, ReadersUntouched
<1>5. TypeOK'
  <2>1. /\ aborted' = aborted /\ files' = files /\ broken' \subseteq Jobs
        /\ sent' \in [Jobs -> Nat] /\ flushed' \in [Jobs -> Nat]
    <3>1. sent \in [Jobs -> Nat] /\ flushed \in [Jobs -> Nat] /\ broken \subseteq Jobs
      BY DEF JobInv, TypeOK
    <3>2. CASE UpstreamFails(j) \/ BodyEnds(j) \/ BodyFails(j)
      BY <3>1, <3>2 DEF UpstreamFails, BodyEnds, BodyFails, Leave, fileVars
    <3>3. CASE Chunk(j)
      BY <3>1, <3>3 DEF Chunk, fileVars
    <3>4. CASE JournalBreaks(j)
      BY <3>1, <3>4 DEF JournalBreaks, fileVars
    <3>5. CASE Flush(j)
      BY <3>1, <3>5 DEF Flush, jobVars
    <3> QED BY <3>2, <3>3, <3>4, <3>5
  <2>2. failure' \in [Jobs -> {"none", "abort", "error"}]
    BY DEF UpstreamFails, Chunk, BodyEnds, BodyFails, JournalBreaks, Flush, Leave, fileVars,
       jobVars, JobInv, TypeOK
  <2>3. pc' \in [Jobs -> RunPhases \cup {"idle", "closing"}]
    <3>1. pc \in [Jobs -> RunPhases \cup {"idle", "closing"}]
      BY DEF JobInv, TypeOK
    <3>2. "ending" \in RunPhases
      BY DEF RunPhases
    <3> QED BY <1>2, <3>1, <3>2
  <2>4. TypeOK
    BY DEF JobInv
  <2>5. /\ records' \in Snapshot /\ disk' \in Snapshot /\ unlinking' \subseteq Jobs
        /\ writeChain' \in Seq([snap : Snapshot, waiter : Waiters])
        /\ nextId' \in 1 .. MaxJobs + 1 /\ clock' \in Nat /\ restarts' \in Nat
    BY <1>1, <2>4 DEF TypeOK, boundVars
  <2>6. aborted' \in [Jobs -> BOOLEAN] /\ files' \subseteq Jobs
    BY <2>1, <2>4 DEF TypeOK
  <2> QED
    BY <1>1, <2>1, <2>2, <2>3, <2>4, <2>5, <2>6 DEF TypeOK, boundVars, readerVars, toldVars
<1>6. DrivenInv' /\ ChainInv'
  <2>1. DrivenInv'
    BY <1>1, <1>2 DEF boundVars, JobInv, TypeOK, DrivenInv, Present, RunPhases
  <2>2. \A k \in Jobs : pc[k] \in {"head", "closing"} => pc'[k] = pc[k]
    BY <1>2 DEF JobInv, TypeOK
  <2>3. ChainInv'
    BY <1>1, <2>2 DEF JobInv, ChainInv, Awaited
  <2> QED BY <2>1, <2>3
<1>7. OneLink' /\ Fresh'
  BY <1>1, <1>2 DEF JobInv, TypeOK, OneLink, Awaited, Fresh, Unused, boundVars
<1> QED BY <1>4, <1>5, <1>6, <1>7 DEF JobInv

LEMMA AbortStep ==
  ASSUME JobInv, \/ \E j \in Jobs : AbortJob(j)
                 \/ Close
  PROVE  JobInv'
<1>1. /\ aborted' \in [Jobs -> BOOLEAN]
      /\ UNCHANGED <<records, disk, writeChain, pc, sent, failure, broken, fileVars, unlinking,
                     boundVars, readerVars, toldVars>>
  BY DEF AbortJob, Close, JobInv, TypeOK, Active
<1>2. TypeOK'
  BY <1>1 DEF JobInv, TypeOK, fileVars, boundVars, readerVars, toldVars
<1> QED
  BY <1>1, <1>2 DEF JobInv, DrivenInv, Present, ChainInv, OneLink, Awaited, Fresh, Unused,
     ReaderInv, fileVars, boundVars, readerVars

\* Steps that change the records and persist them in the same turn.
LEMMA CreateStep ==
  ASSUME JobInv, NEW c \in Chats, NEW recoverable \in BOOLEAN, CreateJob(c, recoverable)
  PROVE  JobInv'
<1> DEFINE rec == NewRecord(c, recoverable)
<1>1. /\ nextId \in Jobs /\ nextId' = nextId + 1 /\ rec \in Record
      /\ records' = [records EXCEPT ![nextId] = rec]
      /\ pc' = [pc EXCEPT ![nextId] = "request"] /\ files' = files \cup {nextId}
      /\ writeChain' = Persist(records', Nobody)
      /\ UNCHANGED <<disk, aborted, sent, failure, broken, flushed, unlinking, unmade, clock,
                     restarts, readerVars, toldVars>>
  BY ModelJobsAssumption DEF NewRecord, CreateJob, JobInv, TypeOK, Jobs, Record, Status, Terminal
<1>2. records' \in Snapshot /\ Nobody \in Waiters /\ Nobody.kind = "none"
  BY <1>1 DEF JobInv, TypeOK, Snapshot, Waiters, Nobody
<1>3. pc[nextId] = "idle" /\ records[nextId] = Absent
  BY <1>1 DEF JobInv, Fresh, Unused, TypeOK, Jobs
<1>4. nextId' \in Nat /\ nextId' \in 1 .. MaxJobs + 1 /\ nextId' >= nextId
  BY <1>1, ModelJobsAssumption DEF JobInv, TypeOK, Jobs
<1>5. Unused(records', nextId') /\ Unused(disk', nextId')
      /\ \A j \in Jobs : j >= nextId' => pc'[j] = "idle"
  BY <1>1 DEF JobInv, Fresh, Unused, TypeOK, Jobs
<1>6. /\ writeChain' \in Seq(Link) /\ ChainInv' /\ OneLink'
      /\ \A i \in 1 .. Len(writeChain') : Unused(writeChain'[i].snap, nextId')
  BY <1>1, <1>2, <1>3, <1>4, <1>5, PersistKeeps DEF JobInv, TypeOK, Nobody
<1>7. DrivenInv'
  <2>1. \A j \in Jobs : j < nextId => j < nextId'
    BY <1>1, <1>4 DEF JobInv, TypeOK, Jobs
  <2>2. rec.status = "running" /\ rec # Absent
    BY DEF NewRecord, Absent
  <2> HIDE DEF rec
  <2>3. ~(nextId < nextId) /\ nextId \notin unmade
    BY DEF JobInv, TypeOK, DrivenInv, Jobs
  <2> QED
    BY <1>1, <1>3, <2>1, <2>2, <2>3 DEF JobInv, TypeOK, DrivenInv, Present, RunPhases, Snapshot
<1>8. ReaderInv'
  <2>1. \A j \in Jobs : flushed'[j] \in Nat /\ flushed'[j] >= flushed[j]
    BY <1>1 DEF JobInv, TypeOK
  <2> QED BY <1>1, <2>1, ReadersUntouched
<1>9. TypeOK'
  <2>1. pc' \in [Jobs -> RunPhases \cup {"idle", "closing"}] /\ files' \subseteq Jobs
    BY <1>1 DEF JobInv, TypeOK, RunPhases
  <2> QED BY <1>1, <1>2, <1>4, <1>6, <2>1 DEF JobInv, TypeOK, Link, readerVars, toldVars
<1> QED BY <1>5, <1>6, <1>7, <1>8, <1>9 DEF JobInv, Fresh

\* A creation that throws leaves a row that nothing drives.
LEMMA ThrowStep ==
  ASSUME JobInv, NEW c \in Chats, NEW recoverable \in BOOLEAN, CreateThrows(c, recoverable)
  PROVE  JobInv'
<1> DEFINE rec == NewRecord(c, recoverable)
<1>1. /\ nextId \in Jobs /\ nextId' = nextId + 1 /\ rec \in Record
      /\ records' = [records EXCEPT ![nextId] = rec] /\ unmade' = unmade \cup {nextId}
      /\ UNCHANGED <<disk, writeChain, jobVars, fileVars, unlinking, clock, restarts,
                     readerVars, toldVars>>
  BY ModelJobsAssumption DEF NewRecord, CreateThrows, JobInv, TypeOK, Jobs, Record, Status, Terminal
<1>2. rec.status = "running" /\ rec # Absent
  BY DEF NewRecord, Absent
<1> HIDE DEF rec
<1>3. pc[nextId] = "idle" /\ records[nextId] = Absent
  BY <1>1 DEF JobInv, Fresh, Unused, TypeOK, Jobs
<1>4. nextId' \in Nat /\ nextId' \in 1 .. MaxJobs + 1 /\ nextId' > nextId /\ nextId \in Nat
  BY <1>1, ModelJobsAssumption DEF JobInv, TypeOK, Jobs
<1>5. Fresh'
  <2>1. \A j \in Jobs : j >= nextId' => j >= nextId /\ j # nextId
    BY <1>1 DEF JobInv, TypeOK, Jobs
  <2> QED BY <1>1, <2>1 DEF JobInv, Fresh, Unused, TypeOK, Snapshot, jobVars
<1>6. ChainInv' /\ OneLink' /\ ReaderInv'
  BY <1>1 DEF JobInv, ChainInv, OneLink, Awaited, ReaderInv, jobVars, fileVars, readerVars
<1>7. DrivenInv'
  <2>1. \A j \in Jobs : j < nextId => j < nextId'
    BY <1>1, <1>4 DEF Jobs
  <2> QED
    BY <1>1, <1>2, <1>3, <1>4, <2>1
       DEF JobInv, TypeOK, DrivenInv, Present, RunPhases, Snapshot, jobVars
<1>8. TypeOK'
  <2>1. records' \in Snapshot /\ unmade' \subseteq Jobs
    BY <1>1 DEF JobInv, TypeOK, Snapshot
  <2> QED BY <1>1, <1>4, <2>1 DEF JobInv, TypeOK, jobVars, fileVars, readerVars, toldVars
<1> QED BY <1>5, <1>6, <1>7, <1>8 DEF JobInv

\* The shape common to the other steps that persist: new records, one new link.
LEMMA PersistStep ==
  ASSUME JobInv, NEW w \in Waiters,
         records' \in Snapshot, writeChain' = Persist(records', w),
         \A j \in Jobs : j >= nextId => records'[j] = Absent /\ pc'[j] = "idle",
         \A j \in Jobs : pc[j] \in {"head", "closing"} => pc'[j] = pc[j],
         w.kind # "none" => w.job \in Jobs,
         w.kind = "head" => w.job \in Jobs /\ pc[w.job] # "head" /\ pc'[w.job] = "head",
         w.kind = "end" => /\ w.job \in Jobs /\ pc[w.job] # "closing"
                           /\ pc'[w.job] = "closing" /\ records'[w.job].status \in Terminal,
         pc' \in [Jobs -> RunPhases \cup {"idle", "closing"}], DrivenInv',
         files' \subseteq Jobs, unlinking' \subseteq Jobs, clock' \in Nat,
         UNCHANGED <<disk, aborted, sent, failure, broken, flushed, nextId, unmade, restarts,
                     readerVars, toldVars>>
  PROVE  JobInv'
<1>1. /\ writeChain' \in Seq(Link) /\ ChainInv' /\ OneLink'
      /\ Unused(records', nextId') =>
           \A i \in 1 .. Len(writeChain') : Unused(writeChain'[i].snap, nextId')
  <2>1. nextId' \in Nat /\ nextId' >= nextId
    BY DEF JobInv, TypeOK
  <2> QED BY <2>1, PersistKeeps DEF JobInv
<1>2. Fresh'
  BY <1>1 DEF JobInv, Fresh, Unused
<1>3. ReaderInv'
  <2>1. \A j \in Jobs : flushed'[j] \in Nat /\ flushed'[j] >= flushed[j]
    BY DEF JobInv, TypeOK
  <2> QED BY <2>1, ReadersUntouched
<1>4. TypeOK'
  BY <1>1 DEF JobInv, TypeOK, Link, readerVars, toldVars
<1> QED BY <1>1, <1>2, <1>3, <1>4 DEF JobInv

\* A record that is there is a full record; one that runs has an id below nextId.
LEMMA RecordFacts ==
  ASSUME JobInv, NEW j \in Jobs
  PROVE  /\ records[j] # Absent => records[j] \in Record
         /\ records[j].status \in Status => records[j] \in Record
         /\ records[j] # Absent \/ pc[j] # "idle" => j < nextId
         /\ pc[j] \in RunPhases => records[j].status = "running"
<1>1. j >= nextId \/ j < nextId
  BY DEF JobInv, TypeOK, Jobs
<1> QED
  BY <1>1 DEF JobInv, TypeOK, Fresh, Unused, Snapshot, Absent, Status, Terminal, DrivenInv, Present

LEMMA AnswerStep ==
  ASSUME JobInv, NEW j \in Jobs, UpstreamAnswers(j)
  PROVE  JobInv'
<1>1. /\ pc[j] = "request" /\ records' = [records EXCEPT ![j].upstream = TRUE]
      /\ writeChain' = Persist(records', Waiter("head", j))
      /\ pc' = [pc EXCEPT ![j] = "head"]
      /\ UNCHANGED <<disk, aborted, sent, failure, broken, fileVars, unlinking, boundVars,
                     readerVars, toldVars>>
  BY DEF UpstreamAnswers
<1>2. records[j] \in Record /\ j < nextId /\ records[j].status = "running"
  BY <1>1, RecordFacts DEF RunPhases, Status
<1>3. records' \in Snapshot /\ records'[j].status = "running"
  BY <1>1, <1>2 DEF JobInv, TypeOK, Snapshot, Record
<1>4. DrivenInv'
  BY <1>1, <1>3 DEF boundVars, Absent, JobInv, TypeOK, DrivenInv, Present, RunPhases, Snapshot
<1>5. \A k \in Jobs : k >= nextId => records'[k] = Absent /\ pc'[k] = "idle"
  BY <1>1, <1>2 DEF JobInv, TypeOK, Fresh, Unused, Jobs, Snapshot
<1>6. Waiter("head", j) \in Waiters /\ Waiter("head", j).kind = "head" /\ Waiter("head", j).job = j
  BY DEF Waiter, Waiters
<1>7. pc' \in [Jobs -> RunPhases \cup {"idle", "closing"}] /\ pc'[j] = "head"
  BY <1>1 DEF JobInv, TypeOK, RunPhases
<1>8. \A k \in Jobs : pc[k] \in {"head", "closing"} => pc'[k] = pc[k]
  BY <1>1 DEF JobInv, TypeOK
<1>9. /\ files' \subseteq Jobs /\ unlinking' \subseteq Jobs /\ clock' \in Nat
      /\ UNCHANGED <<disk, aborted, sent, failure, broken, flushed, nextId, unmade, restarts,
                     readerVars, toldVars>>
  BY <1>1 DEF JobInv, TypeOK, fileVars, boundVars
<1> QED BY <1>1, <1>3, <1>4, <1>5, <1>6, <1>7, <1>8, <1>9, PersistStep

LEMMA SettleStep ==
  ASSUME JobInv, NEW j \in Jobs, Settle(j)
  PROVE  JobInv'
<1>1. /\ pc[j] = "ending" /\ clock' = clock + 1
      /\ records' = [records EXCEPT ![j].status = FinalStatus(j), ![j].endedAt = clock',
                                    ![j].bytes = sent[j]]
      /\ writeChain' = Persist(records', Waiter("end", j))
      /\ pc' = [pc EXCEPT ![j] = "closing"]
      /\ UNCHANGED <<disk, aborted, sent, failure, broken, fileVars, unlinking, nextId,
                     unmade, restarts, readerVars, toldVars>>
  BY DEF Settle
<1>2. records[j] \in Record /\ j < nextId
  BY <1>1, RecordFacts DEF RunPhases, Status
<1>3. FinalStatus(j) \in Terminal
  BY DEF FinalStatus, Terminal
<1>4. clock' \in Nat /\ sent[j] \in Nat
  BY <1>1 DEF JobInv, TypeOK
<1>5. records' \in Snapshot /\ records'[j].status \in Terminal
  BY <1>1, <1>2, <1>3, <1>4 DEF JobInv, TypeOK, Snapshot, Record, Status
<1>6. DrivenInv'
  BY <1>1, <1>5 DEF JobInv, TypeOK, DrivenInv, Present, RunPhases, Snapshot, Terminal
<1>7. \A k \in Jobs : k >= nextId => records'[k] = Absent /\ pc'[k] = "idle"
  BY <1>1, <1>2 DEF JobInv, TypeOK, Fresh, Unused, Jobs, Snapshot
<1> DEFINE w == Waiter("end", j)
<1>8. w \in Waiters /\ w.kind = "end" /\ w.job = j /\ writeChain' = Persist(records', w)
  BY <1>1 DEF Waiter, Waiters
<1>9. pc' \in [Jobs -> RunPhases \cup {"idle", "closing"}] /\ pc'[j] = "closing"
  BY <1>1 DEF JobInv, TypeOK, RunPhases
<1>10. \A k \in Jobs : pc[k] \in {"head", "closing"} => pc'[k] = pc[k]
  BY <1>1 DEF JobInv, TypeOK
<1>11. /\ files' \subseteq Jobs /\ unlinking' \subseteq Jobs
       /\ UNCHANGED <<disk, aborted, sent, failure, broken, flushed, nextId, unmade, restarts,
                      readerVars, toldVars>>
  BY <1>1 DEF boundVars, JobInv, TypeOK, fileVars
<1>12. clock' \in Nat /\ pc[j] # "closing"
  BY <1>1, <1>4
<1> HIDE DEF w
<1> QED BY <1>5, <1>6, <1>7, <1>8, <1>9, <1>10, <1>11, <1>12, PersistStep

\* Claims, unlinked deletes and retention: no job moves, no running record is touched.
LEMMA QuietPersistStep ==
  ASSUME JobInv, NEW w \in Waiters, w.kind \notin Awaiting,
         w.kind # "none" => w.job \in Jobs,
         records' \in Snapshot, writeChain' = Persist(records', w), UNCHANGED jobVars,
         \A j \in Jobs : records'[j] = Absent \/ records'[j].status = records[j].status,
         \A j \in Jobs : records[j].status = "running" => records'[j] # Absent,
         \A j \in Jobs : records[j] = Absent => records'[j] = Absent,
         files' \subseteq Jobs, unlinking' \subseteq Jobs,
         UNCHANGED <<disk, flushed, boundVars, readerVars, toldVars>>
  PROVE  JobInv'
<1>1. DrivenInv'
  BY DEF boundVars, JobInv, DrivenInv, Present, jobVars, Absent
<1>2. \A k \in Jobs : k >= nextId => records'[k] = Absent /\ pc'[k] = "idle"
  BY DEF JobInv, Fresh, Unused, jobVars
<1>3. pc' \in [Jobs -> RunPhases \cup {"idle", "closing"}] /\ clock' \in Nat
  BY DEF JobInv, TypeOK, jobVars, boundVars
<1> QED BY <1>1, <1>2, <1>3, PersistStep DEF jobVars, boundVars, Awaiting

LEMMA ClaimStep ==
  ASSUME JobInv, NEW j \in Jobs, ClaimJob(j)
  PROVE  JobInv'
<1>1. /\ records' = [records EXCEPT ![j].claimed = TRUE] /\ records[j] \in Record
      /\ writeChain' = Persist(records', Waiter("claim", j))
      /\ UNCHANGED <<disk, jobVars, fileVars, unlinking, boundVars, readerVars, toldVars>>
  BY RecordFacts DEF ClaimJob, Present
<1>2. records' \in Snapshot
  BY <1>1 DEF JobInv, TypeOK, Snapshot, Record
<1>3. \A k \in Jobs : records'[k] = records[k] \/ k = j
  BY <1>1 DEF JobInv, TypeOK, Snapshot
<1>4. records'[j].status = records[j].status /\ records[j] # Absent /\ records'[j] # Absent
  BY <1>1, records[j].status \in Status, "absent" \notin Status
     DEF JobInv, TypeOK, Snapshot, Record, Absent, Status, Terminal
<1>5. Waiter("claim", j) \in Waiters /\ Waiter("claim", j).kind \notin Awaiting
      /\ Waiter("claim", j).job \in Jobs
  BY DEF Waiter, Waiters, Awaiting
<1>6. files' \subseteq Jobs /\ unlinking' \subseteq Jobs /\ flushed' = flushed
  BY <1>1 DEF JobInv, TypeOK, fileVars
<1>7. /\ \A k \in Jobs : records'[k] = Absent \/ records'[k].status = records[k].status
      /\ \A k \in Jobs : records[k].status = "running" => records'[k] # Absent
      /\ \A k \in Jobs : records[k] = Absent => records'[k] = Absent
  BY <1>3, <1>4 DEF Absent
<1> QED BY <1>1, <1>2, <1>5, <1>6, <1>7, QuietPersistStep

LEMMA UnlinkedStep ==
  ASSUME JobInv, NEW j \in Jobs, Unlinked(j)
  PROVE  JobInv'
<1>1. /\ records' = records /\ files' = files \ {j} /\ unlinking' = unlinking \ {j}
      /\ writeChain' = Persist(records', Waiter("delete", j))
      /\ UNCHANGED <<disk, jobVars, flushed, boundVars, readerVars, toldVars>>
  BY DEF Unlinked
<1>2. Waiter("delete", j) \in Waiters /\ Waiter("delete", j).kind \notin Awaiting
      /\ Waiter("delete", j).job \in Jobs
  BY DEF Waiter, Waiters, Awaiting
<1>3. records' \in Snapshot /\ files' \subseteq Jobs /\ unlinking' \subseteq Jobs
  BY <1>1 DEF JobInv, TypeOK
<1>4. \A k \in Jobs : records[k].status = "running" => records'[k] # Absent
  BY <1>1 DEF Absent
<1> QED BY <1>1, <1>2, <1>3, <1>4, QuietPersistStep

\* Retention drops terminal records only.
LEMMA CleanupFacts ==
  ASSUME NEW recs \in Snapshot, NEW cutoff
  PROVE  /\ CleanupIds(recs, cutoff) \subseteq TerminalIn(recs)
         /\ Drop(recs, CleanupIds(recs, cutoff)) \in Snapshot
         /\ \A j \in Jobs : Drop(recs, CleanupIds(recs, cutoff))[j] # recs[j] =>
              Drop(recs, CleanupIds(recs, cutoff))[j] = Absent /\ recs[j].status \in Terminal
<1>1. CleanupIds(recs, cutoff) \subseteq TerminalIn(recs)
  BY DEF CleanupIds
<1>2. Absent \in Record \cup {Absent}
  OBVIOUS
<1> QED BY <1>1, <1>2 DEF Drop, Snapshot, TerminalIn

LEMMA CleanupStep ==
  ASSUME JobInv, Cleanup
  PROVE  JobInv'
<1>1. PICK cutoff \in 0 .. clock + 1 :
        LET gone == CleanupIds(records, cutoff)
        IN /\ records' = Drop(records, gone) /\ files' = files \ gone
           /\ writeChain' = Persist(records', Nobody)
           /\ UNCHANGED <<disk, jobVars, flushed, unlinking, boundVars, readerVars, toldVars>>
  BY DEF Cleanup
<1>2. /\ records' \in Snapshot
      /\ \A j \in Jobs : records'[j] # records[j] =>
           records'[j] = Absent /\ records[j].status \in Terminal
  <2> DEFINE gone == CleanupIds(records, cutoff)
  <2>1. records \in Snapshot /\ records' = Drop(records, gone)
    BY <1>1 DEF JobInv, TypeOK
  <2>2. /\ Drop(records, gone) \in Snapshot
        /\ \A j \in Jobs : Drop(records, gone)[j] # records[j] =>
             Drop(records, gone)[j] = Absent /\ records[j].status \in Terminal
    BY <2>1, CleanupFacts
  <2> QED BY <2>1, <2>2
<1>3. Nobody \in Waiters /\ Nobody.kind = "none" /\ Nobody.kind \notin Awaiting
  BY DEF Nobody, Waiters, Awaiting
<1>4. files' \subseteq Jobs /\ unlinking' \subseteq Jobs
  BY <1>1 DEF JobInv, TypeOK
<1>5. /\ \A j \in Jobs : records'[j] = Absent \/ records'[j].status = records[j].status
      /\ \A j \in Jobs : records[j].status = "running" => records'[j] # Absent
      /\ \A j \in Jobs : records[j] = Absent => records'[j] = Absent
  BY <1>2 DEF Absent, Terminal
<1> QED BY <1>1, <1>2, <1>3, <1>4, <1>5, QuietPersistStep

LEMMA DeleteStep ==
  ASSUME JobInv, NEW j \in Jobs, DeleteJob(j)
  PROVE  JobInv'
<1>1. /\ ~Active(j) /\ records' = [records EXCEPT ![j] = Absent]
      /\ unlinking' = unlinking \cup {j}
      /\ UNCHANGED <<disk, writeChain, jobVars, fileVars, boundVars, readerVars, toldVars>>
  BY DEF DeleteJob
<1>2. records' \in Snapshot /\ unlinking' \subseteq Jobs
  BY <1>1 DEF JobInv, TypeOK, Snapshot
<1>3. TypeOK'
  BY <1>1, <1>2 DEF JobInv, TypeOK, jobVars, fileVars, boundVars, readerVars, toldVars
<1>4. DrivenInv'
  BY <1>1 DEF boundVars, JobInv, TypeOK, Snapshot, DrivenInv, Present, RunPhases, Active, jobVars, Absent
<1>5. ChainInv' /\ OneLink' /\ ReaderInv'
  BY <1>1 DEF JobInv, ChainInv, OneLink, Awaited, ReaderInv, jobVars, fileVars, readerVars
<1>6. Fresh'
  BY <1>1 DEF JobInv, TypeOK, Snapshot, Fresh, Unused, jobVars, boundVars
<1> QED BY <1>3, <1>4, <1>5, <1>6 DEF JobInv

\* A link lands: its job, and no other, leaves the await it stood at.
LEMMA WriteStep ==
  ASSUME JobInv, WriteIndex
  PROVE  JobInv'
<1> DEFINE w == writeChain[1].waiter
<1>1. /\ writeChain \in Seq(Link) /\ writeChain # <<>> /\ writeChain' = Tail(writeChain)
      /\ writeChain' \in Seq(Link) /\ Len(writeChain') = Len(writeChain) - 1
      /\ Len(writeChain) \in Nat \ {0} /\ writeChain[1] \in Link
      /\ \A i \in 1 .. Len(writeChain') : writeChain'[i] = writeChain[i + 1]
      /\ Head(writeChain) = writeChain[1]
  <2>1. writeChain \in Seq(Link) /\ writeChain # <<>> /\ writeChain' = Tail(writeChain)
    BY DEF WriteIndex, JobInv, TypeOK, Link
  <2> QED BY <2>1, TailFacts
<1>2. /\ disk' \in {disk, writeChain[1].snap}
      /\ pc' = IF w.kind = "head" THEN [pc EXCEPT ![w.job] = "body"]
               ELSE IF w.kind = "end" THEN [pc EXCEPT ![w.job] = "idle"] ELSE pc
      /\ announced' = IF w.kind = "end"
                      THEN [announced EXCEPT ![w.job] = writeChain[1].snap[w.job].status]
                      ELSE announced
      /\ ackedClaim' = IF w.kind = "claim" THEN ackedClaim \cup {w.job} ELSE ackedClaim
      /\ ackedDelete' = IF w.kind = "delete" THEN ackedDelete \cup {w.job} ELSE ackedDelete
      /\ UNCHANGED <<records, aborted, sent, failure, broken, fileVars, unlinking, boundVars,
                     readerVars>>
  BY <1>1 DEF WriteIndex
<1>3. /\ 1 \in 1 .. Len(writeChain)
      /\ \A i \in 1 .. Len(writeChain') : i + 1 \in 1 .. Len(writeChain) /\ i + 1 # 1
  BY <1>1
<1>4. w.kind = "head" => w.job \in Jobs /\ pc[w.job] = "head"
  BY <1>3 DEF JobInv, ChainInv, Awaited
<1>5. w.kind = "end" => /\ w.job \in Jobs /\ pc[w.job] = "closing"
                        /\ writeChain[1].snap[w.job].status \in Terminal
  BY <1>3 DEF JobInv, ChainInv, Awaited
<1>6. ASSUME NEW i \in 1 .. Len(writeChain')
      PROVE  w.kind \in Awaiting => writeChain[i + 1].waiter # w
  BY <1>3 DEF JobInv, OneLink, Awaited
<1>7. ASSUME NEW i \in 1 .. Len(writeChain')
      PROVE  writeChain[i + 1] \in Link
  BY <1>1, <1>3
<1>8. ChainInv'
  <2> SUFFICES ASSUME NEW i \in 1 .. Len(writeChain')
               PROVE  LET v == writeChain[i + 1].waiter IN
                      /\ v.kind # "none" => v.job \in Jobs
                      /\ v.kind = "head" => v.job \in Jobs /\ pc'[v.job] = "head"
                      /\ v.kind = "end" =>
                           /\ v.job \in Jobs /\ pc'[v.job] = "closing"
                           /\ writeChain[i + 1].snap[v.job].status \in Terminal
    BY <1>1 DEF ChainInv, Awaited
  <2> DEFINE v == writeChain[i + 1].waiter
  <2>1. /\ v.kind # "none" => v.job \in Jobs
        /\ v.kind = "head" => v.job \in Jobs /\ pc[v.job] = "head"
        /\ v.kind = "end" => /\ v.job \in Jobs /\ pc[v.job] = "closing"
                             /\ writeChain[i + 1].snap[v.job].status \in Terminal
    BY <1>3 DEF JobInv, ChainInv, Awaited
  <2>2. v \in Waiters /\ w \in Waiters
    BY <1>1, <1>7 DEF Link
  <2>3. w.kind \in Awaiting /\ v.kind = w.kind => v.job # w.job
    BY <1>6, <2>2 DEF Waiters
  <2>4. v.kind \in Awaiting => pc'[v.job] = pc[v.job]
    BY <1>2, <1>4, <1>5, <2>1, <2>3 DEF JobInv, TypeOK, Awaiting
  <2> QED BY <2>1, <2>4 DEF Awaiting
<1>9. OneLink'
  <2> SUFFICES ASSUME NEW i \in 1 .. Len(writeChain'), NEW k \in 1 .. Len(writeChain'),
                      writeChain[i + 1].waiter = writeChain[k + 1].waiter,
                      writeChain[i + 1].waiter.kind \in Awaiting
               PROVE  i = k
    BY <1>1 DEF OneLink, Awaited
  <2>1. i + 1 = k + 1
    BY <1>3 DEF JobInv, OneLink, Awaited
  <2> QED BY <2>1
<1>10. DrivenInv'
  BY <1>2, <1>4, <1>5 DEF boundVars, JobInv, TypeOK, DrivenInv, Present, RunPhases
<1>11. Fresh'
  <2>1. \A i \in 1 .. Len(writeChain') : Unused(writeChain'[i].snap, nextId')
    BY <1>1, <1>2, <1>3 DEF JobInv, Fresh, boundVars
  <2>2. Unused(disk', nextId') /\ Unused(records', nextId')
    BY <1>2, <1>3 DEF JobInv, Fresh, boundVars
  <2>3. \A j \in Jobs : j >= nextId' => pc'[j] = "idle"
    BY <1>2, <1>4, <1>5 DEF JobInv, TypeOK, Fresh, boundVars
  <2> QED BY <2>1, <2>2, <2>3 DEF Fresh
<1>12. ReaderInv'
  <2>1. \A j \in Jobs : flushed'[j] \in Nat /\ flushed'[j] >= flushed[j]
    BY <1>2 DEF JobInv, TypeOK, fileVars
  <2> QED BY <1>2, <2>1, ReadersUntouched
<1>13. TypeOK'
  <2>1. disk' \in Snapshot /\ records' \in Snapshot
    BY <1>1, <1>2 DEF JobInv, TypeOK, Link
  <2>2. pc' \in [Jobs -> RunPhases \cup {"idle", "closing"}]
    BY <1>2 DEF JobInv, TypeOK, RunPhases
  <2>3. announced' \in [Jobs -> Terminal \cup {"none"}]
    BY <1>2, <1>5 DEF JobInv, TypeOK
  <2>4. w.kind \in {"claim", "delete"} => w.job \in Jobs
    BY <1>3 DEF JobInv, ChainInv, Awaited
  <2>5. ackedClaim' \subseteq Jobs /\ ackedDelete' \subseteq Jobs
    BY <1>2, <2>4 DEF JobInv, TypeOK
  <2> QED BY <1>1, <1>2, <2>1, <2>2, <2>3, <2>5
          DEF JobInv, TypeOK, Link, fileVars, boundVars, readerVars
<1> QED BY <1>8, <1>9, <1>10, <1>11, <1>12, <1>13 DEF JobInv

\* After a restart the chain holds at most the two startup writes, which nobody awaits.
LEMMA RestartStep ==
  ASSUME JobInv, Restart
  PROVE  JobInv'
<1>1. PICK cutoff \in 0 .. clock' + 1 :
        LET woken == Recovered(disk, clock')
            gone  == CleanupIds(woken, cutoff)
        IN /\ records' = Drop(woken, gone) /\ files' = files \ gone
           /\ writeChain' = (IF woken # disk THEN <<[snap |-> woken, waiter |-> Nobody]>> ELSE <<>>)
                \o (IF gone # {} THEN <<[snap |-> records', waiter |-> Nobody]>> ELSE <<>>)
  BY DEF Restart
<1> DEFINE woken == Recovered(disk, clock')
           gone  == CleanupIds(woken, cutoff)
           first == [snap |-> woken, waiter |-> Nobody]
           last  == [snap |-> records', waiter |-> Nobody]
<1>2. /\ clock' = clock + 1 /\ restarts' = restarts + 1
      /\ pc' = [j \in Jobs |-> "idle"] /\ aborted' = [j \in Jobs |-> FALSE]
      /\ sent' = [j \in Jobs |-> 0] /\ failure' = [j \in Jobs |-> "none"] /\ broken' = {}
      /\ unlinking' = {} /\ unmade' = {}
      /\ rpc' = [r \in Readers |-> "idle"] /\ rjob' = [r \in Readers |-> 0]
      /\ roff' = [r \in Readers |-> 0] /\ rgot' = [r \in Readers |-> 0]
      /\ rsaw' = [r \in Readers |-> FALSE]
      /\ UNCHANGED <<disk, flushed, nextId, toldVars>>
  BY DEF Restart
<1>3. clock' \in Nat /\ restarts' \in Nat /\ disk \in Snapshot
  BY <1>2 DEF JobInv, TypeOK
<1>4. woken \in Snapshot /\ \A j \in Jobs : woken[j].status # "running"
  <2> SUFFICES ASSUME NEW j \in Jobs
               PROVE  /\ woken[j] \in Record \cup {Absent}
                      /\ woken[j].status # "running"
    BY DEF Recovered, Snapshot
  <2>1. disk[j] \in Record \cup {Absent}
    BY <1>3 DEF Snapshot
  <2>2. CASE disk[j].status = "running"
    <3>1. disk[j] \in Record
      BY <2>1, <2>2 DEF Absent
    <3>2. woken[j] = [disk[j] EXCEPT !.status = "failed", !.endedAt = clock']
      BY <2>2 DEF Recovered
    <3> QED BY <3>1, <3>2, <1>3 DEF Record, Status, Terminal
  <2>3. CASE disk[j].status # "running"
    BY <2>1, <2>3 DEF Recovered
  <2> QED BY <2>2, <2>3
<1>5. /\ records' \in Snapshot /\ gone \subseteq Jobs
      /\ \A j \in Jobs : records'[j] # woken[j] => records'[j] = Absent
  BY <1>1, <1>4, CleanupFacts DEF TerminalIn
<1>6. Unused(woken, nextId') /\ Unused(records', nextId') /\ Unused(disk', nextId')
  <2>1. Unused(disk, nextId) /\ nextId' = nextId
    BY <1>2 DEF JobInv, Fresh
  <2>2. Unused(woken, nextId)
    BY <2>1 DEF Recovered, Unused, Absent
  <2> QED BY <1>2, <1>5, <2>1, <2>2 DEF Unused
<1>7. first \in Link /\ last \in Link
  BY <1>4, <1>5 DEF Link, Waiters, Nobody
<1> DEFINE a == IF woken # disk THEN <<first>> ELSE <<>>
           b == IF gone # {} THEN <<last>> ELSE <<>>
<1>8. a \in Seq({first, last}) /\ b \in Seq({first, last}) /\ writeChain' = a \o b
  <2>1. writeChain' = a \o b
    BY <1>1
  <2> HIDE DEF first, last, woken, gone
  <2>2. /\ <<>> \in Seq({first, last})
        /\ <<first>> \in Seq({first, last}) /\ <<last>> \in Seq({first, last})
    BY SingletonFacts
  <2>3. a \in Seq({first, last}) /\ b \in Seq({first, last})
    BY <2>2
  <2> QED BY <2>1, <2>3
<1>9. /\ writeChain' \in Seq(Link)
      /\ \A i \in 1 .. Len(writeChain') : writeChain'[i] \in {first, last}
  <2>1. a \in Seq(Link) /\ b \in Seq(Link)
    BY <1>7
  <2> HIDE DEF a, b, first, last
  <2> QED BY <1>8, <2>1, ConcatFacts
<1>10. \A i \in 1 .. Len(writeChain') : writeChain'[i].waiter = Nobody
  BY <1>9
<1>11. ChainInv' /\ OneLink'
  BY <1>10 DEF ChainInv, OneLink, Awaited, Awaiting, Nobody
<1>12. \A i \in 1 .. Len(writeChain') : Unused(writeChain'[i].snap, nextId')
  BY <1>6, <1>9
<1>13. Fresh'
  BY <1>2, <1>6, <1>12 DEF Fresh
<1>14. DrivenInv'
  BY <1>2, <1>4, <1>5 DEF DrivenInv, Present, RunPhases, Absent
<1>15. ReaderInv'
  BY <1>2 DEF ReaderInv
<1>16. TypeOK'
  <2>1. files' \subseteq Jobs
    BY <1>1 DEF JobInv, TypeOK
  <2>2. /\ disk' \in Snapshot /\ flushed' \in [Jobs -> Nat] /\ nextId' \in 1 .. MaxJobs + 1
        /\ announced' \in [Jobs -> Terminal \cup {"none"}]
        /\ ackedClaim' \subseteq Jobs /\ ackedDelete' \subseteq Jobs
    BY <1>2 DEF JobInv, TypeOK, toldVars
  <2> QED BY <1>2, <1>3, <1>5, <1>9, <2>1, <2>2 DEF TypeOK, Link
<1> QED BY <1>11, <1>13, <1>14, <1>15, <1>16 DEF JobInv

LEMMA InitJobInv == Init => JobInv
<1> SUFFICES ASSUME Init PROVE JobInv
  OBVIOUS
<1>1. nextId \in 1 .. MaxJobs + 1
  BY ModelJobsAssumption DEF Init
<1>2. TypeOK
  BY <1>1 DEF Init, TypeOK, Snapshot
<1> QED
  BY <1>2 DEF Init, JobInv, DrivenInv, Present, RunPhases, Absent, ChainInv, OneLink, ReaderInv,
     Fresh, Unused

LEMMA NextJobInv == JobInv /\ [Next]_vars => JobInv'
<1> SUFFICES ASSUME JobInv, [Next]_vars PROVE JobInv'
  OBVIOUS
<1>1. ASSUME NEW c \in Chats, NEW recoverable \in BOOLEAN,
             CreateJob(c, recoverable) \/ CreateThrows(c, recoverable)
      PROVE  JobInv'
  BY <1>1, CreateStep, ThrowStep
<1>2. ASSUME NEW j \in Jobs, RunJob(j)
      PROVE  JobInv'
  BY <1>2, RunStep, AnswerStep, SettleStep DEF RunJob
<1>3. ASSUME NEW j \in Jobs, ClaimJob(j) \/ AbortJob(j) \/ DeleteJob(j) \/ Unlinked(j)
      PROVE  JobInv'
  BY <1>3, ClaimStep, AbortStep, DeleteStep, UnlinkedStep
<1>4. ASSUME NEW r \in Readers,
             (\E j \in Jobs : StreamStart(r, j)) \/ StreamJob(r) \/ StreamClosed(r)
      PROVE  JobInv'
  BY <1>4, ReaderStep
<1>5. CASE WriteIndex \/ Cleanup \/ Close \/ Restart
  BY <1>5, WriteStep, CleanupStep, AbortStep, RestartStep
<1>6. CASE UNCHANGED vars
  <2>1. UNCHANGED NotReaders /\ UNCHANGED readerVars
    BY <1>6 DEF vars, NotReaders
  <2> QED
    BY <2>1 DEF JobInv, TypeOK, DrivenInv, Present, ChainInv, OneLink, Awaited, ReaderInv, Fresh,
       Unused, NotReaders, readerVars, jobVars, fileVars, boundVars, toldVars
<1> QED BY <1>1, <1>2, <1>3, <1>4, <1>5, <1>6 DEF Next

\* Every variable keeps its type in every reachable state (modelJobs.ts: the index,
\* the chain of writes, the jobs in flight and the open streams).
THEOREM Typing == Spec => []TypeOK
<1>1. JobInv => TypeOK
  BY DEF JobInv
<1> QED BY InitJobInv, NextJobInv, <1>1, PTL DEF Spec

\* A record is "running" exactly while a runJob drives it, through any number of
\* crashes and failing writes.  Only a row whose creation threw is running without
\* one (it blocks its chat), and no restart leaves such a row.
THEOREM RunningIsDriven == Spec => []RunningHasDriver
<1>1. JobInv => RunningHasDriver
  BY DEF JobInv, DrivenInv, RunningHasDriver
<1> QED BY InitJobInv, NextJobInv, <1>1, PTL DEF Spec

-----------------------------------------------------------------------------
\* Only createJob makes a generation live; every other step keeps or ends live ones.
LEMMA OnlyCreateMakesLive ==
  ASSUME JobInv, [Next]_vars,
         ~ \E c \in Chats, recoverable \in BOOLEAN :
             CreateJob(c, recoverable) \/ CreateThrows(c, recoverable),
         NEW j \in Jobs, LiveGeneration(j)'
  PROVE  LiveGeneration(j) /\ records'[j].chat = records[j].chat
<1>1. TypeOK
  BY DEF JobInv
<1>2. CASE records' = records /\ \A k \in Jobs : aborted[k] => aborted'[k]
  BY <1>2 DEF LiveGeneration
<1>3. ASSUME NEW k \in Jobs, RunJob(k)
      PROVE  LiveGeneration(j) /\ records'[j].chat = records[j].chat
  <2>1. CASE UpstreamAnswers(k)
    <3>1. records[k] \in Record
      BY <2>1, RecordFacts DEF UpstreamAnswers, RunPhases, Status
    <3> QED BY <1>1, <2>1, <3>1 DEF UpstreamAnswers, LiveGeneration, TypeOK, Snapshot, Record
  <2>2. CASE Settle(k)
    <3>1. records[k] \in Record
      BY <2>2, RecordFacts DEF Settle, RunPhases, Status
    <3>2. FinalStatus(k) # "running"
      BY DEF FinalStatus
    <3> QED
      BY <1>1, <2>2, <3>1, <3>2 DEF Settle, LiveGeneration, TypeOK, Snapshot, Record
  <2>3. CASE \/ UpstreamFails(k) \/ Chunk(k) \/ BodyEnds(k) \/ BodyFails(k)
             \/ JournalBreaks(k) \/ Flush(k)
    <3>1. records' = records /\ aborted' = aborted
      BY <2>3 DEF UpstreamFails, Chunk, BodyEnds, BodyFails, JournalBreaks, Flush, Leave, jobVars
    <3> QED BY <3>1, <1>2
  <2> QED BY <1>3, <2>1, <2>2, <2>3 DEF RunJob
<1>4. ASSUME NEW k \in Jobs, ClaimJob(k) \/ AbortJob(k) \/ DeleteJob(k) \/ Unlinked(k)
      PROVE  LiveGeneration(j) /\ records'[j].chat = records[j].chat
  <2>1. CASE ClaimJob(k)
    <3>1. records[k] \in Record
      BY <2>1, RecordFacts DEF ClaimJob, Present
    <3> QED
      BY <1>1, <2>1, <3>1 DEF ClaimJob, LiveGeneration, TypeOK, Snapshot, Record, jobVars
  <2>2. CASE DeleteJob(k)
    BY <1>1, <2>2 DEF DeleteJob, LiveGeneration, TypeOK, Snapshot, Absent, jobVars
  <2>3. CASE AbortJob(k) \/ Unlinked(k)
    <3>1. aborted \in [Jobs -> BOOLEAN]
      BY <1>1 DEF TypeOK
    <3>2. CASE AbortJob(k)
      BY <1>2, <3>1, <3>2 DEF AbortJob
    <3>3. CASE Unlinked(k)
      BY <1>2, <3>3 DEF Unlinked, jobVars
    <3> QED BY <2>3, <3>2, <3>3
  <2> QED BY <1>4, <2>1, <2>2, <2>3
<1>5. ASSUME NEW r \in Readers,
             (\E k \in Jobs : StreamStart(r, k)) \/ StreamJob(r) \/ StreamClosed(r)
      PROVE  LiveGeneration(j) /\ records'[j].chat = records[j].chat
  <2>1. records' = records /\ aborted' = aborted
    BY <1>5 DEF StreamStart, StreamJob, StreamPoll, StreamOpen, StreamRead, StreamGot,
       StreamWake, StreamClosed, NotReaders, jobVars
  <2> QED BY <2>1, <1>2
<1>6. CASE WriteIndex \/ Close
  <2>1. records' = records /\ \A i \in Jobs : aborted[i] => aborted'[i]
    BY <1>1, <1>6 DEF WriteIndex, Close, TypeOK
  <2> QED BY <2>1, <1>2
<1>7. CASE Cleanup
  <2>1. aborted' = aborted /\ \E cutoff \in 0 .. clock + 1 :
          records' = Drop(records, CleanupIds(records, cutoff))
    BY <1>7 DEF Cleanup, jobVars
  <2> QED BY <2>1 DEF Drop, LiveGeneration, Absent
<1>8. CASE Restart
  <2>1. DrivenInv' /\ pc'[j] = "idle" /\ unmade' = {}
    BY <1>8, RestartStep DEF JobInv, Restart
  <2> QED BY <2>1 DEF DrivenInv, Present, RunPhases, LiveGeneration
<1>9. CASE UNCHANGED vars
  BY <1>9, <1>2 DEF vars, jobVars
<1> QED BY <1>3, <1>4, <1>5, <1>6, <1>7, <1>8, <1>9 DEF Next

\* createJob's 409 works as a lock on the chat: two recoverable generations of one
\* chat are never both running and wanted.  The lock survives a crash because no
\* record is running after one.
THEOREM OneLive == Spec => []OneLiveGeneration
<1>1. Init => OneLiveGeneration
  BY DEF Init, OneLiveGeneration, LiveGeneration, Absent
<1>2. JobInv /\ OneLiveGeneration /\ [Next]_vars => OneLiveGeneration'
  <2> SUFFICES ASSUME JobInv, OneLiveGeneration, [Next]_vars,
                      NEW j \in Jobs, NEW k \in Jobs,
                      LiveGeneration(j)', LiveGeneration(k)', records'[j].chat = records'[k].chat
               PROVE  j = k
    BY DEF OneLiveGeneration
  <2>1. CASE ~ \E c \in Chats, recoverable \in BOOLEAN :
                  CreateJob(c, recoverable) \/ CreateThrows(c, recoverable)
    BY <2>1, OnlyCreateMakesLive DEF OneLiveGeneration
  <2>2. ASSUME NEW c \in Chats, NEW recoverable \in BOOLEAN,
               CreateJob(c, recoverable) \/ CreateThrows(c, recoverable)
        PROVE  j = k
    <3>1. PICK n \in Jobs :
            /\ n = nextId /\ aborted' = aborted
            /\ records'[n].chat = c /\ records'[n].recoverable = recoverable
            /\ \A i \in Jobs : i # n => records'[i] = records[i]
            /\ recoverable => ~Busy(c)
      <4>1. nextId \in Jobs /\ records \in [Jobs -> Record \cup {Absent}]
        BY <2>2, ModelJobsAssumption DEF CreateJob, CreateThrows, JobInv, TypeOK, Snapshot, Jobs
      <4>2. /\ aborted' = aborted /\ (recoverable => ~Busy(c))
            /\ records' = [records EXCEPT ![nextId] = NewRecord(c, recoverable)]
        BY <2>2 DEF CreateJob, CreateThrows, jobVars
      <4>3. NewRecord(c, recoverable).chat = c /\ NewRecord(c, recoverable).recoverable = recoverable
        BY DEF NewRecord
      <4> QED BY <4>1, <4>2, <4>3
    <3>2. \A i \in Jobs : LiveGeneration(i) => Present(i) /\ IsRunningModelJobActive(i)
      BY DEF LiveGeneration, IsRunningModelJobActive, Present, Absent
    <3>3. \A i \in Jobs : i # n /\ LiveGeneration(i)' => LiveGeneration(i)
      BY <3>1 DEF LiveGeneration
    <3>4. ASSUME NEW i \in Jobs, LiveGeneration(i)', LiveGeneration(n)',
                 records'[i].chat = records'[n].chat
          PROVE  i = n
      <4> SUFFICES ASSUME i # n PROVE FALSE
        OBVIOUS
      <4>1. recoverable
        BY <3>1, <3>4 DEF LiveGeneration
      <4>2. LiveGeneration(i) /\ records[i].chat = c
        BY <3>1, <3>3, <3>4
      <4> QED BY <3>1, <3>2, <4>1, <4>2 DEF Busy
    <3>5. CASE j = n \/ k = n
      BY <3>4, <3>5
    <3>6. CASE j # n /\ k # n
      BY <3>1, <3>3, <3>6 DEF OneLiveGeneration
    <3> QED BY <3>5, <3>6
  <2> QED BY <2>1, <2>2
<1> QED BY InitJobInv, NextJobInv, <1>1, <1>2, PTL DEF Spec

-----------------------------------------------------------------------------
(* Streams.                                                                 *)

\* What a reader knows of the job it reads: once it saw the job gone, its journal is
\* complete, and the reader ends only when it has read all of it.
StreamInv ==
  \A r \in Readers :
    /\ rpc[r] # "idle" => rjob[r] < nextId
    /\ rpc[r] = "idle" => ~rsaw[r]
    /\ rsaw[r] => ~Active(rjob[r])
    /\ rpc[r] = "got" /\ rsaw[r] => roff[r] + rgot[r] = flushed[rjob[r]]
    /\ rpc[r] = "ended" => rsaw[r] /\ roff[r] = flushed[rjob[r]]

\* Ids are never taken back.
LEMMA NextIdGrows ==
  ASSUME JobInv, [Next]_vars
  PROVE  nextId' >= nextId
<1>1. nextId \in Int /\ nextId + 1 >= nextId /\ nextId >= nextId
  BY DEF JobInv, TypeOK
<1>2. nextId' \in {nextId, nextId + 1}
  BY DEF Next, vars, CreateJob, CreateThrows, RunJob, UpstreamFails, UpstreamAnswers, Chunk, BodyEnds, BodyFails,
     JournalBreaks, Flush, Settle, Leave, ClaimJob, AbortJob, DeleteJob, Unlinked, StreamStart,
     StreamJob, StreamPoll, StreamOpen, StreamRead, StreamGot, StreamWake, StreamClosed,
     WriteIndex, Cleanup, Close, Restart, NotReaders, boundVars
<1> QED BY <1>1, <1>2

\* A job that has left activeJobs never enters it again, and its journal stands.
LEMMA StaysInactive ==
  ASSUME JobInv, [Next]_vars, NEW j \in Jobs, ~Active(j), j < nextId
  PROVE  pc'[j] = "idle" /\ flushed'[j] = flushed[j] /\ j < nextId'
<1>1. /\ pc \in [Jobs -> RunPhases \cup {"idle", "closing"}] /\ flushed \in [Jobs -> Nat]
      /\ pc[j] = "idle" /\ nextId \in Nat /\ j \in Nat /\ j # nextId /\ j < nextId + 1
  BY DEF JobInv, TypeOK, Active, Jobs
<1>2. ASSUME NEW c \in Chats, NEW b \in BOOLEAN, CreateJob(c, b) \/ CreateThrows(c, b)
      PROVE  pc'[j] = "idle" /\ flushed'[j] = flushed[j] /\ j < nextId'
  BY <1>1, <1>2 DEF CreateJob, CreateThrows, jobVars, fileVars
<1>3. ASSUME NEW k \in Jobs, RunJob(k)
      PROVE  pc'[j] = "idle" /\ flushed'[j] = flushed[j] /\ j < nextId'
  BY <1>1, <1>3
     DEF RunJob, UpstreamFails, UpstreamAnswers, Chunk, BodyEnds, BodyFails, JournalBreaks,
         Flush, Settle, Leave, Active, boundVars, fileVars, jobVars
<1>4. ASSUME NEW k \in Jobs, ClaimJob(k) \/ AbortJob(k) \/ DeleteJob(k) \/ Unlinked(k)
      PROVE  pc'[j] = "idle" /\ flushed'[j] = flushed[j] /\ j < nextId'
  BY <1>1, <1>4 DEF ClaimJob, AbortJob, DeleteJob, Unlinked, boundVars, fileVars, jobVars
<1>5. ASSUME NEW r \in Readers,
             (\E k \in Jobs : StreamStart(r, k)) \/ StreamJob(r) \/ StreamClosed(r)
      PROVE  pc'[j] = "idle" /\ flushed'[j] = flushed[j] /\ j < nextId'
  <2>1. UNCHANGED NotReaders
    BY <1>5 DEF StreamStart, StreamJob, StreamPoll, StreamOpen, StreamRead, StreamGot,
       StreamWake, StreamClosed
  <2> QED BY <1>1, <2>1 DEF NotReaders, boundVars, fileVars, jobVars
<1>6. CASE WriteIndex
  <2> DEFINE w == Head(writeChain).waiter
  <2>1. w.kind = "head" => w.job # j
    <3>1. writeChain \in Seq(Link) /\ writeChain # <<>>
      BY <1>6 DEF WriteIndex, JobInv, TypeOK, Link
    <3>2. Head(writeChain) = writeChain[1] /\ 1 \in 1 .. Len(writeChain)
      BY <3>1, TailFacts
    <3> QED BY <1>1, <3>2 DEF JobInv, ChainInv, Awaited
  <2>2. /\ pc' = IF w.kind = "head" THEN [pc EXCEPT ![w.job] = "body"]
                 ELSE IF w.kind = "end" THEN [pc EXCEPT ![w.job] = "idle"] ELSE pc
        /\ flushed' = flushed /\ nextId' = nextId
    BY <1>6 DEF WriteIndex, fileVars, boundVars
  <2> HIDE DEF w
  <2>3. pc'[j] = "idle"
    BY <1>1, <2>1, <2>2
  <2> QED BY <2>2, <2>3
<1>7. CASE Cleanup
  BY <1>1, <1>7 DEF Cleanup, boundVars, jobVars
<1>8. CASE Close
  BY <1>1, <1>8 DEF Close, boundVars, fileVars
<1>9. CASE Restart
  BY <1>1, <1>9 DEF Restart
<1>10. CASE UNCHANGED vars
  BY <1>1, <1>10 DEF vars, boundVars, fileVars, jobVars
<1> HIDE DEF Next
<1>11. Next \/ UNCHANGED vars
  OBVIOUS
<1>12. CASE Next
  BY <1>2, <1>3, <1>4, <1>5, <1>6, <1>7, <1>8, <1>9, <1>12 DEF Next
<1> QED BY <1>10, <1>11, <1>12

\* Every other step leaves the readers alone, or takes them all away.
LEMMA OthersKeepStreams ==
  ASSUME JobInv, StreamInv, [Next]_vars, UNCHANGED readerVars
  PROVE  StreamInv'
<1> SUFFICES ASSUME NEW r \in Readers
             PROVE  /\ rpc'[r] # "idle" => rjob'[r] < nextId'
                    /\ rpc'[r] = "idle" => ~rsaw'[r]
                    /\ rsaw'[r] => ~Active(rjob[r])'
                    /\ rpc'[r] = "got" /\ rsaw'[r] => roff'[r] + rgot'[r] = flushed'[rjob'[r]]
                    /\ rpc'[r] = "ended" => rsaw'[r] /\ roff'[r] = flushed'[rjob'[r]]
  BY DEF StreamInv
<1>1. UNCHANGED <<rpc, rjob, roff, rgot, rsaw>>
  BY DEF readerVars
<1>2. /\ rpc[r] # "idle" => rjob[r] \in Jobs /\ rjob[r] < nextId
      /\ rpc[r] = "idle" => ~rsaw[r]
      /\ rsaw[r] => ~Active(rjob[r])
      /\ rpc[r] = "got" /\ rsaw[r] => roff[r] + rgot[r] = flushed[rjob[r]]
      /\ rpc[r] = "ended" => rsaw[r] /\ roff[r] = flushed[rjob[r]]
  BY DEF StreamInv, JobInv, ReaderInv
<1>3. ASSUME NEW k \in Jobs, k = rjob[r], rsaw[r]
      PROVE  pc'[k] = "idle" /\ flushed'[k] = flushed[k]
  BY <1>2, <1>3, StaysInactive
<1>4. rpc[r] # "idle" => rjob[r] < nextId'
  <2>1. nextId \in Nat /\ nextId' \in Nat /\ nextId' >= nextId
    <3>1. JobInv' /\ nextId' >= nextId
      BY NextIdGrows, NextJobInv
    <3> QED BY <3>1 DEF JobInv, TypeOK
  <2> QED BY <1>2, <2>1 DEF Jobs
<1>5. Active(rjob[r])' <=> pc'[rjob[r]] # "idle"
  BY <1>1 DEF Active
<1> QED BY <1>1, <1>2, <1>3, <1>4, <1>5 DEF Active

LEMMA ReaderKeepsStreams ==
  ASSUME JobInv, StreamInv, NEW r \in Readers,
         (\E j \in Jobs : StreamStart(r, j)) \/ StreamJob(r) \/ StreamClosed(r)
  PROVE  StreamInv'
<1>1. UNCHANGED NotReaders
  BY DEF StreamStart, StreamJob, StreamPoll, StreamOpen, StreamRead, StreamGot, StreamWake,
         StreamClosed
<1>2. pc' = pc /\ flushed' = flushed /\ nextId' = nextId
  BY <1>1 DEF NotReaders, jobVars, fileVars, boundVars
<1>3. ReaderTypes /\ flushed \in [Jobs -> Nat]
  BY DEF JobInv, TypeOK, ReaderTypes
<1> DEFINE Streams == \A q \in Readers :
      /\ rpc[q] # "idle" => rjob[q] < nextId
      /\ rpc[q] = "idle" => ~rsaw[q]
      /\ rsaw[q] => pc[rjob[q]] = "idle"
      /\ rpc[q] = "got" /\ rsaw[q] => roff[q] + rgot[q] = flushed[rjob[q]]
      /\ rpc[q] = "ended" => rsaw[q] /\ roff[q] = flushed[rjob[q]]
<1>4. Streams
  BY DEF StreamInv, Active
<1>5. rpc[r] # "idle" => rjob[r] \in Jobs
  BY DEF JobInv, ReaderInv
<1>6. Streams'
  <2>1. ASSUME NEW j \in Jobs, StreamStart(r, j) PROVE Streams'
    <3>1. j < nextId
      BY <2>1, RecordFacts DEF StreamStart, Present
    <3> QED BY <1>2, <1>3, <1>4, <2>1, <3>1 DEF ReaderTypes, StreamStart, AfterPoll
  <2>2. CASE StreamPoll(r)
    BY <1>2, <1>3, <1>4, <2>2 DEF ReaderTypes, StreamPoll, AfterPoll
  <2>3. CASE StreamOpen(r)
    BY <1>2, <1>3, <1>4, <2>3 DEF ReaderTypes, StreamOpen
  <2>4. CASE StreamRead(r)
    <3>1. rjob[r] \in Jobs /\ flushed[rjob[r]] \in Nat /\ roff[r] \in Nat
      BY <1>3, <1>5, <2>4 DEF ReaderTypes, StreamRead
    <3> QED BY <1>2, <1>3, <1>4, <2>4, <3>1 DEF ReaderTypes, StreamRead
  <2>5. CASE StreamGot(r)
    <3>1. /\ rpc[r] = "got" /\ roff' = [roff EXCEPT ![r] = roff[r] + rgot[r]]
          /\ rgot' = [rgot EXCEPT ![r] = 0] /\ rjob' = rjob
          /\ \/ rpc' = [rpc EXCEPT ![r] = "read"] /\ rsaw' = rsaw
             \/ rgot[r] = 0 /\ rsaw[r] /\ rpc' = [rpc EXCEPT ![r] = "ended"] /\ rsaw' = rsaw
             \/ /\ rpc' = [rpc EXCEPT ![r] = "read"] /\ rsaw' = [rsaw EXCEPT ![r] = TRUE]
                /\ pc[rjob[r]] = "idle"
             \/ rpc' = [rpc EXCEPT ![r] = "tail"] /\ rsaw' = rsaw
      BY <2>5 DEF StreamGot, Active
    <3> QED BY <1>2, <1>3, <1>4, <3>1 DEF ReaderTypes
  <2>6. CASE StreamWake(r)
    BY <1>2, <1>3, <1>4, <2>6 DEF ReaderTypes, StreamWake
  <2>7. CASE StreamClosed(r)
    BY <1>2, <1>3, <1>4, <2>7 DEF ReaderTypes, StreamClosed
  <2> QED BY <2>1, <2>2, <2>3, <2>4, <2>5, <2>6, <2>7 DEF StreamJob
<1> QED BY <1>6 DEF StreamInv, Active

LEMMA StepKeepsStreams ==
  ASSUME JobInv, StreamInv, [Next]_vars
  PROVE  StreamInv'
<1>1. ASSUME NEW r \in Readers,
             (\E j \in Jobs : StreamStart(r, j)) \/ StreamJob(r) \/ StreamClosed(r)
      PROVE  StreamInv'
  BY <1>1, ReaderKeepsStreams
<1>2. CASE Restart
  <2>1. \A r \in Readers : rpc'[r] = "idle" /\ ~rsaw'[r]
    BY <1>2 DEF Restart
  <2> QED BY <2>1 DEF StreamInv
<1>3. ASSUME NEW c \in Chats, NEW b \in BOOLEAN, CreateJob(c, b) \/ CreateThrows(c, b)
      PROVE  UNCHANGED readerVars
  BY <1>3 DEF CreateJob, CreateThrows
<1>4. ASSUME NEW j \in Jobs,
             RunJob(j) \/ ClaimJob(j) \/ AbortJob(j) \/ DeleteJob(j) \/ Unlinked(j)
      PROVE  UNCHANGED readerVars
  BY <1>4 DEF RunJob, UpstreamFails, UpstreamAnswers, Chunk, BodyEnds, BodyFails, JournalBreaks,
     Flush, Settle, Leave, ClaimJob, AbortJob, DeleteJob, Unlinked
<1>5. CASE WriteIndex \/ Cleanup \/ Close \/ UNCHANGED vars
  BY <1>5, OthersKeepStreams DEF WriteIndex, Cleanup, Close, vars
<1>6. UNCHANGED readerVars => StreamInv'
  BY OthersKeepStreams
<1> QED BY <1>1, <1>2, <1>3, <1>4, <1>5, <1>6 DEF Next

\* A replay that ends normally has delivered the whole journal of a job that no longer
\* writes, for any number of readers, jobs and chunks (streamJob's last read after the
\* job left activeJobs).
THEOREM StreamsEndComplete == Spec => []StreamComplete
<1>1. Init => StreamInv
  BY DEF Init, StreamInv
<1>2. JobInv /\ StreamInv /\ [Next]_vars => StreamInv'
  BY StepKeepsStreams
<1>3. StreamInv => StreamComplete
  BY DEF StreamInv, StreamComplete
<1> QED BY InitJobInv, NextJobInv, <1>1, <1>2, <1>3, PTL DEF Spec

-----------------------------------------------------------------------------
(* What index.json keeps: ModelJobs implements JobLedger, and, when no write *)
(* of index.json fails, what clients were told is on disk and stays there,   *)
(* and index.json converges to the array in memory.                          *)

\* What the row of a job may be followed by: an end is final, a claim stays, and so
\* does what the job was created as.
Follows(x, y) ==
  x # Absent /\ y # Absent =>
    /\ x.status # "running" => y.status = x.status
    /\ x.claimed => y.claimed
    /\ y.recoverable = x.recoverable

\* One array after another, n being the next id: only a new job gets a new row.
Advances(r, s, n) ==
  \A j \in Jobs : Follows(r[j], s[j]) /\ (r[j] = Absent /\ s[j] # Absent => j >= n)

\* Only an ended job is claimed.
Proper(a) == \A j \in Jobs : a[j] # Absent /\ a[j].claimed => a[j].status \in Terminal

\* Version(i) for a disk d, a chain w and an array r.
At(d, w, r, i) == IF i = 0 THEN d ELSE IF i = Len(w) + 1 THEN r ELSE w[i].snap

\* The arrays the disk is going to take are a history of every job: rows follow
\* each other, and a row that is gone stays gone.
InOrder(d, w, r) ==
  /\ \A i, k \in 0 .. Len(w) + 1 : i < k =>
       \A j \in Jobs : Follows(At(d, w, r, i)[j], At(d, w, r, k)[j])
  /\ \A i, k, m \in 0 .. Len(w) + 1 : i < k /\ k < m =>
       \A j \in Jobs : At(d, w, r, i)[j] # Absent /\ At(d, w, r, k)[j] = Absent
                       => At(d, w, r, m)[j] = Absent

AllProper(d, w, r)  == \A i \in 0 .. Len(w) + 1 : Proper(At(d, w, r, i))
NoRow(d, w, r, j)   == \A i \in 0 .. Len(w) + 1 : At(d, w, r, i)[j] = Absent

\* The inductive invariant behind the refinement.
LedgerInv ==
  /\ JobInv
  /\ InOrder(disk, writeChain, records) /\ AllProper(disk, writeChain, records)

-----------------------------------------------------------------------------
(* Operations on such a history.                                            *)

\* A new last array, behind the chain as it is.
LEMMA ReplaceLast ==
  ASSUME NEW d, NEW w \in Seq(Link), NEW r, NEW s, NEW n \in Nat,
         InOrder(d, w, r), AllProper(d, w, r), Advances(r, s, n), Proper(s),
         \A j \in Jobs : j >= n => NoRow(d, w, r, j)
  PROVE  /\ InOrder(d, w, s) /\ AllProper(d, w, s)
         /\ \A j \in Jobs : NoRow(d, w, r, j) /\ j < n => NoRow(d, w, s, j)
<1> DEFINE L == Len(w)
<1>1. L \in Nat
  OBVIOUS
<1>2. /\ \A i \in 0 .. L : At(d, w, s, i) = At(d, w, r, i)
      /\ At(d, w, s, L + 1) = s /\ At(d, w, r, L + 1) = r
  BY <1>1 DEF At
<1>3. \A i \in 0 .. L + 1 : i \in 0 .. L \/ i = L + 1
  BY <1>1
<1>4. \A j \in Jobs, i \in 0 .. L + 1 :
        r[j] = Absent /\ At(d, w, r, i)[j] # Absent => s[j] = Absent
  BY <1>1 DEF Advances, NoRow
<1> HIDE DEF L
<1>5. ASSUME NEW i \in 0 .. L, NEW j \in Jobs
      PROVE  Follows(At(d, w, s, i)[j], s[j])
  <2>1. Follows(At(d, w, r, i)[j], r[j]) /\ i \in 0 .. L + 1 /\ L + 1 \in 0 .. L + 1
    BY <1>1, <1>2 DEF InOrder, L
  <2>2. Follows(r[j], s[j])
    BY DEF Advances
  <2> QED BY <1>2, <1>4, <2>1, <2>2 DEF Follows
<1>6. ASSUME NEW i \in 0 .. L + 1, NEW k \in 0 .. L + 1, i < k, NEW j \in Jobs
      PROVE  Follows(At(d, w, s, i)[j], At(d, w, s, k)[j])
  <2>1. CASE k \in 0 .. L
    BY <1>1, <1>2, <1>3, <1>6, <2>1 DEF InOrder, L
  <2>2. CASE k = L + 1
    BY <1>1, <1>2, <1>3, <1>5, <1>6, <2>2
  <2> QED BY <1>3, <2>1, <2>2
<1>7. ASSUME NEW i \in 0 .. L + 1, NEW k \in 0 .. L + 1, NEW m \in 0 .. L + 1, i < k, k < m,
             NEW j \in Jobs, At(d, w, s, i)[j] # Absent, At(d, w, s, k)[j] = Absent
      PROVE  At(d, w, s, m)[j] = Absent
  <2>1. i \in 0 .. L /\ k \in 0 .. L
    BY <1>1, <1>7
  <2>2. At(d, w, r, m)[j] = Absent
    BY <1>1, <1>2, <1>7, <2>1 DEF InOrder, L
  <2>3. CASE m \in 0 .. L
    BY <1>2, <2>2, <2>3
  <2>4. CASE m = L + 1
    BY <1>2, <1>4, <1>7, <2>1, <2>2, <2>4
  <2> QED BY <1>3, <2>3, <2>4
<1>8. InOrder(d, w, s)
  BY <1>6, <1>7 DEF InOrder, L
<1>9. AllProper(d, w, s)
  BY <1>1, <1>2, <1>3 DEF AllProper, L
<1>10. ASSUME NEW j \in Jobs, NoRow(d, w, r, j), j < n
       PROVE  NoRow(d, w, s, j)
  <2>1. s[j] = Absent
    <3>1. r[j] = Absent
      BY <1>1, <1>2, <1>10 DEF NoRow, L
    <3>2. j \in Int /\ ~(j >= n)
      BY <1>10 DEF Jobs
    <3> QED BY <3>1, <3>2 DEF Advances
  <2> QED BY <1>2, <1>3, <1>10, <2>1 DEF NoRow, L
<1> QED BY <1>8, <1>9, <1>10

\* A link for the array as it is now.
LEMMA LinkLast ==
  ASSUME NEW d, NEW w \in Seq(Link), NEW s, NEW e \in Link, e.snap = s,
         InOrder(d, w, s), AllProper(d, w, s)
  PROVE  /\ InOrder(d, Append(w, e), s) /\ AllProper(d, Append(w, e), s)
         /\ \A j \in Jobs : NoRow(d, w, s, j) => NoRow(d, Append(w, e), s, j)
<1> DEFINE L == Len(w)
           v == Append(w, e)
<1>1. L \in Nat /\ Len(v) = L + 1
      /\ (\A i \in 1 .. L : v[i] = w[i]) /\ v[L + 1] = e
  BY AppendFacts
<1> HIDE DEF v
<1>2. /\ \A i \in 0 .. L + 1 : At(d, v, s, i) = At(d, w, s, i)
      /\ At(d, v, s, L + 2) = s /\ At(d, v, s, L + 1) = s
  <2>1. ASSUME NEW i \in 0 .. L + 1 PROVE At(d, v, s, i) = At(d, w, s, i)
    <3>1. CASE i = 0
      BY <3>1 DEF At
    <3>2. CASE i \in 1 .. L
      BY <1>1, <3>2 DEF At
    <3>3. CASE i = L + 1
      BY <1>1, <3>3 DEF At
    <3> QED BY <1>1, <3>1, <3>2, <3>3
  <2> QED BY <1>1, <2>1 DEF At
<1>3. \A i \in 0 .. Len(v) + 1 : i \in 0 .. L + 1 \/ i = L + 2
  BY <1>1
<1>4. L + 1 \in 0 .. L + 1
  BY <1>1
<1> HIDE DEF L
<1>5. ASSUME NEW i \in 0 .. Len(v) + 1, NEW k \in 0 .. Len(v) + 1, i < k, NEW j \in Jobs
      PROVE  Follows(At(d, v, s, i)[j], At(d, v, s, k)[j])
  <2>1. CASE k \in 0 .. L + 1
    BY <1>1, <1>2, <1>3, <1>5, <2>1 DEF InOrder, L
  <2>2. CASE k = L + 2 /\ i \in 0 .. L
    <3>1. i < L + 1 /\ i \in 0 .. L + 1
      BY <1>1, <2>2
    <3>2. Follows(At(d, w, s, i)[j], At(d, w, s, L + 1)[j])
      BY <1>4, <3>1 DEF InOrder, L
    <3>3. At(d, w, s, L + 1) = s
      BY <1>2, <1>4
    <3> QED BY <1>2, <2>2, <3>1, <3>2, <3>3
  <2>3. CASE k = L + 2 /\ i = L + 1
    BY <1>2, <2>3 DEF Follows
  <2> QED BY <1>1, <1>3, <1>5, <2>1, <2>2, <2>3
<1>6. ASSUME NEW i \in 0 .. Len(v) + 1, NEW k \in 0 .. Len(v) + 1, NEW m \in 0 .. Len(v) + 1,
             i < k, k < m, NEW j \in Jobs,
             At(d, v, s, i)[j] # Absent, At(d, v, s, k)[j] = Absent
      PROVE  At(d, v, s, m)[j] = Absent
  <2>1. i \in 0 .. L + 1 /\ k \in 0 .. L + 1
    BY <1>1, <1>6
  <2>2. CASE m \in 0 .. L + 1
    BY <1>1, <1>2, <1>6, <2>1, <2>2 DEF InOrder, L
  <2>3. CASE m = L + 2 /\ k \in 0 .. L
    <3>1. k < L + 1
      BY <1>1, <2>3
    <3>2. At(d, w, s, L + 1)[j] = Absent
      BY <1>2, <1>4, <1>6, <2>1, <3>1 DEF InOrder, L
    <3>3. At(d, w, s, L + 1) = s
      BY <1>2, <1>4
    <3> QED BY <1>2, <2>3, <3>2, <3>3
  <2>4. CASE m = L + 2 /\ k = L + 1
    BY <1>2, <1>6, <2>4
  <2> QED BY <1>1, <1>3, <2>1, <2>2, <2>3, <2>4
<1>7. InOrder(d, v, s)
  BY <1>5, <1>6 DEF InOrder
<1>8. At(d, w, s, L + 1) = s
  BY <1>2, <1>4
<1>9. AllProper(d, v, s)
  BY <1>2, <1>3, <1>4, <1>8 DEF AllProper, L
<1>10. ASSUME NEW j \in Jobs, NoRow(d, w, s, j) PROVE NoRow(d, v, s, j)
  BY <1>2, <1>3, <1>4, <1>8, <1>10 DEF NoRow, L
<1> QED BY <1>7, <1>9, <1>10 DEF v

\* The oldest link is done with, having reached the disk or not.
LEMMA LandLink ==
  ASSUME NEW d, NEW w \in Seq(Link), NEW r, w # <<>>, NEW x \in {d, w[1].snap},
         InOrder(d, w, r), AllProper(d, w, r)
  PROVE  /\ InOrder(x, Tail(w), r) /\ AllProper(x, Tail(w), r)
         /\ \A j \in Jobs : NoRow(d, w, r, j) => NoRow(x, Tail(w), r, j)
         /\ \A j \in Jobs : d[j] # Absent => Follows(d[j], x[j])
         /\ \A j \in Jobs : d[j] # Absent /\ x[j] = Absent => NoRow(x, Tail(w), r, j)
<1> DEFINE L == Len(w)
           v == Tail(w)
<1>1. L \in Nat \ {0} /\ Len(v) = L - 1 /\ \A i \in 1 .. L - 1 : v[i] = w[i + 1]
  BY TailFacts
<1> HIDE DEF v
<1> DEFINE z == IF x = d THEN 0 ELSE 1
           Old(i) == IF i = 0 THEN z ELSE i + 1
<1>2. ASSUME NEW i \in 0 .. L
      PROVE  /\ Old(i) \in 0 .. L + 1 /\ At(x, v, r, i) = At(d, w, r, Old(i))
             /\ \A k \in 0 .. L : i < k => Old(i) < Old(k)
  <2>1. Old(i) \in 0 .. L + 1 /\ \A k \in 0 .. L : i < k => Old(i) < Old(k)
    BY <1>1
  <2>2. CASE i = 0
    BY <1>1, <2>2 DEF At
  <2>3. CASE i \in 1 .. L - 1
    <3>1. At(x, v, r, i) = v[i].snap
      BY <1>1, <2>3 DEF At
    <3>2. At(d, w, r, i + 1) = w[i + 1].snap
      BY <1>1, <2>3 DEF At
    <3> QED BY <1>1, <2>1, <2>3, <3>1, <3>2
  <2>4. CASE i = L
    BY <1>1, <2>1, <2>4 DEF At
  <2> QED BY <1>1, <2>1, <2>2, <2>3, <2>4
<1>3. Len(v) + 1 = L /\ L + 1 \in 0 .. L + 1 /\ 0 \in 0 .. L
  BY <1>1
<1>4. \A k \in 0 .. L : k > 0 => Old(k) > 0 /\ Old(k) > Old(0)
  BY <1>1
<1>5. At(d, w, r, 0) = d /\ At(x, v, r, 0) = x
  BY DEF At
<1> HIDE DEF L, Old, z
<1>6. InOrder(x, v, r)
  <2>1. ASSUME NEW i \in 0 .. L, NEW k \in 0 .. L, i < k, NEW j \in Jobs
        PROVE  Follows(At(x, v, r, i)[j], At(x, v, r, k)[j])
    BY <1>2, <2>1 DEF InOrder, L
  <2>2. ASSUME NEW i \in 0 .. L, NEW k \in 0 .. L, NEW m \in 0 .. L, i < k, k < m, NEW j \in Jobs,
               At(x, v, r, i)[j] # Absent, At(x, v, r, k)[j] = Absent
        PROVE  At(x, v, r, m)[j] = Absent
    <3>1. /\ Old(i) \in 0 .. L + 1 /\ Old(k) \in 0 .. L + 1 /\ Old(m) \in 0 .. L + 1
          /\ Old(i) < Old(k) /\ Old(k) < Old(m)
      BY <1>2, <2>2
    <3>2. /\ At(d, w, r, Old(i))[j] # Absent /\ At(d, w, r, Old(k))[j] = Absent
          /\ At(x, v, r, m) = At(d, w, r, Old(m))
      BY <1>2, <2>2
    <3> QED BY <3>1, <3>2 DEF InOrder, L
  <2> QED BY <1>3, <2>1, <2>2 DEF InOrder
<1>7. AllProper(x, v, r)
  BY <1>2, <1>3 DEF AllProper, L
<1>8. ASSUME NEW j \in Jobs, NoRow(d, w, r, j) PROVE NoRow(x, v, r, j)
  BY <1>2, <1>3, <1>8 DEF NoRow, L
<1>9. ASSUME NEW j \in Jobs, d[j] # Absent, x # d
      PROVE  /\ Follows(d[j], x[j])
             /\ x[j] = Absent => NoRow(x, v, r, j)
  <2>1. Old(0) = 1 /\ 1 \in 0 .. L + 1 /\ 0 \in 0 .. L + 1 /\ At(d, w, r, 1) = x
    BY <1>1, <1>2, <1>3, <1>5, <1>9 DEF Old, z
  <2>2. Follows(d[j], x[j])
    BY <1>5, <2>1 DEF InOrder, L
  <2>3. ASSUME x[j] = Absent, NEW k \in 0 .. L
        PROVE  At(x, v, r, k)[j] = Absent
    <3>1. CASE k = 0
      BY <1>5, <2>3, <3>1
    <3>2. CASE k > 0
      <4>1. Old(k) \in 0 .. L + 1 /\ Old(k) > 1 /\ At(x, v, r, k) = At(d, w, r, Old(k))
        BY <1>2, <1>4, <2>1, <3>2
      <4>2. At(d, w, r, 0)[j] # Absent /\ At(d, w, r, 1)[j] = Absent
        BY <1>5, <1>9, <2>1, <2>3
      <4> QED BY <2>1, <4>1, <4>2 DEF InOrder, L
    <3> QED BY <1>1, <3>1, <3>2
  <2> QED BY <1>3, <2>2, <2>3 DEF NoRow
<1>10. \A j \in Jobs : Follows(d[j], d[j])
  BY DEF Follows
<1> QED BY <1>6, <1>7, <1>8, <1>9, <1>10 DEF v

-----------------------------------------------------------------------------
(* What the actions do to disk, chain and array.                            *)

Moves(r, s, n) == Advances(r, s, n) /\ Proper(s)

LEMMA SameMoves ==
  ASSUME NEW r, NEW n, Proper(r)
  PROVE  Moves(r, r, n)
BY DEF Moves, Advances, Follows

\* One record changes, keeping its end and its claim.
LEMMA OneMoves ==
  ASSUME NEW r \in Snapshot, NEW n, NEW j \in Jobs, NEW x \in Record \cup {Absent},
         Proper(r), Follows(r[j], x), r[j] = Absent => x = Absent \/ j >= n,
         x # Absent /\ x.claimed => x.status \in Terminal
  PROVE  Moves(r, [r EXCEPT ![j] = x], n)
<1> DEFINE s == [r EXCEPT ![j] = x]
<1>1. s[j] = x /\ \A k \in Jobs : k # j => s[k] = r[k]
  BY DEF Snapshot
<1> HIDE DEF s
<1>2. \A k \in Jobs : Follows(r[k], r[k])
  BY DEF Follows
<1>3. Advances(r, s, n)
  BY <1>1, <1>2 DEF Advances
<1>4. Proper(s)
  BY <1>1 DEF Proper
<1> QED BY <1>3, <1>4 DEF Moves, s

LEMMA DropMoves ==
  ASSUME NEW r \in Snapshot, NEW s, NEW n, Proper(r),
         \A j \in Jobs : s[j] # r[j] => s[j] = Absent
  PROVE  Moves(r, s, n)
<1>1. ASSUME NEW j \in Jobs
      PROVE  Follows(r[j], s[j]) /\ (r[j] = Absent => s[j] = Absent)
  BY DEF Follows
<1>2. Advances(r, s, n)
  BY <1>1 DEF Advances
<1>3. Proper(s)
  BY DEF Proper
<1> QED BY <1>2, <1>3 DEF Moves

\* A persist(): the array changes and a link for it joins the chain; the code
\* that awaits it is the claim or delete that made the link.
Persists ==
  /\ disk' = disk /\ Moves(records, records', nextId) /\ UNCHANGED toldVars
  /\ unlinking' \subseteq unlinking
  /\ \E w \in Waiters :
       /\ writeChain' = Persist(records', w)
       /\ w.kind = "claim" => w.job \in Jobs /\ ClaimJob(w.job)
       /\ w.kind = "delete" => w.job \in Jobs /\ Unlinked(w.job)

\* A step that persists nothing.
Leaves ==
  /\ disk' = disk /\ writeChain' = writeChain /\ UNCHANGED toldVars
  /\ Moves(records, records', nextId)
  /\ \/ UNCHANGED <<records, unlinking, unmade>>
     \/ \E j \in Jobs : DeleteJob(j)
     \/ \E c \in Chats, rec \in BOOLEAN : CreateThrows(c, rec)

LEMMA CreatePersists ==
  ASSUME JobInv, Proper(records), NEW c \in Chats, NEW rec \in BOOLEAN, CreateJob(c, rec)
  PROVE  Persists
<1> DEFINE x == NewRecord(c, rec)
<1>1. nextId \in Jobs /\ records[nextId] = Absent /\ nextId >= nextId /\ records \in Snapshot
  BY DEF JobInv, TypeOK, CreateJob, Fresh, Unused, Jobs
<1>2. x \in Record /\ Follows(Absent, x) /\ ~x.claimed
  BY DEF NewRecord, Record, Status, Follows
<1>3. records' = [records EXCEPT ![nextId] = x]
  BY DEF CreateJob
<1> HIDE DEF x
<1>4. Moves(records, records', nextId)
  BY <1>1, <1>2, <1>3, OneMoves
<1>5. /\ disk' = disk /\ UNCHANGED toldVars /\ unlinking' \subseteq unlinking
      /\ writeChain' = Persist(records', Nobody) /\ Nobody \in Waiters /\ Nobody.kind = "none"
  BY DEF CreateJob, Nobody, Waiters
<1> QED BY <1>4, <1>5 DEF Persists

LEMMA AnswerPersists ==
  ASSUME JobInv, Proper(records), NEW j \in Jobs, UpstreamAnswers(j)
  PROVE  Persists
<1>1. /\ records[j] \in Record /\ records[j].status = "running" /\ records \in Snapshot
      /\ ~records[j].claimed /\ records[j] # Absent
  BY RecordFacts, "running" \notin Terminal, records[j].status \in Status
     DEF UpstreamAnswers, RunPhases, Status, JobInv, TypeOK, Proper, Absent, Terminal
<1> DEFINE x == [records[j] EXCEPT !.upstream = TRUE]
<1>2. x \in Record /\ Follows(records[j], x) /\ ~x.claimed
  BY <1>1 DEF Record, Follows
<1>3. records' = [records EXCEPT ![j] = x]
  BY <1>1 DEF UpstreamAnswers, Snapshot
<1> HIDE DEF x
<1>4. Moves(records, records', nextId)
  BY <1>1, <1>2, <1>3, OneMoves
<1>5. /\ disk' = disk /\ UNCHANGED toldVars /\ unlinking' \subseteq unlinking
      /\ writeChain' = Persist(records', Waiter("head", j))
      /\ Waiter("head", j) \in Waiters /\ Waiter("head", j).kind = "head"
  BY DEF UpstreamAnswers, Waiter, Waiters
<1> QED BY <1>4, <1>5 DEF Persists

LEMMA SettlePersists ==
  ASSUME JobInv, Proper(records), NEW j \in Jobs, Settle(j)
  PROVE  Persists
<1>1. /\ records[j] \in Record /\ records[j].status = "running" /\ records \in Snapshot
      /\ ~records[j].claimed /\ records[j] # Absent
  <2>1. pc[j] \in RunPhases /\ records \in Snapshot
    BY DEF Settle, RunPhases, JobInv, TypeOK
  <2>2. records[j].status = "running"
    BY <2>1, RecordFacts
  <2>3. records[j] \in Record /\ records[j] # Absent
    BY <2>2, RecordFacts DEF Status, Absent
  <2>4. ~records[j].claimed
    BY <2>2, <2>3 DEF Proper, Terminal, Record
  <2> QED BY <2>1, <2>2, <2>3, <2>4
<1> DEFINE x == [records[j] EXCEPT !.status = FinalStatus(j), !.endedAt = clock', !.bytes = sent[j]]
<1>2. FinalStatus(j) \in Terminal /\ clock' \in Nat /\ sent[j] \in Nat
  BY DEF FinalStatus, Terminal, JobInv, TypeOK, Settle
<1>3. x \in Record /\ Follows(records[j], x) /\ x.status \in Terminal
  BY <1>1, <1>2 DEF Record, Follows, Status
<1>4. records' = [records EXCEPT ![j] = x]
  BY <1>1 DEF Settle, Snapshot
<1> HIDE DEF x
<1>5. Moves(records, records', nextId)
  BY <1>1, <1>3, <1>4, OneMoves
<1>6. /\ disk' = disk /\ UNCHANGED toldVars /\ unlinking' \subseteq unlinking
      /\ writeChain' = Persist(records', Waiter("end", j))
      /\ Waiter("end", j) \in Waiters /\ Waiter("end", j).kind = "end"
  BY DEF Settle, Waiter, Waiters
<1> QED BY <1>5, <1>6 DEF Persists

LEMMA ClaimPersists ==
  ASSUME JobInv, Proper(records), NEW j \in Jobs, ClaimJob(j)
  PROVE  Persists
<1>1. records[j] \in Record /\ records[j] # Absent /\ records \in Snapshot
      /\ records[j].status \in Terminal
  BY RecordFacts DEF ClaimJob, Present, JobInv, TypeOK
<1> DEFINE x == [records[j] EXCEPT !.claimed = TRUE]
<1>2. x \in Record /\ Follows(records[j], x) /\ x.status \in Terminal
  BY <1>1 DEF Record, Follows, Status
<1>3. records' = [records EXCEPT ![j] = x]
  BY <1>1 DEF ClaimJob, Snapshot
<1> HIDE DEF x
<1>4. Moves(records, records', nextId)
  BY <1>1, <1>2, <1>3, OneMoves
<1>5. /\ disk' = disk /\ UNCHANGED toldVars /\ unlinking' \subseteq unlinking
      /\ writeChain' = Persist(records', Waiter("claim", j))
      /\ Waiter("claim", j) \in Waiters /\ Waiter("claim", j).kind = "claim"
      /\ Waiter("claim", j).job = j
  BY DEF ClaimJob, Waiter, Waiters
<1> QED BY <1>4, <1>5 DEF Persists

LEMMA UnlinkedPersists ==
  ASSUME JobInv, Proper(records), NEW j \in Jobs, Unlinked(j)
  PROVE  Persists
<1>1. records' = records /\ Moves(records, records', nextId)
  BY SameMoves DEF Unlinked
<1>2. /\ disk' = disk /\ UNCHANGED toldVars /\ unlinking' \subseteq unlinking
      /\ writeChain' = Persist(records', Waiter("delete", j))
      /\ Waiter("delete", j) \in Waiters /\ Waiter("delete", j).kind = "delete"
      /\ Waiter("delete", j).job = j
  BY DEF Unlinked, Waiter, Waiters
<1> QED BY <1>1, <1>2 DEF Persists

LEMMA CleanupPersists ==
  ASSUME JobInv, Proper(records), Cleanup
  PROVE  Persists
<1>1. PICK cutoff : records' = Drop(records, CleanupIds(records, cutoff))
  BY DEF Cleanup
<1>2. records \in Snapshot
  BY DEF JobInv, TypeOK
<1>3. Moves(records, records', nextId)
  BY <1>1, <1>2, CleanupFacts, DropMoves
<1>4. /\ disk' = disk /\ UNCHANGED toldVars /\ unlinking' \subseteq unlinking
      /\ writeChain' = Persist(records', Nobody) /\ Nobody \in Waiters /\ Nobody.kind = "none"
  BY DEF Cleanup, Nobody, Waiters
<1> QED BY <1>3, <1>4 DEF Persists

LEMMA DeleteLeaves ==
  ASSUME JobInv, Proper(records), NEW j \in Jobs, DeleteJob(j)
  PROVE  Leaves
<1>1. records \in Snapshot /\ \A k \in Jobs : records'[k] # records[k] => records'[k] = Absent
  BY DEF JobInv, TypeOK, Snapshot, DeleteJob
<1>2. Moves(records, records', nextId)
  BY <1>1, DropMoves
<1> QED BY <1>2 DEF Leaves, DeleteJob

LEMMA ThrowLeaves ==
  ASSUME JobInv, Proper(records), NEW c \in Chats, NEW rec \in BOOLEAN, CreateThrows(c, rec)
  PROVE  Leaves
<1> DEFINE x == NewRecord(c, rec)
<1>1. nextId \in Jobs /\ records[nextId] = Absent /\ nextId >= nextId /\ records \in Snapshot
  BY DEF JobInv, TypeOK, CreateThrows, Fresh, Unused, Jobs
<1>2. x \in Record /\ Follows(Absent, x) /\ ~x.claimed
  BY DEF NewRecord, Record, Status, Follows
<1>3. records' = [records EXCEPT ![nextId] = x]
  BY DEF CreateThrows
<1> HIDE DEF x
<1>4. Moves(records, records', nextId)
  BY <1>1, <1>2, <1>3, OneMoves
<1> QED BY <1>4 DEF Leaves, CreateThrows

\* Every step but a restart is one of three.
LEMMA StepShape ==
  ASSUME JobInv, Proper(records), [Next]_vars
  PROVE  Persists \/ Leaves \/ WriteIndex \/ Restart
<1>1. ASSUME NEW c \in Chats, NEW recoverable \in BOOLEAN,
             CreateJob(c, recoverable) \/ CreateThrows(c, recoverable)
      PROVE  Persists \/ Leaves
  BY <1>1, CreatePersists, ThrowLeaves
<1>2. CASE UNCHANGED <<disk, writeChain, records, unlinking, unmade, toldVars>>
  BY <1>2, SameMoves DEF Leaves
<1>3. ASSUME NEW j \in Jobs, RunJob(j)
      PROVE  Persists \/ Leaves
  <2>1. CASE UpstreamAnswers(j) \/ Settle(j)
    BY <2>1, AnswerPersists, SettlePersists
  <2>2. CASE \/ UpstreamFails(j) \/ Chunk(j) \/ BodyEnds(j) \/ BodyFails(j)
             \/ JournalBreaks(j) \/ Flush(j)
    <3>1. UNCHANGED <<disk, writeChain, records, unlinking, unmade, toldVars>>
      BY <2>2 DEF UpstreamFails, Chunk, BodyEnds, BodyFails, JournalBreaks, Flush, Leave, boundVars
    <3> QED BY <3>1, SameMoves DEF Leaves
  <2> QED BY <1>3, <2>1, <2>2 DEF RunJob
<1>4. ASSUME NEW j \in Jobs, ClaimJob(j) \/ AbortJob(j) \/ DeleteJob(j) \/ Unlinked(j)
      PROVE  Persists \/ Leaves
  <2>1. CASE AbortJob(j)
    BY <2>1, SameMoves DEF AbortJob, Leaves, boundVars
  <2> QED BY <1>4, <2>1, ClaimPersists, DeleteLeaves, UnlinkedPersists
<1>5. ASSUME NEW r \in Readers,
             (\E j \in Jobs : StreamStart(r, j)) \/ StreamJob(r) \/ StreamClosed(r)
      PROVE  Leaves
  <2>1. UNCHANGED NotReaders
    BY <1>5 DEF StreamStart, StreamJob, StreamPoll, StreamOpen, StreamRead, StreamGot,
       StreamWake, StreamClosed
  <2> QED BY <2>1, SameMoves DEF Leaves, NotReaders, boundVars
<1>6. CASE Close
  BY <1>6, SameMoves DEF Close, Leaves, boundVars
<1>7. CASE Cleanup
  BY <1>7, CleanupPersists
<1>8. CASE UNCHANGED vars
  BY <1>2, <1>8 DEF vars, boundVars
<1> QED BY <1>1, <1>3, <1>4, <1>5, <1>6, <1>7, <1>8 DEF Next

-----------------------------------------------------------------------------
(* The refinement.                                                          *)

\* Nothing has been heard of a job whose id has not been given.
LEMMA UnusedNoRow ==
  ASSUME JobInv, NEW j \in Jobs, j >= nextId
  PROVE  NoRow(disk, writeChain, records, j)
<1>1. Len(writeChain) \in Nat
  BY DEF JobInv, TypeOK
<1>2. \A i \in 0 .. Len(writeChain) + 1 :
        i = 0 \/ i = Len(writeChain) + 1 \/ i \in 1 .. Len(writeChain)
  BY <1>1
<1>3. /\ disk[j] = Absent /\ records[j] = Absent
      /\ \A i \in 1 .. Len(writeChain) : writeChain[i].snap[j] = Absent
  BY DEF JobInv, Fresh, Unused
<1> QED BY <1>2, <1>3 DEF NoRow, At

\* The two ends of the versions.
LEMMA EndsProper ==
  ASSUME LedgerInv
  PROVE  Proper(disk) /\ Proper(records)
<1>1. Len(writeChain) \in Nat
  BY DEF LedgerInv, JobInv, TypeOK
<1>2. 0 \in 0 .. Len(writeChain) + 1 /\ Len(writeChain) + 1 \in 0 .. Len(writeChain) + 1
  BY <1>1
<1>3. /\ At(disk, writeChain, records, 0) = disk
      /\ At(disk, writeChain, records, Len(writeChain) + 1) = records
  BY <1>1 DEF At
<1> QED BY <1>2, <1>3 DEF LedgerInv, AllProper

\* What a step other than a restart does to the versions, and that a restart does
\* the same.
Kept ==
  /\ InOrder(disk', writeChain', records') /\ AllProper(disk', writeChain', records')
  /\ \A j \in Jobs : NoRow(disk, writeChain, records, j) /\ j < nextId
                     => NoRow(disk', writeChain', records', j)
  /\ \A j \in Jobs : disk[j] # Absent =>
       /\ Follows(disk[j], disk'[j])
       /\ disk'[j] = Absent => NoRow(disk', writeChain', records', j)
  /\ \A j \in Jobs : disk[j] = Absent /\ disk'[j] # Absent
                     => ~NoRow(disk, writeChain, records, j)

LEMMA SameDisk ==
  ASSUME disk' = disk, InOrder(disk', writeChain', records'),
         AllProper(disk', writeChain', records'),
         \A j \in Jobs : NoRow(disk, writeChain, records, j) /\ j < nextId
                         => NoRow(disk', writeChain', records', j)
  PROVE  Kept
BY DEF Kept, Follows

LEMMA LeavesKept ==
  ASSUME LedgerInv, Leaves
  PROVE  Kept
<1>1. writeChain \in Seq(Link) /\ nextId \in Nat
  BY DEF LedgerInv, JobInv, TypeOK, Link
<1>2. \A j \in Jobs : j >= nextId => NoRow(disk, writeChain, records, j)
  BY UnusedNoRow DEF LedgerInv
<1>3. /\ InOrder(disk, writeChain, records') /\ AllProper(disk, writeChain, records')
      /\ \A j \in Jobs : NoRow(disk, writeChain, records, j) /\ j < nextId
                         => NoRow(disk, writeChain, records', j)
  BY <1>1, <1>2, ReplaceLast DEF LedgerInv, Leaves, Moves
<1> QED BY <1>3, SameDisk DEF Leaves

LEMMA PersistsKept ==
  ASSUME LedgerInv, JobInv', Persists
  PROVE  Kept
<1>1. writeChain \in Seq(Link) /\ nextId \in Nat /\ records' \in Snapshot
  BY DEF LedgerInv, JobInv, TypeOK, Link
<1>2. \A j \in Jobs : j >= nextId => NoRow(disk, writeChain, records, j)
  BY UnusedNoRow DEF LedgerInv
<1>3. /\ InOrder(disk, writeChain, records') /\ AllProper(disk, writeChain, records')
      /\ \A j \in Jobs : NoRow(disk, writeChain, records, j) /\ j < nextId
                         => NoRow(disk, writeChain, records', j)
  BY <1>1, <1>2, ReplaceLast DEF LedgerInv, Persists, Moves
<1>4. PICK e \in Link : e.snap = records' /\ writeChain' = Append(writeChain, e)
  <2>1. PICK w \in Waiters : writeChain' = Persist(records', w)
    BY DEF Persists
  <2>2. [snap |-> records', waiter |-> w] \in Link
    BY <1>1 DEF Link
  <2> QED BY <2>1, <2>2 DEF Persist
<1>5. /\ InOrder(disk, writeChain', records') /\ AllProper(disk, writeChain', records')
      /\ \A j \in Jobs : NoRow(disk, writeChain, records', j) => NoRow(disk, writeChain', records', j)
  BY <1>1, <1>3, <1>4, LinkLast
<1> QED BY <1>3, <1>5, SameDisk DEF Persists

LEMMA WriteKept ==
  ASSUME LedgerInv, WriteIndex
  PROVE  Kept
<1>1. writeChain \in Seq(Link) /\ writeChain # <<>>
  BY DEF LedgerInv, JobInv, TypeOK, Link, WriteIndex
<1>2. Head(writeChain) = writeChain[1]
  BY <1>1, TailFacts
<1>3. disk' \in {disk, writeChain[1].snap} /\ writeChain' = Tail(writeChain) /\ records' = records
  BY <1>2 DEF WriteIndex
<1>4. /\ InOrder(disk', Tail(writeChain), records) /\ AllProper(disk', Tail(writeChain), records)
      /\ \A j \in Jobs : NoRow(disk, writeChain, records, j) => NoRow(disk', Tail(writeChain), records, j)
      /\ \A j \in Jobs : disk[j] # Absent => Follows(disk[j], disk'[j])
      /\ \A j \in Jobs : disk[j] # Absent /\ disk'[j] = Absent
                         => NoRow(disk', Tail(writeChain), records, j)
  BY <1>1, <1>3, LandLink DEF LedgerInv
<1>5. \A j \in Jobs : disk[j] = Absent /\ disk'[j] # Absent => ~NoRow(disk, writeChain, records, j)
  <2>1. 1 \in 0 .. Len(writeChain) + 1 /\ At(disk, writeChain, records, 1) = writeChain[1].snap
    BY <1>1 DEF At
  <2> QED BY <1>3, <2>1 DEF NoRow
<1> QED BY <1>3, <1>4, <1>5 DEF Kept

\* What startup settles keeps every row, its claim and its end.
LEMMA RecoveredFacts ==
  ASSUME NEW d \in Snapshot, NEW now \in Nat
  PROVE  /\ Recovered(d, now) \in Snapshot
         /\ \A j \in Jobs :
              LET x == Recovered(d, now)[j]
              IN /\ Follows(d[j], x) /\ (d[j] = Absent <=> x = Absent)
                 /\ x # Absent => x.claimed = d[j].claimed
                 /\ x # Absent /\ d[j].status \in Terminal => x.status \in Terminal
<1> DEFINE woken == Recovered(d, now)
<1>1. ASSUME NEW j \in Jobs
      PROVE  /\ woken[j] \in Record \cup {Absent} /\ Follows(d[j], woken[j])
             /\ d[j] = Absent <=> woken[j] = Absent
             /\ woken[j] # Absent => woken[j].claimed = d[j].claimed
             /\ woken[j] # Absent /\ d[j].status \in Terminal => woken[j].status \in Terminal
  <2>1. d[j] \in Record \cup {Absent} /\ Absent.status = "absent"
    BY DEF Snapshot, Absent
  <2>2. CASE d[j].status = "running"
    <3>1. d[j] \in Record
      BY <2>1, <2>2
    <3>2. woken[j] = [d[j] EXCEPT !.status = "failed", !.endedAt = now]
      BY <2>2 DEF Recovered
    <3>3. /\ woken[j] \in Record /\ woken[j].claimed = d[j].claimed
          /\ woken[j].status = "failed" /\ woken[j].recoverable = d[j].recoverable
      BY <3>1, <3>2 DEF Record, Status, Terminal
    <3>4. d[j] # Absent /\ woken[j] # Absent
      BY <2>1, <2>2, <3>3
    <3> HIDE DEF woken
    <3> QED BY <2>2, <3>3, <3>4 DEF Follows, Terminal
  <2>3. CASE d[j].status # "running"
    BY <2>1, <2>3 DEF Recovered, Follows
  <2> QED BY <2>2, <2>3
<1>2. woken = [j \in Jobs |-> woken[j]]
  BY DEF Recovered
<1> HIDE DEF woken
<1>3. woken \in Snapshot
  BY <1>1, <1>2 DEF Snapshot
<1> QED BY <1>1, <1>3 DEF woken

\* A restart is the history of the disk, with a link for what startup settles and
\* one for what retention drops.
LEMMA RestartKept ==
  ASSUME LedgerInv, JobInv', Restart
  PROVE  Kept
<1>1. PICK cutoff \in 0 .. clock' + 1 :
        LET woken == Recovered(disk, clock')
            gone  == CleanupIds(woken, cutoff)
        IN /\ records' = Drop(woken, gone)
           /\ writeChain' = (IF woken # disk THEN <<[snap |-> woken, waiter |-> Nobody]>> ELSE <<>>)
                \o (IF gone # {} THEN <<[snap |-> records', waiter |-> Nobody]>> ELSE <<>>)
  BY DEF Restart
<1> DEFINE woken == Recovered(disk, clock')
           gone  == CleanupIds(woken, cutoff)
           first == [snap |-> woken, waiter |-> Nobody]
           last  == [snap |-> records', waiter |-> Nobody]
           a     == IF woken # disk THEN <<first>> ELSE <<>>
<1>2. disk' = disk /\ disk \in Snapshot /\ records' \in Snapshot /\ nextId \in Nat /\ clock' \in Nat
  BY DEF Restart, LedgerInv, JobInv, TypeOK
<1>3. Proper(disk) /\ InOrder(disk, <<>>, disk) /\ AllProper(disk, <<>>, disk)
  <2>1. Proper(disk)
    BY EndsProper
  <2>2. Len(<<>>) = 0 /\ \A i \in 0 .. 1 : At(disk, <<>>, disk, i) = disk
    BY DEF At
  <2>3. \A j \in Jobs : Follows(disk[j], disk[j])
    BY DEF Follows
  <2> QED BY <2>1, <2>2, <2>3 DEF InOrder, AllProper
<1>4. woken \in Snapshot /\ Moves(disk, woken, nextId)
      /\ \A j \in Jobs : disk[j] = Absent => woken[j] = Absent
  <2>1. /\ woken \in Snapshot
        /\ \A j \in Jobs :
             /\ Follows(disk[j], woken[j]) /\ (disk[j] = Absent <=> woken[j] = Absent)
             /\ woken[j] # Absent => woken[j].claimed = disk[j].claimed
             /\ woken[j] # Absent /\ disk[j].status \in Terminal => woken[j].status \in Terminal
    BY <1>2, RecoveredFacts
  <2> HIDE DEF woken
  <2>4. Advances(disk, woken, nextId)
    BY <2>1 DEF Advances
  <2>5. Proper(woken)
    BY <1>3, <2>1 DEF Proper
  <2> QED BY <2>1, <2>4, <2>5 DEF Moves
<1>5. /\ gone = {} => records' = woken
      /\ \A j \in Jobs : records'[j] # woken[j] => records'[j] = Absent
  <2>1. \A j \in Jobs : records'[j] = IF j \in gone THEN Absent ELSE woken[j]
    BY <1>1 DEF Drop
  <2>2. ASSUME gone = {} PROVE records' = woken
    <3>1. records' = [j \in Jobs |-> IF j \in gone THEN Absent ELSE woken[j]]
      BY <1>1 DEF Drop
    <3> QED BY <1>4, <2>2, <3>1 DEF Snapshot
  <2> QED BY <2>1, <2>2
<1>6. Moves(woken, records', nextId)
  BY <1>4, <1>5, DropMoves DEF Moves
<1>7. first \in Link /\ last \in Link
  BY <1>2, <1>4 DEF Link, Waiters, Nobody
<1>8. writeChain' = a \o (IF gone # {} THEN <<last>> ELSE <<>>)
  BY <1>1
<1>9. /\ a \in Seq(Link) /\ a \o <<>> = a /\ a \o <<last>> = Append(a, last)
      /\ <<first>> = Append(<<>>, first) /\ <<>> \in Seq(Link)
  <2> HIDE DEF first, last
  <2> QED BY <1>7
<1>10. \A j \in Jobs : j >= nextId => NoRow(disk, <<>>, disk, j) /\ woken[j] = Absent
  BY <1>4 DEF LedgerInv, JobInv, TypeOK, Fresh, Unused, NoRow, At
<1>11. InOrder(disk, a, woken) /\ AllProper(disk, a, woken)
  <2>1. InOrder(disk, <<>>, woken) /\ AllProper(disk, <<>>, woken)
    <3> HIDE DEF woken
    <3> QED BY <1>2, <1>3, <1>4, <1>9, <1>10, ReplaceLast DEF Moves
  <2>2. first.snap = woken
    OBVIOUS
  <2> HIDE DEF woken, first
  <2> QED BY <1>7, <1>9, <2>1, <2>2, LinkLast
<1>12. \A j \in Jobs : disk[j] = Absent => NoRow(disk, a, woken, j)
  <2>1. ASSUME NEW j \in Jobs, disk[j] = Absent PROVE NoRow(disk, a, woken, j)
    <3>1. woken[j] = Absent
      BY <1>4, <2>1
    <3>2. first.snap = woken
      OBVIOUS
    <3>3. Len(<<first>>) = 1 /\ <<first>>[1] = first /\ Len(<<>>) = 0
      OBVIOUS
    <3> HIDE DEF woken, first
    <3>4. \A i \in 0 .. 2 : At(disk, <<first>>, woken, i)[j] = Absent
      BY <2>1, <3>1, <3>2, <3>3 DEF At
    <3>5. \A i \in 0 .. 1 : At(disk, <<>>, woken, i)[j] = Absent
      BY <2>1, <3>1, <3>3 DEF At
    <3> QED BY <3>3, <3>4, <3>5 DEF NoRow
  <2> QED BY <2>1
<1>13. \A j \in Jobs : j >= nextId => NoRow(disk, a, woken, j)
  BY <1>10, <1>12 DEF LedgerInv, JobInv, TypeOK, Fresh, Unused
<1>14. /\ InOrder(disk, a, records') /\ AllProper(disk, a, records')
       /\ \A j \in Jobs : NoRow(disk, a, woken, j) /\ j < nextId => NoRow(disk, a, records', j)
  <2> HIDE DEF a, woken
  <2> QED BY <1>2, <1>6, <1>9, <1>11, <1>13, ReplaceLast DEF Moves
<1>15. /\ InOrder(disk, writeChain', records') /\ AllProper(disk, writeChain', records')
       /\ \A j \in Jobs : NoRow(disk, a, records', j) => NoRow(disk, writeChain', records', j)
  <2>1. CASE gone = {}
    <3>1. writeChain' = a
      BY <1>8, <1>9, <2>1
    <3> QED BY <1>14, <3>1
  <2>2. CASE gone # {}
    <3>1. writeChain' = Append(a, last) /\ last.snap = records'
      BY <1>8, <1>9, <2>2
    <3> HIDE DEF a, last
    <3> QED BY <1>7, <1>9, <1>14, <3>1, LinkLast
  <2> QED BY <2>1, <2>2
<1>16. \A j \in Jobs : NoRow(disk, writeChain, records, j) => disk[j] = Absent
  BY DEF LedgerInv, JobInv, TypeOK, NoRow, At
<1> HIDE DEF a, woken
<1> QED BY <1>2, <1>12, <1>14, <1>15, <1>16, SameDisk

LEMMA StepKept ==
  ASSUME LedgerInv, JobInv', [Next]_vars
  PROVE  Kept
<1>1. Proper(records)
  BY EndsProper
<1> QED
  BY <1>1, StepShape, LeavesKept, PersistsKept, WriteKept, RestartKept DEF LedgerInv

LEMMA StageFacts ==
  ASSUME JobInv, NEW j \in Jobs
  PROVE  /\ Stage(j) \in Ledger!Stages
         /\ disk[j] # Absent => Stage(j) = disk[j].status /\ Stage(j) \in Status /\ j < nextId
         /\ disk[j] = Absent => Stage(j) \in {"new", "gone"}
         /\ Stage(j) = "gone" <=> j < nextId /\ NoRow(disk, writeChain, records, j)
<1>1. disk[j] \in Record \cup {Absent} /\ nextId \in Int /\ j \in Int /\ Len(writeChain) \in Nat
  <2>1. disk \in Snapshot /\ nextId \in Int
    BY DEF JobInv, TypeOK
  <2>2. Len(writeChain) \in Nat
    BY DEF JobInv, TypeOK
  <2>3. j \in Int
    BY DEF Jobs
  <2> QED BY <2>1, <2>2, <2>3 DEF Snapshot
<1>2. disk[j] # Absent => disk[j].status \in Status /\ j < nextId
  BY <1>1 DEF Record, JobInv, Fresh, Unused
<1>3. Expected(j) <=> j >= nextId \/ ~NoRow(disk, writeChain, records, j)
  BY DEF Expected, Versions, Version, NoRow, At
<1>4. NoRow(disk, writeChain, records, j) => disk[j] = Absent
  <2>1. 0 \in 0 .. Len(writeChain) + 1
    BY <1>1
  <2> QED BY <2>1 DEF NoRow, At
<1>5. Status \subseteq Ledger!Stages /\ "gone" \notin Status
  BY DEF Status, Terminal, Ledger!Stages, Ledger!Ends
<1> QED
  BY <1>1, <1>2, <1>3, <1>4, <1>5 DEF Stage, Ledger!Stages

StagesFit ==
  \A j \in Jobs :
    /\ Stage(j) \in Ledger!Stages
    /\ disk[j] # Absent => Stage(j) = disk[j].status /\ Stage(j) \in Status
    /\ Stage(j) = "gone" <=> j < nextId /\ NoRow(disk, writeChain, records, j)

LEMMA StagesFitNext == JobInv' => StagesFit'
<1>1. JobInv => StagesFit
  BY StageFacts DEF StagesFit
<1> QED BY <1>1, PTL

LEMMA StepRecords ==
  ASSUME LedgerInv, JobInv', Kept, nextId' >= nextId
  PROVE  Ledger!Record
<1>1. ASSUME NEW j \in Jobs
      PROVE  /\ Stage(j)' \in Ledger!After(Stage(j)) /\ Stage(j)' \in Ledger!Stages
             /\ disk[j] # Absent /\ disk'[j] = Absent => Stage(j)' = "gone"
  <2>1. /\ Stage(j) \in Ledger!Stages
        /\ disk[j] # Absent => Stage(j) = disk[j].status /\ Stage(j) \in Status /\ j < nextId
        /\ disk[j] = Absent => Stage(j) \in {"new", "gone"}
        /\ Stage(j) = "gone" <=> j < nextId /\ NoRow(disk, writeChain, records, j)
    BY StageFacts DEF LedgerInv
  <2>2. /\ Stage(j)' \in Ledger!Stages
        /\ disk'[j] # Absent => Stage(j)' = disk'[j].status /\ Stage(j)' \in Status
        /\ Stage(j)' = "gone" <=> j < nextId' /\ NoRow(disk', writeChain', records', j)
    BY StagesFitNext DEF StagesFit, NoRow, At
  <2>3. j \in Int /\ nextId \in Int /\ nextId' \in Int
    BY DEF LedgerInv, JobInv, TypeOK, Jobs
  <2>4. CASE disk[j] # Absent /\ disk'[j] = Absent
    <3>1. Stage(j)' = "gone"
      BY <2>1, <2>2, <2>3, <2>4 DEF Kept
    <3> QED
      BY <2>1, <2>2, <2>4, <3>1 DEF Ledger!After, Ledger!Stages, Ledger!Ends, Status, Terminal
  <2>5. CASE disk[j] # Absent /\ disk'[j] # Absent
    <3>1. Follows(disk[j], disk'[j])
      BY <2>5 DEF Kept
    <3> QED
      BY <2>1, <2>2, <2>5, <3>1
         DEF Follows, Ledger!After, Ledger!Stages, Ledger!Ends, Status, Terminal
  <2>6. CASE disk[j] = Absent
    <3>1. CASE Stage(j) = "new"
      BY <2>2, <2>6, <3>1 DEF Ledger!After
    <3>2. CASE Stage(j) = "gone"
      BY <2>1, <2>2, <2>3, <2>6, <3>2 DEF Kept, Ledger!After, Ledger!Ends
    <3> QED BY <2>1, <2>6, <3>1, <3>2
  <2> QED BY <2>4, <2>5, <2>6
<1>2. ASSUME NEW j \in Jobs, disk'[j] # Absent, disk'[j].claimed
      PROVE  Stage(j)' \in Ledger!Ends
  <2>1. 0 \in 0 .. Len(writeChain') + 1 /\ At(disk', writeChain', records', 0) = disk'
    BY DEF JobInv, TypeOK, At
  <2>2. disk'[j].status \in Terminal
    BY <1>2, <2>1 DEF Kept, AllProper, Proper
  <2> QED BY <1>2, <2>2 DEF Stage, Ledger!Ends, Terminal
<1>3. ASSUME NEW j \in Jobs, disk[j] # Absent, disk[j].claimed, Stage(j)' # "gone"
      PROVE  disk'[j] # Absent /\ disk'[j].claimed
  BY <1>1, <1>3 DEF Kept, Follows
<1> QED BY <1>1, <1>2, <1>3 DEF Ledger!Record

LEMMA InitLedger == Init => LedgerInv /\ Ledger!Init
<1> SUFFICES ASSUME Init PROVE LedgerInv /\ Ledger!Init
  OBVIOUS
<1>1. JobInv
  BY InitJobInv
<1>2. writeChain = <<>> /\ Len(writeChain) = 0 /\ disk = records /\ nextId = 1
      /\ \A j \in Jobs : disk[j] = Absent /\ records[j] = Absent
  BY DEF Init
<1>3. \A i \in 0 .. 1 : At(disk, writeChain, records, i) = disk
  BY <1>2 DEF At
<1>4. InOrder(disk, writeChain, records) /\ AllProper(disk, writeChain, records)
  BY <1>2, <1>3 DEF InOrder, AllProper, Follows, Proper
<1>5. ASSUME NEW j \in Jobs PROVE Stage(j) = "new"
  BY <1>2, j >= 1 DEF Stage, Expected, Jobs
<1> QED BY <1>1, <1>2, <1>4, <1>5 DEF LedgerInv, Ledger!Init

LEMMA NextLedger == LedgerInv /\ [Next]_vars => LedgerInv' /\ Ledger!Record
<1> SUFFICES ASSUME LedgerInv, [Next]_vars PROVE LedgerInv' /\ Ledger!Record
  OBVIOUS
<1>1. JobInv'
  BY NextJobInv DEF LedgerInv
<1>2. Kept
  BY <1>1, StepKept
<1>3. LedgerInv'
  BY <1>1, <1>2 DEF Kept, LedgerInv
<1>4. nextId' >= nextId
  BY NextIdGrows DEF LedgerInv
<1> QED BY <1>1, <1>2, <1>3, <1>4, StepRecords

\* index.json implements the ledger of jobs: under every interleaving of handlers,
\* with failing writes, deletes, retention and any number of crashes, no job goes
\* back on disk, changes its end, loses its claim or comes back (persist,
\* createModelJobManager).
THEOREM ImplementsLedger == Spec => LedgerKept
<1>1. LedgerInv /\ [Next]_vars => [Ledger!Next]_<<[j \in Jobs |-> Stage(j)],
        {j \in Jobs : disk[j] # Absent /\ disk[j].claimed}>>
  BY NextLedger DEF Ledger!Next
<1>2. LedgerInv /\ [Next]_vars => LedgerInv'
  BY NextLedger
<1> QED BY InitLedger, <1>1, <1>2, PTL DEF Spec, LedgerKept, Ledger!Spec

-----------------------------------------------------------------------------
(* What has been told, and what the links of the chain are about to tell.   *)

\* The answer that waits for link e will be true of the array recs.
Promised(e, recs) ==
  /\ e.waiter.kind = "end" => recs[e.waiter.job].status \in {"absent", e.snap[e.waiter.job].status}
  /\ e.waiter.kind = "claim" => recs[e.waiter.job] = Absent \/ recs[e.waiter.job].claimed
  /\ e.waiter.kind = "delete" => recs[e.waiter.job] = Absent

\* A link that tells a client something.
Telling == {"end", "claim", "delete"}
Teller(e, n) ==
  e.waiter.kind \in Telling =>
    /\ e.waiter.job \in Jobs /\ e.waiter.job < n
    /\ e.waiter.kind = "end" => e.snap[e.waiter.job].status \in Terminal

\* Nothing was told of a job whose id has not been given.
UntoldFrom(n) == \A j \in Jobs : j >= n => /\ announced[j] = "none"
                                           /\ j \notin ackedClaim /\ j \notin ackedDelete

ChainTold(w, r, n) ==
  /\ \A i \in 1 .. Len(w) : ToldIn(w[i].snap) /\ Promised(w[i], r) /\ Teller(w[i], n)
  /\ \A i, k \in 1 .. Len(w) : i <= k => Promised(w[i], w[k].snap)

\* A job that awaits its unlink has left the array for good.
UnlinkingGone == \A j \in unlinking : records[j] = Absent /\ j < nextId

\* The inductive invariant behind ToldIsDurable: everything told, and everything
\* the chain will tell, is true of every array the disk is still going to take.
ToldInv ==
  /\ ToldIn(disk) /\ ToldIn(records) /\ ChainTold(writeChain, records, nextId)
  /\ UntoldFrom(nextId) /\ UnlinkingGone

\* Arrays that follow each other keep what was told and what was promised.
LEMMA ToldCarries ==
  ASSUME TypeOK, NEW r \in Snapshot, NEW s \in Snapshot, NEW n \in Nat,
         ToldIn(r), Advances(r, s, n), UntoldFrom(n)
  PROVE  ToldIn(s)
<1>1. ASSUME NEW j \in Jobs
      PROVE  /\ announced[j] \in Terminal \cup {"none"} /\ Follows(r[j], s[j])
             /\ r[j] = Absent /\ s[j] # Absent =>
                  announced[j] = "none" /\ j \notin ackedClaim /\ j \notin ackedDelete
  BY DEF TypeOK, Advances, UntoldFrom
<1>2. Absent.status = "absent" /\ "running" \notin Terminal /\ "none" \notin Terminal
      /\ "absent" \notin Status /\ Terminal \subseteq Status
  BY DEF Absent, Terminal, Status
<1>3. \A j \in Jobs : (r[j] = Absent \/ r[j].status \in Status) /\ (s[j] = Absent \/ s[j] \in Record)
  BY DEF Snapshot, Record
<1>4. ASSUME NEW j \in Jobs, announced[j] # "none"
      PROVE  s[j].status \in {"absent", announced[j]}
  <2>1. r[j].status \in {"absent", announced[j]}
    BY <1>4 DEF ToldIn, AnnouncedIn
  <2>2. CASE s[j] = Absent
    BY <1>2, <2>2
  <2>3. CASE s[j] # Absent
    <3>1. r[j] # Absent
      BY <1>1, <1>4, <2>3
    <3>2. r[j].status = announced[j]
      BY <1>2, <1>3, <2>1, <3>1
    <3> QED BY <1>1, <1>2, <1>4, <2>3, <3>1, <3>2 DEF Follows
  <2> QED BY <2>2, <2>3
<1>5. ackedClaim \subseteq Jobs /\ ackedDelete \subseteq Jobs
  BY DEF TypeOK
<1>6. ClaimedIn(s)
  BY <1>1, <1>5 DEF ToldIn, ClaimedIn, Follows
<1>7. DeletedIn(s)
  BY <1>1, <1>5 DEF ToldIn, DeletedIn
<1> QED BY <1>4, <1>6, <1>7 DEF ToldIn, AnnouncedIn

LEMMA PromiseCarries ==
  ASSUME NEW r \in Snapshot, NEW s \in Snapshot, NEW n \in Nat, NEW e \in Link,
         Promised(e, r), Teller(e, n), Advances(r, s, n)
  PROVE  Promised(e, s)
<1> DEFINE j == e.waiter.job
<1>1. CASE e.waiter.kind \notin Telling
  BY <1>1 DEF Promised, Telling
<1>2. CASE e.waiter.kind \in Telling
  <2>1. j \in Jobs /\ j < n /\ ~(j >= n)
    BY <1>2 DEF Teller, Jobs
  <2>2. Follows(r[j], s[j]) /\ (r[j] = Absent => s[j] = Absent)
    BY <2>1 DEF Advances
  <2>3. /\ Absent.status = "absent" /\ "running" \notin Terminal
        /\ r[j] = Absent \/ r[j].status \in Status
        /\ "absent" \notin Status
    BY <2>1 DEF Absent, Terminal, Status, Snapshot, Record
  <2>4. e.waiter.kind = "end" => s[j].status \in {"absent", e.snap[j].status}
    <3> SUFFICES ASSUME e.waiter.kind = "end", s[j] # Absent
                 PROVE  s[j].status = e.snap[j].status
      BY <2>3
    <3>1. r[j] # Absent /\ r[j].status \in {"absent", e.snap[j].status}
      BY <2>2 DEF Promised
    <3>2. r[j].status = e.snap[j].status /\ r[j].status # "running"
      BY <1>2, <2>3, <3>1 DEF Teller
    <3> QED BY <2>2, <3>1, <3>2 DEF Follows
  <2>5. e.waiter.kind = "claim" => s[j] = Absent \/ s[j].claimed
    BY <2>2 DEF Promised, Follows
  <2>6. e.waiter.kind = "delete" => s[j] = Absent
    BY <2>2 DEF Promised
  <2> QED BY <2>4, <2>5, <2>6 DEF Promised
<1> QED BY <1>1, <1>2

\* A new last array.
LEMMA ChainCarries ==
  ASSUME NEW w \in Seq(Link), NEW r \in Snapshot, NEW s \in Snapshot, NEW n \in Nat,
         ChainTold(w, r, n), Advances(r, s, n)
  PROVE  ChainTold(w, s, n)
<1>1. \A i \in 1 .. Len(w) : w[i] \in Link
  OBVIOUS
<1> QED BY <1>1, PromiseCarries DEF ChainTold

\* A new link for the last array.
LEMMA ChainGrows ==
  ASSUME NEW w \in Seq(Link), NEW r, NEW n, NEW e \in Link, e.snap = r,
         ChainTold(w, r, n), ToldIn(r), Promised(e, r), Teller(e, n)
  PROVE  ChainTold(Append(w, e), r, n)
<1> DEFINE v == Append(w, e)
           L == Len(w)
<1>1. L \in Nat /\ Len(v) = L + 1 /\ (\A i \in 1 .. L : v[i] = w[i]) /\ v[L + 1] = e
  BY AppendFacts
<1>2. \A i \in 1 .. Len(v) : i \in 1 .. L \/ i = L + 1
  BY <1>1
<1> HIDE DEF v, L
<1>3. \A i \in 1 .. Len(v) : ToldIn(v[i].snap) /\ Promised(v[i], r) /\ Teller(v[i], n)
  BY <1>1, <1>2 DEF ChainTold, L
<1>4. ASSUME NEW i \in 1 .. Len(v), NEW k \in 1 .. Len(v), i <= k
      PROVE  Promised(v[i], v[k].snap)
  <2>1. CASE k \in 1 .. L
    <3>1. i \in 1 .. L
      BY <1>1, <1>4, <2>1
    <3> QED BY <1>1, <1>4, <2>1, <3>1 DEF ChainTold, L
  <2>2. CASE k = L + 1
    BY <1>1, <1>3, <2>2
  <2> QED BY <1>2, <2>1, <2>2
<1> QED BY <1>3, <1>4 DEF ChainTold, v

-----------------------------------------------------------------------------
(* The steps.                                                               *)

LEMMA ClaimMarks ==
  ASSUME JobInv, NEW j \in Jobs, ClaimJob(j)
  PROVE  records'[j].claimed /\ records'[j].status \in Terminal
<1>1. records[j] \in Record /\ records \in Snapshot /\ records[j].status \in Terminal
  BY RecordFacts DEF ClaimJob, Present, JobInv, TypeOK
<1>2. records'[j] = [records[j] EXCEPT !.claimed = TRUE]
  BY <1>1 DEF ClaimJob, Snapshot
<1> QED BY <1>1, <1>2 DEF Record

LEMMA PersistsTold ==
  ASSUME LedgerInv, JobInv', ToldInv, Persists, nextId' >= nextId
  PROVE  ToldInv'
<1>1. /\ writeChain \in Seq(Link) /\ nextId \in Nat /\ nextId' \in Nat
      /\ records \in Snapshot /\ records' \in Snapshot /\ TypeOK
  BY DEF LedgerInv, JobInv, TypeOK, Link
<1>2. Advances(records, records', nextId)
  BY DEF Persists, Moves
<1>3. ToldIn(records')
  BY <1>1, <1>2, ToldCarries DEF ToldInv
<1>4. ChainTold(writeChain, records', nextId)
  BY <1>1, <1>2, ChainCarries DEF ToldInv
<1>5. \A j \in unlinking : records'[j] = Absent /\ j < nextId
  <2>1. ASSUME NEW j \in unlinking PROVE records'[j] = Absent /\ j < nextId
    <3>1. j \in Jobs /\ j \in Int /\ records[j] = Absent /\ j < nextId /\ ~(j >= nextId)
      BY <1>1 DEF ToldInv, UnlinkingGone, TypeOK, Jobs
    <3> QED BY <1>2, <3>1 DEF Advances
  <2> QED BY <2>1
<1>6. PICK w \in Waiters :
        /\ writeChain' = Persist(records', w)
        /\ w.kind = "claim" => w.job \in Jobs /\ ClaimJob(w.job)
        /\ w.kind = "delete" => w.job \in Jobs /\ Unlinked(w.job)
  BY DEF Persists
<1> DEFINE e == [snap |-> records', waiter |-> w]
<1>7. e \in Link /\ e.snap = records' /\ e.waiter = w /\ writeChain' = Append(writeChain, e)
  BY <1>1, <1>6 DEF Link, Persist
<1> HIDE DEF e
<1>8. Promised(e, records')
  <2>1. w.kind = "claim" => records'[w.job].claimed
    BY <1>6, ClaimMarks DEF LedgerInv
  <2>2. w.kind = "delete" => records'[w.job] = Absent
    BY <1>5, <1>6 DEF Unlinked
  <2> QED BY <1>7, <2>1, <2>2 DEF Promised
<1>9. Teller(e, nextId')
  <2>1. w.kind = "end" => w.job \in Jobs /\ records'[w.job].status \in Terminal
    <3>1. Len(writeChain') \in 1 .. Len(writeChain') /\ writeChain'[Len(writeChain')] = e
      BY <1>1, <1>7, AppendFacts
    <3> QED BY <1>7, <3>1 DEF JobInv, ChainInv, Awaited
  <2>2. \A j \in Jobs : records'[j].status \in Terminal => j < nextId'
    BY <1>1 DEF JobInv, Fresh, Unused, Jobs, Absent, Terminal
  <2>3. w.kind = "claim" => w.job \in Jobs /\ records'[w.job].status \in Terminal
    BY <1>6, ClaimMarks DEF LedgerInv
  <2>4. w.kind = "delete" => w.job \in Jobs /\ w.job < nextId'
    <3> SUFFICES ASSUME w.kind = "delete" PROVE w.job < nextId'
      BY <1>6
    <3>1. w.job \in Int /\ w.job < nextId
      BY <1>5, <1>6 DEF Unlinked, Jobs
    <3> QED BY <1>1, <3>1
  <2> QED BY <1>7, <2>1, <2>2, <2>3, <2>4 DEF Teller, Telling
<1>10. ChainTold(writeChain', records', nextId')
  <2>1. ASSUME NEW x, Teller(x, nextId) PROVE Teller(x, nextId')
    BY <1>1, <2>1 DEF Teller, Jobs
  <2>2. ChainTold(writeChain, records', nextId')
    BY <1>4, <2>1 DEF ChainTold
  <2> QED BY <1>1, <1>3, <1>7, <1>8, <1>9, <2>2, ChainGrows
<1>11. UntoldFrom(nextId)'
  BY <1>1 DEF Persists, toldVars, UntoldFrom, ToldInv, Jobs
<1>12. UnlinkingGone'
  BY <1>1, <1>5 DEF Persists, UnlinkingGone, TypeOK, LedgerInv, JobInv, Jobs
<1>13. ToldIn(disk)' /\ ToldIn(records)'
  BY <1>3 DEF Persists, toldVars, ToldInv, ToldIn, AnnouncedIn, ClaimedIn, DeletedIn
<1>14. ChainTold(writeChain, records, nextId)'
  BY <1>10 DEF Persists, toldVars, ChainTold, ToldIn, AnnouncedIn, ClaimedIn, DeletedIn,
               Promised, Teller
<1> QED BY <1>11, <1>12, <1>13, <1>14 DEF ToldInv

LEMMA LeavesTold ==
  ASSUME LedgerInv, JobInv', ToldInv, Leaves, nextId' >= nextId
  PROVE  ToldInv'
<1>1. /\ writeChain \in Seq(Link) /\ nextId \in Nat /\ nextId' \in Nat
      /\ records \in Snapshot /\ records' \in Snapshot /\ TypeOK
  BY DEF LedgerInv, JobInv, TypeOK, Link
<1>2. Advances(records, records', nextId)
  BY DEF Leaves, Moves
<1>3. ToldIn(records')
  BY <1>1, <1>2, ToldCarries DEF ToldInv
<1>4. ChainTold(writeChain, records', nextId')
  <2>1. ASSUME NEW x, Teller(x, nextId) PROVE Teller(x, nextId')
    BY <1>1, <2>1 DEF Teller, Jobs
  <2>2. ChainTold(writeChain, records', nextId)
    BY <1>1, <1>2, ChainCarries DEF ToldInv
  <2> QED BY <2>1, <2>2 DEF ChainTold
<1>5. UntoldFrom(nextId)'
  BY <1>1 DEF Leaves, toldVars, UntoldFrom, ToldInv, Jobs
<1>6. UnlinkingGone'
  <2>1. \A j \in unlinking : j \in Int /\ j < nextId'
    BY <1>1 DEF ToldInv, UnlinkingGone, TypeOK, Jobs
  <2>2. CASE UNCHANGED <<records, unlinking, unmade>>
    BY <2>1, <2>2 DEF ToldInv, UnlinkingGone
  <2>3. ASSUME NEW j \in Jobs, DeleteJob(j) PROVE UnlinkingGone'
    <3>1. j < nextId' /\ records'[j] = Absent
      <4>1. records[j] # Absent /\ records' = [records EXCEPT ![j] = Absent]
        BY <2>3 DEF DeleteJob, Present
      <4>2. records \in [Jobs -> Record \cup {Absent}]
        BY <1>1 DEF Snapshot
      <4>3. j < nextId
        BY <4>1, RecordFacts DEF LedgerInv
      <4>4. j \in Int
        BY DEF Jobs
      <4> QED BY <1>1, <4>1, <4>2, <4>3, <4>4
    <3>2. unlinking' = unlinking \cup {j} /\ \A k \in Jobs : k # j => records'[k] = records[k]
      BY <1>1, <2>3 DEF DeleteJob, Snapshot
    <3> QED BY <1>1, <2>1, <3>1, <3>2 DEF ToldInv, UnlinkingGone, TypeOK
  <2>4. ASSUME NEW c \in Chats, NEW rec \in BOOLEAN, CreateThrows(c, rec)
        PROVE  UnlinkingGone'
    <3>1. \A k \in unlinking : k \in Jobs /\ k # nextId /\ records[k] = Absent
      BY <1>1 DEF ToldInv, UnlinkingGone, TypeOK
    <3>2. \A k \in unlinking : records'[k] = records[k]
      BY <1>1, <2>4, <3>1 DEF CreateThrows, Snapshot
    <3> QED BY <2>1, <2>4, <3>1, <3>2 DEF CreateThrows, UnlinkingGone
  <2> QED BY <2>2, <2>3, <2>4 DEF Leaves
<1>7. ToldIn(disk)' /\ ToldIn(records)'
  BY <1>3 DEF Leaves, toldVars, ToldInv, ToldIn, AnnouncedIn, ClaimedIn, DeletedIn
<1>8. ChainTold(writeChain, records, nextId)'
  BY <1>4 DEF Leaves, toldVars, ChainTold, ToldIn, AnnouncedIn, ClaimedIn, DeletedIn,
              Promised, Teller
<1> QED BY <1>5, <1>6, <1>7, <1>8 DEF ToldInv

\* The write lands, and whoever awaits it tells a client what it promised.
LEMMA WriteTold ==
  ASSUME LedgerInv, JobInv', ToldInv, WriteIndex, ~WriteFaults
  PROVE  ToldInv'
<1> DEFINE e == writeChain[1]
           j == e.waiter.job
           L == Len(writeChain)
<1>1. /\ writeChain \in Seq(Link) /\ writeChain # <<>> /\ Head(writeChain) = e
      /\ L \in Nat \ {0} /\ 1 \in 1 .. L /\ e \in Link
      /\ Len(Tail(writeChain)) = L - 1
      /\ \A i \in 1 .. L - 1 : Tail(writeChain)[i] = writeChain[i + 1] /\ i + 1 \in 1 .. L
  <2>1. writeChain \in Seq(Link) /\ writeChain # <<>>
    BY DEF LedgerInv, JobInv, TypeOK, Link, WriteIndex
  <2>2. /\ Head(writeChain) = e /\ e \in Link /\ L \in Nat \ {0}
        /\ Len(Tail(writeChain)) = L - 1
        /\ \A i \in 1 .. Len(Tail(writeChain)) : Tail(writeChain)[i] = writeChain[i + 1]
    BY <2>1, TailFacts
  <2> HIDE DEF e, L
  <2> QED BY <2>1, <2>2
<1>2. /\ disk' = e.snap /\ writeChain' = Tail(writeChain) /\ records' = records
      /\ nextId' = nextId /\ unlinking' = unlinking
      /\ announced' = IF e.waiter.kind = "end" THEN [announced EXCEPT ![j] = e.snap[j].status]
                      ELSE announced
      /\ ackedClaim' = IF e.waiter.kind = "claim" THEN ackedClaim \cup {j} ELSE ackedClaim
      /\ ackedDelete' = IF e.waiter.kind = "delete" THEN ackedDelete \cup {j} ELSE ackedDelete
  BY <1>1 DEF WriteIndex, boundVars
<1>3. /\ Teller(e, nextId) /\ Promised(e, records) /\ ToldIn(records)
      /\ \A i \in 1 .. L : Promised(e, writeChain[i].snap) /\ ToldIn(writeChain[i].snap)
  BY <1>1 DEF ToldInv, ChainTold
<1>4. announced \in [Jobs -> Terminal \cup {"none"}]
  BY DEF LedgerInv, JobInv, TypeOK
<1> HIDE DEF e, j, L
<1>5. ASSUME NEW recs, ToldIn(recs), Promised(e, recs)
      PROVE  /\ \A k \in Jobs : announced'[k] # "none" => recs[k].status \in {"absent", announced'[k]}
             /\ \A k \in ackedClaim' : recs[k] = Absent \/ recs[k].claimed
             /\ \A k \in ackedDelete' : recs[k] = Absent
  <2>1. \A k \in Jobs : announced'[k] # "none" => recs[k].status \in {"absent", announced'[k]}
    BY <1>2, <1>3, <1>4, <1>5 DEF ToldIn, AnnouncedIn, Promised, Teller, j
  <2> QED BY <1>2, <1>5, <2>1 DEF ToldIn, ClaimedIn, DeletedIn, Promised, j
<1>6. ToldIn(disk)' /\ ToldIn(records)'
  BY <1>1, <1>2, <1>3, <1>5 DEF ToldIn, AnnouncedIn, ClaimedIn, DeletedIn
<1>7. ChainTold(writeChain, records, nextId)'
  <2>1. ASSUME NEW i \in 1 .. L - 1
        PROVE  /\ writeChain'[i] = writeChain[i + 1]
               /\ ToldIn(writeChain[i + 1].snap) /\ Promised(e, writeChain[i + 1].snap)
               /\ Promised(writeChain[i + 1], records) /\ Teller(writeChain[i + 1], nextId)
    BY <1>1, <1>2, <1>3 DEF ToldInv, ChainTold, L
  <2>2. ASSUME NEW i \in 1 .. L - 1, NEW k \in 1 .. L - 1, i <= k
        PROVE  Promised(writeChain[i + 1], writeChain[k + 1].snap)
    BY <1>1, <2>2 DEF ToldInv, ChainTold, L
  <2>3. Len(writeChain') = L - 1
    BY <1>1, <1>2
  <2>4. ASSUME NEW i \in 1 .. L - 1
        PROVE  LET recs == writeChain'[i].snap
               IN /\ \A k \in Jobs : announced'[k] # "none" => recs[k].status \in {"absent", announced'[k]}
                  /\ \A k \in ackedClaim' : recs[k] = Absent \/ recs[k].claimed
                  /\ \A k \in ackedDelete' : recs[k] = Absent
    BY <1>5, <2>1
  <2>5. ASSUME NEW i \in 1 .. L - 1
        PROVE  Promised(writeChain'[i], records') /\ Teller(writeChain'[i], nextId')
    BY <1>2, <2>1
  <2>6. ASSUME NEW i \in 1 .. L - 1, NEW k \in 1 .. L - 1, i <= k
        PROVE  Promised(writeChain'[i], writeChain'[k].snap)
    BY <2>1, <2>2, <2>6
  <2> QED BY <2>3, <2>4, <2>5, <2>6
          DEF ChainTold, ToldIn, AnnouncedIn, ClaimedIn, DeletedIn, Promised, Teller
<1>8. UntoldFrom(nextId)'
  <2>1. e.waiter.kind \in Telling => j \in Jobs /\ j \in Int /\ ~(j >= nextId)
    <3>1. nextId \in Int
      BY DEF LedgerInv, JobInv, TypeOK
    <3> QED BY <1>3, <3>1 DEF Teller, Jobs, j
  <2>2. UntoldFrom(nextId)
    BY DEF ToldInv
  <2> QED BY <1>2, <1>4, <2>1, <2>2 DEF UntoldFrom, Telling
<1>9. UnlinkingGone'
  BY <1>2 DEF UnlinkingGone, ToldInv
<1> QED BY <1>6, <1>7, <1>8, <1>9 DEF ToldInv

\* What the new process makes of the index, and what its chain holds.
LEMMA RestartShape ==
  ASSUME LedgerInv, JobInv', Restart
  PROVE  \E woken \in Snapshot :
           /\ Advances(disk, woken, nextId) /\ Advances(disk, records', nextId)
           /\ \A i \in 1 .. Len(writeChain') : /\ writeChain'[i].snap \in {woken, records'}
                                               /\ writeChain'[i].waiter = Nobody
           /\ writeChain' = <<>> => records' = disk
           /\ writeChain' # <<>> => writeChain'[Len(writeChain')].snap = records'
<1>1. PICK cutoff \in 0 .. clock' + 1 :
        LET woken == Recovered(disk, clock')
            gone  == CleanupIds(woken, cutoff)
        IN /\ records' = Drop(woken, gone)
           /\ writeChain' = (IF woken # disk THEN <<[snap |-> woken, waiter |-> Nobody]>> ELSE <<>>)
                \o (IF gone # {} THEN <<[snap |-> records', waiter |-> Nobody]>> ELSE <<>>)
  BY DEF Restart
<1> DEFINE woken == Recovered(disk, clock')
           gone  == CleanupIds(woken, cutoff)
           first == [snap |-> woken, waiter |-> Nobody]
           last  == [snap |-> records', waiter |-> Nobody]
<1>2. disk \in Snapshot /\ nextId \in Nat /\ clock' \in Nat
  BY DEF LedgerInv, JobInv, TypeOK
<1>3. \A j \in Jobs : Follows(disk[j], woken[j]) /\ (disk[j] = Absent <=> woken[j] = Absent)
  BY <1>2, RecoveredFacts
<1>4. woken \in Snapshot
  BY <1>2, RecoveredFacts
<1>5. \A j \in Jobs : records'[j] = IF j \in gone THEN Absent ELSE woken[j]
  BY <1>1 DEF Drop
<1>6. gone = {} => records' = woken
  <2>1. records' = [j \in Jobs |-> IF j \in gone THEN Absent ELSE woken[j]]
    BY <1>1 DEF Drop
  <2> HIDE DEF woken, gone
  <2> QED BY <1>4, <2>1 DEF Snapshot
<1>7. writeChain' = (IF woken # disk THEN <<first>> ELSE <<>>)
                    \o (IF gone # {} THEN <<last>> ELSE <<>>)
  BY <1>1
<1>8. first.snap = woken /\ first.waiter = Nobody /\ last.snap = records' /\ last.waiter = Nobody
  OBVIOUS
<1> HIDE DEF first, last, woken, gone
<1>9. Advances(disk, woken, nextId)
  BY <1>3 DEF Advances
<1>10. Advances(disk, records', nextId)
  BY <1>3, <1>5 DEF Advances, Follows
<1>11. CASE woken # disk /\ gone # {}
  <2>1. writeChain' = <<first>> \o <<last>> /\ <<first>> \in Seq({first, last})
    BY <1>7, <1>11
  <2>2. Len(writeChain') = 2 /\ writeChain'[1] = first /\ writeChain'[2] = last
    BY <2>1, ThenFacts
  <2>3. Len(<<>>) = 0 /\ \A i \in 1 .. 2 : i = 1 \/ i = 2
    OBVIOUS
  <2>4. /\ \A i \in 1 .. Len(writeChain') : /\ writeChain'[i].snap \in {woken, records'}
                                            /\ writeChain'[i].waiter = Nobody
        /\ writeChain'[Len(writeChain')].snap = records'
    BY <1>8, <2>2, <2>3
  <2>5. writeChain' # <<>>
    BY <2>2, <2>3
  <2> QED BY <1>4, <1>9, <1>10, <2>4, <2>5
<1>12. CASE woken # disk /\ gone = {}
  <2>1. writeChain' = <<first>>
    BY <1>7, <1>12
  <2> QED BY <1>4, <1>6, <1>8, <1>9, <1>10, <1>12, <2>1
<1>13. CASE woken = disk /\ gone # {}
  <2>1. writeChain' = <<last>>
    BY <1>7, <1>13
  <2> QED BY <1>4, <1>8, <1>9, <1>10, <2>1
<1>14. CASE woken = disk /\ gone = {}
  <2>1. writeChain' = <<>>
    BY <1>7, <1>14
  <2> QED BY <1>4, <1>6, <1>9, <1>10, <1>14, <2>1
<1> QED BY <1>11, <1>12, <1>13, <1>14

LEMMA RestartTold ==
  ASSUME LedgerInv, JobInv', ToldInv, Restart
  PROVE  ToldInv'
<1>1. PICK woken \in Snapshot :
        /\ Advances(disk, woken, nextId) /\ Advances(disk, records', nextId)
        /\ \A i \in 1 .. Len(writeChain') : /\ writeChain'[i].snap \in {woken, records'}
                                            /\ writeChain'[i].waiter = Nobody
  BY RestartShape
<1>2. TypeOK /\ disk \in Snapshot /\ records' \in Snapshot /\ nextId \in Nat
  BY DEF LedgerInv, JobInv, TypeOK
<1>3. /\ disk' = disk /\ UNCHANGED toldVars /\ nextId' = nextId /\ unlinking' = {}
  BY DEF Restart
<1>4. ToldIn(disk) /\ UntoldFrom(nextId)
  BY DEF ToldInv
<1>5. ToldIn(woken) /\ ToldIn(records')
  BY <1>1, <1>2, <1>4, ToldCarries
<1>6. /\ \A recs : Promised([snap |-> recs, waiter |-> Nobody], recs)
      /\ Nobody.kind = "none"
  BY DEF Nobody, Promised
<1>7. \A i \in 1 .. Len(writeChain') : ToldIn(writeChain'[i].snap)
  BY <1>1, <1>5
<1>8. ASSUME NEW i \in 1 .. Len(writeChain'), NEW recs
      PROVE  Promised(writeChain'[i], recs) /\ Teller(writeChain'[i], nextId')
  BY <1>1, <1>6 DEF Promised, Teller, Telling
<1>9. ChainTold(writeChain, records, nextId)'
  BY <1>3, <1>7, <1>8 DEF ChainTold, toldVars, ToldIn, AnnouncedIn, ClaimedIn, DeletedIn,
                          Promised, Teller
<1>10. ToldIn(disk)' /\ ToldIn(records)' /\ UntoldFrom(nextId)'
  BY <1>3, <1>4, <1>5 DEF toldVars, ToldIn, AnnouncedIn, ClaimedIn, DeletedIn, UntoldFrom
<1> QED BY <1>3, <1>9, <1>10 DEF ToldInv, UnlinkingGone

LEMMA StepTold ==
  ASSUME LedgerInv, JobInv', ToldInv, [Next]_vars, ~WriteFaults
  PROVE  ToldInv'
<1>1. Proper(records)
  BY EndsProper
<1>2. nextId' >= nextId
  BY NextIdGrows DEF LedgerInv
<1> QED
  BY <1>1, <1>2, StepShape, PersistsTold, LeavesTold, WriteTold, RestartTold DEF LedgerInv

LEMMA InitTold == Init => ToldInv
<1> SUFFICES ASSUME Init PROVE ToldInv
  OBVIOUS
<1>1. /\ writeChain = <<>> /\ Len(writeChain) = 0 /\ unlinking = {} /\ disk = records
      /\ ackedClaim = {} /\ ackedDelete = {} /\ \A j \in Jobs : announced[j] = "none"
  BY DEF Init
<1>2. ToldIn(disk) /\ ToldIn(records)
  BY <1>1 DEF ToldIn, AnnouncedIn, ClaimedIn, DeletedIn
<1>3. ChainTold(writeChain, records, nextId)
  BY <1>1 DEF ChainTold
<1> QED BY <1>1, <1>2, <1>3 DEF ToldInv, UntoldFrom, UnlinkingGone

\* While no write of the index fails, what a client was told of a job (the end of its
\* stream, the success of its claim or delete) is on disk and in memory from then on,
\* for any number of jobs, pending writes and crashes (persist, persistNow, the
\* handlers that await it).
THEOREM ToldStays ==
  ASSUME ~WriteFaults
  PROVE  Spec => []ToldIsDurable
<1>1. Init => LedgerInv /\ ToldInv
  BY InitLedger, InitTold
<1>2. LedgerInv /\ ToldInv /\ [Next]_vars => LedgerInv' /\ ToldInv'
  BY NextLedger, StepTold DEF LedgerInv
<1>3. ToldInv => ToldIsDurable
  BY DEF ToldInv, ToldIsDurable
<1> QED BY <1>1, <1>2, <1>3, PTL DEF Spec

-----------------------------------------------------------------------------
(* The index and the array.                                                 *)

LEMMA NoLinks ==
  ASSUME NEW w \in Seq(Link), Len(w) = 0
  PROVE  w = <<>>
OBVIOUS

LEMMA LastLink ==
  ASSUME NEW w \in Seq(Link), NEW e \in Link
  PROVE  /\ Append(w, e) # <<>>
         /\ Append(w, e)[Len(Append(w, e))] = e
BY AppendFacts

LEMMA StepConverges ==
  ASSUME LedgerInv, JobInv', ToldInv, ToldInv', IndexConverges, [Next]_vars, ~WriteFaults
  PROVE  IndexConverges'
<1>1. /\ writeChain \in Seq(Link) /\ records \in Snapshot /\ records' \in Snapshot
      /\ disk \in Snapshot /\ unlinking \subseteq Jobs
  BY DEF LedgerInv, JobInv, TypeOK, Link
<1>2. \A j \in unlinking' : records'[j] = Absent
  BY DEF ToldInv, UnlinkingGone
<1>3. CASE Persists
  <2>1. PICK e \in Link : e.snap = records' /\ writeChain' = Append(writeChain, e)
    <3>1. PICK w \in Waiters : writeChain' = Persist(records', w)
      BY <1>3 DEF Persists
    <3>2. [snap |-> records', waiter |-> w] \in Link
      BY <1>1 DEF Link
    <3> QED BY <3>1, <3>2 DEF Persist
  <2>2. LastWritten' = records'
    BY <1>1, <2>1, LastLink DEF LastWritten
  <2> QED BY <1>2, <2>2 DEF IndexConverges
<1>4. CASE Leaves
  <2>1. LastWritten' = LastWritten
    BY <1>4 DEF Leaves, LastWritten
  <2>2. CASE UNCHANGED <<records, unlinking, unmade>>
    BY <2>1, <2>2 DEF IndexConverges
  <2>3. ASSUME NEW j \in Jobs, DeleteJob(j) PROVE IndexConverges'
    <3>1. /\ records' = [records EXCEPT ![j] = Absent] /\ unlinking' = unlinking \cup {j}
          /\ unmade' = unmade
      BY <2>3 DEF DeleteJob, boundVars
    <3> QED BY <1>1, <2>1, <3>1 DEF IndexConverges, Snapshot
  <2>4. ASSUME NEW c \in Chats, NEW rec \in BOOLEAN, CreateThrows(c, rec)
        PROVE  IndexConverges'
    <3>1. /\ records' = [records EXCEPT ![nextId] = NewRecord(c, rec)]
          /\ unlinking' = unlinking /\ unmade' = unmade \cup {nextId}
      BY <2>4 DEF CreateThrows
    <3>2. LastWritten[nextId] = Absent
      <4>1. nextId \in Jobs /\ nextId >= nextId
        BY <2>4 DEF CreateThrows, LedgerInv, JobInv, TypeOK, Jobs
      <4>2. CASE writeChain = <<>>
        BY <4>1, <4>2 DEF LastWritten, LedgerInv, JobInv, Fresh, Unused
      <4>3. CASE writeChain # <<>>
        <5>1. Len(writeChain) \in 1 .. Len(writeChain)
          BY <1>1, <4>3
        <5> QED BY <4>1, <4>3, <5>1 DEF LastWritten, LedgerInv, JobInv, Fresh, Unused
      <4> QED BY <4>2, <4>3
    <3> QED BY <1>1, <2>1, <3>1, <3>2 DEF IndexConverges, Snapshot
  <2> QED BY <1>4, <2>2, <2>3, <2>4 DEF Leaves
<1>5. CASE WriteIndex
  <2>1. /\ writeChain # <<>> /\ disk' = Head(writeChain).snap /\ writeChain' = Tail(writeChain)
        /\ records' = records /\ unlinking' = unlinking /\ unmade' = unmade
    BY <1>5 DEF WriteIndex, boundVars
  <2>2. LastWritten' = LastWritten
    <3>1. /\ Len(writeChain) \in Nat \ {0} /\ Head(writeChain) = writeChain[1]
          /\ Len(Tail(writeChain)) = Len(writeChain) - 1
          /\ \A i \in 1 .. Len(Tail(writeChain)) : Tail(writeChain)[i] = writeChain[i + 1]
      BY <1>1, <2>1, TailFacts
    <3>2. CASE Len(writeChain) = 1
      <4>1. Tail(writeChain) = <<>>
        <5>1. Tail(writeChain) \in Seq(Link) /\ Len(Tail(writeChain)) = 0
          BY <1>1, <2>1, <3>1, <3>2
        <5> QED BY <5>1, NoLinks
      <4> QED BY <2>1, <3>1, <3>2, <4>1 DEF LastWritten
    <3>3. CASE Len(writeChain) > 1
      <4>1. Tail(writeChain) # <<>> /\ Len(Tail(writeChain)) \in 1 .. Len(Tail(writeChain))
        <5>1. Len(Tail(writeChain)) \in 1 .. Len(Tail(writeChain)) /\ Len(Tail(writeChain)) # 0
          BY <3>1, <3>3
        <5>2. Len(<<>>) = 0
          OBVIOUS
        <5> QED BY <5>1, <5>2
      <4>2. Tail(writeChain)[Len(Tail(writeChain))] = writeChain[Len(writeChain)]
        BY <3>1, <4>1
      <4> QED BY <2>1, <4>1, <4>2 DEF LastWritten
    <3> QED BY <3>1, <3>2, <3>3
  <2> QED BY <2>1, <2>2 DEF IndexConverges
<1>6. CASE Restart
  <2>1. LastWritten' = records'
    <3>1. disk' = disk
      BY <1>6 DEF Restart
    <3> QED BY <1>6, <3>1, RestartShape DEF LastWritten
  <2>2. unlinking' = {}
    BY <1>6 DEF Restart
  <2> QED BY <2>1, <2>2 DEF IndexConverges
<1>7. Proper(records)
  BY EndsProper
<1> QED BY <1>3, <1>4, <1>5, <1>6, <1>7, StepShape DEF LedgerInv

\* While no write of the index fails, the last write of the chain holds the array in
\* memory, deletes in progress aside: every handler persists what it changes, and no
\* older array lands over a newer one (persist and its callers).  What may be missing
\* in it is a row whose creation threw, never anything else.
THEOREM IndexFollows ==
  ASSUME ~WriteFaults
  PROVE  Spec => []IndexConverges
<1>1. Init => LedgerInv /\ ToldInv /\ IndexConverges
  <2>1. Init => IndexConverges
    BY DEF Init, IndexConverges, LastWritten
  <2> QED BY <2>1, InitLedger, InitTold
<1>2. LedgerInv /\ ToldInv /\ IndexConverges /\ [Next]_vars
      => LedgerInv' /\ ToldInv' /\ IndexConverges'
  BY NextLedger, StepTold, StepConverges DEF LedgerInv
<1> QED BY <1>1, <1>2, PTL DEF Spec

-----------------------------------------------------------------------------
(* Unclaimed responses.                                                     *)

\* A job whose end was told has its row on disk until it leaves the array.
RowInv == \A j \in Jobs : announced[j] # "none" /\ Present(j) => disk[j] # Absent

LEMMA StepRow ==
  ASSUME LedgerInv, JobInv', ToldInv, RowInv, [Next]_vars, ~WriteFaults
  PROVE  RowInv'
<1> SUFFICES ASSUME NEW j \in Jobs, announced'[j] # "none", records'[j] # Absent
             PROVE  disk'[j] # Absent
  BY DEF RowInv, Present
<1>1. announced[j] # "none" => ~(j >= nextId)
  BY DEF ToldInv, UntoldFrom
<1>2. CASE Persists \/ Leaves
  <2>1. Advances(records, records', nextId) /\ disk' = disk /\ announced' = announced
    BY <1>2 DEF Persists, Leaves, Moves, toldVars
  <2>2. records[j] # Absent
    BY <1>1, <2>1 DEF Advances
  <2> QED BY <2>1, <2>2 DEF RowInv, Present
<1>3. CASE Restart
  <2>1. Advances(disk, records', nextId) /\ disk' = disk /\ announced' = announced
    BY <1>3, RestartShape DEF Restart, toldVars
  <2> QED BY <1>1, <2>1 DEF Advances
<1>4. CASE WriteIndex
  <2> DEFINE e == writeChain[1]
  <2>1. writeChain \in Seq(Link) /\ writeChain # <<>>
    BY <1>4 DEF LedgerInv, JobInv, TypeOK, Link, WriteIndex
  <2>2. Head(writeChain) = e /\ e \in Link /\ Len(writeChain) \in Nat \ {0}
    BY <2>1, TailFacts
  <2>3. /\ disk' = e.snap /\ records' = records
        /\ announced' = IF e.waiter.kind = "end"
                        THEN [announced EXCEPT ![e.waiter.job] = e.snap[e.waiter.job].status]
                        ELSE announced
    BY <1>4, <2>2 DEF WriteIndex
  <2>4. announced \in [Jobs -> Terminal \cup {"none"}] /\ Teller(e, nextId)
    BY <2>2 DEF LedgerInv, JobInv, TypeOK, ToldInv, ChainTold
  <2> HIDE DEF e
  <2>5. CASE announced[j] = "none"
    <3>1. e.snap[j].status \in Terminal
      BY <2>3, <2>4, <2>5 DEF Teller, Telling
    <3> QED BY <2>3, <3>1 DEF Absent, Terminal
  <2>6. CASE announced[j] # "none"
    <3>1. disk[j] # Absent /\ records[j] # Absent
      BY <2>3, <2>6 DEF RowInv, Present
    <3>2. /\ At(disk, writeChain, records, 0) = disk
          /\ At(disk, writeChain, records, 1) = e.snap
          /\ At(disk, writeChain, records, Len(writeChain) + 1) = records
          /\ 0 \in 0 .. Len(writeChain) + 1 /\ 1 \in 0 .. Len(writeChain) + 1
          /\ Len(writeChain) + 1 \in 0 .. Len(writeChain) + 1 /\ 1 < Len(writeChain) + 1 /\ 0 < 1
      BY <2>2 DEF At, e
    <3>3. e.snap[j] # Absent
      BY <3>1, <3>2 DEF LedgerInv, InOrder
    <3> QED BY <2>3, <3>3
  <2> QED BY <2>5, <2>6
<1>5. Proper(records)
  BY EndsProper
<1> QED BY <1>2, <1>3, <1>4, <1>5, StepShape DEF LedgerInv

\* Who takes a record out of the array.
LEMMA OnlyDeleteDrops ==
  ASSUME JobInv, [Next]_vars, NEW j \in Jobs, Present(j), records'[j] = Absent
  PROVE  DeleteJob(j) \/ Cleanup \/ Restart
<1> SUFFICES ASSUME ~Cleanup, ~Restart PROVE DeleteJob(j)
  OBVIOUS
<1>1. records \in Snapshot /\ \A x \in Record : x # Absent
  BY DEF JobInv, TypeOK, Record, Absent, Status, Terminal
<1>2. records' # records
  BY DEF Present
<1>3. ASSUME NEW c \in Chats, NEW b \in BOOLEAN, CreateJob(c, b) \/ CreateThrows(c, b)
      PROVE  FALSE
  <2>1. nextId \in Jobs /\ records[nextId] = Absent
    BY <1>3 DEF JobInv, TypeOK, CreateJob, CreateThrows, Fresh, Unused, Jobs
  <2> QED BY <1>1, <1>3, <2>1 DEF CreateJob, CreateThrows, Present, Snapshot
<1>4. ASSUME NEW k \in Jobs, RunJob(k) PROVE FALSE
  <2>1. CASE UpstreamAnswers(k)
    <3>1. records[k] \in Record
      BY <2>1, RecordFacts DEF UpstreamAnswers, RunPhases, Status
    <3>2. records'[k] = [records[k] EXCEPT !.upstream = TRUE]
          /\ \A i \in Jobs : i # k => records'[i] = records[i]
      BY <1>1, <2>1 DEF UpstreamAnswers, Snapshot
    <3>3. records'[k] \in Record
      BY <3>1, <3>2 DEF Record
    <3> QED BY <1>1, <3>2, <3>3 DEF Present
  <2>2. CASE Settle(k)
    <3>1. records[k] \in Record /\ FinalStatus(k) \in Status /\ clock' \in Nat /\ sent[k] \in Nat
      <4>1. pc[k] = "ending" /\ clock' = clock + 1
        BY <2>2 DEF Settle
      <4>2. records[k].status = "running"
        BY <4>1, RecordFacts DEF RunPhases
      <4>3. records[k] \in Record
        BY <4>2, RecordFacts DEF Status
      <4>4. FinalStatus(k) \in Status
        BY DEF FinalStatus, Terminal, Status
      <4>5. clock \in Nat /\ sent[k] \in Nat
        BY DEF JobInv, TypeOK
      <4> QED BY <4>1, <4>3, <4>4, <4>5
    <3>2. records'[k] = [records[k] EXCEPT !.status = FinalStatus(k), !.endedAt = clock', !.bytes = sent[k]]
          /\ \A i \in Jobs : i # k => records'[i] = records[i]
      BY <1>1, <2>2 DEF Settle, Snapshot
    <3>3. records'[k] \in Record
      BY <3>1, <3>2 DEF Record
    <3> QED BY <1>1, <3>2, <3>3 DEF Present
  <2> QED
    BY <1>2, <1>4, <2>1, <2>2
       DEF RunJob, UpstreamFails, Chunk, BodyEnds, BodyFails, JournalBreaks, Flush, Leave
<1>5. ASSUME NEW k \in Jobs, ClaimJob(k) \/ AbortJob(k) \/ Unlinked(k) PROVE FALSE
  <2>1. CASE ClaimJob(k)
    <3>1. records'[k].status \in Terminal /\ \A i \in Jobs : i # k => records'[i] = records[i]
      BY <1>1, <2>1, ClaimMarks DEF ClaimJob, Snapshot
    <3> QED BY <3>1 DEF Present, Absent, Terminal
  <2> QED BY <1>2, <1>5, <2>1 DEF AbortJob, Unlinked
<1>6. ASSUME NEW k \in Jobs, DeleteJob(k) PROVE k = j
  BY <1>1, <1>6 DEF DeleteJob, Snapshot, Present
<1>7. ASSUME NEW r \in Readers,
             (\E k \in Jobs : StreamStart(r, k)) \/ StreamJob(r) \/ StreamClosed(r)
      PROVE  FALSE
  BY <1>2, <1>7 DEF StreamStart, StreamJob, StreamPoll, StreamOpen, StreamRead, StreamGot,
     StreamWake, StreamClosed, NotReaders
<1> QED
  BY <1>2, <1>3, <1>4, <1>5, <1>6, <1>7 DEF Next, vars, WriteIndex, Close

LEMMA StepKeepsUnclaimed ==
  ASSUME LedgerInv, ToldInv, RowInv, [Next]_vars, NEW j \in Jobs,
         announced[j] # "none", Present(j), records[j].recoverable, ~records[j].claimed,
         records'[j] = Absent
  PROVE  DeleteJob(j)
<1>1. CASE Cleanup
  <2>1. PICK cutoff : records' = Drop(records, CleanupIds(records, cutoff))
    BY <1>1 DEF Cleanup
  <2>2. j \notin CleanupIds(records, cutoff)
    BY DEF CleanupIds
  <2> QED BY <2>1, <2>2 DEF Drop, Present
<1>2. CASE Restart
  <2>1. PICK cutoff : LET woken == Recovered(disk, clock')
                      IN records' = Drop(woken, CleanupIds(woken, cutoff))
    BY <1>2 DEF Restart
  <2> DEFINE woken == Recovered(disk, clock')
  <2>2. clock' \in Nat /\ disk \in Snapshot /\ Len(writeChain) \in Nat
    BY <1>2 DEF LedgerInv, JobInv, TypeOK, Restart
  <2>3. disk[j] # Absent
    BY DEF RowInv
  <2>4. Follows(disk[j], records[j])
    <3>1. /\ 0 \in 0 .. Len(writeChain) + 1 /\ Len(writeChain) + 1 \in 0 .. Len(writeChain) + 1
          /\ 0 < Len(writeChain) + 1
          /\ At(disk, writeChain, records, 0) = disk
          /\ At(disk, writeChain, records, Len(writeChain) + 1) = records
      BY <2>2 DEF At
    <3> QED BY <3>1 DEF LedgerInv, InOrder
  <2>5. /\ woken[j] # Absent /\ Follows(disk[j], woken[j]) /\ woken[j].claimed = disk[j].claimed
    <3>1. LET x == woken[j]
          IN  /\ Follows(disk[j], x) /\ (disk[j] = Absent <=> x = Absent)
              /\ x # Absent => x.claimed = disk[j].claimed
      BY <2>2, RecoveredFacts
    <3> QED BY <2>3, <3>1
  <2> HIDE DEF woken
  <2>6. woken[j].recoverable /\ ~woken[j].claimed
    BY <2>3, <2>4, <2>5 DEF Follows, Present
  <2>7. j \notin CleanupIds(woken, cutoff)
    BY <2>6 DEF CleanupIds
  <2> QED BY <2>1, <2>5, <2>7 DEF Drop, woken
<1> QED BY <1>1, <1>2, OnlyDeleteDrops DEF LedgerInv

\* While no write of the index fails, a finished response that nobody has claimed is
\* dropped by a DELETE of its own only: neither retention nor another job's delete nor
\* any number of crashes loses it (cleanup, createModelJobManager, deleteJob).
THEOREM UnclaimedStay ==
  ASSUME ~WriteFaults
  PROVE  Spec => UnclaimedKept
<1>1. Init => LedgerInv /\ ToldInv /\ RowInv
  <2>1. Init => RowInv
    BY DEF Init, RowInv, Present
  <2> QED BY <2>1, InitLedger, InitTold
<1>2. LedgerInv /\ ToldInv /\ RowInv /\ [Next]_vars => LedgerInv' /\ ToldInv' /\ RowInv'
  BY NextLedger, StepTold, StepRow DEF LedgerInv
<1>3. LedgerInv /\ ToldInv /\ RowInv /\ [Next]_vars =>
        [\A j \in Jobs :
           /\ announced[j] # "none" /\ Present(j)
           /\ records[j].recoverable /\ ~records[j].claimed
           /\ records'[j] = Absent
           => DeleteJob(j)]_vars
  BY StepKeepsUnclaimed
<1> QED BY <1>1, <1>2, <1>3, PTL DEF Spec, UnclaimedKept
=============================================================================
