---------------------------- MODULE BackupImport ----------------------------
(***************************************************************************)
(* A backup file is imported in chunks.  The client sends one request      *)
(* after the other, each several times if it has to, then asks for the     *)
(* restore, and deletes the job when it gives up; requests it no longer    *)
(* waits for may arrive at any time.  The server spools one chunk at a     *)
(* time, parses it into staged records and assets, and commits them when   *)
(* the whole file has been received.  The import occupies the only slot    *)
(* and is removed when nothing is heard of it for an hour.                 *)
(***************************************************************************)
EXTENDS Naturals, Sequences

CONSTANTS
    Chunks,       \* the file is this many chunks
    Attempts,     \* the client sends a request at most this often (3)
    MaxSessions,  \* bound: parser sessions opened for the job
    MaxFaults     \* bound: failing storage, files that cannot be restored

ASSUME BoundsAssumption == /\ {Chunks, Attempts, MaxSessions} \subseteq Nat \ {0}
                           /\ MaxFaults \in Nat

VARIABLES
    client,     \* what it is doing: the chunk and the attempt
    net,        \* requests on their way
    job,        \* the status of the job; "gone" when it is removed
    timer,      \* its idle timer is armed
    other,      \* another import occupies the slot
    active,     \* the session of the job that occupies the slot, or None
    sess,       \* what became of each session
    scratch,    \* the session whose directory is registered, or None
    intact,     \* sessions whose staged records are all there
    up,         \* what the upload store knows of the job
    lock,       \* who holds, and who waits for, the lock of the job's upload
    fin,        \* the running finalization and the requests that share it
    aborts,     \* calls of abortActive under way
    cancel,     \* how far the DELETE of the job is
    faults,     \* failures so far
    late,       \* a chunk was handled while a finalization was under way
    stranded,   \* a removed job holds the slot without a timer
    unanswered  \* sessions whose COMMIT took effect, but its answer was lost

wire     == <<client, net>>
sessions == <<active, sess, scratch, intact>>
history  == <<faults, late, stranded, unanswered>>
vars == <<wire, job, timer, other, sessions, up, lock, fin, aborts, cancel, history>>

None == 0
File == [n \in 1 .. Chunks |-> n]

NoSession == [phase |-> "none", consumed |-> <<>>, waiters |-> <<>>, torn |-> FALSE]
NoUpload == [known |-> FALSE, received |-> 0, sealed |-> FALSE]
Deleting(phase, s) == [phase |-> phase, s |-> s]
NoFin == [phase |-> "none", sharers |-> {}, result |-> "ok"]

(***************************************************************************)
(* The client: uploadImportStream.                                         *)
(***************************************************************************)
Request(kind, n, a) == [kind |-> kind, n |-> n, a |-> a]

(* The request that goes with what the client is doing. *)
Sent(c) ==
    CASE c.phase = "upload"   -> {Request("chunk", c.n, c.a)}
      [] c.phase = "finalize" -> {Request("finalize", 0, c.a)}
      [] c.phase = "failed"   -> {Request("cancel", 0, 1)}
      [] OTHER                -> {}

Failed == [phase |-> "failed", n |-> 0, a |-> 0]

(* retryImportRequest, then the catch of uploadImportStream. *)
Retried == IF client.a < Attempts THEN [client EXCEPT !.a = @ + 1] ELSE Failed

(* The file goes on with the next chunk, then with the finalize.           *)
Advanced ==
    IF client.phase = "finalize" THEN [phase |-> "done", n |-> 0, a |-> 0]
    ELSE IF client.n = Chunks THEN [phase |-> "finalize", n |-> 0, a |-> 1]
    ELSE [phase |-> "upload", n |-> client.n + 1, a |-> 1]

(* "refused" stands for a 4xx, "failed" for a 5xx, "ended" for the         *)
(* completion of a job that has ended with an error.                       *)
Told(result) ==
    CASE result = "refused" -> Failed
      [] result = "failed"  -> Retried
      [] result = "ended"   -> [phase |-> "ended", n |-> 0, a |-> 0]
      [] OTHER              -> Advanced

(* The requests rs are answered; the client cares for the one it waits for. *)
AnswerFrom(rest, rs, result) ==
    IF client.phase \in {"upload", "finalize"} /\ Sent(client) \cap rs # {}
    THEN /\ client' = Told(result)
         /\ net' = rest \cup Sent(client')
    ELSE net' = rest /\ UNCHANGED client

Answer(rs, result) == AnswerFrom(net, rs, result)

(* The connection is lost or times out, wherever the request is, or the    *)
(* user stops waiting.                                                     *)
GiveUp ==
    /\ client.phase \in {"upload", "finalize"}
    /\ client' \in {Retried, Failed}
    /\ net' = net \cup Sent(client')
    /\ UNCHANGED <<job, timer, other, sessions, up, lock, fin, aborts, cancel, history>>

(***************************************************************************)
(* A chunk arrives: appendUploadChunk, up to the lock of the upload.       *)
(***************************************************************************)
Task(op, r, s) == [op |-> op, req |-> r, s |-> s]

Arrives(r, kind) == r \in net /\ r.kind = kind

RefuseChunk(r) ==
    /\ Arrives(r, "chunk") /\ job \notin {"pending", "uploading"}
    /\ AnswerFrom(net \ {r}, {r}, "refused")
    /\ UNCHANGED <<job, timer, other, sessions, up, lock, fin, aborts, cancel, history>>

BeginChunk(r) ==
    /\ Arrives(r, "chunk") /\ job \in {"pending", "uploading"}
    /\ job' = "uploading"
    /\ UNCHANGED <<other, scratch, intact, up, fin, aborts, cancel, history>>

SlotTaken(r) ==
    /\ active = None /\ other
    /\ BeginChunk(r)
    /\ timer' = TRUE
    /\ AnswerFrom(net \ {r}, {r}, "refused")
    /\ UNCHANGED <<active, sess, lock>>

(* activeImport starts a session; torn, if one is still being aborted. *)
OpenSession(r) ==
    /\ active = None /\ ~other
    /\ BeginChunk(r)
    /\ timer' = FALSE
    /\ \E s \in 1 .. MaxSessions :
         /\ sess[s].phase = "none" /\ \A q \in 1 .. s - 1 : sess[q].phase # "none"
         /\ active' = s
         /\ sess' = [sess EXCEPT ![s] = [NoSession EXCEPT !.phase = "opening",
                                            !.waiters = <<r>>, !.torn = aborts # {}]]
    /\ net' = net \ {r}
    /\ UNCHANGED <<client, lock>>

JoinSession(r) ==
    /\ active # None
    /\ BeginChunk(r)
    /\ timer' = FALSE
    /\ IF sess[active].phase = "opening"
       THEN /\ sess' = [sess EXCEPT ![active].waiters = Append(@, r)]
            /\ UNCHANGED lock
       ELSE /\ lock' = Append(lock, Task("append", r, active))
            /\ UNCHANGED sess
    /\ net' = net \ {r}
    /\ UNCHANGED <<client, active>>

(***************************************************************************)
(* createActive: the records of an earlier session are removed and the     *)
(* parser gets a directory of its own.                                     *)
(***************************************************************************)
Fault == faults < MaxFaults /\ faults' = faults + 1
FaultUnless(fine) == IF fine THEN UNCHANGED faults ELSE Fault

WaitingFor(s) == {sess[s].waiters[i] : i \in DOMAIN sess[s].waiters}

Opened(s) ==
    /\ sess[s].phase = "opening" /\ scratch = None
    /\ scratch' = s
    /\ intact' = {s}
    /\ sess' = [sess EXCEPT ![s].phase = IF \E t \in aborts : t.s = s THEN "aborting"
                                         ELSE "open",
                            ![s].waiters = <<>>]
    /\ lock' = lock \o [i \in DOMAIN sess[s].waiters |->
                            Task("append", sess[s].waiters[i], s)]
    /\ UNCHANGED <<wire, job, timer, other, active, up, fin, aborts, cancel, history>>

(* Every chunk that waits for the session then has the job fail. *)
OpenFails(s) ==
    /\ sess[s].phase = "opening" /\ FaultUnless(scratch # None)
    /\ intact' = {}
    /\ sess' = [sess EXCEPT ![s].phase = "aborted", ![s].waiters = <<>>]
    /\ active' = None
    /\ timer' = FALSE
    /\ job' = IF job = "gone" THEN "gone" ELSE "error"
    /\ Answer(WaitingFor(s), IF scratch # None THEN "refused" ELSE "failed")
    /\ UNCHANGED <<other, scratch, up, lock, fin, aborts, cancel, late, stranded,
                   unanswered>>

(***************************************************************************)
(* abortActive takes the session out of the slot at once; then its parser  *)
(* and its records go.  What follows depends on the caller.                *)
(***************************************************************************)
FinishedParser == {"completing", "failing", "committed", "failed", "aborted"}

Settled(status) == IF job = "gone" THEN "gone" ELSE status

(* Ends with "error": the chunk failed.  Ends with "gone": DELETE, expiry. *)
Outcome(end, r, result) ==
    /\ job' = IF end = "gone" THEN "gone" ELSE Settled("error")
    /\ cancel' = IF r.kind = "cancel" THEN Deleting("done", None) ELSE cancel
    /\ Answer({r}, result)

AbortActive(end, r, result) ==
    /\ timer' = FALSE
    /\ active' = None
    /\ IF active = None
       THEN /\ Outcome(end, r, result)
            /\ scratch' = IF end = "gone" THEN None ELSE scratch
            /\ UNCHANGED <<aborts, sess>>
       ELSE /\ aborts' = aborts \cup
                 {[s |-> active, end |-> end, req |-> r, result |-> result,
                   stage |-> IF sess[active].phase \in FinishedParser THEN "rows"
                             ELSE "parser"]}
            /\ sess' = [sess EXCEPT ![active].phase = IF @ = "open" THEN "aborting" ELSE @]
            /\ UNCHANGED <<wire, job, cancel, scratch>>

AbortParser(t) ==
    /\ t.stage = "parser" /\ sess[t.s].phase # "opening"
    /\ scratch' = IF scratch = t.s THEN None ELSE scratch
    /\ aborts' = (aborts \ {t}) \cup {[t EXCEPT !.stage = "rows"]}
    /\ UNCHANGED <<wire, job, timer, other, active, sess, intact, up, lock, fin, cancel,
                   history>>

(* The records are found by the id of the job, whichever session staged    *)
(* them, and so is the directory that a removal cleans up last.            *)
AbortRows(t) ==
    /\ t.stage = "rows"
    /\ intact' = IF sess[t.s].phase = "committed" THEN intact ELSE {}
    /\ sess' = [sess EXCEPT ![t.s].phase = IF @ = "aborting" THEN "aborted" ELSE @]
    /\ scratch' = IF t.end = "gone" THEN None ELSE scratch
    /\ Outcome(t.end, t.req, t.result)
    /\ aborts' = aborts \ {t}
    /\ UNCHANGED <<timer, other, active, up, lock, fin, history>>

(***************************************************************************)
(* The holder of the lock: BackupImportUploadStore.append.                 *)
(***************************************************************************)
Holds(op) == lock # <<>> /\ Head(lock).op = op

Release == lock' = Tail(lock)

HoldsChunk ==
    /\ Holds("append") /\ Release
    /\ late' = (late \/ fin.phase # "none")
    /\ UNCHANGED <<other, intact, fin, stranded, unanswered>>

\* A seeded bug: the timer the arrival of the chunk has cleared stays so.
AnswerAppend_Unarmed(r, result) ==
    /\ UNCHANGED timer
    /\ Answer({r}, result)

(* The chunk is not the next one: it is accepted if it is the last one     *)
(* received, and refused otherwise.  The timer is armed either way.        *)
AnswerAppend(r, result) ==
    /\ timer' = TRUE
    /\ Answer({r}, IF result = "ok" /\ job = "gone" THEN "refused" ELSE result)

(* The rules of append before a byte is parsed. *)
Duplicate(r) == r.n = up.received

\* A seeded bug: the chunk accepted last is parsed again when it is repeated.
NextChunk_Again(r) == r.n \in {up.received, up.received + 1}

NextChunk(r) == r.n = up.received + 1

AppendRefused ==
    LET r == Head(lock).req
    IN  /\ HoldsChunk
        /\ \/ up.sealed
           \/ ~NextChunk(r) /\ ~Duplicate(r)
           \/ r \notin Sent(client)            \* its body ended early
        /\ up' = [up EXCEPT !.known = @ \/ ~up.sealed]
        /\ AnswerAppend(r, "refused")
        /\ UNCHANGED <<job, active, sess, scratch, aborts, cancel, faults>>

AppendRepeated ==
    LET r == Head(lock).req
    IN  /\ HoldsChunk
        /\ ~up.sealed /\ Duplicate(r)
        /\ AnswerAppend(r, "ok")
        /\ UNCHANGED <<job, active, sess, scratch, up, aborts, cancel, faults>>

AppendConsumed ==
    LET r == Head(lock).req
        s == Head(lock).s
    IN  /\ HoldsChunk
        /\ ~up.sealed /\ NextChunk(r) /\ sess[s].phase = "open"
        /\ sess' = [sess EXCEPT ![s].consumed = Append(@, r.n)]
        /\ up' = [up EXCEPT !.known = TRUE,
                            !.received = IF job = "gone" THEN @ ELSE @ + 1]
        /\ AnswerAppend(r, "ok")
        /\ UNCHANGED <<job, active, scratch, aborts, cancel, faults>>

(* The parser is finished already, its directory is gone, or an entry      *)
(* cannot be parsed or stored: abortActive, whichever session is active.   *)
AppendFails ==
    LET r == Head(lock).req
        s == Head(lock).s
    IN  /\ HoldsChunk
        /\ ~up.sealed /\ NextChunk(r)
        /\ FaultUnless(sess[s].phase # "open" \/ scratch # s)
        /\ up' = [up EXCEPT !.known = TRUE]
        /\ \E result \in {"refused", "failed"} :
             /\ result = "failed" => sess[s].phase = "open"
             /\ AbortActive("error", r, result)

(***************************************************************************)
(* finalizeUpload and completeActive.                                      *)
(***************************************************************************)
ShareFinalize(r) ==
    /\ Arrives(r, "finalize") /\ fin.phase # "none"
    /\ timer' = FALSE
    /\ fin' = [fin EXCEPT !.sharers = @ \cup {r}]
    /\ net' = net \ {r}
    /\ UNCHANGED <<client, job, other, sessions, up, lock, aborts, cancel, history>>

StartFinalize(r) ==
    /\ Arrives(r, "finalize") /\ fin.phase = "none" /\ job \in {"pending", "uploading"}
    /\ timer' = FALSE
    /\ fin' = [phase |-> "queued", sharers |-> {r}, result |-> "ok"]
    /\ lock' = Append(lock, Task("seal", r, None))
    /\ net' = net \ {r}
    /\ UNCHANGED <<client, job, other, sessions, up, aborts, cancel, history>>

(* The job has ended or is gone, and its timer is cleared all the same. *)
LateFinalize(r) ==
    /\ Arrives(r, "finalize") /\ fin.phase = "none" /\ job \notin {"pending", "uploading"}
    /\ timer' = FALSE
    /\ stranded' = (stranded \/ active # None)
    /\ CASE job = "gone"     -> AnswerFrom(net \ {r}, {r}, "refused")
         [] job = "complete" -> AnswerFrom(net \ {r}, {r}, "ok")
         [] job = "error"    -> AnswerFrom(net \ {r}, {r}, "ended")
         [] OTHER            -> net' = net \ {r} /\ UNCHANGED client
    /\ UNCHANGED <<job, other, sessions, up, lock, fin, aborts, cancel, faults, late,
                   unanswered>>

Whole == up.known /\ ~up.sealed /\ up.received = Chunks

SealRefused ==
    /\ Holds("seal") /\ Release
    /\ ~Whole
    /\ timer' = TRUE
    /\ fin' = NoFin
    /\ Answer(fin.sharers, "refused")
    /\ UNCHANGED <<job, other, sessions, up, aborts, cancel, history>>

(* markRestoring refuses a job that has failed meanwhile. *)
SealTooLate ==
    /\ Holds("seal") /\ Release
    /\ Whole /\ job # "uploading"
    /\ up' = [up EXCEPT !.sealed = TRUE]
    /\ fin' = NoFin
    /\ stranded' = (stranded \/ active # None)
    /\ Answer(fin.sharers, "refused")
    /\ UNCHANGED <<job, timer, other, sessions, aborts, cancel, faults, late, unanswered>>

Clean(r) == Task("clean", r, None)
Finalized == Request("finalized", 0, 1)

(* completeActive finds no session: the job stays as it is. *)
SealWithout ==
    /\ Holds("seal") /\ Whole /\ job = "uploading" /\ active = None
    /\ up' = [up EXCEPT !.sealed = TRUE]
    /\ job' = "restoring"
    /\ fin' = [fin EXCEPT !.phase = "cleaning", !.result = "refused"]
    /\ lock' = Append(Tail(lock), Clean(Finalized))
    /\ UNCHANGED <<wire, timer, other, sessions, aborts, cancel, history>>

(* parser.finish and validateDatabase accept the file, which only a whole  *)
(* file is sure to pass, or the restore fails.  A session that is being    *)
(* opened is waited for.                                                   *)
Seal ==
    /\ Holds("seal") /\ Release
    /\ Whole /\ job = "uploading" /\ active # None /\ sess[active].phase # "opening"
    /\ up' = [up EXCEPT !.sealed = TRUE]
    /\ job' = "restoring"
    /\ fin' = [fin EXCEPT !.phase = "restoring"]
    /\ \E accepted \in BOOLEAN :
         /\ accepted => sess[active].phase = "open" /\ active \in intact
         /\ FaultUnless(\/ accepted
                        \/ sess[active].phase # "open" \/ active \notin intact
                        \/ sess[active].consumed # File)
         /\ sess' = [sess EXCEPT ![active].phase = IF accepted THEN "completing"
                                                   ELSE "failing"]
    /\ scratch' = IF scratch = active THEN None ELSE scratch
    /\ UNCHANGED <<wire, timer, other, active, intact, aborts, cancel, late, stranded,
                   unanswered>>

(* The finally of completeActive: whatever session holds the slot leaves it. *)
EndRestore(s, phase, result) ==
    /\ sess' = [sess EXCEPT ![s].phase = phase]
    /\ timer' = FALSE
    /\ active' = None
    /\ scratch' = None
    /\ fin' = [fin EXCEPT !.phase = "cleaning", !.result = result]
    /\ lock' = Append(lock, Clean(Finalized))
    /\ UNCHANGED <<wire, other, up, aborts, cancel, late, stranded>>

\* A seeded bug: records that cannot be removed after the commit are an error.
RestoreCommits_Uncaught(s) ==
    /\ sess[s].phase = "completing"
    /\ intact' = intact \cup {s}
    /\ \E removed \in BOOLEAN :
         /\ FaultUnless(removed)
         /\ job' = Settled(IF removed THEN "complete" ELSE "error")
         /\ EndRestore(s, "committed", IF removed THEN "ok" ELSE "failed")
    /\ UNCHANGED unanswered

(* The commit takes place, also when the records vanish behind it. *)
RestoreCommits(s) ==
    /\ sess[s].phase = "completing"
    /\ job' = Settled("complete")
    /\ intact' = intact \ {s}
    /\ EndRestore(s, "committed", IF job = "gone" THEN "refused" ELSE "ok")
    /\ UNCHANGED <<faults, unanswered>>

(* The database took the COMMIT, but the connection broke before it said   *)
(* so: complete throws as if it had failed.                                *)
AnswerLost(s) ==
    /\ sess[s].phase = "completing" /\ Fault
    /\ unanswered' = unanswered \cup {s}

RestoreFails(s) ==
    /\ sess[s].phase \in {"completing", "failing"}
    /\ \/ /\ FaultUnless(sess[s].phase = "failing" \/ s \notin intact)
          /\ UNCHANGED unanswered
       \/ AnswerLost(s)
    /\ job' = Settled("error")
    /\ intact' = {}
    /\ \E result \in {"refused", "failed"} : EndRestore(s, "failed", result)

(***************************************************************************)
(* Cleaning up: the end of a finalization, a DELETE and the idle timer.    *)
(***************************************************************************)
FinishFinalize ==
    /\ Holds("clean") /\ Head(lock).req = Finalized /\ Release
    /\ up' = NoUpload
    /\ fin' = NoFin
    /\ Answer(fin.sharers, fin.result)
    /\ UNCHANGED <<job, timer, other, sessions, aborts, cancel, history>>

ArriveCancel(r) ==
    /\ Arrives(r, "cancel")
    /\ timer' = FALSE
    /\ cancel' = Deleting("queued", None)
    /\ lock' = Append(lock, Clean(r))
    /\ net' = net \ {r}
    /\ UNCHANGED <<client, job, other, sessions, up, fin, aborts, history>>

Opening(s) == s # None /\ sess[s].phase = "opening"

\* A seeded bug: a session does not know that it is finalized.
Finalizing_Never(s) == FALSE

Finalizing(s) == s # None /\ sess[s].phase \in {"completing", "failing"}

(* The session s that cancel found is waited for when it is finalized;     *)
(* otherwise abortActive takes whatever holds the slot by now.             *)
Cancel(s, r) ==
    IF Finalizing(s)
    THEN /\ cancel' = Deleting("waiting", s)
         /\ UNCHANGED <<wire, job, timer, active, sess, scratch, aborts>>
    ELSE AbortActive("gone", r, "ok")

CleanCancelled ==
    /\ Holds("clean") /\ Head(lock).req.kind = "cancel" /\ Release
    /\ up' = NoUpload
    /\ IF Opening(active)
       THEN /\ cancel' = Deleting("opening", active)
            /\ UNCHANGED <<wire, job, timer, active, sess, scratch, aborts>>
       ELSE Cancel(active, Head(lock).req)
    /\ UNCHANGED <<other, intact, fin, history>>

(* The DELETE that waited for a session goes on as soon as it is open.     *)
CancelResumes == cancel.phase = "opening" /\ ~Opening(cancel.s)

CancelOpened ==
    /\ CancelResumes
    /\ Cancel(cancel.s, Request("cancel", 0, 1))
    /\ UNCHANGED <<other, intact, up, lock, fin, history>>

CancelSettled ==
    /\ cancel.phase = "waiting" /\ job \notin {"pending", "uploading", "restoring"}
    /\ cancel' = Deleting("done", None)
    /\ job' = "gone"
    /\ UNCHANGED <<wire, timer, other, sessions, up, lock, fin, aborts, history>>

Expiry == Request("expiry", 0, 1)

TimerFires ==
    /\ timer
    /\ timer' = FALSE
    /\ lock' = Append(lock, Clean(Expiry))
    /\ UNCHANGED <<wire, job, other, sessions, up, fin, aborts, cancel, history>>

CleanExpired ==
    /\ Holds("clean") /\ Head(lock).req = Expiry /\ Release
    /\ up' = NoUpload
    /\ AbortActive("gone", Expiry, "ok")
    /\ UNCHANGED <<other, intact, fin, history>>

(* Another import comes and goes. *)
OtherImport ==
    /\ other \/ active = None
    /\ other' = ~other
    /\ UNCHANGED <<wire, job, timer, sessions, up, lock, fin, aborts, cancel, history>>

(***************************************************************************)
(* The specification.                                                      *)
(***************************************************************************)
Init ==
    /\ client = [phase |-> "upload", n |-> 1, a |-> 1]
    /\ net = Sent(client)
    /\ job = "pending" /\ timer = FALSE /\ other = FALSE
    /\ active = None /\ sess = [s \in 1 .. MaxSessions |-> NoSession]
    /\ scratch = None /\ intact = {}
    /\ up = NoUpload /\ lock = <<>> /\ fin = NoFin
    /\ aborts = {} /\ cancel = Deleting("none", None)
    /\ faults = 0 /\ late = FALSE /\ stranded = FALSE /\ unanswered = {}

Arrive(r) ==
    \/ RefuseChunk(r) \/ SlotTaken(r) \/ OpenSession(r) \/ JoinSession(r)
    \/ ShareFinalize(r) \/ StartFinalize(r) \/ LateFinalize(r) \/ ArriveCancel(r)

Open == \E s \in 1 .. MaxSessions : Opened(s) \/ OpenFails(s)

Upload ==
    \/ AppendRefused \/ AppendRepeated \/ AppendConsumed \/ AppendFails
    \/ SealRefused \/ SealTooLate \/ SealWithout \/ Seal
    \/ FinishFinalize \/ CleanCancelled \/ CleanExpired

Restore == \E s \in 1 .. MaxSessions : RestoreCommits(s) \/ RestoreFails(s)

Abort == \E t \in aborts : AbortParser(t) \/ AbortRows(t)

EndCancel == CancelOpened \/ CancelSettled

Next ==
    \/ CancelOpened
    \/ /\ ~CancelResumes
       /\ \/ GiveUp \/ \E r \in net : Arrive(r)
          \/ Open \/ Upload \/ Restore \/ Abort \/ CancelSettled \/ TimerFires
          \/ OtherImport

Spec == Init /\ [][Next]_vars

(* The server goes on with what it has begun; the client owes nothing, and *)
(* no request has to arrive.                                               *)
Fairness ==
    /\ WF_vars(Open) /\ WF_vars(Upload) /\ WF_vars(Restore) /\ WF_vars(Abort)
    /\ WF_vars(EndCancel) /\ WF_vars(TimerFires)

FairSpec == Spec /\ Fairness

(***************************************************************************)
(* Properties.                                                             *)
(***************************************************************************)

(* The database was replaced by what the session staged. *)
Applied(s) == sess[s].phase = "committed" \/ s \in unanswered

(* What finalizing applies is the file the user chose, each byte once and  *)
(* in order, however requests were lost, repeated or overtaken             *)
(* (BackupImportUploadStore, "This preserves request retry safety").  A    *)
(* session opened while the failed one before it was still being aborted   *)
(* is exempt: it goes on in the middle of the file.                        *)
WholeFile ==
    \A s \in 1 .. MaxSessions :
        (sess[s].phase = "completing" \/ Applied(s)) /\ ~sess[s].torn
            => sess[s].consumed = File

(* While a restore is applied nothing takes its slot, removes its staged   *)
(* records or aborts it: neither a DELETE, nor a failing chunk, nor the    *)
(* idle timer.  A chunk handled beside the finalization is exempt: it arms *)
(* the timer again, and a restore longer than the timeout is aborted.      *)
RestoreUndisturbed ==
    \A s \in 1 .. MaxSessions :
        sess[s].phase = "completing" /\ ~late /\ ~sess[s].torn
            => /\ active = s /\ s \in intact
               /\ ~\E t \in aborts : t.s = s

(* No chunk was handled beside a finalization, and no session was opened   *)
(* while another one was being aborted.                                    *)
Orderly == ~late /\ \A s \in 1 .. MaxSessions : ~sess[s].torn

(* The client is told that its backup was restored only if it was, and     *)
(* that it failed only if the database is unchanged, also by an answer     *)
(* that a repeated finalize shares or finds later; so says the job.  A     *)
(* COMMIT that took effect but was never answered is exempt: it is         *)
(* reported as a failure.                                                  *)
ToldTruth ==
  Orderly =>
    /\ client.phase = "done" \/ job = "complete"
         => \E s \in 1 .. MaxSessions : Applied(s)
    /\ client.phase = "ended" \/ job = "error"
         => \A s \in 1 .. MaxSessions : Applied(s) => s \in unanswered

(* An import that holds the slot ends, although its client may never be    *)
(* heard of again: it is committed, aborted or expires.  A finalize for a  *)
(* job that is over while a session of it is active is exempt: no timer is *)
(* left.                                                                   *)
SlotFreed == active # None ~> (active = None \/ stranded)
=============================================================================
