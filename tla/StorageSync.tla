------------------------------ MODULE StorageSync ------------------------------
(* The replacement of the server's database and assets by a staged upload:    *)
(* the gate that shuts mutations out, the finalize request with its snapshot, *)
(* the asset workers, the database transaction and the undo, over retries,    *)
(* failing steps, disconnecting users, an expiring session and restarts.      *)
EXTENDS Integers, FiniteSets

CONSTANTS Replaced,     \* planned assets of which the target holds older content
          Added,        \* planned assets the target does not have
          Skipped,      \* planned assets the target has already
          Users,        \* clients that mutate the target meanwhile
          MaxAttempts,  \* bound: finalize requests
          MaxWrites,    \* bound: requests of the users
          MaxFaults,    \* bound: failing steps
          MaxRestarts   \* bound: restarts of the server

Ready == Replaced \union Added      \* staged in full, to be written
Assets == Ready \union Skipped
Attempts == 1..MaxAttempts

ASSUME StorageSyncAssumption ==
    /\ IsFiniteSet(Assets) /\ Replaced \intersect Added = {} /\ Ready \intersect Skipped = {}
    /\ {MaxAttempts, MaxWrites, MaxFaults, MaxRestarts} \subseteq Nat

VARIABLES gate,       \* the attempt the gate is closed for, or 0
          requests,   \* each user's mutation in the server
          db,         \* revision and content of the database
          assets,     \* content of the active asset storage
          snapshot,   \* the recovery snapshot on disk
          session,    \* the sync session and what is on disk of it
          fin,        \* where each finalize request stands
          copies,     \* what copy workers that outlived an attempt have still to copy
          applying,   \* assets an attempt's workers may still write
          undoing,    \* assets its undo has still to restore
          writes, faults, restarts,   \* counters
          allowed,    \* ghost: contents an asset should have
          excused,    \* ghost: assets nobody promises anything of
          spoiled,    \* ghost: assets of which such a worker changed the snapshot
          unsure      \* ghost: a COMMIT took effect and was not answered

counters == <<writes, faults, restarts>>
ghosts   == <<allowed, excused, spoiled, unsure>>
vars == <<gate, requests, db, assets, snapshot, session, fin, copies, applying, undoing,
          counters, ghosts>>

\* What an asset holds; "torn" is a write the process did not survive.
Contents == {"absent", "old", "new", "user", "torn"}

Inside == {"waiting", "preparing", "copying", "applying", "committing", "undoing",
           "promoting", "finishing"}
Ended == {"completed", "failed", "busy", "unknown", "lost"}

Initial == [a \in Assets |-> IF a \in Replaced THEN "old"
                             ELSE IF a \in Added THEN "absent" ELSE "new"]

\* The summary a session is compared with: the revision, how many assets there
\* are and their size.  Complete assets are all of one size here, the case in
\* which the comparison sees least.
Summary(d, contents) ==
    [revision |-> d.revision,
     count    |-> Cardinality({a \in Assets : contents[a] # "absent"}),
     size     |-> Cardinality({a \in Assets : contents[a] \notin {"absent", "torn"}})]

NoSnapshot == [state |-> "none", saved |-> Initial]

\* A copy is still to be begun ("next"), or its content is read and is on its
\* way to the snapshot.
NoCopies == [a \in Ready |-> "none"]

\* A session of which everything has been staged.
Init ==
    /\ gate = 0
    /\ requests = [u \in Users |-> "none"]
    /\ db = [revision |-> 0, content |-> "old"]
    /\ assets = Initial
    /\ snapshot = NoSnapshot
    /\ session = [live |-> TRUE, status |-> "sql-ready", saved |-> FALSE, staged |-> TRUE]
    /\ fin = [n \in Attempts |-> "idle"]
    /\ copies = [n \in Attempts |-> NoCopies]
    /\ applying = [n \in Attempts |-> {}]
    /\ undoing = [n \in Attempts |-> {}]
    /\ writes = 0 /\ faults = 0 /\ restarts = 0
    /\ allowed = [a \in Assets |-> {Initial[a]}]
    /\ excused = {} /\ spoiled = {} /\ unsure = FALSE

Goto(n, pc) == fin' = [fin EXCEPT ![n] = pc]
Fault == faults < MaxFaults /\ faults' = faults + 1

----------------------------------------------------------------------------
(* Users.  A mutation passes the gate, and is counted until its response is  *)
(* finished or its connection is closed, whichever is first; a handler whose *)
(* client has gone goes on uncounted.                                        *)

Enter(u) ==
    /\ writes < MaxWrites
    /\ gate = 0
    /\ requests[u] = "none"
    /\ writes' = writes + 1
    /\ requests' = [requests EXCEPT ![u] = "entered"]
    /\ UNCHANGED <<gate, db, assets, snapshot, copies, session, fin, applying, undoing,
                   faults, restarts, ghosts>>

Disconnect(u) ==
    /\ requests[u] = "entered"
    /\ requests' = [requests EXCEPT ![u] = "orphan"]
    /\ UNCHANGED <<gate, db, assets, snapshot, copies, session, fin, applying, undoing,
                   counters, ghosts>>

\* The session is dropped and its directory removed; a finalize request that
\* has it already goes on.
Forget == session' = [session EXCEPT !.live = FALSE, !.staged = FALSE, !.saved = FALSE]

\* A retry would use the snapshot of an attempt that failed before this change.
StaleSnapshot == db.content = "old" /\ snapshot.state = "prepared"

\* What the handler does: a commit, an asset written or removed, the session
\* deleted, or nothing (it refuses or fails).
Mutate(u) ==
    /\ requests' = [requests EXCEPT ![u] = "none"]
    /\ \/ /\ db' = [db EXCEPT !.revision = @ + 1]
          /\ UNCHANGED <<assets, session, ghosts>>
       \/ \E a \in Assets, content \in {"user", "absent"} :
            /\ assets' = [assets EXCEPT ![a] = content]
            /\ allowed' = [allowed EXCEPT ![a] = IF requests[u] = "entered" THEN {content}
                                                 ELSE @ \union {content}]
            /\ excused' = IF (requests[u] = "orphan" /\ gate # 0) \/ StaleSnapshot
                          THEN excused \union {a} ELSE excused
            /\ UNCHANGED <<db, session, spoiled, unsure>>
       \/ /\ Forget
          /\ UNCHANGED <<db, assets, ghosts>>
       \/ UNCHANGED <<db, assets, session, ghosts>>
    /\ UNCHANGED <<gate, snapshot, copies, fin, applying, undoing, counters>>

Answer(u) == requests[u] = "entered" /\ Mutate(u)
Land(u)   == requests[u] = "orphan" /\ Mutate(u)

\* prune, called by any request that looks for a session, reads included.
Expire ==
    /\ session.live
    /\ Forget
    /\ UNCHANGED <<gate, requests, db, assets, snapshot, copies, fin, applying, undoing,
                   counters, ghosts>>

----------------------------------------------------------------------------
(* A finalize request.                                                       *)

\* The attempt ends with an answer and the gate is released.
Release(n, answer) == gate' = 0 /\ Goto(n, answer)

\* A seeded bug: the gate lets in a second attempt.
Acquired_Always == TRUE

Acquired == gate = 0

Arrive(n) ==
    /\ fin[n] = "idle" /\ \A m \in Attempts : m < n => fin[m] # "idle"
    /\ \/ /\ ~session.live
          /\ Goto(n, "unknown") /\ UNCHANGED gate
       \/ /\ session.live /\ session.status = "finalized"
          /\ Goto(n, "completed") /\ UNCHANGED gate
       \/ /\ session.live /\ session.status # "finalized" /\ ~Acquired
          /\ Goto(n, "busy") /\ UNCHANGED gate
       \/ /\ session.live /\ session.status # "finalized" /\ Acquired
          /\ Goto(n, "waiting") /\ gate' = n
    /\ UNCHANGED <<requests, db, assets, snapshot, copies, session, applying, undoing,
                   counters, ghosts>>

Drained == \A u \in Users : requests[u] # "entered"

\* preflightStorageSyncFinalize.
PreflightPasses ==
    /\ session.staged
    /\ Summary(db, assets) = Summary([revision |-> 0], Initial)
    /\ \A a \in Skipped : assets[a] = "new"

\* A seeded bug: a refused preflight leaves the gate closed.
Preflight_Unreleased(n) ==
    /\ fin[n] = "waiting" /\ Drained
    /\ Goto(n, IF PreflightPasses THEN "preparing" ELSE "failed")
    /\ UNCHANGED <<gate, requests, db, assets, snapshot, copies, session, applying, undoing,
                   counters, ghosts>>

Preflight(n) ==
    /\ fin[n] = "waiting" /\ Drained
    /\ IF PreflightPasses THEN Goto(n, "preparing") /\ UNCHANGED gate
                          ELSE Release(n, "failed")
    /\ UNCHANGED <<requests, db, assets, snapshot, copies, session, applying, undoing,
                   counters, ghosts>>

StartApplying(n) ==
    /\ Goto(n, "applying")
    /\ applying' = [applying EXCEPT ![n] = Ready]

\* A seeded bug: a snapshot that is there already is taken again.
Reusable_Never == FALSE

\* The revision and the plan of a session do not change.
Reusable == snapshot.state = "prepared"

Prepare(n) ==
    /\ fin[n] = "preparing"
    /\ IF Reusable THEN StartApplying(n) /\ UNCHANGED snapshot
       ELSE /\ snapshot' = [state |-> "preparing", saved |-> Initial]
            /\ Goto(n, "copying")
            /\ UNCHANGED applying
    /\ spoiled' = IF Reusable THEN spoiled ELSE {}
    /\ UNCHANGED <<gate, requests, db, assets, copies, session, undoing, counters,
                   allowed, excused, unsure>>

Copied(n) ==
    /\ fin[n] = "copying"
    /\ snapshot' = [state |-> "prepared", saved |-> assets]
    /\ StartApplying(n)
    /\ UNCHANGED <<gate, requests, db, assets, copies, session, undoing, counters, ghosts>>

\* A worker fails, or the metadata cannot be written.  The directory is removed
\* while the other workers go on with the assets that are left.
CopyFails(n) ==
    /\ fin[n] = "copying"
    /\ Fault
    /\ snapshot' = NoSnapshot
    /\ \E left \in {S \in SUBSET Ready : S = {} \/ S # Ready} :
          copies' = [copies EXCEPT ![n] = [a \in Ready |-> IF a \in left THEN "next" ELSE "none"]]
    /\ Release(n, "failed")
    /\ UNCHANGED <<requests, db, assets, session, applying, undoing, writes,
                   restarts, ghosts>>

\* Such a worker opens an asset and, once it has been read, moves it to its
\* place in the session's directory, where by then a retry may have a snapshot.
OpensLate(n, a) ==
    /\ copies[n][a] = "next"
    /\ copies' = [copies EXCEPT ![n][a] = IF assets[a] = "absent" THEN "none" ELSE assets[a]]
    /\ UNCHANGED <<gate, requests, db, assets, snapshot, session, fin, applying, undoing,
                   counters, ghosts>>

\* An asset the snapshot has as absent is removed by the undo, whatever file
\* there is.
Overwritten(a) == snapshot.state \in {"prepared", "current"} /\ snapshot.saved[a] # "absent"

CopiesLate(n, a) ==
    /\ copies[n][a] \in Contents
    /\ copies' = [copies EXCEPT ![n][a] = "none"]
    /\ IF Overwritten(a)
       THEN /\ snapshot' = [snapshot EXCEPT !.saved[a] = copies[n][a]]
            /\ spoiled' = IF snapshot' = snapshot THEN spoiled ELSE spoiled \union {a}
       ELSE UNCHANGED <<snapshot, spoiled>>
    /\ UNCHANGED <<gate, requests, db, assets, session, fin, applying, undoing,
                   counters, allowed, excused, unsure>>

\* It ends when it fails as well, as it does if its file was removed with the
\* directory.
StopsLate(n) ==
    /\ copies[n] # NoCopies
    /\ copies' = [copies EXCEPT ![n] = NoCopies]
    /\ UNCHANGED <<gate, requests, db, assets, snapshot, session, fin, applying, undoing,
                   counters, ghosts>>
----------------------------------------------------------------------------
(* The assets.  Two workers share a cursor; a write is visible when it is    *)
(* done.  Here each asset that is still to be written may be next.           *)

Write(a, contents) == assets' = [assets EXCEPT ![a] = contents]

Applied(n, a) ==
    /\ a \in applying[n] /\ session.staged
    /\ Write(a, "new")
    /\ applying' = [applying EXCEPT ![n] = @ \ {a}]
    /\ UNCHANGED <<gate, requests, db, snapshot, copies, session, fin, undoing, counters, ghosts>>

\* The catch clause of the finalize request, before the undo.
BeginUndo(n) == Goto(n, "undoing") /\ undoing' = [undoing EXCEPT ![n] = Ready]

\* A write that fails is aborted, which removes the file of a local storage.
AbortWrite(a) == Write(a, assets[a]) \/ Write(a, "absent")

\* One worker fails and Promise.all rejects: the undo begins while the other
\* worker goes on, until it fails as well.
ApplyFails(n, a) ==
    /\ a \in applying[n]
    /\ IF session.staged THEN Fault ELSE UNCHANGED faults
    /\ AbortWrite(a)
    /\ IF fin[n] = "applying"
       THEN /\ BeginUndo(n)
            /\ applying' = [applying EXCEPT ![n] = @ \ {a}]
            /\ excused' = excused \union (applying[n] \ {a})
       ELSE /\ applying' = [applying EXCEPT ![n] = {}]
            /\ UNCHANGED <<fin, undoing, excused>>
    /\ UNCHANGED <<gate, requests, db, snapshot, copies, session, writes, restarts,
                   allowed, spoiled, unsure>>

AllApplied(n) ==
    /\ fin[n] = "applying" /\ applying[n] = {}
    /\ Goto(n, "committing")
    /\ UNCHANGED <<gate, requests, db, assets, snapshot, copies, session, applying, undoing,
                   counters, ghosts>>

Restored(n, a) ==
    /\ a \in undoing[n]
    /\ Write(a, snapshot.saved[a])
    /\ undoing' = [undoing EXCEPT ![n] = @ \ {a}]
    /\ excused' = excused \union ({a} \intersect spoiled)
    /\ UNCHANGED <<gate, requests, db, snapshot, copies, session, fin, applying, counters,
                   allowed, spoiled, unsure>>

\* The answer is asset_rollback_failed.
RestoreFails(n, a) ==
    /\ a \in undoing[n]
    /\ Fault
    /\ AbortWrite(a)
    /\ IF fin[n] = "undoing"
       THEN /\ Release(n, "failed")
            /\ undoing' = [undoing EXCEPT ![n] = @ \ {a}]
            /\ excused' = excused \union undoing[n]
       ELSE /\ undoing' = [undoing EXCEPT ![n] = {}]
            /\ UNCHANGED <<gate, fin, excused>>
    /\ UNCHANGED <<requests, db, snapshot, copies, session, applying, writes, restarts,
                   allowed, spoiled, unsure>>

Undone(n) ==
    /\ fin[n] = "undoing" /\ undoing[n] = {}
    /\ Release(n, "failed")
    /\ UNCHANGED <<requests, db, assets, snapshot, copies, session, applying, undoing,
                   counters, ghosts>>

----------------------------------------------------------------------------
(* The database, and the end.                                                *)

\* A seeded bug: a transaction that fails leaves the assets as they are.
CommitFails_NoUndo(n) ==
    /\ fin[n] = "committing"
    /\ IF db.revision # 0 \/ ~session.staged THEN UNCHANGED faults ELSE Fault
    /\ Release(n, "failed")
    /\ UNCHANGED <<requests, db, assets, snapshot, copies, session, applying, undoing, writes,
                   restarts, ghosts>>

\* The revision has changed, the staged records cannot be read, or the
\* transaction fails for a reason of its own.
CommitFails(n) ==
    /\ fin[n] = "committing"
    /\ IF db.revision # 0 \/ ~session.staged THEN UNCHANGED faults ELSE Fault
    /\ BeginUndo(n)
    /\ UNCHANGED <<gate, requests, db, assets, snapshot, copies, session, applying, writes,
                   restarts, ghosts>>

\* The row of the revision is locked from the check to the COMMIT.
Commit(n) ==
    /\ fin[n] = "committing" /\ session.staged
    /\ db.revision = 0
    /\ db' = [revision |-> 1, content |-> "new"]
    /\ Goto(n, "promoting")
    /\ allowed' = [a \in Assets |-> {"new"}]
    /\ excused' = {a \in excused :
                     assets[a] # "new" \/ \E m \in Attempts : a \in applying[m] \union undoing[m]}
    /\ UNCHANGED <<gate, requests, assets, snapshot, copies, session, applying, undoing, counters,
                   spoiled, unsure>>

\* The COMMIT takes effect, its answer is lost, and the assets are restored
\* beside the new database.
CommitUnanswered(n) ==
    /\ fin[n] = "committing" /\ session.staged
    /\ db.revision = 0
    /\ Fault
    /\ db' = [revision |-> 1, content |-> "new"]
    /\ BeginUndo(n)
    /\ unsure' = TRUE
    /\ excused' = Assets
    /\ UNCHANGED <<gate, requests, assets, snapshot, copies, session, applying, writes, restarts,
                   allowed, spoiled>>

\* A failure is only reported.
Promote(n) ==
    /\ fin[n] = "promoting"
    /\ Goto(n, "finishing")
    /\ \/ snapshot' = [snapshot EXCEPT !.state = "current"] /\ UNCHANGED faults
       \/ Fault /\ UNCHANGED snapshot
    /\ UNCHANGED <<gate, requests, db, assets, copies, session, applying, undoing, writes,
                   restarts, ghosts>>

\* A seeded bug: the session does not learn that it is finalized.
Finish_Unrecorded(n) ==
    /\ fin[n] = "finishing"
    /\ Release(n, "completed")
    /\ UNCHANGED <<requests, db, assets, snapshot, copies, session, applying, undoing,
                   counters, ghosts>>

\* The gate is released and, in the same turn, the result recorded and saved;
\* then the staged files are removed.  A failing save is only reported.
Finish(n) ==
    /\ fin[n] = "finishing"
    /\ Release(n, "completed")
    /\ \/ /\ session' = [session EXCEPT !.status = "finalized", !.saved = TRUE,
                                       !.staged = FALSE]
          /\ UNCHANGED faults
       \/ Fault /\ session' = [session EXCEPT !.status = "finalized"]
    /\ UNCHANGED <<requests, db, assets, snapshot, copies, applying, undoing, writes, restarts,
                   ghosts>>

----------------------------------------------------------------------------
(* The server restarts: sessions are loaded from disk and hydrated, nothing  *)
(* looks at the snapshots.                                                   *)

Restart ==
    /\ restarts < MaxRestarts
    /\ restarts' = restarts + 1
    /\ LET open == UNION {applying[n] \union undoing[n] : n \in Attempts} IN
       \E torn \in SUBSET open :
           assets' = [a \in Assets |-> IF a \in torn THEN "torn" ELSE assets[a]]
    /\ excused' = IF \E n \in Attempts : fin[n] \in {"applying", "committing", "undoing"}
                  THEN excused \union Ready ELSE excused
    /\ gate' = 0
    /\ requests' = [u \in Users |-> "none"]
    /\ session' = [session EXCEPT !.live = @ \/ session.saved,
                       !.status = IF session.saved THEN "finalized" ELSE "sql-ready"]
    /\ fin' = [n \in Attempts |-> IF fin[n] \in Inside THEN "lost" ELSE fin[n]]
    /\ copies' = [n \in Attempts |-> NoCopies]
    /\ applying' = [n \in Attempts |-> {}]
    /\ undoing' = [n \in Attempts |-> {}]
    /\ UNCHANGED <<db, snapshot, writes, faults, allowed, spoiled, unsure>>

Attempt(n) ==
    \/ Preflight(n) \/ Prepare(n) \/ Copied(n) \/ CopyFails(n) \/ StopsLate(n)
    \/ \E a \in Ready : OpensLate(n, a) \/ CopiesLate(n, a)
    \/ AllApplied(n) \/ Undone(n)
    \/ CommitFails(n) \/ Commit(n) \/ CommitUnanswered(n) \/ Promote(n) \/ Finish(n)
    \/ \E a \in Ready :
         Applied(n, a) \/ ApplyFails(n, a) \/ Restored(n, a) \/ RestoreFails(n, a)

Next ==
    \/ \E u \in Users : Enter(u) \/ Disconnect(u) \/ Answer(u) \/ Land(u)
    \/ \E n \in Attempts : Arrive(n) \/ Attempt(n)
    \/ Expire
    \/ Restart

Spec == Init /\ [][Next]_vars

\* Handlers are run and files, database and storage answer.
Fairness ==
    /\ \A u \in Users : WF_vars(Answer(u))
    /\ \A n \in Attempts : WF_vars(Attempt(n))

FairSpec == Spec /\ Fairness

----------------------------------------------------------------------------
(* Properties.                                                               *)

\* Every variable has its type.
TypeOK ==
    /\ gate \in 0..MaxAttempts
    /\ requests \in [Users -> {"none", "entered", "orphan"}]
    /\ db \in [revision : Nat, content : {"old", "new"}]
    /\ assets \in [Assets -> Contents]
    /\ snapshot \in [state : {"none", "preparing", "prepared", "current"},
                     saved : [Assets -> Contents]]
    /\ session \in [live : BOOLEAN, status : {"sql-ready", "finalized"},
                    saved : BOOLEAN, staged : BOOLEAN]
    /\ fin \in [Attempts -> {"idle"} \union Inside \union Ended]
    /\ copies \in [Attempts -> [Ready -> Contents \union {"none", "next"}]]
    /\ applying \in [Attempts -> SUBSET Ready] /\ undoing \in [Attempts -> SUBSET Ready]
    /\ writes \in 0..MaxWrites /\ faults \in 0..MaxFaults /\ restarts \in 0..MaxRestarts
    /\ allowed \in [Assets -> SUBSET Contents] /\ excused \subseteq Assets
    /\ spoiled \subseteq Ready
    /\ unsure \in BOOLEAN

\* The gate is closed for the one attempt that is running, and while it works
\* no mutation is running that a user may yet be told has succeeded
\* (StorageSyncFinalizeGate).
HolderAlone ==
    /\ \A n \in Attempts : fin[n] \in Inside <=> gate = n
    /\ gate # 0 /\ fin[gate] # "waiting" => Drained

\* Nothing of a replacement is under way.
Settled == gate = 0 /\ \A n \in Attempts : applying[n] = {} /\ undoing[n] = {}

\* The target is replaced altogether or not at all: when nothing is under way
\* each asset holds the source's content if the database does, and what the
\* target and its users made it otherwise, whatever failed
\* (finalizeStorageSyncReplacement).  Exempt are assets whose undo failed, whose
\* worker outlived its attempt, which were undone with what an outliving copy
\* worker had put in the place of their snapshot, which a crash or a COMMIT without an answer hit,
\* which a user changed after the snapshot a retry uses was taken, and those
\* changed by a request whose client had gone.
AllOrNothing == Settled => \A a \in Assets \ excused : assets[a] \in allowed[a]

\* As long as the database is the old one, an asset that is not as it should be
\* can be restored from the snapshot on disk, after any number of attempts,
\* failures and crashes (StorageSyncRecoveryStore.prepare); only where a copy
\* worker that outlived its attempt overwrote the snapshot nothing is promised
\* of what it holds.
Recoverable ==
    db.content = "old" =>
        \A a \in Ready : assets[a] \notin allowed[a] =>
            /\ snapshot.state = "prepared"
            /\ a \in spoiled \/ snapshot.saved[a] \notin {"new", "torn"}

\* While one process runs and the answer to no COMMIT is lost, a finalize request
\* that passed the gate and is answered with an error finds the old database: a
\* retry or a second request never reports as failed a replacement that was made
\* (finalizedResult in server.ts).
FailedMeansOld ==
    [][\A n \in Attempts :
         fin[n] \in Inside /\ fin'[n] = "failed" /\ restarts = 0 /\ ~unsure
         => db.content = "old"]_vars

\* The gate opens again: no path out of a finalize request leaves mutations
\* shut out.
GateReopens == gate # 0 ~> gate = 0
=============================================================================
