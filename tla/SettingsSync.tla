----------------------------- MODULE SettingsSync -----------------------------
(* Settings shared by several clients of one Node server.  A client edits its *)
(* settings store, which collects dirty keys and flushes them, debounced, to  *)
(* the commit queue of its storage; a commit carries the revision it expects  *)
(* and is sent again at the server's revision when it is refused.  A          *)
(* successful commit is broadcast; the other clients queue the keys it        *)
(* touched, reread them and hydrate their stores.                             *)
(*                                                                            *)
(* A connection is first in, first out and a loss is covered by a resync      *)
(* request: module RealtimeDelivery shows when the hub provides that.         *)
EXTENDS Integers, Sequences, FiniteSets

CONSTANTS Clients, Keys,
          Attempts,         \* requests per storage commit (3 in the code)
          MaxEdits,         \* bound: values entered and keys deleted by the users
          MaxDeletes,       \* bound: keys deleted by the users
          MaxTroubles       \* bound: commit requests or responses lost, change
                            \* batches that fail, connections lost beyond the
                            \* replay window

ASSUME AttemptsAssumption == Attempts \in Nat \ {0}
ASSUME BoundsAssumption == {MaxEdits, MaxDeletes, MaxTroubles} \subseteq Nat

VARIABLES
    view,        \* stateData of each client's store
    dirty,       \* its dirtyKeys and pendingDeletes
    armed,       \* whether its debounce timer runs
    commits,     \* the commits of its storage queue, the head being sent
    call,        \* the request of that head
    strays,      \* requests given up by their client, still on their way
    revision,    \* the database revision each client knows
    db, current, \* the settings table and the revision of the database
    channel,     \* the events on each client's connection
    pending,     \* the change its realtime queue has merged so far
    batch,       \* the change being applied
    edits, deletes, gaps,           \* counters
    lost, failed,                   \* counters: commit calls, batches
    by,          \* ghost: who entered each value
    raced,       \* ghost: keys a client committed since its batch read them
    overtaken,   \* ghost: keys hydrated over an unconfirmed value
    writer,      \* ghost: whose commit wrote each key last
    revived      \* ghost: keys written again after they were deleted

storeVars   == <<view, dirty, armed>>
commitVars  == <<commits, call, revision>>
tableVars   == <<db, current, writer, revived>>
serverVars  == <<tableVars, channel, strays>>
queueVars   == <<pending, batch>>
counterVars == <<edits, deletes, gaps, lost, failed, by>>
ghostVars   == <<raced, overtaken>>
vars == <<storeVars, commitVars, serverVars, queueVars, counterVars, ghostVars>>

Absent == -1                       \* the key does not exist
Values == 0..MaxEdits              \* 0 is what every key starts with
Nobody == "nobody"                 \* origin of values and events of no client

ASSUME NobodyAssumption == Nobody \notin Clients

Change(ups, dels, all) == [ups |-> ups, dels |-> dels, all |-> all]
NoChange == Change({}, {}, FALSE)

\* mergeDatabaseChanges: keys form sets and flags are or-ed.
MergeDatabaseChanges(a, b) ==
    Change(a.ups \union b.ups, a.dels \union b.dels, a.all \/ b.all)

Idle == [stage |-> "idle", tries |-> 0, base |-> 0]
NoBatch == [busy |-> FALSE, change |-> NoChange, read |-> <<>>]

Larger(a, b) == IF a > b THEN a ELSE b

Init ==
    /\ view = [c \in Clients |-> [k \in Keys |-> 0]]
    /\ dirty = [c \in Clients |-> {}]
    /\ armed = [c \in Clients |-> FALSE]
    /\ commits = [c \in Clients |-> <<>>]
    /\ call = [c \in Clients |-> Idle]
    /\ strays = {}
    /\ revision = [c \in Clients |-> 0]
    /\ db = [k \in Keys |-> 0]
    /\ current = 0
    /\ channel = [c \in Clients |-> <<>>]
    /\ pending = [c \in Clients |-> NoChange]
    /\ batch = [c \in Clients |-> NoBatch]
    /\ edits = 0 /\ deletes = 0 /\ gaps = 0 /\ lost = 0 /\ failed = 0
    /\ by = [v \in Values |-> Nobody]
    /\ raced = [c \in Clients |-> {}]
    /\ overtaken = [c \in Clients |-> {}]
    /\ writer = [k \in Keys |-> Nobody]
    /\ revived = {}

----------------------------------------------------------------------------
(* The settings store.                                                       *)

\* Keys whose newest value at the client is not known to be in the database.
Unconfirmed(c) ==
    LET sent == IF call[c].stage = "written" THEN 2 ELSE 1 IN
    UNION ({DOMAIN commits[c][i] : i \in sent..Len(commits[c])}
           \union {DOMAIN s.body : s \in {t \in strays : t.from = c}})

\* set and delete put the key into dirtyKeys or pendingDeletes and restart
\* the debounce timer.
ChangeKey(c, k, v) ==
    /\ view' = [view EXCEPT ![c][k] = v]
    /\ dirty' = [dirty EXCEPT ![c] = @ \union {k}]
    /\ armed' = [armed EXCEPT ![c] = TRUE]
    /\ overtaken' = [overtaken EXCEPT ![c] =
                       IF k \in Unconfirmed(c) THEN @ ELSE @ \ {k}]

Set(c, k) ==
    /\ edits + deletes < MaxEdits
    /\ edits' = edits + 1
    /\ by' = [by EXCEPT ![edits + 1] = c]
    /\ ChangeKey(c, k, edits + 1)
    /\ UNCHANGED <<commitVars, serverVars, queueVars, deletes, gaps, lost,
                   failed, raced>>

Delete(c, k) ==
    /\ deletes < MaxDeletes /\ edits + deletes < MaxEdits
    /\ view[c][k] # Absent
    /\ deletes' = deletes + 1
    /\ ChangeKey(c, k, Absent)
    /\ UNCHANGED <<commitVars, serverVars, queueVars, edits, gaps, lost,
                   failed, by, raced>>

\* flush: the dirty keys leave the store for the commit queue, with the
\* values they have now, before the commit has succeeded.
Flush(c) ==
    /\ armed' = [armed EXCEPT ![c] = FALSE]
    /\ commits' = IF dirty[c] = {} THEN commits
                  ELSE [commits EXCEPT ![c] =
                          Append(@, [k \in dirty[c] |-> view[c][k]])]
    /\ dirty' = [dirty EXCEPT ![c] = {}]
    /\ UNCHANGED <<view, call, revision, serverVars, queueVars, counterVars, ghostVars>>

\* The debounce timer fires.
DebounceFires(c) == armed[c] /\ Flush(c)

\* The page is hidden or the user leaves it.
PageHides(c) == dirty[c] # {} /\ Flush(c)

\* The keys of a failed commit are dirty again, with the value the store has
\* by then; the timer is not started.
RestoreKeyAfterFailedCommit(c, body) ==
    dirty' = [dirty EXCEPT ![c] = @ \union DOMAIN body]

----------------------------------------------------------------------------
(* The commit queue and the remote commit.                                   *)

\* commitSqlChanges: a commit starts when the previous one has ended, at the
\* newest revision known then.
StartCommit(c) ==
    /\ commits[c] # <<>>
    /\ call[c] = Idle
    /\ call' = [call EXCEPT ![c] =
                  [stage |-> "sent", tries |-> 1, base |-> revision[c]]]
    /\ UNCHANGED <<storeVars, commits, revision, serverVars, queueVars,
                   counterVars, ghostVars>>

EndCommit(c) ==
    /\ commits' = [commits EXCEPT ![c] = Tail(@)]
    /\ call' = [call EXCEPT ![c] = Idle]

\* The commit was written at revision base: storage.commit takes it over.
CommitConfirmed(c) ==
    /\ call[c].stage = "written"
    /\ revision' = [revision EXCEPT ![c] = call[c].base]
    /\ EndCommit(c)
    /\ UNCHANGED <<storeVars, serverVars, queueVars, counterVars, ghostVars>>

\* A seeded bug: the retry keeps to the revision the client knows.
CommitRetried_Unrebased(c) ==
    /\ call[c].stage = "refused"
    /\ call[c].tries < 2 * Attempts
    /\ call' = [call EXCEPT ![c] =
                  [stage |-> "sent", tries |-> @.tries + 1, base |-> revision[c]]]
    /\ UNCHANGED <<storeVars, commits, revision, serverVars, queueVars,
                   counterVars, ghostVars>>

\* The same body is sent again at the revision of the refusal; the second
\* round of the coordinator starts from the newest revision known by then.
CommitRetried(c) ==
    /\ call[c].stage = "refused"
    /\ call[c].tries < 2 * Attempts
    /\ call' = [call EXCEPT ![c] =
                  [stage |-> "sent", tries |-> @.tries + 1,
                   base |-> IF @.tries = Attempts
                            THEN Larger(@.base, revision[c]) ELSE @.base]]
    /\ UNCHANGED <<storeVars, commits, revision, serverVars, queueVars,
                   counterVars, ghostVars>>

Failed(c) ==
    /\ RestoreKeyAfterFailedCommit(c, Head(commits[c]))
    /\ EndCommit(c)
    /\ UNCHANGED <<view, armed, revision, tableVars, channel, queueVars,
                   edits, deletes, gaps, failed, by, ghostVars>>

CommitRefused(c) ==
    /\ call[c].stage = "refused"
    /\ call[c].tries = 2 * Attempts
    /\ Failed(c)
    /\ UNCHANGED <<strays, lost>>

\* The request or its response is lost; a request can still arrive after its
\* client has given it up.
CommitLost(c) ==
    /\ lost + failed + gaps < MaxTroubles
    /\ call[c] # Idle
    /\ lost' = lost + 1
    /\ \/ UNCHANGED strays
       \/ /\ call[c].stage = "sent"
          /\ strays' = strays \union
               {[from |-> c, base |-> call[c].base, body |-> Head(commits[c])]}
    /\ Failed(c)

----------------------------------------------------------------------------
(* The server.                                                               *)

\* A seeded bug: the transaction does not compare the revisions.
Accepts_Always(base) == TRUE

\* SELECT ... FOR UPDATE and the comparison of the revisions.
Accepts(base) == base = current

\* The impact of a commit, as the broadcast reports it.
Touched(body) ==
    LET gone == {k \in DOMAIN body : body[k] = Absent}
    IN  Change(DOMAIN body \ gone, gone, FALSE)

\* The transaction of sync, and the broadcast that follows its COMMIT.
Write(c, body) ==
    /\ db' = [k \in Keys |-> IF k \in DOMAIN body THEN body[k] ELSE db[k]]
    /\ current' = current + 1
    /\ channel' = [o \in Clients |->
                     Append(channel[o], [from |-> c, revision |-> current + 1,
                                         change |-> Touched(body)])]
    /\ raced' = [raced EXCEPT ![c] = @ \union
                   (DOMAIN body \intersect DOMAIN batch[c].read)]
    /\ writer' = [k \in Keys |-> IF k \in DOMAIN body THEN c ELSE writer[k]]
    /\ revived' = revived \union
                   {k \in DOMAIN body : db[k] = Absent /\ body[k] # Absent}

Serve(c) ==
    /\ call[c].stage = "sent"
    /\ IF Accepts(call[c].base)
       THEN /\ Write(c, Head(commits[c]))
            /\ call' = [call EXCEPT ![c].stage = "written", ![c].base = current + 1]
       ELSE /\ call' = [call EXCEPT ![c].stage = "refused", ![c].base = current]
            /\ UNCHANGED <<tableVars, channel, raced>>
    /\ UNCHANGED <<storeVars, commits, revision, strays, queueVars,
                   counterVars, overtaken>>

ServeStray(s) ==
    /\ s \in strays
    /\ strays' = strays \ {s}
    /\ IF Accepts(s.base) THEN Write(s.from, s.body)
       ELSE UNCHANGED <<tableVars, channel, raced>>
    /\ UNCHANGED <<storeVars, commitVars, queueVars, counterVars, overtaken>>

----------------------------------------------------------------------------
(* The realtime connection and the change queue.                             *)

\* The replay window has passed: what was on the way is replaced by a resync
\* request.
Gap(c) ==
    /\ lost + failed + gaps < MaxTroubles
    /\ channel[c] # <<>>
    /\ gaps' = gaps + 1
    /\ channel' = [channel EXCEPT ![c] =
                     <<[from |-> Nobody, revision |-> 0,
                        change |-> Change({}, {}, TRUE)]>>]
    /\ UNCHANGED <<storeVars, commitVars, tableVars, strays, queueVars,
                   edits, deletes, lost, failed, by, ghostVars>>

\* dispatchEvent: an event of one's own only advances the revision.
DispatchEvent(c) ==
    /\ channel[c] # <<>>
    /\ LET e == Head(channel[c]) IN
       /\ revision' = [revision EXCEPT ![c] = Larger(@, e.revision)]
       /\ pending' = IF e.from = c THEN pending
                     ELSE [pending EXCEPT ![c] = MergeDatabaseChanges(@, e.change)]
    /\ channel' = [channel EXCEPT ![c] = Tail(@)]
    /\ UNCHANGED <<storeVars, commits, call, tableVars, strays, batch,
                   counterVars, ghostVars>>

\* drain: one batch at a time.
Drain(c) ==
    /\ ~batch[c].busy
    /\ pending[c] # NoChange
    /\ batch' = [batch EXCEPT ![c] =
                   [busy |-> TRUE, change |-> pending[c], read |-> <<>>]]
    /\ pending' = [pending EXCEPT ![c] = NoChange]
    /\ raced' = [raced EXCEPT ![c] = {}]
    /\ UNCHANGED <<storeVars, commitVars, serverVars, counterVars, overtaken>>

\* loadStartupData: one request returns every key and the revision.
ReadAll(c) ==
    /\ batch[c].busy /\ batch[c].change.all
    /\ DOMAIN batch[c].read = {}
    /\ batch' = [batch EXCEPT ![c].read = db]
    /\ revision' = [revision EXCEPT ![c] = current]
    /\ UNCHANGED <<storeVars, commits, call, serverVars, pending, counterVars, ghostVars>>

\* loadSettingValues: one request per written key, in any order.
ReadKey(c, k) ==
    /\ batch[c].busy /\ ~batch[c].change.all
    /\ k \in batch[c].change.ups \ DOMAIN batch[c].read
    /\ batch' = [batch EXCEPT ![c].read =
                   [j \in DOMAIN @ \union {k} |-> IF j = k THEN db[k] ELSE @[j]]]
    /\ UNCHANGED <<storeVars, commitVars, serverVars, pending, counterVars, ghostVars>>

\* What the batch says of key k: a deleted key is removed after the written
\* ones have been hydrated.
Announced(b, k) ==
    IF ~b.change.all /\ k \in b.change.dels THEN Absent ELSE b.read[k]

AllRead(b) ==
    DOMAIN b.read = IF b.change.all THEN Keys ELSE b.change.ups

Affected(b) == IF b.change.all THEN Keys ELSE b.change.ups \union b.change.dels

\* hydrateRemoteSettingKey refuses a dirty key; init, which a full resync
\* ends in, replaces every key.
Hydratable(c) ==
    IF batch[c].change.all THEN Keys ELSE Affected(batch[c]) \ dirty[c]

Hydrate(c) ==
    LET now == Hydratable(c)
        hit == now \intersect (Unconfirmed(c) \union raced[c]) IN
    /\ view' = [view EXCEPT ![c] =
                  [k \in Keys |-> IF k \in now THEN Announced(batch[c], k) ELSE @[k]]]
    /\ dirty' = [dirty EXCEPT ![c] = @ \ now]
    /\ overtaken' = [overtaken EXCEPT ![c] = (@ \ now) \union hit]

\* The batch has been applied.
ApplyBatch(c) ==
    /\ batch[c].busy
    /\ AllRead(batch[c])
    /\ Hydrate(c)
    /\ batch' = [batch EXCEPT ![c] = NoBatch]
    /\ UNCHANGED <<armed, commitVars, serverVars, pending, counterVars, raced>>

\* A seeded bug: a batch that fails is not merged back.
BatchFails_Drop(c) ==
    /\ batch[c].busy
    /\ lost + failed + gaps < MaxTroubles
    /\ failed' = failed + 1
    /\ UNCHANGED <<view, dirty, overtaken, pending>>
    /\ batch' = [batch EXCEPT ![c] = NoBatch]
    /\ UNCHANGED <<armed, commitVars, serverVars, edits, deletes, gaps, lost, by,
                   raced>>

\* A read fails, or a later store of the batch after the settings have been
\* hydrated; either way the batch is merged back and tried again.
BatchFails(c) ==
    /\ batch[c].busy
    /\ lost + failed + gaps < MaxTroubles
    /\ failed' = failed + 1
    /\ \/ UNCHANGED <<view, dirty, overtaken>>
       \/ AllRead(batch[c]) /\ Hydrate(c)
    /\ pending' = [pending EXCEPT ![c] = MergeDatabaseChanges(batch[c].change, @)]
    /\ batch' = [batch EXCEPT ![c] = NoBatch]
    /\ UNCHANGED <<armed, commitVars, serverVars, edits, deletes, gaps, lost, by,
                   raced>>

----------------------------------------------------------------------------
Step(c) ==
    \/ DebounceFires(c) \/ StartCommit(c) \/ CommitConfirmed(c)
    \/ CommitRetried(c) \/ CommitRefused(c) \/ Serve(c)
    \/ DispatchEvent(c) \/ Drain(c) \/ ReadAll(c)
    \/ (\E k \in Keys : ReadKey(c, k))
    \/ ApplyBatch(c)

Next ==
    \/ \E c \in Clients :
         \/ \E k \in Keys : Set(c, k) \/ Delete(c, k)
         \/ PageHides(c) \/ CommitLost(c) \/ Gap(c) \/ BatchFails(c)
         \/ Step(c)
    \/ \E s \in strays : ServeStray(s)

Spec == Init /\ [][Next]_vars

\* Timers fire, requests are answered, frames are dispatched and batches are
\* tried again; no user, page or fault is owed.
FairSpec ==
    /\ Spec
    /\ \A c \in Clients : WF_vars(Step(c))
    /\ WF_vars(\E s \in strays : ServeStray(s))

----------------------------------------------------------------------------
(* Properties.                                                               *)

\* Nothing of the client's is on its way in either direction.
AtRest(c) ==
    /\ commits[c] = <<>>
    /\ ~\E s \in strays : s.from = c
    /\ channel[c] = <<>> /\ pending[c] = NoChange /\ ~batch[c].busy

Quiet(c) == AtRest(c) /\ dirty[c] = {}

\* A client at rest shows the database: broadcasts, merging, failed batches,
\* resyncs, conflicts and retries lose no change.  A key whose unconfirmed
\* value was hydrated over is exempt until it is hydrated or edited again
\* (see EditKept), and so is a key that was deleted and written again: a
\* batch that has merged the two removes it (see Announced).
Converged ==
    \A c \in Clients : Quiet(c) =>
        \A k \in Keys \ (overtaken[c] \union revived) : view[c][k] = db[k]

\* The user's last word on key k at client c is still to be committed.
Unsaved(c, k) == k \in dirty[c] \union Unconfirmed(c)

ByUser == edits' # edits \/ deletes' # deletes

\* What another client has announced never replaces an edit of this one that
\* waits for its timer or has left the store for the commit queue.
EditKept ==
    [][\A c \in Clients, k \in Keys :
         Unsaved(c, k) /\ ~ByUser => view'[c][k] = view[c][k]]_vars

Commits(c) == Serve(c) \/ \E s \in strays : s.from = c /\ ServeStray(s)

\* A client never puts an older value of its own over a newer one that it has
\* put there, not even by a request it gave up that arrives late: the base
\* revision refuses it.  Keys hydrated over an unconfirmed value are exempt,
\* and so is a key that another client has written since, which may have
\* been with a value of this one.
OwnOrder ==
    [][\A c \in Clients, k \in Keys :
         /\ Commits(c)
         /\ k \notin overtaken[c] /\ writer[k] = c
         /\ {db[k], db'[k]} \subseteq Values
         /\ by[db[k]] = c /\ by[db'[k]] = c
         => db'[k] >= db[k]]_vars

\* When the users stop every client comes to rest and every edit is committed,
\* whatever batches failed or connections were lost; only the keys of a commit
\* that was given up stay dirty, without a timer.
Settles ==
    <>[](\A c \in Clients :
            AtRest(c) /\ (dirty[c] # {} => lost > 0 /\ ~armed[c]))
=============================================================================
