---------------------------- MODULE MessageStore ----------------------------
(***************************************************************************)
(* The message store of a page (messageStore.svelte.ts): edits change the  *)
(* resident messages of a chat at once and are persisted as commits.  A    *)
(* commit waits in pendingCommits; every persist and every flush puts a    *)
(* drain in a chain of tasks that run one after the other.  A drain first  *)
(* retries each stashed commit once, then commits the queue from its head; *)
(* a failing head ends the drain and stays, until its third failure moves  *)
(* it to the stash (droppedCommits).                                       *)
(*                                                                         *)
(* Beside the store, the chat is re-read from the database: a change       *)
(* announced by another client refreshes it, and a request for the full    *)
(* history of a chat whose older messages are paged out merges what is     *)
(* stored with what is resident.                                           *)
(*                                                                         *)
(* One chat is modelled.  The content of a message is the number of the    *)
(* write that produced it, Absent when there is no such message.           *)
(***************************************************************************)
EXTENDS Naturals, Sequences, FiniteSets

CONSTANTS
    Messages,             \* ids of the chat's messages
    Older,                \* those before the page that is kept resident
    MAX_COMMIT_ATTEMPTS,  \* attempts after which a commit is stashed (3)
    Refusable,            \* messages whose rows the database may refuse for good
    MaxWrites,            \* bound: writes of this page and of other clients
    MaxTroubles           \* bound: failed attempts to commit, writes of other
                          \* clients and requests for the full history

ASSUME OlderAssumption == Older \subseteq Messages
ASSUME RefusableAssumption == Refusable \subseteq Messages
ASSUME AttemptsAssumption == MAX_COMMIT_ATTEMPTS \in Nat \ {0}

VARIABLES
    local,      \* resident content of the chat
    fully,      \* messagesFullyLoaded: nothing is paged out
    db,         \* its rows in the database
    pending,    \* pendingCommits
    dropped,    \* droppedCommits, the stash
    tasks,      \* the chain of the commit queue: drains and barriers
    draining,   \* the drain at the head of the chain has begun
    retries,    \* stashed commits that drain has not retried yet
    announced,  \* a change of another client still has to be applied
    refresh,    \* what refreshChat has read and not yet applied
    full,       \* a full load: what it captured and what it read
    refused,    \* messages whose rows the database refuses whenever asked
    writes,     \* id of the latest write of any client
    troubles,   \* failed attempts, foreign writes and full loads so far
    stored,     \* history: commits that have reached the database
    stashed,    \* history: commits that have been in the stash
    confirmed,  \* history: commits whose persist call has resolved
    newest,     \* history: latest local write of each message
    author,     \* history: the write each row of the database is due to
    blurred     \* history: messages a re-read overlapped with a local write

persistence == <<pending, dropped, tasks, draining, retries>>
views == <<local, fully, announced, refresh, full, blurred>>
counters == <<refused, writes, troubles>>
history == <<stored, stashed, confirmed, newest, author>>
vars == <<db, persistence, views, counters, history>>

Absent == 0
None == [phase |-> "none"]
Content == [Messages -> Nat]

(***************************************************************************)
(* Commits.                                                                *)
(***************************************************************************)
Commit == [id : Nat, puts : SUBSET Messages, deletes : SUBSET Messages,
           attempts : Nat]

Ids(s) == {s[i].id : i \in DOMAIN s}
Rows(c) == c.puts \cup c.deletes
Touched(s) == UNION {Rows(s[i]) : i \in DOMAIN s}

Drain(id) == [kind |-> "drain", answers |-> id]
Barrier == [kind |-> "barrier", answers |-> 0]

hasPendingWrites == pending # <<>>
hasUnsavedWrites == hasPendingWrites \/ dropped # <<>>

(* Messages with a write that is not known to be in the database. *)
Unsaved == Touched(pending) \cup Touched(dropped) \cup Touched(retries)

Apply(c, content) ==
    [m \in Messages |-> IF m \in c.deletes THEN Absent
                        ELSE IF m \in c.puts THEN c.id ELSE content[m]]

(* The write id for the messages of S, what f says for the others. *)
Mark(f, S, id) == [m \in Messages |-> IF m \in S THEN id ELSE f[m]]

(* What a load of the chat makes resident. *)
Page(rows) == [m \in Messages |-> IF ~fully /\ m \in Older THEN Absent
                                  ELSE rows[m]]

Init ==
    /\ db \in [Messages -> {Absent, 1}]
    /\ fully \in BOOLEAN
    /\ local = Page(db)
    /\ pending = <<>> /\ dropped = <<>> /\ tasks = <<>>
    /\ draining = FALSE /\ retries = <<>>
    /\ announced = FALSE /\ refresh = None /\ full = None
    /\ refused \in SUBSET Refusable
    /\ writes = 1 /\ troubles = 0
    /\ stored = {} /\ stashed = {} /\ confirmed = {} /\ blurred = {}
    /\ newest = [m \in Messages |-> 1]
    /\ author = [m \in Messages |-> 1]

(***************************************************************************)
(* Local writes.                                                           *)
(***************************************************************************)

NextWrite == writes <= MaxWrites /\ writes' = writes + 1
Trouble == troubles < MaxTroubles /\ troubles' = troubles + 1

(* The resident messages change at once; persist adds the commit to the    *)
(* queue and a drain to the chain.                                         *)
Persist(puts, deletes) ==
    LET c == [id |-> writes + 1, puts |-> puts, deletes |-> deletes,
              attempts |-> 0]
    IN  /\ NextWrite
        /\ local' = Apply(c, local)
        /\ pending' = Append(pending, c)
        /\ tasks' = Append(tasks, Drain(c.id))
        /\ newest' = Mark(newest, Rows(c), c.id)
        /\ UNCHANGED <<db, dropped, draining, retries, fully, announced, refresh,
                       refused, troubles, stored, stashed, confirmed,
                       author>>

(* A re-read under way will not know of a write of these messages. *)
Overlapping(S) == IF refresh # None THEN S ELSE {}

(* appendMessage, updateMessage and commitMessages put messages into the   *)
(* resident array, which a full load under way shares.                     *)
WriteMessages(S) ==
    /\ \A m \in S : fully \/ m \notin Older \/ local[m] # Absent
    /\ Persist(S, {})
    /\ blurred' = blurred \cup Overlapping(S)
                          \cup (IF full # None /\ full.detached THEN S ELSE {})
    /\ UNCHANGED full

(* Operations that install a new array leave a full load under way with    *)
(* the array it captured, so the load will not know of their messages.     *)
Detach ==
    full' = IF full # None /\ ~full.detached
            THEN [full EXCEPT !.detached = TRUE, !.base = local]
            ELSE full

LeftBehind(S) == IF full # None THEN S ELSE {}

(* deleteMessage and deleteMessages. *)
DeleteMessages(S) ==
    /\ \A m \in S : local[m] # Absent
    /\ Persist({}, S)
    /\ Detach
    /\ blurred' = blurred \cup Overlapping(S) \cup LeftBehind(S)

(***************************************************************************)
(* The chain of drains.                                                    *)
(***************************************************************************)
Flush ==
    /\ \A i \in DOMAIN tasks : tasks[i] # Barrier
    /\ tasks' = Append(tasks, Barrier)
    /\ UNCHANGED <<db, pending, dropped, draining, retries, views, counters,
                   history>>

(* Once what was queued before has run, flush drains what is left. *)
PassBarrier ==
    /\ tasks # <<>> /\ Head(tasks).kind = "barrier"
    /\ tasks' = IF hasUnsavedWrites THEN Append(Tail(tasks), Drain(0))
                ELSE Tail(tasks)
    /\ UNCHANGED <<db, pending, dropped, draining, retries, views, counters,
                   history>>

StartDrain ==
    /\ tasks # <<>> /\ Head(tasks).kind = "drain" /\ ~draining
    /\ draining' = TRUE
    /\ retries' = dropped
    /\ dropped' = <<>>
    /\ UNCHANGED <<db, pending, tasks, views, counters, history>>

Acceptable(c) == Rows(c) \cap refused = {}

(* What an attempt to commit does: it may be applied and reported, applied *)
(* with its answer lost, or refused.                                       *)
Attempt(c, reported, applied) ==
    /\ reported => applied
    /\ applied => Acceptable(c)
    /\ IF reported \/ ~Acceptable(c) THEN UNCHANGED troubles
       ELSE Trouble
    /\ IF applied
       THEN /\ db' = Apply(c, db)
            /\ author' = Mark(author, Rows(c), c.id)
            /\ stored' = stored \cup {c.id}
       ELSE UNCHANGED <<db, author, stored>>
    /\ UNCHANGED <<refused, writes, newest>>

RetryStashed(reported, applied) ==
    /\ draining /\ retries # <<>>
    /\ Attempt(Head(retries), reported, applied)
    /\ retries' = Tail(retries)
    /\ dropped' = IF reported THEN dropped ELSE Append(dropped, Head(retries))
    /\ UNCHANGED <<pending, tasks, draining, views, stashed, confirmed>>

HeadStored ==
    /\ pending' = Tail(pending)
    /\ UNCHANGED <<dropped, tasks, draining, stashed>>

Counted(c) == [c EXCEPT !.attempts = @ + 1]

\* A seeded bug: a commit that fails goes to the end of the queue.
HeadFails_ToTheEnd ==
    /\ pending' = Append(Tail(pending), Counted(Head(pending)))
    /\ tasks' = Tail(tasks)
    /\ draining' = FALSE
    /\ UNCHANGED <<dropped, stashed>>

\* A seeded bug: the failed attempts are not counted.
HeadFails_Uncounted ==
    /\ pending' = pending
    /\ tasks' = Tail(tasks)
    /\ draining' = FALSE
    /\ UNCHANGED <<dropped, stashed>>

(* The error ends the drain, whose persist call rejects.                   *)
HeadFails ==
    /\ pending' = [pending EXCEPT ![1] = Counted(@)]
    /\ tasks' = Tail(tasks)
    /\ draining' = FALSE
    /\ UNCHANGED <<dropped, stashed>>

\* A seeded bug: the last failure discards the commit.
HeadStashed_GivesUp ==
    /\ pending' = Tail(pending)
    /\ stashed' = stashed \cup {Head(pending).id}
    /\ UNCHANGED <<dropped, tasks, draining>>

(* The last failure makes way for the rest of the queue.                   *)
HeadStashed ==
    /\ pending' = Tail(pending)
    /\ dropped' = Append(dropped, [Head(pending) EXCEPT !.attempts = 0])
    /\ stashed' = stashed \cup {Head(pending).id}
    /\ UNCHANGED <<tasks, draining>>

LastAttempt == Head(pending).attempts + 1 >= MAX_COMMIT_ATTEMPTS

CommitHead(reported, applied) ==
    /\ draining /\ retries = <<>> /\ pending # <<>>
    /\ Attempt(Head(pending), reported, applied)
    /\ \/ reported /\ HeadStored
       \/ ~reported /\ ~LastAttempt /\ HeadFails
       \/ ~reported /\ LastAttempt /\ HeadStashed
    /\ UNCHANGED <<retries, views, confirmed>>

(* The drain resolves, and with it the persist call that queued it. *)
EndDrain ==
    /\ draining /\ retries = <<>> /\ pending = <<>>
    /\ draining' = FALSE
    /\ tasks' = Tail(tasks)
    /\ confirmed' = confirmed \cup ({Head(tasks).answers} \ {0})
    /\ UNCHANGED <<db, pending, dropped, retries, views, counters, stored,
                   stashed, newest, author>>

(***************************************************************************)
(* Other clients and re-reads of the chat.                                 *)
(***************************************************************************)
RemoteWrite(m, deletes) ==
    /\ Trouble /\ NextWrite
    /\ db' = [db EXCEPT ![m] = IF deletes THEN Absent ELSE writes']
    /\ author' = [author EXCEPT ![m] = writes']
    /\ announced' = TRUE
    /\ UNCHANGED <<local, fully, persistence, refresh, full, blurred, refused,
                   stored, stashed, confirmed, newest>>

(* refreshChat asks the database; message writes may still be pending. *)
ReadForRefresh ==
    /\ announced /\ refresh = None
    /\ announced' = FALSE
    /\ refresh' = [phase |-> "read", fully |-> fully, rows |-> Page(db)]
    /\ blurred' = blurred \cup Unsaved
    /\ UNCHANGED <<local, fully, db, persistence, full, counters, history>>

ApplyRefresh ==
    /\ refresh # None
    /\ local' = refresh.rows
    /\ fully' = refresh.fully
    /\ refresh' = None
    /\ Detach
    /\ blurred' = blurred \cup LeftBehind(Messages)
    /\ UNCHANGED <<db, persistence, announced, counters, history>>

(* ensureChatMessages with full: the resident array is captured before the *)
(* history is read.                                                        *)
StartFullLoad ==
    /\ Trouble
    /\ full = None /\ ~fully
    /\ full' = [phase |-> "asked", base |-> local, detached |-> FALSE,
                rows |-> db]
    /\ UNCHANGED <<local, fully, db, persistence, announced, refresh, blurred,
                   refused, writes, history>>

(* The array the load merges with. *)
Current == IF full.detached THEN full.base ELSE local

ReadFull ==
    /\ full # None /\ full.phase = "asked"
    /\ full' = [full EXCEPT !.phase = "read", !.rows = db]
    /\ blurred' = blurred \cup {m \in Unsaved : Current[m] = Absent}
    /\ UNCHANGED <<local, fully, db, persistence, announced, refresh, counters,
                   history>>

\* A seeded bug: what was read wins over what is resident.
MergeLoadedMessages_Loaded(loaded, current) ==
    [m \in Messages |-> IF loaded[m] # Absent THEN loaded[m] ELSE current[m]]

(* mergeLoadedMessages: what is resident wins over what was read. *)
MergeLoadedMessages(loaded, current) ==
    [m \in Messages |-> IF current[m] # Absent THEN current[m] ELSE loaded[m]]

ApplyFull ==
    /\ full # None /\ full.phase = "read"
    /\ local' = MergeLoadedMessages(full.rows, Current)
    /\ full' = None
    /\ fully' = TRUE
    /\ UNCHANGED <<db, persistence, announced, refresh, blurred, counters,
                   history>>

(* compactChatMessages pages the older messages out again. *)
Compact ==
    /\ fully /\ \E m \in Older : local[m] # Absent
    /\ fully' = FALSE
    /\ local' = [m \in Messages |-> IF m \in Older THEN Absent ELSE local[m]]
    /\ Detach
    /\ UNCHANGED <<db, persistence, announced, refresh, blurred, counters,
                   history>>

Next ==
    \/ \E S \in SUBSET Messages \ {{}} : WriteMessages(S) \/ DeleteMessages(S)
    \/ Flush \/ PassBarrier \/ StartDrain \/ EndDrain
    \/ \E reported, applied \in BOOLEAN :
         RetryStashed(reported, applied) \/ CommitHead(reported, applied)
    \/ \E m \in Messages, deletes \in BOOLEAN : RemoteWrite(m, deletes)
    \/ ReadForRefresh \/ ApplyRefresh
    \/ StartFullLoad \/ ReadFull \/ ApplyFull \/ Compact

Spec == Init /\ [][Next]_vars

(***************************************************************************)
(* The tasks of the chain run, and a page that keeps being used flushes    *)
(* again and again.                                                        *)
(***************************************************************************)
Fairness ==
    /\ WF_vars(Flush) /\ WF_vars(PassBarrier)
    /\ WF_vars(StartDrain) /\ WF_vars(EndDrain)
    /\ WF_vars(\E reported, applied \in BOOLEAN :
                 RetryStashed(reported, applied) \/ CommitHead(reported, applied))

FairSpec == Spec /\ Fairness

(***************************************************************************)
(* Properties.                                                             *)
(***************************************************************************)
Task == [kind : {"drain", "barrier"}, answers : Nat]
FullLoad == [phase : {"asked", "read"}, base : Content, detached : BOOLEAN,
             rows : Content]
Refresh == [phase : {"read"}, fully : BOOLEAN, rows : Content]

(* The state of the store is well formed, and a barrier never drains. *)
TypeOK ==
    /\ local \in Content /\ db \in Content /\ fully \in BOOLEAN
    /\ pending \in Seq(Commit) /\ dropped \in Seq(Commit)
    /\ retries \in Seq(Commit) /\ tasks \in Seq(Task)
    /\ draining \in BOOLEAN
    /\ draining => tasks # <<>> /\ Head(tasks).kind = "drain"
    /\ ~draining => retries = <<>>
    /\ announced \in BOOLEAN
    /\ refresh \in Refresh \cup {None} /\ full \in FullLoad \cup {None}
    /\ refused \subseteq Refusable
    /\ writes \in Nat /\ troubles \in Nat
    /\ stored \subseteq Nat /\ stashed \subseteq Nat /\ confirmed \subseteq Nat
    /\ newest \in [Messages -> Nat] /\ author \in [Messages -> Nat]
    /\ blurred \subseteq Messages

Waiting == Ids(pending) \cup Ids(dropped) \cup Ids(retries)

(* The latest write of a message is in the database or still held for      *)
(* another attempt, and a write whose caller was answered is too: no       *)
(* failure, stash or retry loses a commit.                                 *)
NothingLost ==
    /\ \A m \in Messages : newest[m] \in stored \cup Waiting \cup {1}
    /\ confirmed \subseteq stored \cup Ids(dropped) \cup Ids(retries)

AtRest == ~hasUnsavedWrites /\ retries = <<>>

(* Once nothing is held back, what the page wrote last is what the         *)
(* database got last from it, unless a commit out of the stash, which is   *)
(* retried after newer ones, has replaced it.                              *)
NewestStands ==
    AtRest => \A m \in Messages :
                author[m] \in stored \ stashed => author[m] = newest[m]

(* Once nothing is held back and every re-read has been applied, the chat  *)
(* shows what the database has.  Exempt are messages a stashed commit      *)
(* replaced and those a re-read overlapped with a write of this page.      *)
ViewMatches ==
    (AtRest /\ ~announced /\ refresh = None /\ full = None) =>
        \A m \in Messages \ blurred :
            author[m] \notin stashed => local[m] = Page(db)[m] \/ local[m] = db[m]

(* A commit the database can accept is stored in the end, even if one it   *)
(* never accepts was queued before it.                                     *)
GetsPastRefused ==
    \A id \in 2 .. MaxWrites + 1 :
        (\E i \in DOMAIN pending : pending[i].id = id /\ Acceptable(pending[i]))
            ~> id \in stored

(* requireDurable: a commit whose caller was told that it succeeded is in  *)
(* the database.                                                           *)
ConfirmedIsStored == confirmed \subseteq stored
=============================================================================
