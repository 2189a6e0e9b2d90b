------------------------------ MODULE Generations ------------------------------
(* The generations of one chat, as the clients that share it see them: the    *)
(* lifecycle a client reports to the server, the state the hub keeps of it    *)
(* and broadcasts, the remote sources that keep the chat busy on the other    *)
(* clients, and the cancellation of another client's generation.              *)
EXTENDS RealtimeHub

CONSTANTS MaxLifecycles,  \* bound: generations begun
          MaxDrops,       \* bound: connections lost
          MaxTroubles     \* bound: cancellations of another client's generation,
                          \* requests given up or lost, generation states that
                          \* expire and server restarts, together

VARIABLES active,         \* activeGenerations of the chat
          posts,          \* generation-state requests on their way
          local,          \* each client's own generation
          remote,         \* its remoteGenerationSources
          cancelling,     \* its generation-cancel request
          begun, cancels, drops, faults,   \* counters
          aimed,          \* ghost: lifecycles the hub has aborted
          cleared,        \* ghost: lifecycles hidden by a cancel response
          blind,          \* ghost: clients that lost a connection before
                          \* they had a cursor
          resynced        \* ghost: clients that were sent a resync request

counters == <<begun, cancels, drops, faults>>
ghosts   == <<aimed, cleared, blind, resynced>>
vars == <<hubVars, active, posts, local, remote, cancelling, counters, ghosts>>

None == [l |-> 0, from |-> "none"]    \* no active generation
NoGeneration == [phase |-> "idle", l |-> 0, aborted |-> FALSE]
NoCancel == "none"

\* A report: "started", "finished" (or "failed": nothing tells them apart here) or
\* "aborted".
Post(c, l, state) == [l |-> l, state |-> state, from |-> c]

Init ==
    /\ HubInit
    /\ active = None
    /\ posts = {}
    /\ local = [c \in Clients |-> NoGeneration]
    /\ remote = [c \in Clients |-> {}]
    /\ cancelling = [c \in Clients |-> NoCancel]
    /\ begun = 0 /\ cancels = 0 /\ drops = 0 /\ faults = 0
    /\ aimed = {}
    /\ cleared = [c \in Clients |-> {}]
    /\ blind = {} /\ resynced = {}

----------------------------------------------------------------------------
(* A client's own generation.                                                *)

\* sendChat up to beginNodeGenerationLifecycle: the chat must not be busy.
Begin(c) ==
    /\ begun < MaxLifecycles
    /\ local[c] = NoGeneration /\ remote[c] = {}
    /\ begun' = begun + 1
    /\ local' = [local EXCEPT ![c] =
                   [phase |-> "starting", l |-> begun + 1, aborted |-> FALSE]]
    /\ posts' = posts \union {Post(c, begun + 1, "started")}
    /\ UNCHANGED <<hubVars, active, remote, cancelling, cancels, drops, faults, ghosts>>

Running(c) == local' = [local EXCEPT ![c].phase = "running"]

\* The server has answered the report of the start.
StartAnswered(c) ==
    /\ local[c].phase = "starting"
    /\ Post(c, local[c].l, "started") \notin posts
    /\ Running(c)
    /\ UNCHANGED <<hubVars, active, posts, remote, cancelling, counters, ghosts>>

\* The report fails, or the abort signal cuts it off, and publishState only
\* warns; the request may be lost or still arrive.
StartUnanswered(c) ==
    /\ cancels + faults < MaxTroubles
    /\ local[c].phase = "starting"
    /\ faults' = faults + 1
    /\ \/ UNCHANGED posts
       \/ posts' = posts \ {Post(c, local[c].l, "started")}
    /\ Running(c)
    /\ UNCHANGED <<hubVars, active, remote, cancelling, begun, cancels, drops,
                   ghosts>>

\* The user of this client stops its generation.
Stop(c) ==
    /\ local[c].phase # "idle" /\ ~local[c].aborted
    /\ local' = [local EXCEPT ![c].aborted = TRUE]
    /\ UNCHANGED <<hubVars, active, posts, remote, cancelling, counters, ghosts>>

\* The generation ends or throws (reportNodeGenerationFailure, after which
\* endNodeGenerationLifecycle reports nothing); the client is free for the
\* next one before the report has arrived.
End(c) ==
    /\ local[c].phase = "running"
    /\ \E state \in {"finished"} \union (IF local[c].aborted THEN {"aborted"} ELSE {}) :
         posts' = posts \union {Post(c, local[c].l, state)}
    /\ local' = [local EXCEPT ![c] = NoGeneration]
    /\ UNCHANGED <<hubVars, active, remote, cancelling, counters, ghosts>>

----------------------------------------------------------------------------
(* The hub's generation states.                                              *)

\* A seeded bug: only the end of the recorded generation is announced.
UpdateGenerationState_OnlyRecorded(p) ==
    IF p.state = "started"
    THEN active' = [l |-> p.l, from |-> p.from] /\ Broadcast(p)
    ELSE IF active.l = p.l THEN active' = None /\ Broadcast(p)
    ELSE UNCHANGED <<active, hubVars>>

UpdateGenerationState(p) ==
    /\ active' = IF p.state = "started" THEN [l |-> p.l, from |-> p.from]
                 ELSE IF active.l = p.l THEN None ELSE active
    /\ Broadcast(p)

\* A report arrives; reports are separate requests and arrive in any order.
Report(p) ==
    /\ p \in posts
    /\ posts' = posts \ {p}
    /\ UpdateGenerationState(p)
    /\ UNCHANGED <<local, remote, cancelling, counters, ghosts>>

LoseReport(p) ==
    /\ p \in posts /\ p.state # "started"
    /\ cancels + faults < MaxTroubles
    /\ faults' = faults + 1
    /\ posts' = posts \ {p}
    /\ UNCHANGED <<hubVars, active, local, remote, cancelling, begun, cancels,
                   drops, ghosts>>

\* pruneGenerationStates.
Expire ==
    /\ cancels + faults < MaxTroubles
    /\ active # None
    /\ faults' = faults + 1
    /\ active' = None
    /\ UNCHANGED <<hubVars, posts, local, remote, cancelling, begun, cancels,
                   drops, ghosts>>

----------------------------------------------------------------------------
(* Cancelling another client's generation.                                   *)

\* abortChat without a controller of its own: the request names the chat only.
Cancel(c) ==
    /\ cancels + faults < MaxTroubles
    /\ local[c] = NoGeneration /\ remote[c] # {}
    /\ cancelling[c] = NoCancel
    /\ cancels' = cancels + 1
    /\ cancelling' = [cancelling EXCEPT ![c] = "sent"]
    /\ UNCHANGED <<hubVars, active, posts, local, remote, begun, drops, faults, ghosts>>

\* cancelGeneration.
ServeCancel(c) ==
    /\ cancelling[c] = "sent"
    /\ cancelling' = [cancelling EXCEPT ![c] = "answered"]
    /\ IF active = None THEN UNCHANGED <<hubVars, active, aimed>>
       ELSE /\ UpdateGenerationState(Post(c, active.l, "aborted"))
            /\ aimed' = aimed \union {active.l}
    /\ UNCHANGED <<posts, local, remote, counters, cleared, blind, resynced>>

\* The answer makes the client forget every remote source of the chat.
CancelAnswered(c) ==
    /\ cancelling[c] = "answered"
    /\ cancelling' = [cancelling EXCEPT ![c] = NoCancel]
    /\ remote' = [remote EXCEPT ![c] = {}]
    /\ cleared' = [cleared EXCEPT ![c] = @ \union remote[c]]
    /\ UNCHANGED <<hubVars, active, posts, local, counters, aimed, blind, resynced>>

----------------------------------------------------------------------------
(* The other clients.                                                        *)

\* A seeded bug: a cancellation aborts whatever the client generates.
Cancelled_Any(c, e) == e.state = "aborted" /\ local[c].phase # "idle"

\* localGenerationController.cancel: the lifecycle must be the current one.
Cancelled(c, e) ==
    e.state = "aborted" /\ local[c].phase # "idle" /\ local[c].l = e.l

\* applyGenerationState, to an event or to a generation of the snapshot.
ApplyGenerationState(c, e) ==
    IF e.from = c THEN UNCHANGED <<local, remote>>
    ELSE /\ local' = IF Cancelled(c, e) THEN [local EXCEPT ![c].aborted = TRUE]
                     ELSE local
         /\ remote' = [remote EXCEPT ![c] = IF e.state = "started"
                                            THEN @ \union {e.l} ELSE @ \ {e.l}]

DispatchFrame(c) ==
    /\ Take(c)
    /\ LET f == Head(channel[c]) IN
       /\ IF f.kind = "resync" \/ f.data.l = 0 THEN UNCHANGED <<local, remote>>
          ELSE ApplyGenerationState(c, f.data)
       /\ resynced' = IF f.kind = "resync" THEN resynced \union {c} ELSE resynced
    /\ UNCHANGED <<active, posts, cancelling, counters, aimed, cleared, blind>>

\* A seeded bug: the ready frame carries no generation.
Open_NoSnapshot(c) ==
    /\ Connect(c, Post("none", 0, "started"))
    /\ UNCHANGED <<active, posts, local, remote, cancelling, counters, ghosts>>

\* The ready frame carries the active generation.
Open(c) ==
    /\ Connect(c, Post(active.from, active.l, "started"))
    /\ UNCHANGED <<active, posts, local, remote, cancelling, counters, ghosts>>

Close(c) ==
    /\ Disconnect(c)
    /\ blind' = IF lastEventId[c] = NoCursor THEN blind \union {c} ELSE blind
    /\ UNCHANGED <<active, posts, local, remote, cancelling, begun, cancels,
                   faults, aimed, cleared, resynced>>

Drop(c) ==
    /\ drops < MaxDrops
    /\ link[c] = "open"
    /\ drops' = drops + 1
    /\ Close(c)

NoticeEnd(c) ==
    /\ link[c] = "ending"
    /\ Close(c)
    /\ UNCHANGED drops

\* The process restarts: what the hub knows is lost, and so are its requests.
Restart ==
    /\ cancels + faults < MaxTroubles
    /\ faults' = faults + 1
    /\ HubRestart
    /\ active' = None
    /\ posts' = {}
    /\ cancelling' = [c \in Clients |-> NoCancel]
    /\ UNCHANGED <<local, remote, begun, cancels, drops, ghosts>>

Next ==
    \/ \E c \in Clients :
         \/ Begin(c) \/ StartAnswered(c) \/ StartUnanswered(c) \/ Stop(c) \/ End(c)
         \/ Cancel(c) \/ ServeCancel(c) \/ CancelAnswered(c)
         \/ DispatchFrame(c) \/ Open(c) \/ Drop(c) \/ NoticeEnd(c)
    \/ \E p \in posts : Report(p) \/ LoseReport(p)
    \/ Expire
    \/ Restart

Spec == Init /\ [][Next]_vars

----------------------------------------------------------------------------
(* Properties.                                                               *)

\* Nothing is under way and every client has handled what it was sent.
AtRest ==
    /\ posts = {}
    /\ \A c \in Clients :
         local[c] = NoGeneration /\ cancelling[c] = NoCancel /\ Drained(c)

\* When all generations have ended and no report of theirs was lost, no client
\* still holds the chat busy (setRemoteChatGeneration), whatever connections
\* were lost and whoever cancelled.  Clients that were resynchronized, or lost
\* a connection without a cursor, are exempt.
NoStaleSource ==
    AtRest /\ faults = 0 => \A c \in Clients \ (blind \union resynced) : remote[c] = {}

\* A client that has handled what it was sent knows the generation the hub
\* records, if it is not its own, and so begins none beside it: snapshot,
\* replay and broadcasts agree, whatever was lost.  A cancel request makes its
\* client forget every generation, the newest included
\* (clearRemoteChatGeneration).
RecordedIsKnown ==
    \A c \in Clients :
        Drained(c) /\ active # None /\ active.from # c
        => active.l \in remote[c] \union cleared[c]

\* A remote cancellation aborts the lifecycle the hub named and no later one
\* of the chat, however late it arrives (LocalGenerationController.cancel).
AbortsOnlyTheAimed ==
    [][\A c \in Clients :
         local'[c].aborted /\ ~local[c].aborted /\ channel'[c] # channel[c]
         => local[c].l \in aimed]_vars
=============================================================================
