----------------------------- MODULE RealtimeHub -----------------------------
(* The realtime event hub of the Node server and the transport end of its    *)
(* clients: numbered broadcasts, the bounded replay history, the replay      *)
(* cursor a client presents when it reconnects, and the frames in flight on  *)
(* its SSE or WebSocket connection.  What the events mean is left to the     *)
(* modules that extend this one: an event is a value of the parameter e of   *)
(* Broadcast.                                                                *)
EXTENDS Integers, Sequences, FiniteSets

CONSTANTS Clients,        \* browsers and apps, by client id
          HistoryLimit    \* replayable events the hub retains

ASSUME HistoryLimitAssumption == HistoryLimit \in Nat \ {0}

VARIABLES sequence,       \* the id of the newest broadcast of this process
          history,        \* the retained broadcasts, oldest first
          link,           \* the state of each client's connection
          channel,        \* the frames on each connection, oldest first
          lastEventId     \* each client's replay cursor

hubVars == <<sequence, history, link, channel, lastEventId>>

NoCursor == -1

\* "ending": the server side is gone, what was sent before can still arrive.
Links == {"off", "open", "ending"}

\* A frame is a numbered event, the ready snapshot or a resync request; the
\* id of the last two is the latestEventId they carry in their data.
Frame(kind, id, data) == [kind |-> kind, id |-> id, data |-> data]

HubInit ==
    /\ sequence = 0
    /\ history = <<>>
    /\ link = [c \in Clients |-> "off"]
    /\ channel = [c \in Clients |-> <<>>]
    /\ lastEventId = [c \in Clients |-> NoCursor]

----------------------------------------------------------------------------
(* The server side.                                                          *)

\* history.splice(0, history.length - historyLimit)
Trim(h) ==
    IF Len(h) > HistoryLimit
    THEN SubSeq(h, Len(h) - HistoryLimit + 1, Len(h))
    ELSE h

\* Number an event, retain it and send it on every open connection.
Broadcast(e) ==
    LET record == Frame("event", sequence + 1, e) IN
    /\ sequence' = sequence + 1
    /\ history' = Trim(Append(history, record))
    /\ channel' = [c \in Clients |->
                     IF link[c] = "open" THEN Append(channel[c], record)
                                         ELSE channel[c]]
    /\ UNCHANGED <<link, lastEventId>>

OldestRetainedId == IF history = <<>> THEN sequence + 1 ELSE Head(history).id

\* A seeded bug: the boundary of the window is off by one, so a client whose
\* next event was the last one dropped is served from the history.
ReplayGap_Lax(last) ==
    /\ last # NoCursor
    /\ \/ last > sequence
       \/ last < sequence /\ last < OldestRetainedId - 2

ReplayGap(last) ==
    /\ last # NoCursor
    /\ \/ last > sequence
       \/ last < sequence /\ last < OldestRetainedId - 1

\* The retained records newer than the cursor: the history is in id order,
\* so they are what is left of it behind the older ones.
Newer(last) ==
    LET older == {i \in DOMAIN history : history[i].id <= last}
    IN  SubSeq(history, Cardinality(older) + 1, Len(history))

\* replayClient, then readyClient with the snapshot of the generations.
Greeting(last, snapshot) ==
    LET ready == <<Frame("ready", sequence, snapshot)>> IN
    IF ReplayGap(last)
    THEN <<Frame("resync", sequence, snapshot)>> \o ready
    ELSE IF last # NoCursor THEN Newer(last) \o ready
    ELSE ready

\* The process dies and a new one starts: nothing of the hub is persisted.
HubRestart ==
    /\ sequence' = 0
    /\ history' = <<>>
    /\ link' = [c \in Clients |-> IF link[c] = "open" THEN "ending" ELSE link[c]]
    /\ UNCHANGED <<channel, lastEventId>>

----------------------------------------------------------------------------
(* The client side.                                                          *)

Connect(c, snapshot) ==
    /\ link[c] = "off"
    /\ link' = [link EXCEPT ![c] = "open"]
    /\ channel' = [channel EXCEPT ![c] = Greeting(lastEventId[c], snapshot)]
    /\ UNCHANGED <<sequence, history, lastEventId>>

\* The cursor moves with a numbered frame and with a resync request; the
\* latestEventId of a ready frame is not read.
CursorAfter(c, f) == IF f.kind = "ready" THEN lastEventId[c] ELSE f.id

\* Dispatch the next frame of the connection.
Take(c) ==
    /\ channel[c] # <<>>
    /\ channel' = [channel EXCEPT ![c] = Tail(@)]
    /\ lastEventId' = [lastEventId EXCEPT ![c] = CursorAfter(c, Head(channel[c]))]
    /\ UNCHANGED <<sequence, history, link>>

\* The connection is lost with whatever it still carried; the client will
\* reconnect (Connect).
Disconnect(c) ==
    /\ link[c] # "off"
    /\ link' = [link EXCEPT ![c] = "off"]
    /\ channel' = [channel EXCEPT ![c] = <<>>]
    /\ UNCHANGED <<sequence, history, lastEventId>>

Drained(c) == link[c] = "open" /\ channel[c] = <<>>
=============================================================================
