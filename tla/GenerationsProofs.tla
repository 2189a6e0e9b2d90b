-------------------------- MODULE GenerationsProofs --------------------------
(* Proofs about Generations, for any number of clients and generations, any   *)
(* history limit, and any number of lost connections, cancellations, lost     *)
(* reports and restarts.                                                      *)
EXTENDS Generations, FiniteSetTheorems, TLAPS

-----------------------------------------------------------------------------
(* Facts about sequences.                                                    *)

\* An element put behind a sequence.
LEMMA AppendFacts ==
  ASSUME NEW S, NEW s \in Seq(S), NEW e \in S
  PROVE  /\ Append(s, e) \in Seq(S) /\ Len(Append(s, e)) = Len(s) + 1
         /\ \A i \in 1 .. Len(s) : Append(s, e)[i] = s[i]
         /\ Append(s, e)[Len(s) + 1] = e
  OBVIOUS

\* What is left of a sequence without its head.
LEMMA TailFacts ==
  ASSUME NEW S, NEW s \in Seq(S), s # <<>>
  PROVE  /\ Tail(s) \in Seq(S) /\ Len(Tail(s)) = Len(s) - 1 /\ Len(s) \in Nat \ {0}
         /\ \A i \in 1 .. Len(Tail(s)) : Tail(s)[i] = s[i + 1]
         /\ Head(s) = s[1] /\ s[1] \in S
  OBVIOUS

\* The shortest sequences.
LEMMA SingletonFacts ==
  ASSUME NEW S, NEW e \in S
  PROVE  <<>> \in Seq(S) /\ <<e>> \in Seq(S)
  OBVIOUS

\* An element put behind a sequence, by position.
LEMMA ThenFacts ==
  ASSUME NEW S, NEW a \in Seq(S), NEW e \in S
  PROVE  /\ a \o <<e>> \in Seq(S) /\ Len(a \o <<e>>) = Len(a) + 1
         /\ \A i \in 1 .. Len(a) : (a \o <<e>>)[i] = a[i]
         /\ (a \o <<e>>)[Len(a) + 1] = e
  OBVIOUS

\* The end of a sequence, from position m on.
LEMMA SuffixFacts ==
  ASSUME NEW S, NEW s \in Seq(S), NEW m \in 1 .. Len(s) + 1
  PROVE  /\ SubSeq(s, m, Len(s)) \in Seq(S)
         /\ Len(SubSeq(s, m, Len(s))) = Len(s) - m + 1
         /\ \A i \in 1 .. Len(s) - m + 1 : SubSeq(s, m, Len(s))[i] = s[m + i - 1]
  OBVIOUS

-----------------------------------------------------------------------------
(* Types.                                                                    *)

States == {"started", "finished", "aborted"}
Reports == [l : Nat \ {0}, state : States, from : Clients]
Event  == Reports \union {Post("none", 0, "started")}
Frames == [kind : {"event", "ready", "resync"}, id : Nat, data : Event]
Live   == [phase : {"starting", "running"}, l : Nat \ {0}, aborted : BOOLEAN]
Requests == {NoCancel, "sent", "answered"}

HubTypes ==
    /\ sequence \in Nat
    /\ history \in Seq(Frames)
    /\ link \in [Clients -> Links]
    /\ channel \in [Clients -> Seq(Frames)]
    /\ lastEventId \in [Clients -> Nat \union {NoCursor}]
ChatTypes ==
    /\ active \in [l : Nat \ {0}, from : Clients] \union {None}
    /\ posts \subseteq Reports
    /\ local \in [Clients -> Live \union {NoGeneration}]
    /\ remote \in [Clients -> SUBSET Nat]
    /\ cancelling \in [Clients -> Requests]
CountTypes ==
    /\ begun \in Nat /\ cancels \in Nat /\ drops \in Nat /\ faults \in Nat
GhostTypes ==
    /\ aimed \subseteq Nat
    /\ cleared \in [Clients -> SUBSET Nat]
    /\ blind \subseteq Clients /\ resynced \subseteq Clients

TypeOK == HubTypes /\ ChatTypes /\ CountTypes /\ GhostTypes

-----------------------------------------------------------------------------
(* A lifecycle has one owner.  Whoever speaks for it in a report, a start or *)
(* the hub's record is that client, and no client takes its own generation   *)
(* for another's.                                                            *)

Elements(s) == {s[i] : i \in DOMAIN s}

\* The frames that exist, and what they say.
Sent == Elements(history) \union UNION {Elements(channel[c]) : c \in Clients}
Said == {f.data : f \in Sent}

Claims(d, l) ==
    \/ local[d].phase # "idle" /\ local[d].l = l
    \/ \E p \in posts : p.l = l /\ p.from = d
    \/ \E e \in Said : e.l = l /\ e.from = d /\ e.state = "started"
    \/ active.l = l /\ active.from = d

OwnerInv ==
    \A l \in Nat \ {0} : \A d \in Clients : Claims(d, l) =>
       /\ l <= begun
       /\ l \notin remote[d]
       /\ \A c \in Clients : Claims(c, l) => c = d

\* Only lifecycles that have begun are spoken of.
SaidInv     == \A e \in Said : e.l <= begun
KnownRemote == \A c \in Clients : remote[c] \subseteq 1 .. begun

\* A frame that aborts a lifecycle comes from its owner, unless the hub aborted it.
AbortInv ==
    \A e \in Said : e.state = "aborted" =>
       \/ e.l \in aimed
       \/ \A d \in Clients : Claims(d, e.l) => d = e.from

OwnInv == OwnerInv /\ KnownRemote /\ SaidInv /\ AbortInv

-----------------------------------------------------------------------------
(* What a client will know of a lifecycle when it has handled some frames.   *)

Starts(f, c, l) == f.kind # "resync" /\ f.data.l = l /\ f.data.from # c /\ f.data.state = "started"
Ends(f, c, l)   == f.kind # "resync" /\ f.data.l = l /\ f.data.from # c /\ f.data.state # "started"

\* knows says whether the client knows of it before.
Knows(knows, s, c, l) ==
    \/ \E i \in 1 .. Len(s) :
         Starts(s[i], c, l) /\ \A k \in 1 .. Len(s) : i < k => ~Ends(s[k], c, l)
    \/ knows /\ \A k \in 1 .. Len(s) : ~Ends(s[k], c, l)

\* A connected client knows what the hub records, or is going to be told.
KnownInv ==
    \A c \in Clients :
       link[c] = "open" /\ active # None /\ active.from # c =>
          \/ active.l \in cleared[c]
          \/ Knows(active.l \in remote[c], channel[c], c, active.l)

-----------------------------------------------------------------------------
(* The numbers of the events, while the server is not restarted.             *)

\* The retained events are the newest ones, numbered without a hole.
HistoryInv ==
    /\ Len(history) <= sequence
    /\ \A i \in 1 .. Len(history) :
         history[i].kind = "event" /\ history[i].id = sequence - Len(history) + i

Oldest == sequence - Len(history) + 1

\* The frames on a connection, when the number of the newest event is top and H is
\* the history from old on: a resync request comes first, events are in their
\* order, are the retained ones as far as these go back, and follow without a hole.
ChannelOK(s, top, old, H) ==
    /\ \A i \in 1 .. Len(s) :
         /\ s[i].id <= top
         /\ s[i].kind = "resync" => i = 1
         /\ s[i].kind = "event" /\ s[i].id >= old => s[i] \in H
         /\ s[i].kind # "ready" => \A f \in H : f.id > s[i].id => f \in Elements(s)
         /\ s[i].kind = "ready" => s[i].data.state = "started"
    /\ \A i, k \in 1 .. Len(s) :
         i < k /\ s[i].kind # "ready" /\ s[k].kind = "event" => s[i].id < s[k].id

Resyncs(s) == Len(s) > 0 /\ s[1].kind = "resync"

\* A client with a cursor is sent all that is newer, and nothing else.
Follows(cursor, s, H) ==
    /\ \A i \in 1 .. Len(s) : s[i].kind = "event" => s[i].id > cursor
    /\ \A f \in H : f.id > cursor => f \in Elements(s)

CursorInv(c) ==
    /\ link[c] # "ending"
    /\ link[c] = "off" => channel[c] = <<>>
    /\ lastEventId[c] <= sequence
    /\ link[c] = "off" /\ lastEventId[c] = NoCursor /\ c \notin blind => remote[c] = {}
    /\ link[c] = "open" =>
         /\ ChannelOK(channel[c], sequence, Oldest, Elements(history))
         /\ Resyncs(channel[c]) => ReplayGap(lastEventId[c])
         /\ lastEventId[c] # NoCursor =>
              Resyncs(channel[c]) \/ Follows(lastEventId[c], channel[c], Elements(history))

\* The window of retained events.
Window(top, old, H) ==
    /\ old \in Nat \ {0} /\ old <= top + 1
    /\ \A x \in H : x.kind = "event" /\ x.id \in Nat /\ x.id >= old /\ x.id <= top
    /\ \A x, y \in H : x.id = y.id => x = y
    /\ \A u \in Nat \union {NoCursor} : u <= top => (ReplayGap(u) <=> u # NoCursor /\ u < old - 1)

HubInv == HistoryInv /\ (faults = 0 => \A c \in Clients : CursorInv(c))

-----------------------------------------------------------------------------
(* The end of a lifecycle.                                                   *)

Over(l) ==
    /\ \A d \in Clients : local[d].phase # "idle" => local[d].l # l
    /\ \A p \in posts : p.l # l

\* What a client without connection will know when it is connected again.
Missed(knows, cursor, H, c, l) ==
    \/ \E f \in H : /\ f.id > cursor /\ Starts(f, c, l)
                   /\ \A g \in H : g.id > f.id => ~Ends(g, c, l)
    \/ knows /\ \A g \in H : g.id > cursor => ~Ends(g, c, l)

LiveInv ==
    /\ \A p \in posts : p.state = "started" =>
         local[p.from].phase = "starting" /\ local[p.from].l = p.l
    /\ active # None => ~Over(active.l)

OverInv(c, l) ==
    /\ link[c] = "open" /\ Knows(l \in remote[c], channel[c], c, l) => Resyncs(channel[c])
    /\ link[c] = "off" /\ lastEventId[c] # NoCursor /\ ~ReplayGap(lastEventId[c]) =>
         ~Missed(l \in remote[c], lastEventId[c], Elements(history), c, l)

EndInv ==
    faults = 0 =>
      /\ LiveInv
      /\ \A c \in Clients \ (blind \union resynced) : \A l \in 1 .. begun :
           Over(l) => OverInv(c, l)

-----------------------------------------------------------------------------
LEMMA EventFacts ==
    ASSUME NEW e \in Event
    PROVE  /\ e.l \in Nat /\ e.state \in States
           /\ e.l # 0 => e.from \in Clients
BY DEF Event, Reports, Post, States

LEMMA FrameFacts ==
    ASSUME NEW kind \in {"event", "ready", "resync"}, NEW id \in Nat, NEW e \in Event
    PROVE  /\ Frame(kind, id, e) \in Frames
           /\ Frame(kind, id, e).kind = kind /\ Frame(kind, id, e).id = id
           /\ Frame(kind, id, e).data = e
BY DEF Frame, Frames

LEMMA LiveFacts ==
    ASSUME ChatTypes, NEW c \in Clients, local[c].phase # "idle"
    PROVE  local[c] \in Live /\ local[c].l \in Nat \ {0}
BY DEF ChatTypes, Live, NoGeneration

LEMMA ElementFacts ==
    ASSUME NEW S, NEW s \in Seq(S)
    PROVE  /\ Elements(s) \subseteq S
           /\ \A i \in 1 .. Len(s) : s[i] \in Elements(s)
           /\ \A x \in Elements(s) : \E i \in 1 .. Len(s) : x = s[i]
BY DEF Elements

-----------------------------------------------------------------------------
(* What the operations of the hub do.                                        *)

\* Trimming keeps the newest frames.
LEMMA TrimFacts ==
    ASSUME NEW h \in Seq(Frames)
    PROVE  /\ Trim(h) \in Seq(Frames)
           /\ Len(Trim(h)) <= Len(h)
           /\ \A i \in 1 .. Len(Trim(h)) : Trim(h)[i] = h[Len(h) - Len(Trim(h)) + i]
<1>1. CASE Len(h) > HistoryLimit
  <2> DEFINE m == Len(h) - HistoryLimit + 1
  <2>1. m \in 1 .. Len(h) + 1 /\ Len(h) - m + 1 = HistoryLimit
    BY <1>1, HistoryLimitAssumption
  <2>2. Trim(h) = SubSeq(h, m, Len(h))
    BY <1>1 DEF Trim
  <2>3. /\ SubSeq(h, m, Len(h)) \in Seq(Frames)
        /\ Len(SubSeq(h, m, Len(h))) = Len(h) - m + 1
        /\ \A i \in 1 .. Len(h) - m + 1 : SubSeq(h, m, Len(h))[i] = h[m + i - 1]
    BY <2>1, SuffixFacts
  <2>4. Len(Trim(h)) = HistoryLimit
    BY <2>1, <2>2, <2>3
  <2> QED BY <1>1, <2>2, <2>3, <2>4, HistoryLimitAssumption
<1>2. CASE ~(Len(h) > HistoryLimit)
  BY <1>2, HistoryLimitAssumption DEF Trim
<1> QED BY <1>1, <1>2

\* A broadcast of e puts the record f into the history and on the connections.
Published(e, f) ==
    /\ f \in Frames /\ f.kind = "event" /\ f.id = sequence + 1 /\ f.data = e
    /\ sequence' = sequence + 1
    /\ history' = Trim(Append(history, f))
    /\ \A c \in Clients :
         channel'[c] = IF link[c] = "open" THEN Append(channel[c], f) ELSE channel[c]
    /\ UNCHANGED <<link, lastEventId>>

LEMMA BroadcastFacts ==
    ASSUME HubTypes, NEW e \in Event, Broadcast(e)
    PROVE  HubTypes' /\ \E f \in Frames : Published(e, f)
<1> DEFINE f == Frame("event", sequence + 1, e)
<1>1. f \in Frames /\ f.kind = "event" /\ f.id = sequence + 1 /\ f.data = e
  <2>1. sequence + 1 \in Nat
    BY DEF HubTypes
  <2> QED BY <2>1, FrameFacts
<1>2. /\ sequence' = sequence + 1 /\ history' = Trim(Append(history, f))
      /\ channel' = [c \in Clients |-> IF link[c] = "open" THEN Append(channel[c], f)
                                                           ELSE channel[c]]
      /\ UNCHANGED <<link, lastEventId>>
  BY DEF Broadcast
<1> HIDE DEF f
<1>3. Append(history, f) \in Seq(Frames) /\ history' \in Seq(Frames)
  BY <1>1, <1>2, AppendFacts, TrimFacts DEF HubTypes
<1>4. \A c \in Clients : Append(channel[c], f) \in Seq(Frames)
  BY <1>1, AppendFacts DEF HubTypes
<1>5. channel' \in [Clients -> Seq(Frames)]
  BY <1>2, <1>4 DEF HubTypes
<1>6. HubTypes'
  BY <1>2, <1>3, <1>5 DEF HubTypes
<1>7. Published(e, f)
  BY <1>1, <1>2 DEF Published
<1> QED BY <1>1, <1>6, <1>7

\* The history after a broadcast.
LEMMA PublishedHistory ==
    ASSUME HubTypes, NEW e \in Event, NEW f, Published(e, f)
    PROVE  /\ history' \in Seq(Frames)
           /\ Elements(history') \subseteq Elements(history) \union {f}
           /\ HistoryInv => /\ HistoryInv'
                            /\ \A x \in Elements(history) : x.id >= Oldest' => x \in Elements(history')
                            /\ Oldest' >= Oldest /\ f \in Elements(history')
<1> DEFINE h == Append(history, f)
           n == Len(history)
           m == Len(Trim(h))
<1>1. history \in Seq(Frames) /\ n \in Nat /\ f \in Frames /\ sequence \in Nat
  BY DEF HubTypes, Published
<1>2. /\ h \in Seq(Frames) /\ Len(h) = n + 1 /\ h[n + 1] = f
      /\ \A i \in 1 .. n : h[i] = history[i]
  BY <1>1, AppendFacts
<1> HIDE DEF h
<1>3. /\ Trim(h) \in Seq(Frames) /\ m <= n + 1 /\ m \in Nat
      /\ \A i \in 1 .. m : Trim(h)[i] = h[n + 1 - m + i]
  <2>1. /\ Trim(h) \in Seq(Frames) /\ m <= Len(h)
        /\ \A i \in 1 .. m : Trim(h)[i] = h[Len(h) - m + i]
    BY <1>2, TrimFacts
  <2> HIDE DEF m
  <2>2. m \in Nat
    BY <2>1 DEF m
  <2>3. Len(h) = n + 1
    BY <1>2
  <2> QED BY <2>1, <2>2, <2>3
<1>4. history' = Trim(h) /\ sequence' = sequence + 1 /\ f.kind = "event" /\ f.id = sequence + 1
  BY DEF Published, h
<1>5. m >= 1
  <2>1. CASE Len(h) > HistoryLimit
    <3> DEFINE k == Len(h) - HistoryLimit + 1
    <3>1. k \in 1 .. Len(h) + 1 /\ Len(h) - k + 1 = HistoryLimit
      BY <1>1, <1>2, <2>1, HistoryLimitAssumption
    <3>2. Len(SubSeq(h, k, Len(h))) = HistoryLimit
      BY <1>2, <3>1, SuffixFacts
    <3> QED BY <2>1, <3>2, HistoryLimitAssumption DEF Trim
  <2>2. CASE ~(Len(h) > HistoryLimit)
    BY <1>1, <1>2, <2>2, HistoryLimitAssumption DEF Trim
  <2> QED BY <2>1, <2>2
<1> HIDE DEF n, m
<1>6. ASSUME NEW x \in Elements(history') PROVE x \in Elements(history) \union {f}
  <2>1. PICK i \in 1 .. m : x = h[n + 1 - m + i]
    BY <1>3, <1>4, <1>6, ElementFacts DEF m
  <2>2. n + 1 - m + i \in 1 .. n \/ n + 1 - m + i = n + 1
    BY <1>1, <1>3, <2>1
  <2> QED BY <1>1, <1>2, <2>1, <2>2, ElementFacts DEF n
<1>7. ASSUME HistoryInv
      PROVE  /\ HistoryInv'
             /\ \A x \in Elements(history) : x.id >= Oldest' => x \in Elements(history')
             /\ Oldest' >= Oldest /\ f \in Elements(history')
  <2>1. n <= sequence /\ \A i \in 1 .. n : history[i].kind = "event" /\ history[i].id = sequence - n + i
    BY <1>7 DEF HistoryInv, n
  <2>2. \A i \in 1 .. n + 1 : h[i].kind = "event" /\ h[i].id = sequence - n + i
    <3> SUFFICES ASSUME NEW i \in 1 .. n + 1
                 PROVE  h[i].kind = "event" /\ h[i].id = sequence - n + i
      OBVIOUS
    <3>1. CASE i = n + 1
      BY <1>1, <1>2, <1>4, <3>1
    <3>2. CASE i \in 1 .. n
      BY <1>2, <2>1, <3>2
    <3> QED BY <1>1, <3>1, <3>2
  <2>3. Len(history') = m
    BY <1>4 DEF m
  <2>4. \A i \in 1 .. m : history'[i] = h[n + 1 - m + i] /\ n + 1 - m + i \in 1 .. n + 1
    BY <1>1, <1>3, <1>4
  <2>5. HistoryInv'
    <3>1. ASSUME NEW i \in 1 .. m
          PROVE  history'[i].kind = "event" /\ history'[i].id = sequence + 1 - m + i
      <4> DEFINE k == n + 1 - m + i
      <4>1. k \in 1 .. n + 1 /\ history'[i] = h[k]
        BY <2>4
      <4>2. sequence - n + k = sequence + 1 - m + i
        BY <1>1, <1>3
      <4> HIDE DEF k
      <4> QED BY <2>2, <4>1, <4>2
    <3>2. m <= sequence + 1
      BY <1>1, <1>3, <2>1
    <3> QED BY <1>1, <1>3, <1>4, <2>3, <3>1, <3>2 DEF HistoryInv
  <2>6. Oldest' = sequence + 1 - m + 1 /\ Oldest = sequence - n + 1
    BY <1>1, <1>3, <1>4, <2>3 DEF Oldest, n
  <2>7. ASSUME NEW x \in Elements(history), x.id >= Oldest' PROVE x \in Elements(history')
    <3>1. PICK i \in 1 .. n : x = history[i]
      BY <1>1, ElementFacts DEF n
    <3>2. i + m - n - 1 \in 1 .. m
      BY <1>1, <1>3, <2>1, <2>6, <2>7, <3>1
    <3>3. history'[i + m - n - 1] = h[n + 1 - m + (i + m - n - 1)]
      BY <2>4, <3>2
    <3>4. n + 1 - m + (i + m - n - 1) = i
      BY <1>1, <1>3, <3>1
    <3>5. history'[i + m - n - 1] = x
      BY <1>2, <3>1, <3>3, <3>4
    <3> QED BY <1>3, <1>4, <2>3, <3>2, <3>5, ElementFacts
  <2>8. f \in Elements(history')
    <3>1. m \in 1 .. m /\ n + 1 - m + m = n + 1
      BY <1>1, <1>3, <1>5
    <3>2. history'[m] = f
      BY <1>2, <2>4, <3>1
    <3> QED BY <1>3, <1>4, <2>3, <3>1, <3>2, ElementFacts
  <2> QED BY <1>1, <1>3, <2>5, <2>6, <2>7, <2>8
<1> QED BY <1>3, <1>4, <1>6, <1>7

\* The retained records newer than a cursor are a part of the history.
LEMMA NewerTypes ==
    ASSUME HubTypes, NEW last
    PROVE  Newer(last) \in Seq(Frames) /\ Elements(Newer(last)) \subseteq Elements(history)
<1> DEFINE n == Len(history)
           older == {i \in DOMAIN history : history[i].id <= last}
           k == Cardinality(older)
<1>1. history \in Seq(Frames) /\ n \in Nat /\ DOMAIN history = 1 .. n
  BY DEF HubTypes
<1>2. k \in Nat /\ k <= n
  <2>1. IsFiniteSet(1 .. n) /\ Cardinality(1 .. n) = n
    <3>1. Cardinality(1 .. n) = IF 1 > n THEN 0 ELSE n - 1 + 1
      BY <1>1, FS_Interval
    <3>2. IsFiniteSet(1 .. n)
      BY <1>1, FS_Interval
    <3> QED BY <1>1, <3>1, <3>2
  <2>2. older \subseteq 1 .. n
    BY <1>1
  <2> HIDE DEF older, n
  <2> QED BY <2>1, <2>2, FS_Subset, FS_CardinalityType
<1>3. k + 1 \in 1 .. n + 1
  BY <1>1, <1>2
<1>4. /\ SubSeq(history, k + 1, n) \in Seq(Frames)
      /\ Len(SubSeq(history, k + 1, n)) = n - (k + 1) + 1
      /\ \A i \in 1 .. n - (k + 1) + 1 : SubSeq(history, k + 1, n)[i] = history[k + 1 + i - 1]
  BY <1>1, <1>3, SuffixFacts
<1>5. Newer(last) = SubSeq(history, k + 1, n)
  BY DEF Newer
<1> HIDE DEF k, older
<1>6. \A i \in 1 .. n - (k + 1) + 1 : k + 1 + i - 1 \in 1 .. n
  BY <1>1, <1>2
<1>7. ASSUME NEW x \in Elements(Newer(last)) PROVE x \in Elements(history)
  <2>1. PICK i \in 1 .. n - (k + 1) + 1 : x = history[k + 1 + i - 1]
    <3>1. Newer(last) \in Seq(Frames)
      BY <1>4, <1>5
    <3>2. PICK i \in 1 .. Len(Newer(last)) : x = Newer(last)[i]
      BY <1>7, <3>1, ElementFacts
    <3> QED BY <1>4, <1>5, <3>2
  <2>2. k + 1 + i - 1 \in 1 .. n
    BY <1>6
  <2> QED BY <1>1, <2>1, <2>2, ElementFacts
<1> QED BY <1>4, <1>5, <1>7

\* A greeting ends with the snapshot.
Greets(g, e) ==
    /\ g \in Seq(Frames) /\ Len(g) \in Nat \ {0}
    /\ g[Len(g)].kind = "ready" /\ g[Len(g)].data = e
    /\ \A x \in Elements(g) : x \in Elements(history) \/ x.data = e

LEMMA GreetingFacts ==
    ASSUME HubTypes, NEW last, NEW e \in Event
    PROVE  Greets(Greeting(last, e), e)
<1> DEFINE g == Greeting(last, e)
           r == Frame("ready", sequence, e)
           q == Frame("resync", sequence, e)
<1>1. /\ r \in Frames /\ q \in Frames /\ r.kind = "ready" /\ r.data = e /\ q.data = e
  BY FrameFacts DEF HubTypes
<1> HIDE DEF r, q
<1>2. ASSUME NEW s \in Seq(Frames), \A x \in Elements(s) : x \in Elements(history) \/ x.data = e
      PROVE  Greets(s \o <<r>>, e)
  <2> DEFINE t == s \o <<r>>
  <2>1. /\ t \in Seq(Frames) /\ Len(t) = Len(s) + 1 /\ t[Len(s) + 1] = r /\ Len(s) \in Nat
        /\ \A i \in 1 .. Len(s) : t[i] = s[i]
    BY <1>1, ThenFacts
  <2> HIDE DEF t
  <2>2. ASSUME NEW x \in Elements(t) PROVE x \in Elements(history) \/ x.data = e
    <3>1. PICK i \in 1 .. Len(s) + 1 : x = t[i]
      BY <2>1, <2>2, ElementFacts
    <3>2. CASE i = Len(s) + 1
      BY <1>1, <2>1, <3>1, <3>2
    <3>3. CASE i \in 1 .. Len(s)
      BY <1>2, <2>1, <3>1, <3>3, ElementFacts
    <3> QED BY <2>1, <3>2, <3>3
  <2>3. Greets(t, e)
    BY <1>1, <2>1, <2>2 DEF Greets
  <2> QED BY <2>3 DEF t
<1>3. CASE ReplayGap(last)
  <2>1. g = <<q>> \o <<r>>
    BY <1>3 DEF Greeting, r, q
  <2>2. <<q>> \in Seq(Frames)
    BY <1>1, SingletonFacts
  <2>3. \A x \in Elements(<<q>>) : x.data = e
    BY <1>1 DEF Elements
  <2> QED BY <1>2, <2>1, <2>2, <2>3
<1>4. CASE ~ReplayGap(last) /\ last # NoCursor
  <2>1. g = Newer(last) \o <<r>>
    BY <1>4 DEF Greeting, r
  <2> QED BY <1>2, <2>1, NewerTypes
<1>5. CASE ~ReplayGap(last) /\ last = NoCursor
  <2>1. g = <<r>>
    BY <1>5 DEF Greeting, r
  <2>2. g \in Seq(Frames) /\ Len(g) = 1 /\ g[1] = r
    BY <1>1, <2>1
  <2>3. \A x \in Elements(g) : x = r
    BY <2>1 DEF Elements
  <2> QED BY <1>1, <2>2, <2>3 DEF Greets
<1> QED BY <1>3, <1>4, <1>5

LEMMA ConnectFacts ==
    ASSUME HubTypes, NEW c \in Clients, NEW e \in Event, Connect(c, e)
    PROVE  /\ HubTypes'
           /\ channel'[c] = Greeting(lastEventId[c], e) /\ Greets(channel'[c], e)
           /\ link[c] = "off" /\ link'[c] = "open"
           /\ \A d \in Clients \ {c} : channel'[d] = channel[d] /\ link'[d] = link[d]
           /\ UNCHANGED <<sequence, history, lastEventId>>
<1>1. Greets(Greeting(lastEventId[c], e), e)
  BY GreetingFacts
<1>2. HubTypes'
  BY <1>1 DEF Connect, HubTypes, Links, Greets
<1> QED BY <1>1, <1>2 DEF Connect, HubTypes

LEMMA TakeFacts ==
    ASSUME HubTypes, NEW c \in Clients, Take(c)
    PROVE  /\ HubTypes'
           /\ channel[c] \in Seq(Frames) /\ channel[c] # <<>> /\ Head(channel[c]) \in Frames
           /\ channel'[c] = Tail(channel[c])
           /\ lastEventId'[c] = CursorAfter(c, Head(channel[c]))
           /\ \A d \in Clients \ {c} : channel'[d] = channel[d] /\ lastEventId'[d] = lastEventId[d]
           /\ UNCHANGED <<sequence, history, link>>
<1>1. channel[c] \in Seq(Frames) /\ channel[c] # <<>>
  BY DEF Take, HubTypes
<1>2. Tail(channel[c]) \in Seq(Frames) /\ Head(channel[c]) \in Frames
  BY <1>1, TailFacts
<1>3. CursorAfter(c, Head(channel[c])) \in Nat \union {NoCursor}
  BY <1>2 DEF CursorAfter, Frames, HubTypes
<1>4. /\ channel' = [channel EXCEPT ![c] = Tail(channel[c])]
      /\ lastEventId' = [lastEventId EXCEPT ![c] = CursorAfter(c, Head(channel[c]))]
      /\ UNCHANGED <<sequence, history, link>>
  BY DEF Take
<1> QED BY <1>1, <1>2, <1>3, <1>4 DEF HubTypes

LEMMA DisconnectFacts ==
    ASSUME HubTypes, NEW c \in Clients, Disconnect(c)
    PROVE  /\ HubTypes' /\ channel'[c] = <<>> /\ link'[c] = "off"
           /\ \A d \in Clients \ {c} : channel'[d] = channel[d] /\ link'[d] = link[d]
           /\ UNCHANGED <<sequence, history, lastEventId>>
<1>1. <<>> \in Seq(Frames)
  OBVIOUS
<1> QED BY <1>1 DEF Disconnect, HubTypes, Links

LEMMA RestartFacts ==
    ASSUME HubTypes, HubRestart
    PROVE  /\ HubTypes' /\ sequence' = 0 /\ history' = <<>>
           /\ \A c \in Clients : channel'[c] = channel[c] /\ link'[c] # "open"
<1>1. <<>> \in Seq(Frames)
  OBVIOUS
<1> QED BY <1>1 DEF HubRestart, HubTypes, Links

-----------------------------------------------------------------------------
(* Types are preserved.  The state of the hub's record after a report.       *)

LEMMA UpdateTypes ==
    ASSUME TypeOK, NEW p \in Reports, UpdateGenerationState(p)
    PROVE  /\ HubTypes'
           /\ active' \in [l : Nat \ {0}, from : Clients] \union {None}
           /\ \E f \in Frames : Published(p, f)
<1>1. p \in Event /\ p.l \in Nat \ {0} /\ p.from \in Clients
  BY DEF Event, Reports
<1>2. HubTypes' /\ \E f \in Frames : Published(p, f)
  BY <1>1, BroadcastFacts DEF UpdateGenerationState, TypeOK
<1>3. [l |-> p.l, from |-> p.from] \in [l : Nat \ {0}, from : Clients]
  BY <1>1
<1> QED BY <1>2, <1>3 DEF UpdateGenerationState, TypeOK, ChatTypes

LEMMA Snapshot ==
    ASSUME ChatTypes
    PROVE  /\ Post(active.from, active.l, "started") \in Event
           /\ active # None <=> active.l # 0
           /\ active # None => active.l \in Nat \ {0} /\ active.from \in Clients
BY DEF ChatTypes, Event, Reports, Post, None, States

LEMMA BeginTypes ==
    ASSUME TypeOK, NEW c \in Clients, Begin(c) PROVE TypeOK'
<1>1. [phase |-> "starting", l |-> begun + 1, aborted |-> FALSE] \in Live
      /\ Post(c, begun + 1, "started") \in Reports /\ begun + 1 \in Nat
  BY DEF TypeOK, CountTypes, Live, Reports, Post, States
<1> QED BY <1>1 DEF Begin, TypeOK, HubTypes, hubVars, ChatTypes, CountTypes, GhostTypes, ghosts

\* What a step of a client's own generation makes of it.
LEMMA LocalTypes ==
    ASSUME ChatTypes, NEW c \in Clients, local[c].phase # "idle"
    PROVE  /\ [local[c] EXCEPT !.phase = "running"] \in Live
           /\ [local[c] EXCEPT !.aborted = TRUE] \in Live
           /\ \A state \in States : Post(c, local[c].l, state) \in Reports
BY LiveFacts DEF Live, Post, Reports

LEMMA RunningTypes ==
    ASSUME ChatTypes, NEW c \in Clients, local[c].phase = "starting", Running(c)
    PROVE  local' \in [Clients -> Live \union {NoGeneration}]
BY LocalTypes DEF Running, ChatTypes

LEMMA StartAnsweredTypes ==
    ASSUME TypeOK, NEW c \in Clients, StartAnswered(c) PROVE TypeOK'
BY RunningTypes DEF StartAnswered, TypeOK, HubTypes, hubVars, ChatTypes, CountTypes, counters, GhostTypes, ghosts

LEMMA StartUnansweredTypes ==
    ASSUME TypeOK, NEW c \in Clients, StartUnanswered(c) PROVE TypeOK'
BY RunningTypes DEF StartUnanswered, TypeOK, HubTypes, hubVars, ChatTypes, CountTypes, GhostTypes, ghosts

LEMMA StopTypes ==
    ASSUME TypeOK, NEW c \in Clients, Stop(c) PROVE TypeOK'
<1>1. [local[c] EXCEPT !.aborted = TRUE] \in Live
  BY LocalTypes DEF Stop, TypeOK
<1> QED BY <1>1 DEF Stop, TypeOK, HubTypes, hubVars, ChatTypes, CountTypes, counters, GhostTypes, ghosts

LEMMA EndTypes ==
    ASSUME TypeOK, NEW c \in Clients, End(c) PROVE TypeOK'
<1>1. \A state \in States : Post(c, local[c].l, state) \in Reports
  BY LocalTypes DEF End, TypeOK
<1>2. PICK state \in States : posts' = posts \union {Post(c, local[c].l, state)}
  BY DEF End, States
<1> QED BY <1>1, <1>2 DEF End, TypeOK, HubTypes, hubVars, ChatTypes, CountTypes, counters, GhostTypes, ghosts

LEMMA ReportTypes ==
    ASSUME TypeOK, NEW p \in posts, Report(p) PROVE TypeOK'
<1>1. p \in Reports
  BY DEF TypeOK, ChatTypes
<1>2. HubTypes' /\ active' \in [l : Nat \ {0}, from : Clients] \union {None}
  BY <1>1, UpdateTypes DEF Report
<1> QED BY <1>2 DEF Report, TypeOK, ChatTypes, CountTypes, counters, GhostTypes, ghosts

LEMMA LoseReportTypes ==
    ASSUME TypeOK, NEW p \in posts, LoseReport(p) PROVE TypeOK'
BY DEF LoseReport, TypeOK, HubTypes, hubVars, ChatTypes, CountTypes, GhostTypes, ghosts

LEMMA ExpireTypes ==
    ASSUME TypeOK, Expire PROVE TypeOK'
BY DEF Expire, TypeOK, HubTypes, hubVars, ChatTypes, CountTypes, GhostTypes, ghosts

LEMMA CancelTypes ==
    ASSUME TypeOK, NEW c \in Clients, Cancel(c) PROVE TypeOK'
BY DEF Cancel, Requests, TypeOK, HubTypes, hubVars, ChatTypes, CountTypes, GhostTypes, ghosts

LEMMA ServeCancelTypes ==
    ASSUME TypeOK, NEW c \in Clients, ServeCancel(c) PROVE TypeOK'
<1>1. /\ HubTypes' /\ active' \in [l : Nat \ {0}, from : Clients] \union {None}
      /\ aimed' \subseteq Nat
  <2>1. CASE active = None
    BY <2>1 DEF ServeCancel, TypeOK, HubTypes, hubVars, ChatTypes, GhostTypes
  <2>2. CASE active # None
    <3>1. active.l \in Nat \ {0}
      BY <2>2, Snapshot DEF TypeOK
    <3>2. Post(c, active.l, "aborted") \in Reports
      BY <3>1 DEF Post, Reports, States
    <3> QED BY <2>2, <3>1, <3>2, UpdateTypes DEF ServeCancel, TypeOK, GhostTypes
  <2> QED BY <2>1, <2>2
<1> QED BY <1>1 DEF ServeCancel, Requests, TypeOK, ChatTypes, CountTypes, counters, GhostTypes

LEMMA CancelAnsweredTypes ==
    ASSUME TypeOK, NEW c \in Clients, CancelAnswered(c) PROVE TypeOK'
BY DEF CancelAnswered, Requests, TypeOK, HubTypes, hubVars, ChatTypes, CountTypes, counters, GhostTypes

\* What the client makes of a frame, for each lifecycle.
Applied(c, f) ==
    /\ local' = [local EXCEPT ![c] = local'[c]]
    /\ local'[c] \in {local[c], [local[c] EXCEPT !.aborted = TRUE]}
    /\ local'[c] # local[c] =>
         /\ local[c].phase # "idle" /\ f.data.from # c
         /\ f.data.state = "aborted" /\ f.data.l = local[c].l
    /\ remote' = [remote EXCEPT ![c] = remote'[c]]
    /\ remote'[c] \subseteq remote[c] \union (Nat \ {0})
    /\ \A l \in Nat \ {0} : l \in remote'[c] <=>
         Starts(f, c, l) \/ (l \in remote[c] /\ ~Ends(f, c, l))

LEMMA DispatchEffect ==
    ASSUME TypeOK, NEW c \in Clients, DispatchFrame(c)
    PROVE  Applied(c, Head(channel[c]))
<1> DEFINE f == Head(channel[c])
<1>1. f \in Frames /\ f.data \in Event
  BY TakeFacts DEF DispatchFrame, TypeOK, Frames
<1>2. /\ IF f.kind = "resync" \/ f.data.l = 0 THEN UNCHANGED <<local, remote>>
         ELSE ApplyGenerationState(c, f.data)
  BY DEF DispatchFrame
<1>3. /\ local \in [Clients -> Live \union {NoGeneration}] /\ remote \in [Clients -> SUBSET Nat]
      /\ f.data.l \in Nat
  BY <1>1, EventFacts DEF TypeOK, ChatTypes
<1> HIDE DEF f
\* A frame that is not about another's generation changes nothing.
<1> DEFINE Mute == \A l \in Nat \ {0} : ~Starts(f, c, l) /\ ~Ends(f, c, l)
<1>7. ASSUME UNCHANGED <<local, remote>>, Mute PROVE Applied(c, f)
  <2>1. /\ local' = local /\ local'[c] = local[c] /\ remote' = remote /\ remote'[c] = remote[c]
        /\ remote'[c] \subseteq remote[c] \union (Nat \ {0})
    BY <1>3, <1>7
  <2>2. local = [local EXCEPT ![c] = local[c]] /\ remote = [remote EXCEPT ![c] = remote[c]]
    BY <1>3
  <2>3. \A l \in Nat \ {0} : l \in remote'[c] <=>
          Starts(f, c, l) \/ (l \in remote[c] /\ ~Ends(f, c, l))
    BY <1>7, <2>1
  <2> QED BY <2>1, <2>2, <2>3 DEF Applied
<1>4. ASSUME f.kind = "resync" \/ f.data.l = 0 PROVE Applied(c, f)
  <2>1. Mute
    BY <1>4 DEF Starts, Ends
  <2> QED BY <1>2, <1>4, <1>7, <2>1
<1>5. ASSUME f.kind # "resync", f.data.l # 0, f.data.from = c PROVE Applied(c, f)
  <2>1. Mute
    BY <1>5 DEF Starts, Ends
  <2> QED BY <1>2, <1>5, <1>7, <2>1 DEF ApplyGenerationState
<1>6. ASSUME f.kind # "resync", f.data.l # 0, f.data.from # c PROVE Applied(c, f)
  <2>1. /\ local' = IF Cancelled(c, f.data) THEN [local EXCEPT ![c].aborted = TRUE] ELSE local
        /\ remote' = [remote EXCEPT ![c] = IF f.data.state = "started"
                        THEN remote[c] \union {f.data.l} ELSE remote[c] \ {f.data.l}]
    BY <1>2, <1>6 DEF ApplyGenerationState
  <2>2. /\ local' = [local EXCEPT ![c] = local'[c]]
        /\ local'[c] \in {local[c], [local[c] EXCEPT !.aborted = TRUE]}
        /\ local'[c] # local[c] => Cancelled(c, f.data)
    BY <1>3, <2>1
  <2>3. /\ remote' = [remote EXCEPT ![c] = remote'[c]]
        /\ remote'[c] = IF f.data.state = "started" THEN remote[c] \union {f.data.l}
                        ELSE remote[c] \ {f.data.l}
    BY <1>3, <2>1
  <2>4. remote'[c] \subseteq remote[c] \union (Nat \ {0})
    BY <1>3, <1>6, <2>3
  <2>5. \A l \in Nat \ {0} : l \in remote'[c] <=>
          Starts(f, c, l) \/ (l \in remote[c] /\ ~Ends(f, c, l))
    BY <1>6, <2>3 DEF Starts, Ends
  <2>6. local'[c] # local[c] =>
          /\ local[c].phase # "idle" /\ f.data.from # c
          /\ f.data.state = "aborted" /\ f.data.l = local[c].l
    BY <1>6, <2>2 DEF Cancelled
  <2> QED BY <2>2, <2>3, <2>4, <2>5, <2>6 DEF Applied
<1> QED BY <1>4, <1>5, <1>6 DEF f

LEMMA DispatchTypes ==
    ASSUME TypeOK, NEW c \in Clients, DispatchFrame(c) PROVE TypeOK'
<1>1. Applied(c, Head(channel[c])) /\ HubTypes'
  BY DispatchEffect, TakeFacts DEF DispatchFrame, TypeOK
<1>2. local'[c] \in Live \union {NoGeneration}
  BY <1>1, LocalTypes DEF Applied, TypeOK, ChatTypes
<1>3. local' \in [Clients -> Live \union {NoGeneration}] /\ remote' \in [Clients -> SUBSET Nat]
  BY <1>1, <1>2 DEF Applied, TypeOK, ChatTypes
<1> QED BY <1>1, <1>3 DEF DispatchFrame, TypeOK, ChatTypes, CountTypes, counters, GhostTypes

LEMMA OpenTypes ==
    ASSUME TypeOK, NEW c \in Clients, Open(c) PROVE TypeOK'
BY Snapshot, ConnectFacts DEF Open, TypeOK, ChatTypes, CountTypes, counters, GhostTypes, ghosts

LEMMA CloseTypes ==
    ASSUME TypeOK, NEW c \in Clients, Close(c), drops' \in Nat PROVE TypeOK'
BY DisconnectFacts DEF Close, TypeOK, ChatTypes, CountTypes, GhostTypes

LEMMA RestartTypes ==
    ASSUME TypeOK, Restart PROVE TypeOK'
BY RestartFacts DEF Restart, Requests, TypeOK, ChatTypes, CountTypes, GhostTypes, ghosts

LEMMA DropOrEnd ==
    ASSUME TypeOK, NEW c \in Clients, Drop(c) \/ NoticeEnd(c)
    PROVE  Close(c) /\ drops' \in Nat
BY DEF Drop, NoticeEnd, TypeOK, CountTypes

LEMMA InitTypes == Init => TypeOK
<1> SUFFICES ASSUME Init PROVE TypeOK
  OBVIOUS
<1>1. <<>> \in Seq(Frames)
  OBVIOUS
<1> QED BY <1>1 DEF Init, HubInit, TypeOK, HubTypes, ChatTypes, CountTypes, GhostTypes, Links, Requests

LEMMA StutterTypes == TypeOK /\ UNCHANGED vars => TypeOK'
BY DEF vars, hubVars, counters, ghosts, TypeOK, HubTypes, ChatTypes, CountTypes, GhostTypes

LEMMA NextTypes == TypeOK /\ [Next]_vars => TypeOK'
<1> SUFFICES ASSUME TypeOK, [Next]_vars PROVE TypeOK'
  OBVIOUS
<1>1. ASSUME NEW c \in Clients,
             \/ Begin(c) \/ StartAnswered(c) \/ StartUnanswered(c) \/ Stop(c) \/ End(c)
             \/ Cancel(c) \/ ServeCancel(c) \/ CancelAnswered(c) \/ DispatchFrame(c) \/ Open(c)
      PROVE  TypeOK'
  BY <1>1, BeginTypes, StartAnsweredTypes, StartUnansweredTypes, StopTypes, EndTypes, CancelTypes,
     ServeCancelTypes, CancelAnsweredTypes, DispatchTypes, OpenTypes
<1>2. ASSUME NEW c \in Clients, Drop(c) \/ NoticeEnd(c) PROVE TypeOK'
  BY <1>2, DropOrEnd, CloseTypes
<1>3. ASSUME NEW p \in posts, Report(p) \/ LoseReport(p) PROVE TypeOK'
  BY <1>3, ReportTypes, LoseReportTypes
<1> QED BY <1>1, <1>2, <1>3, ExpireTypes, RestartTypes, StutterTypes DEF Next

\* Every variable of the hub and its clients keeps its type.
THEOREM Typing == Spec => []TypeOK
BY InitTypes, NextTypes, PTL DEF Spec

-----------------------------------------------------------------------------
(* Owners.  What is said after a step was said before, or is what the hub    *)
(* has just made of a report, or the snapshot of a greeting.                 *)

LEMMA SaidFacts ==
    ASSUME HubTypes
    PROVE  /\ Said \subseteq Event
           /\ \A x \in Elements(history) : x \in Frames /\ x.data \in Said
           /\ \A c \in Clients : \A x \in Elements(channel[c]) : x \in Frames /\ x.data \in Said
<1>1. Elements(history) \subseteq Frames /\ \A c \in Clients : Elements(channel[c]) \subseteq Frames
  BY ElementFacts DEF HubTypes
<1>2. Elements(history) \subseteq Sent /\ \A c \in Clients : Elements(channel[c]) \subseteq Sent
  BY DEF Sent
<1>3. Sent \subseteq Frames
  BY <1>1 DEF Sent
<1>4. \A x \in Frames : x.data \in Event
  BY DEF Frames
<1> QED BY <1>1, <1>2, <1>3, <1>4 DEF Said

\* What holds of every frame that exists holds of what is said.
LEMMA SaidIn ==
    ASSUME NEW S,
           \A x \in Elements(history)' : x.data \in S,
           \A c \in Clients : \A x \in Elements(channel'[c]) : x.data \in S
    PROVE  Said' \subseteq S
<1>1. \A x \in Sent' : x \in Elements(history)' \/ \E c \in Clients : x \in Elements(channel'[c])
  BY DEF Sent
<1> QED BY <1>1 DEF Said

LEMMA AppendElements ==
    ASSUME NEW S, NEW s \in Seq(S), NEW f \in S
    PROVE  Elements(Append(s, f)) = Elements(s) \union {f}
<1>1. /\ Append(s, f) \in Seq(S) /\ Len(Append(s, f)) = Len(s) + 1 /\ Len(s) \in Nat
      /\ \A i \in 1 .. Len(s) : Append(s, f)[i] = s[i]
      /\ Append(s, f)[Len(s) + 1] = f
  BY AppendFacts
<1>2. 1 .. Len(s) + 1 = (1 .. Len(s)) \union {Len(s) + 1}
  BY <1>1
<1>3. DOMAIN Append(s, f) = 1 .. Len(s) + 1 /\ DOMAIN s = 1 .. Len(s)
  BY <1>1
<1> HIDE DEF Elements
<1>4. ASSUME NEW x \in Elements(Append(s, f)) PROVE x \in Elements(s) \union {f}
  BY <1>1, <1>2, <1>3, <1>4 DEF Elements
<1>5. ASSUME NEW x \in Elements(s) PROVE x \in Elements(Append(s, f))
  BY <1>1, <1>2, <1>3, <1>5 DEF Elements
<1>6. f \in Elements(Append(s, f))
  BY <1>1, <1>2, <1>3 DEF Elements
<1> QED BY <1>4, <1>5, <1>6

LEMMA TailElements ==
    ASSUME NEW S, NEW s \in Seq(S), s # <<>>
    PROVE  Elements(Tail(s)) \subseteq Elements(s) /\ Head(s) \in Elements(s)
<1>1. /\ Tail(s) \in Seq(S) /\ Len(Tail(s)) = Len(s) - 1 /\ Len(s) \in Nat \ {0}
      /\ \A i \in 1 .. Len(Tail(s)) : Tail(s)[i] = s[i + 1]
      /\ Head(s) = s[1]
  BY TailFacts
<1>2. \A i \in 1 .. Len(Tail(s)) : i + 1 \in 1 .. Len(s)
  BY <1>1
<1>3. 1 \in 1 .. Len(s)
  BY <1>1
<1>4. ASSUME NEW x \in Elements(Tail(s)) PROVE x \in Elements(s)
  <2>1. PICK i \in 1 .. Len(Tail(s)) : x = Tail(s)[i]
    BY <1>1, <1>4 DEF Elements
  <2> QED BY <1>1, <1>2, <2>1, ElementFacts
<1> QED BY <1>1, <1>3, <1>4, ElementFacts

LEMMA PublishedSaid ==
    ASSUME HubTypes, NEW e \in Event, NEW f, Published(e, f)
    PROVE  Said' \subseteq Said \union {e}
<1>1. Elements(history') \subseteq Elements(history) \union {f}
  BY PublishedHistory
<1>2. ASSUME NEW c \in Clients PROVE Elements(channel'[c]) \subseteq Elements(channel[c]) \union {f}
  <2>1. channel[c] \in Seq(Frames) /\ f \in Frames
    BY DEF HubTypes, Published
  <2> QED BY <2>1, AppendElements DEF Published
<1>3. f.data = e
  BY DEF Published
<1>4. \A x \in Elements(history') : x.data \in Said \union {e}
  BY <1>1, <1>3, SaidFacts
<1>5. \A c \in Clients : \A x \in Elements(channel'[c]) : x.data \in Said \union {e}
  BY <1>2, <1>3, SaidFacts
<1> QED BY <1>4, <1>5, SaidIn

LEMMA ConnectSaid ==
    ASSUME HubTypes, NEW c \in Clients, NEW e \in Event, Connect(c, e)
    PROVE  Said' \subseteq Said \union {e}
<1>1. \A x \in Elements(history') : x.data \in Said \union {e}
  BY ConnectFacts, SaidFacts
<1>2. \A x \in Elements(channel'[c]) : x.data \in Said \union {e}
  BY ConnectFacts, SaidFacts DEF Greets
<1>3. \A d \in Clients \ {c} : \A x \in Elements(channel'[d]) : x.data \in Said
  BY ConnectFacts, SaidFacts
<1> QED BY <1>1, <1>2, <1>3, SaidIn

LEMMA FewerSaid ==
    ASSUME HubTypes,
           \/ \E c \in Clients : Take(c) \/ Disconnect(c)
           \/ HubRestart
           \/ UNCHANGED hubVars
    PROVE  Said' \subseteq Said
<1>1. ASSUME NEW c \in Clients, Take(c) PROVE Said' \subseteq Said
  <2>1. Elements(channel'[c]) \subseteq Elements(channel[c])
    BY <1>1, TakeFacts, TailElements
  <2>2. \A d \in Clients : \A x \in Elements(channel'[d]) : x.data \in Said
    BY <1>1, <2>1, TakeFacts, SaidFacts
  <2>3. \A x \in Elements(history') : x.data \in Said
    BY <1>1, TakeFacts, SaidFacts
  <2> QED BY <2>2, <2>3, SaidIn
<1>2. Elements(<<>>) = {}
  BY DEF Elements
<1>3. ASSUME NEW c \in Clients, Disconnect(c) PROVE Said' \subseteq Said
  <2>1. \A d \in Clients : \A x \in Elements(channel'[d]) : x.data \in Said
    BY <1>2, <1>3, DisconnectFacts, SaidFacts
  <2>2. \A x \in Elements(history') : x.data \in Said
    BY <1>3, DisconnectFacts, SaidFacts
  <2> QED BY <2>1, <2>2, SaidIn
<1>4. ASSUME HubRestart PROVE Said' \subseteq Said
  <2>1. \A d \in Clients : \A x \in Elements(channel'[d]) : x.data \in Said
    BY <1>4, RestartFacts, SaidFacts
  <2>2. \A x \in Elements(history') : x.data \in Said
    BY <1>2, <1>4, RestartFacts
  <2> QED BY <2>1, <2>2, SaidIn
<1>5. ASSUME UNCHANGED hubVars PROVE Said' \subseteq Said
  BY <1>5 DEF hubVars, Said, Sent
<1> QED BY <1>1, <1>3, <1>4, <1>5

\* A step that makes no new claim leaves the owners.
LEMMA OwnKeeps ==
    ASSUME OwnInv, TypeOK, begun' = begun, aimed \subseteq aimed',
           \A d \in Clients : \A l \in Nat \ {0} : Claims(d, l)' => Claims(d, l),
           \A c \in Clients : \A l \in remote'[c] :
             \/ l \in remote[c]
             \/ l \in Nat \ {0} /\ \E d \in Clients \ {c} : Claims(d, l),
           \A e \in Said' \ Said : e.l <= begun,
           \A e \in Said' \ Said : e.state = "aborted" =>
             e.l \in aimed' \/ \A d \in Clients : Claims(d, e.l) => d = e.from,
           Said' \subseteq Event
    PROVE  OwnInv'
<1>1. KnownRemote'
  <2>1. ASSUME NEW c \in Clients, NEW l \in remote'[c] PROVE l \in 1 .. begun
    <3>1. CASE l \in remote[c]
      BY <3>1 DEF OwnInv, KnownRemote
    <3>2. CASE l \notin remote[c]
      <4>1. PICK d \in Clients : l \in Nat \ {0} /\ Claims(d, l)
        BY <3>2
      <4> QED BY <4>1 DEF OwnInv, OwnerInv, TypeOK, CountTypes
    <3> QED BY <3>1, <3>2
  <2> QED BY <2>1 DEF KnownRemote
<1>2. OwnerInv'
  <2> SUFFICES ASSUME NEW l \in Nat \ {0}, NEW d \in Clients, Claims(d, l)'
               PROVE  l <= begun /\ l \notin remote'[d]
                      /\ \A c \in Clients : Claims(c, l)' => c = d
    BY DEF OwnerInv
  <2>1. Claims(d, l)
    OBVIOUS
  <2>2. l <= begun /\ l \notin remote[d] /\ \A c \in Clients : Claims(c, l) => c = d
    BY <2>1 DEF OwnInv, OwnerInv
  <2> QED BY <2>2
<1>3. AbortInv'
  <2> SUFFICES ASSUME NEW e \in Said', e.state = "aborted"
               PROVE  e.l \in aimed' \/ \A d \in Clients : Claims(d, e.l)' => d = e.from
    BY DEF AbortInv
  <2>1. e.l \in aimed' \/ \A d \in Clients : Claims(d, e.l) => d = e.from
    BY DEF OwnInv, AbortInv
  <2>2. e.l \in Nat \ {0}
    BY DEF Event, Reports, Post
  <2> QED BY <2>1, <2>2
<1>4. SaidInv'
  BY DEF OwnInv, SaidInv
<1> QED BY <1>1, <1>2, <1>3, <1>4 DEF OwnInv

\* A claim made by what is said now was made by it before.
LEMMA ClaimsShrink ==
    ASSUME NEW d, NEW l \in Nat \ {0}, Claims(d, l)',
           local'[d] = local[d] \/ local'[d].phase = "idle"
             \/ (local[d].phase # "idle" /\ local'[d].l = local[d].l),
           \A p \in posts' : p.l = l /\ p.from = d => p \in posts \/ Claims(d, l),
           \A e \in Said' : e.l = l /\ e.from = d /\ e.state = "started" => e \in Said \/ Claims(d, l),
           active'.l = l /\ active'.from = d => active' = active \/ Claims(d, l)
    PROVE  Claims(d, l)
BY DEF Claims

LEMMA SaidEvents == TypeOK => Said \subseteq Event
BY SaidFacts DEF TypeOK

LEMMA SaidTypes == TypeOK /\ [Next]_vars => Said' \subseteq Event
<1>1. TypeOK' => (Said \subseteq Event)'
  BY SaidEvents, PTL
<1> QED BY <1>1, NextTypes

\* Steps that change neither what is said nor who speaks.
LEMMA QuietOwn ==
    ASSUME TypeOK, OwnInv, [Next]_vars, begun' = begun, aimed' = aimed, Said' \subseteq Said,
           \A d \in Clients : local'[d] = local[d] \/ local'[d].phase = "idle"
             \/ (local[d].phase # "idle" /\ local'[d].l = local[d].l),
           posts' \subseteq posts, active' \in {active, None},
           \A d \in Clients : remote'[d] \subseteq remote[d]
    PROVE  OwnInv'
<1>1. ASSUME NEW d \in Clients, NEW l \in Nat \ {0}, Claims(d, l)' PROVE Claims(d, l)
  BY <1>1, ClaimsShrink DEF None
<1> QED BY <1>1, SaidTypes, OwnKeeps

LEMMA BeginOwn ==
    ASSUME TypeOK, OwnInv, NEW c \in Clients, Begin(c) PROVE OwnInv'
<1> DEFINE new == [phase |-> "starting", l |-> begun + 1, aborted |-> FALSE]
           post == Post(c, begun + 1, "started")
<1>1. /\ local' = [local EXCEPT ![c] = new] /\ posts' = posts \union {post}
      /\ begun' = begun + 1 /\ begun \in Nat /\ remote' = remote /\ aimed' = aimed
      /\ active' = active /\ Said' = Said /\ local[c].phase = "idle"
      /\ local \in [Clients -> Live \union {NoGeneration}]
  BY DEF Begin, TypeOK, CountTypes, ChatTypes, ghosts, hubVars, Said, Sent, NoGeneration
<1>2. new.l = begun + 1 /\ new.phase = "starting" /\ post.l = begun + 1 /\ post.from = c
  BY DEF Post
<1>3. local'[c] = new /\ \A d \in Clients \ {c} : local'[d] = local[d]
  BY <1>1
<1> HIDE DEF new, post
<1>4. \A l \in Nat \ {0} : \A d \in Clients : Claims(d, l) => l <= begun
  BY DEF OwnInv, OwnerInv
<1>5. ASSUME NEW l \in Nat \ {0}, NEW d \in Clients, Claims(d, l)'
      PROVE  Claims(d, l) \/ (d = c /\ l = begun + 1)
  BY <1>1, <1>2, <1>3, <1>5 DEF Claims
<1>6. OwnerInv'
  <2> SUFFICES ASSUME NEW l \in Nat \ {0}, NEW d \in Clients, Claims(d, l)'
               PROVE  l <= begun' /\ l \notin remote'[d]
                      /\ \A e \in Clients : Claims(e, l)' => e = d
    BY DEF OwnerInv
  <2>1. CASE l = begun + 1
    <3>1. d = c /\ \A e \in Clients : Claims(e, l)' => e = c
      BY <1>1, <1>4, <1>5, <2>1
    <3>2. l \notin remote[d]
      BY <1>1, <2>1 DEF OwnInv, KnownRemote
    <3> QED BY <1>1, <2>1, <3>1, <3>2
  <2>2. CASE l # begun + 1
    <3>1. Claims(d, l) /\ \A e \in Clients : Claims(e, l)' => Claims(e, l)
      BY <1>5, <2>2
    <3>2. l <= begun /\ l \notin remote[d] /\ \A e \in Clients : Claims(e, l) => e = d
      BY <3>1 DEF OwnInv, OwnerInv
    <3> QED BY <1>1, <3>1, <3>2
  <2> QED BY <2>1, <2>2
<1>7. KnownRemote'
  BY <1>1 DEF OwnInv, KnownRemote
<1>8. AbortInv'
  <2> SUFFICES ASSUME NEW e \in Said, e.state = "aborted"
               PROVE  e.l \in aimed \/ \A d \in Clients : Claims(d, e.l)' => d = e.from
    BY <1>1 DEF AbortInv
  <2>1. e \in Reports
    BY SaidFacts DEF TypeOK, Event, Post
  <2>2. e.l \in aimed \/ \A d \in Clients : Claims(d, e.l) => d = e.from
    BY DEF OwnInv, AbortInv
  <2>3. e.l <= begun
    BY DEF OwnInv, SaidInv
  <2> QED BY <1>1, <1>5, <2>1, <2>2, <2>3 DEF Reports
<1>9. SaidInv'
  <2>1. \A e \in Said : e.l \in Nat
    BY SaidFacts, EventFacts DEF TypeOK
  <2> QED BY <1>1, <2>1 DEF OwnInv, SaidInv
<1> QED BY <1>6, <1>7, <1>8, <1>9 DEF OwnInv

\* A report, or the hub's answer to a cancel request, is broadcast.
LEMMA UpdateOwn ==
    ASSUME TypeOK, OwnInv, [Next]_vars, NEW p \in Reports, UpdateGenerationState(p),
           begun' = begun, aimed \subseteq aimed', local' = local, remote' = remote,
           posts' \subseteq posts,
           p.l <= begun,
           p.state = "started" => Claims(p.from, p.l),
           p.state = "aborted" => p.l \in aimed' \/ Claims(p.from, p.l)
    PROVE  OwnInv'
<1>1. p \in Event /\ p.l \in Nat \ {0} /\ p.from \in Clients
  BY DEF Event, Reports
<1>2. Said' \subseteq Said \union {p}
  BY <1>1, UpdateTypes, PublishedSaid DEF TypeOK
<1>3. ASSUME NEW d \in Clients, NEW l \in Nat \ {0}, Claims(d, l)' PROVE Claims(d, l)
  <2>1. \A e \in Said' : e.l = l /\ e.from = d /\ e.state = "started" => e \in Said \/ Claims(d, l)
    BY <1>2
  <2>2. active'.l = l /\ active'.from = d => active' = active \/ Claims(d, l)
    BY DEF UpdateGenerationState, None
  <2> QED BY <1>3, <2>1, <2>2, ClaimsShrink
<1>4. \A e \in Said' \ Said : e = p
  BY <1>2
<1>5. ASSUME p.state = "aborted"
      PROVE  p.l \in aimed' \/ \A d \in Clients : Claims(d, p.l) => d = p.from
  <2>1. CASE p.l \in aimed'
    BY <2>1
  <2>2. CASE Claims(p.from, p.l)
    BY <1>1, <2>2 DEF OwnInv, OwnerInv
  <2> QED BY <1>5, <2>1, <2>2
<1>6. \A e \in Said' \ Said : e.l <= begun
  BY <1>4
<1>7. \A e \in Said' \ Said : e.state = "aborted" =>
        e.l \in aimed' \/ \A d \in Clients : Claims(d, e.l) => d = e.from
  BY <1>4, <1>5
<1> QED BY <1>3, <1>6, <1>7, SaidTypes, OwnKeeps

LEMMA ReportOwn ==
    ASSUME TypeOK, OwnInv, [Next]_vars, NEW p \in posts, Report(p) PROVE OwnInv'
<1>1. p \in Reports /\ p.l \in Nat \ {0} /\ p.from \in Clients
  BY DEF TypeOK, ChatTypes, Reports
<1>2. Claims(p.from, p.l)
  BY DEF Claims
<1>3. p.l <= begun
  BY <1>1, <1>2 DEF OwnInv, OwnerInv
<1> QED BY <1>1, <1>2, <1>3, UpdateOwn DEF Report, counters, ghosts

\* The hub's record is claimed by whom it names.
LEMMA ActiveClaim ==
    ASSUME TypeOK, OwnInv, active # None
    PROVE  Claims(active.from, active.l) /\ active.l <= begun
<1>1. active.l \in Nat \ {0} /\ active.from \in Clients
  BY Snapshot DEF TypeOK
<1>2. Claims(active.from, active.l)
  BY DEF Claims
<1> QED BY <1>1, <1>2 DEF OwnInv, OwnerInv

LEMMA ServeCancelOwn ==
    ASSUME TypeOK, OwnInv, [Next]_vars, NEW c \in Clients, ServeCancel(c) PROVE OwnInv'
<1>1. CASE active = None
  <2>1. Said' \subseteq Said
    BY <1>1, FewerSaid DEF ServeCancel, TypeOK
  <2> QED BY <1>1, <2>1, QuietOwn DEF ServeCancel, counters
<1>2. CASE active # None
  <2> DEFINE p == Post(c, active.l, "aborted")
  <2>1. active.l \in Nat \ {0} /\ active.l <= begun
    BY <1>2, Snapshot, ActiveClaim DEF TypeOK
  <2>2. p \in Reports /\ p.l = active.l /\ p.state = "aborted"
    BY <2>1 DEF Post, Reports, States
  <2>3. UpdateGenerationState(p) /\ aimed' = aimed \union {p.l}
        /\ begun' = begun /\ local' = local /\ remote' = remote /\ posts' = posts
    BY <1>2, <2>2 DEF ServeCancel, counters
  <2> HIDE DEF p
  <2> QED BY <2>1, <2>2, <2>3, UpdateOwn
<1> QED BY <1>1, <1>2

LEMMA OpenOwn ==
    ASSUME TypeOK, OwnInv, [Next]_vars, NEW c \in Clients, Open(c) PROVE OwnInv'
<1> DEFINE p == Post(active.from, active.l, "started")
<1>1. p \in Event /\ p.l = active.l /\ p.from = active.from /\ p.state = "started"
  BY Snapshot DEF TypeOK, Post
<1>2. Said' \subseteq Said \union {p}
  BY <1>1, ConnectSaid DEF Open, TypeOK
<1>3. /\ active' = active /\ posts' = posts /\ local' = local /\ remote' = remote
      /\ begun' = begun /\ aimed' = aimed
  BY DEF Open, counters, ghosts
<1>4. p.l <= begun
  BY <1>1, ActiveClaim DEF TypeOK, CountTypes, None
<1> HIDE DEF p
<1>5. ASSUME NEW d \in Clients, NEW l \in Nat \ {0}, Claims(d, l)' PROVE Claims(d, l)
  <2>1. p.l = l /\ p.from = d => Claims(d, l)
    BY <1>1 DEF Claims
  <2>2. \A e \in Said' : e.l = l /\ e.from = d /\ e.state = "started" => e \in Said \/ Claims(d, l)
    BY <1>2, <2>1
  <2> QED BY <1>3, <1>5, <2>2, ClaimsShrink
<1>6. \A e \in Said' \ Said : e.l <= begun /\ e.state # "aborted"
  BY <1>1, <1>2, <1>4
<1> QED BY <1>3, <1>5, <1>6, SaidTypes, OwnKeeps

LEMMA DispatchOwn ==
    ASSUME TypeOK, OwnInv, [Next]_vars, NEW c \in Clients, DispatchFrame(c) PROVE OwnInv'
<1> DEFINE f == Head(channel[c])
<1>1. /\ Applied(c, f) /\ Said' \subseteq Said
      /\ active' = active /\ posts' = posts /\ begun' = begun /\ aimed' = aimed
  BY DispatchEffect, FewerSaid DEF DispatchFrame, TypeOK, counters
<1>2. f \in Frames /\ f.data \in Said /\ f.data \in Event
  <2>1. channel[c] \in Seq(Frames) /\ channel[c] # <<>>
    BY TakeFacts DEF DispatchFrame, TypeOK
  <2>2. f \in Elements(channel[c])
    BY <2>1, TailElements
  <2> QED BY <2>2, SaidFacts DEF TypeOK
<1> HIDE DEF f
<1>3. \A d \in Clients : local'[d] = local[d] \/
        (local[d].phase # "idle" /\ local'[d].l = local[d].l)
  <2>1. \A d \in Clients : local'[d] = IF d = c THEN local'[c] ELSE local[d]
    BY <1>1 DEF Applied, TypeOK, ChatTypes
  <2>2. local'[c] = local[c] \/ (local[c].phase # "idle" /\ local'[c].l = local[c].l)
    BY <1>1, LiveFacts DEF Applied, Live, TypeOK
  <2> QED BY <2>1, <2>2
<1>4. ASSUME NEW d \in Clients, NEW l \in Nat \ {0}, Claims(d, l)' PROVE Claims(d, l)
  BY <1>1, <1>3, <1>4, ClaimsShrink
<1>5. ASSUME NEW d \in Clients, NEW l \in remote'[d]
      PROVE  \/ l \in remote[d]
             \/ l \in Nat \ {0} /\ \E e \in Clients \ {d} : Claims(e, l)
  <2>1. CASE d # c
    BY <1>1, <1>5, <2>1 DEF Applied, TypeOK, ChatTypes
  <2>2. CASE d = c /\ l \in Nat \ {0} /\ Starts(f, c, l)
    <3>1. f.data.l = l /\ f.data.from # c /\ f.data.state = "started" /\ f.data.from \in Clients
      BY <1>2, <2>2, EventFacts DEF Starts
    <3>2. Claims(f.data.from, l)
      BY <1>2, <3>1 DEF Claims
    <3> QED BY <2>2, <3>1, <3>2
  <2>3. CASE d = c /\ l \in Nat \ {0} /\ ~Starts(f, c, l)
    BY <1>1, <1>5, <2>3 DEF Applied
  <2>4. CASE d = c /\ l = 0
    BY <1>1, <1>5, <2>4 DEF Applied
  <2>5. l \in Nat
    BY <1>5, NextTypes DEF TypeOK, ChatTypes
  <2> QED BY <2>1, <2>2, <2>3, <2>4, <2>5
<1> QED BY <1>1, <1>4, <1>5, SaidTypes, OwnKeeps

LEMMA EndOwn ==
    ASSUME TypeOK, OwnInv, [Next]_vars, NEW c \in Clients, End(c) PROVE OwnInv'
<1>1. PICK state \in States : posts' = posts \union {Post(c, local[c].l, state)}
  BY DEF End, States
<1>2. /\ local' = [local EXCEPT ![c] = NoGeneration] /\ local[c].phase # "idle"
      /\ active' = active /\ remote' = remote /\ begun' = begun /\ aimed' = aimed
      /\ local \in [Clients -> Live \union {NoGeneration}]
  BY DEF End, counters, ghosts, TypeOK, ChatTypes
<1>3. Said' \subseteq Said
  BY FewerSaid DEF End, TypeOK
<1>4. \A d \in Clients : local'[d] = local[d] \/ local'[d].phase = "idle"
  BY <1>2 DEF NoGeneration
<1>5. ASSUME NEW d \in Clients, NEW l \in Nat \ {0}, Claims(d, l)' PROVE Claims(d, l)
  <2>1. Post(c, local[c].l, state).l = local[c].l /\ Post(c, local[c].l, state).from = c
    BY DEF Post
  <2>2. \A p \in posts' : p.l = l /\ p.from = d => p \in posts \/ Claims(d, l)
    BY <1>1, <1>2, <2>1 DEF Claims
  <2> QED BY <1>2, <1>3, <1>4, <1>5, <2>2, ClaimsShrink
<1> QED BY <1>2, <1>3, <1>5, SaidTypes, OwnKeeps

LEMMA NextOwn ==
    ASSUME TypeOK, OwnInv, [Next]_vars PROVE OwnInv'
<1>1. ASSUME NEW c \in Clients, Running(c), local[c].phase = "starting"
      PROVE  \A d \in Clients : local'[d] = local[d] \/
               (local[d].phase # "idle" /\ local'[d].l = local[d].l)
  BY <1>1, LiveFacts DEF Running, TypeOK, ChatTypes, Live
<1>2. ASSUME NEW c \in Clients, StartAnswered(c) PROVE OwnInv'
  BY <1>1, <1>2, FewerSaid, QuietOwn DEF StartAnswered, counters, ghosts, TypeOK
<1>3. ASSUME NEW c \in Clients, StartUnanswered(c) PROVE OwnInv'
  BY <1>1, <1>3, FewerSaid, QuietOwn DEF StartUnanswered, ghosts, TypeOK
<1>4. ASSUME NEW c \in Clients, Stop(c) PROVE OwnInv'
  <2>1. \A d \in Clients : local'[d] = local[d] \/
               (local[d].phase # "idle" /\ local'[d].l = local[d].l)
    BY <1>4, LiveFacts DEF Stop, TypeOK, ChatTypes, Live
  <2> QED BY <1>4, <2>1, FewerSaid, QuietOwn DEF Stop, counters, ghosts, TypeOK
<1>5. ASSUME NEW c \in Clients, Cancel(c) PROVE OwnInv'
  BY <1>5, FewerSaid, QuietOwn DEF Cancel, ghosts, TypeOK
<1>6. ASSUME NEW c \in Clients, CancelAnswered(c) PROVE OwnInv'
  <2>1. \A d \in Clients : remote'[d] \subseteq remote[d]
    BY <1>6 DEF CancelAnswered, TypeOK, ChatTypes
  <2> QED BY <1>6, <2>1, FewerSaid, QuietOwn DEF CancelAnswered, counters, TypeOK
<1>7. ASSUME NEW c \in Clients, Close(c) PROVE OwnInv'
  BY <1>7, FewerSaid, QuietOwn DEF Close, TypeOK
<1>8. ASSUME NEW p \in posts, LoseReport(p) PROVE OwnInv'
  BY <1>8, FewerSaid, QuietOwn DEF LoseReport, ghosts, TypeOK
<1>9. ASSUME Expire PROVE OwnInv'
  BY <1>9, FewerSaid, QuietOwn DEF Expire, ghosts, TypeOK
<1>10. ASSUME Restart PROVE OwnInv'
  BY <1>10, FewerSaid, QuietOwn DEF Restart, ghosts, TypeOK
<1>11. ASSUME UNCHANGED vars PROVE OwnInv'
  BY <1>11, FewerSaid, QuietOwn DEF vars, counters, ghosts, TypeOK
<1> QED BY <1>2, <1>3, <1>4, <1>5, <1>6, <1>7, <1>8, <1>9, <1>10, <1>11, BeginOwn, EndOwn,
       ServeCancelOwn, DispatchOwn, OpenOwn, ReportOwn, DropOrEnd DEF Next

LEMMA InitOwn == Init => OwnInv
<1> SUFFICES ASSUME Init PROVE OwnInv
  OBVIOUS
<1>1. Said = {}
  BY DEF Init, HubInit, Said, Sent, Elements
<1>2. \A d \in Clients : \A l \in Nat \ {0} : ~Claims(d, l)
  BY <1>1 DEF Init, Claims, NoGeneration, None
<1> QED BY <1>1, <1>2 DEF Init, OwnInv, OwnerInv, KnownRemote, SaidInv, AbortInv

\* A client's generation is stopped from outside only if the hub was asked to
\* cancel that generation (applyGenerationState, localGenerationController.cancel).
THEOREM CancelsTheAimed == Spec => AbortsOnlyTheAimed
<1>1. ASSUME TypeOK, OwnInv, [Next]_vars, NEW c \in Clients,
             local'[c].aborted, ~local[c].aborted, channel'[c] # channel[c]
      PROVE  local[c].l \in aimed
  <2>1. local'[c] # local[c] /\ local'[c] # NoGeneration
    BY <1>1 DEF NoGeneration
  <2>2. PICK d \in Clients : DispatchFrame(d)
    BY <1>1, <2>1 DEF Next, Begin, StartAnswered, StartUnanswered, Stop, End, Cancel, ServeCancel,
       CancelAnswered, Open, Drop, NoticeEnd, Close, Report, LoseReport, Expire, Restart, vars, hubVars
  <2> DEFINE f == Head(channel[c])
  <2>3. Applied(d, Head(channel[d])) /\ d = c
    BY <1>1, <2>1, <2>2, DispatchEffect DEF Applied, TypeOK, ChatTypes
  <2>4. /\ local[c].phase # "idle" /\ f.data.from # c
        /\ f.data.state = "aborted" /\ f.data.l = local[c].l
    BY <2>1, <2>3 DEF Applied
  <2>5. f.data \in Said
    <3>1. f \in Elements(channel[c])
      BY <1>1, <2>2, <2>3, TakeFacts, TailElements DEF DispatchFrame, TypeOK
    <3> QED BY <1>1, <3>1, SaidFacts DEF TypeOK
  <2>6. Claims(c, f.data.l)
    BY <2>4 DEF Claims
  <2> QED BY <1>1, <2>4, <2>5, <2>6 DEF OwnInv, AbortInv
<1>2. TypeOK /\ OwnInv /\ [Next]_vars =>
        [\A c \in Clients : local'[c].aborted /\ ~local[c].aborted /\ channel'[c] # channel[c]
          => local[c].l \in aimed]_vars
  BY <1>1
<1>3. TypeOK /\ OwnInv /\ [Next]_vars => (TypeOK /\ OwnInv)'
  BY NextTypes, NextOwn
<1> QED BY InitTypes, InitOwn, <1>2, <1>3, PTL DEF Spec, AbortsOnlyTheAimed

-----------------------------------------------------------------------------
(* What a client will know.                                                  *)

LEMMA KnowsMore ==
    ASSUME NEW s, NEW c, NEW l, NEW a, NEW b, a => b, Knows(a, s, c, l)
    PROVE  Knows(b, s, c, l)
BY DEF Knows

LEMMA StartsOrEnds ==
    ASSUME NEW f, NEW c, NEW l PROVE ~(Starts(f, c, l) /\ Ends(f, c, l))
BY DEF Starts, Ends

\* A frame f behind the others.
LEMMA KnowsNext ==
    ASSUME NEW s \in Seq(Frames), NEW t, NEW f, NEW c, NEW l, NEW knows,
           Len(t) = Len(s) + 1, t[Len(s) + 1] = f, \A i \in 1 .. Len(s) : t[i] = s[i]
    PROVE  /\ Starts(f, c, l) => Knows(knows, t, c, l)
           /\ Ends(f, c, l) => ~Knows(knows, t, c, l)
           /\ ~Starts(f, c, l) /\ ~Ends(f, c, l) =>
                (Knows(knows, t, c, l) <=> Knows(knows, s, c, l))
<1> DEFINE n == Len(s)
<1>1. /\ Len(t) = n + 1 /\ t[n + 1] = f /\ n \in Nat
      /\ \A i \in 1 .. n : t[i] = s[i]
  OBVIOUS
<1>2. \A i \in 1 .. n + 1 : i \in 1 .. n \/ i = n + 1
  BY <1>1
<1>3. 1 .. n \subseteq 1 .. n + 1 /\ n + 1 \in 1 .. n + 1
  BY <1>1
<1> HIDE DEF n
<1>4. ASSUME Starts(f, c, l) PROVE Knows(knows, t, c, l)
  <2>1. Starts(t[n + 1], c, l) /\ \A k \in 1 .. Len(t) : ~(n + 1 < k)
    BY <1>1, <1>4
  <2> QED BY <1>1, <1>3, <2>1 DEF Knows
<1>5. ASSUME Ends(f, c, l) PROVE ~Knows(knows, t, c, l)
  <2>1. ~Starts(f, c, l)
    BY <1>5, StartsOrEnds
  <2>2. Ends(t[n + 1], c, l) /\ n + 1 \in 1 .. Len(t)
    BY <1>1, <1>3, <1>5
  <2>3. ASSUME NEW i \in 1 .. Len(t), Starts(t[i], c, l) PROVE i < n + 1
    BY <1>1, <2>1, <2>3
  <2> QED BY <2>2, <2>3 DEF Knows
<1>6. ASSUME ~Starts(f, c, l), ~Ends(f, c, l)
      PROVE  Knows(knows, t, c, l) <=> Knows(knows, s, c, l)
  <2>1. \A k \in 1 .. n + 1 : Ends(t[k], c, l) => k \in 1 .. n /\ Ends(s[k], c, l)
    BY <1>1, <1>2, <1>6
  <2>2. \A k \in 1 .. n : Ends(s[k], c, l) => k \in 1 .. n + 1 /\ Ends(t[k], c, l)
    BY <1>1, <1>3
  <2>3. \A k \in 1 .. n + 1 : Starts(t[k], c, l) => k \in 1 .. n /\ Starts(s[k], c, l)
    BY <1>1, <1>2, <1>6
  <2>4. \A k \in 1 .. n : Starts(s[k], c, l) => k \in 1 .. n + 1 /\ Starts(t[k], c, l)
    BY <1>1, <1>3
  <2> QED BY <1>1, <2>1, <2>2, <2>3, <2>4 DEF Knows, n
<1> QED BY <1>4, <1>5, <1>6

LEMMA KnowsAppend ==
    ASSUME NEW s \in Seq(Frames), NEW f \in Frames, NEW c, NEW l, NEW knows
    PROVE  /\ Starts(f, c, l) => Knows(knows, Append(s, f), c, l)
           /\ Ends(f, c, l) => ~Knows(knows, Append(s, f), c, l)
           /\ ~Starts(f, c, l) /\ ~Ends(f, c, l) =>
                (Knows(knows, Append(s, f), c, l) <=> Knows(knows, s, c, l))
<1>1. PICK t \in Seq(Frames) : t = Append(s, f)
  BY AppendFacts
<1>2. Len(t) = Len(s) + 1 /\ t[Len(s) + 1] = f /\ \A i \in 1 .. Len(s) : t[i] = s[i]
  BY <1>1, AppendFacts
<1> QED BY <1>1, <1>2, KnowsNext

LEMMA KnowsTail ==
    ASSUME NEW s \in Seq(Frames), s # <<>>, NEW c, NEW l, NEW knows
    PROVE  Knows(knows, s, c, l) <=>
             Knows(Starts(Head(s), c, l) \/ (knows /\ ~Ends(Head(s), c, l)), Tail(s), c, l)
<1> DEFINE t == Tail(s)
           n == Len(s)
<1>1. /\ n \in Nat \ {0} /\ Len(t) = n - 1 /\ Head(s) = s[1]
      /\ \A i \in 1 .. n - 1 : t[i] = s[i + 1]
  BY TailFacts
<1>2. \A i \in 1 .. n - 1 : i + 1 \in 1 .. n
  BY <1>1
<1>3. \A i \in 1 .. n : i = 1 \/ (i - 1 \in 1 .. n - 1 /\ t[i - 1] = s[i])
  <2> SUFFICES ASSUME NEW i \in 1 .. n, i # 1
               PROVE  i - 1 \in 1 .. n - 1 /\ t[i - 1] = s[i]
    OBVIOUS
  <2>1. i - 1 \in 1 .. n - 1 /\ i - 1 + 1 = i
    BY <1>1
  <2> QED BY <1>1, <2>1
<1>4. 1 \in 1 .. n
  BY <1>1
<1> HIDE DEF t, n
<1> DEFINE after == Starts(s[1], c, l) \/ (knows /\ ~Ends(s[1], c, l))
<1>5. ASSUME Knows(knows, s, c, l) PROVE Knows(after, t, c, l)
  <2>1. CASE knows /\ \A k \in 1 .. n : ~Ends(s[k], c, l)
    <3>1. after /\ \A k \in 1 .. n - 1 : ~Ends(t[k], c, l)
      BY <1>1, <1>2, <1>4, <2>1
    <3> QED BY <1>1, <3>1 DEF Knows
  <2>2. ASSUME NEW i \in 1 .. n, Starts(s[i], c, l), \A k \in 1 .. n : i < k => ~Ends(s[k], c, l)
        PROVE  Knows(after, t, c, l)
    <3>1. CASE i = 1
      <4>1. \A k \in 1 .. n - 1 : ~Ends(t[k], c, l)
        BY <1>1, <1>2, <2>2, <3>1
      <4> QED BY <1>1, <2>2, <3>1, <4>1 DEF Knows
    <3>2. CASE i # 1
      <4>1. i - 1 \in 1 .. n - 1 /\ Starts(t[i - 1], c, l)
        BY <1>3, <2>2, <3>2
      <4>2. \A k \in 1 .. n - 1 : i - 1 < k => ~Ends(t[k], c, l)
        BY <1>1, <1>2, <2>2
      <4> QED BY <1>1, <4>1, <4>2 DEF Knows
    <3> QED BY <3>1, <3>2
  <2> QED BY <1>5, <2>1, <2>2 DEF Knows, n
<1>6. ASSUME Knows(after, t, c, l) PROVE Knows(knows, s, c, l)
  <2>1. ASSUME NEW i \in 1 .. n - 1, Starts(t[i], c, l),
               \A k \in 1 .. n - 1 : i < k => ~Ends(t[k], c, l)
        PROVE  Knows(knows, s, c, l)
    <3>1. i + 1 \in 1 .. n /\ Starts(s[i + 1], c, l)
      BY <1>1, <1>2, <2>1
    <3>2. ASSUME NEW k \in 1 .. n, i + 1 < k PROVE ~Ends(s[k], c, l)
      <4>1. k # 1 /\ i < k - 1
        BY <3>2
      <4> QED BY <1>3, <2>1, <4>1
    <3> QED BY <3>1, <3>2 DEF Knows, n
  <2>2. ASSUME after, \A k \in 1 .. n - 1 : ~Ends(t[k], c, l)
        PROVE  Knows(knows, s, c, l)
    <3>1. \A k \in 1 .. n : k = 1 \/ ~Ends(s[k], c, l)
      BY <1>3, <2>2
    <3>2. CASE Starts(s[1], c, l)
      <4>1. \A k \in 1 .. n : 1 < k => ~Ends(s[k], c, l)
        BY <3>1
      <4> QED BY <1>4, <3>2, <4>1 DEF Knows, n
    <3>3. CASE knows /\ ~Ends(s[1], c, l)
      BY <3>1, <3>3 DEF Knows, n
    <3> QED BY <2>2, <3>2, <3>3
  <2> QED BY <1>1, <1>6, <2>1, <2>2 DEF Knows
<1> QED BY <1>1, <1>5, <1>6 DEF t

\* Whoever is told last of a start knows of it.
LEMMA KnowsLast ==
    ASSUME NEW s \in Seq(Frames), Len(s) \in Nat \ {0}, NEW c, NEW l, NEW knows,
           Starts(s[Len(s)], c, l)
    PROVE  Knows(knows, s, c, l)
<1>1. Len(s) \in 1 .. Len(s) /\ \A k \in 1 .. Len(s) : ~(Len(s) < k)
  OBVIOUS
<1> QED BY <1>1 DEF Knows

-----------------------------------------------------------------------------
(* The recorded generation.                                                  *)

\* Steps that leave what was sent and what a client knows.
LEMMA QuietKnown ==
    ASSUME KnownInv, active' \in {active, None},
           \A c \in Clients :
             link'[c] = "open" =>
               /\ link[c] = "open" /\ channel'[c] = channel[c]
               /\ remote[c] \subseteq remote'[c] \union cleared'[c]
               /\ remote'[c] \subseteq remote[c]
               /\ cleared[c] \subseteq cleared'[c]
    PROVE  KnownInv'
<1> SUFFICES ASSUME NEW c \in Clients, link'[c] = "open", active' # None, active'.from # c
             PROVE  \/ active'.l \in cleared'[c]
                    \/ Knows(active'.l \in remote'[c], channel'[c], c, active'.l)
  BY DEF KnownInv
<1>1. active' = active /\ active # None /\ link[c] = "open" /\ channel'[c] = channel[c]
  OBVIOUS
<1>2. CASE active.l \in cleared[c]
  BY <1>1, <1>2
<1>3. CASE Knows(active.l \in remote[c], channel[c], c, active.l)
  <2>1. CASE active.l \in remote[c] /\ active.l \notin remote'[c]
    BY <1>1, <2>1
  <2>2. CASE active.l \in remote[c] => active.l \in remote'[c]
    BY <1>1, <1>3, <2>2, KnowsMore
  <2> QED BY <2>1, <2>2
<1> QED BY <1>1, <1>2, <1>3 DEF KnownInv

LEMMA UpdateKnown ==
    ASSUME TypeOK, KnownInv, NEW p \in Reports, UpdateGenerationState(p),
           UNCHANGED <<remote, cleared>>
    PROVE  KnownInv'
<1> SUFFICES ASSUME NEW c \in Clients, link'[c] = "open", active' # None, active'.from # c
             PROVE  \/ active'.l \in cleared'[c]
                    \/ Knows(active'.l \in remote'[c], channel'[c], c, active'.l)
  BY DEF KnownInv
<1>1. PICK f \in Frames : Published(p, f)
  BY UpdateTypes
<1>2. /\ link[c] = "open" /\ channel'[c] = Append(channel[c], f) /\ f.data = p /\ f.kind = "event"
      /\ channel[c] \in Seq(Frames)
  BY <1>1 DEF Published, TypeOK, HubTypes
<1>3. CASE p.state = "started"
  <2>1. active'.l = p.l /\ active'.from = p.from
    BY <1>3 DEF UpdateGenerationState
  <2>2. Starts(f, c, active'.l)
    BY <1>2, <1>3, <2>1 DEF Starts
  <2> QED BY <1>2, <2>2, KnowsAppend
<1>4. CASE p.state # "started"
  <2>1. active' = active /\ active.l # p.l
    BY <1>4 DEF UpdateGenerationState
  <2>2. ~Starts(f, c, active.l) /\ ~Ends(f, c, active.l)
    BY <1>2, <2>1 DEF Starts, Ends
  <2>3. \/ active.l \in cleared[c]
        \/ Knows(active.l \in remote[c], channel[c], c, active.l)
    BY <1>2, <2>1 DEF KnownInv
  <2>4. Knows(active.l \in remote[c], channel[c], c, active.l) =>
          Knows(active.l \in remote[c], channel'[c], c, active.l)
    BY <1>2, <2>2, KnowsAppend
  <2> QED BY <2>1, <2>3, <2>4
<1> QED BY <1>3, <1>4

LEMMA OpenKnown ==
    ASSUME TypeOK, KnownInv, NEW c \in Clients, Open(c) PROVE KnownInv'
<1> DEFINE e == Post(active.from, active.l, "started")
<1>1. e \in Event /\ Connect(c, e) /\ active' = active /\ remote' = remote /\ cleared' = cleared
  BY Snapshot DEF Open, TypeOK, ghosts
<1>2. Greets(channel'[c], e) /\ \A d \in Clients \ {c} : channel'[d] = channel[d] /\ link'[d] = link[d]
  BY <1>1, ConnectFacts DEF TypeOK
<1>3. ASSUME NEW d \in Clients \ {c}, link'[d] = "open", active' # None, active'.from # d
      PROVE  \/ active'.l \in cleared'[d]
             \/ Knows(active'.l \in remote'[d], channel'[d], d, active'.l)
  BY <1>1, <1>2, <1>3 DEF KnownInv
<1>4. ASSUME active # None, active.from # c
      PROVE  Knows(active.l \in remote[c], channel'[c], c, active.l)
  <2>1. e.l = active.l /\ e.from = active.from /\ e.state = "started"
    BY DEF Post
  <2> DEFINE s == channel'[c]
  <2>2. s \in Seq(Frames) /\ Len(s) \in Nat \ {0} /\ s[Len(s)].kind = "ready" /\ s[Len(s)].data = e
    BY <1>2 DEF Greets
  <2>3. Starts(s[Len(s)], c, active.l)
    BY <1>4, <2>1, <2>2 DEF Starts
  <2> HIDE DEF s
  <2>4. Knows(active.l \in remote[c], s, c, active.l)
    BY <2>2, <2>3, KnowsLast
  <2> QED BY <2>4 DEF s
<1> QED BY <1>1, <1>3, <1>4 DEF KnownInv

\* Handling a frame makes true what the client was going to know.
LEMMA DispatchKnows ==
    ASSUME TypeOK, NEW c \in Clients, DispatchFrame(c), NEW l \in Nat \ {0}
    PROVE  Knows(l \in remote'[c], channel'[c], c, l) <=>
             Knows(l \in remote[c], channel[c], c, l)
<1> DEFINE f == Head(channel[c])
<1>1. channel[c] \in Seq(Frames) /\ channel[c] # <<>> /\ channel'[c] = Tail(channel[c])
  BY TakeFacts DEF DispatchFrame, TypeOK
<1>2. l \in remote'[c] <=> Starts(f, c, l) \/ (l \in remote[c] /\ ~Ends(f, c, l))
  BY DispatchEffect DEF Applied
<1>3. Knows(l \in remote[c], channel[c], c, l) <=>
        Knows(Starts(f, c, l) \/ (l \in remote[c] /\ ~Ends(f, c, l)), Tail(channel[c]), c, l)
  BY <1>1, KnowsTail
<1> HIDE DEF f
<1> QED BY <1>1, <1>2, <1>3, KnowsMore

LEMMA DispatchKnown ==
    ASSUME TypeOK, KnownInv, NEW c \in Clients, DispatchFrame(c) PROVE KnownInv'
<1>1. /\ active' = active /\ cleared' = cleared /\ link' = link
      /\ \A d \in Clients \ {c} : channel'[d] = channel[d]
  BY TakeFacts DEF DispatchFrame, TypeOK
<1>2. \A d \in Clients \ {c} : remote'[d] = remote[d]
  BY DispatchEffect DEF Applied, TypeOK, ChatTypes
<1>3. active # None => active.l \in Nat \ {0}
  BY Snapshot DEF TypeOK
<1> SUFFICES ASSUME NEW d \in Clients, link[d] = "open", active # None, active.from # d
             PROVE  \/ active.l \in cleared[d]
                    \/ Knows(active.l \in remote'[d], channel'[d], d, active.l)
  BY <1>1 DEF KnownInv
<1>4. \/ active.l \in cleared[d]
      \/ Knows(active.l \in remote[d], channel[d], d, active.l)
  BY DEF KnownInv
<1>5. CASE d = c
  BY <1>3, <1>4, <1>5, DispatchKnows
<1>6. CASE d # c
  BY <1>1, <1>2, <1>4, <1>6
<1> QED BY <1>5, <1>6

LEMMA NextKnown ==
    ASSUME TypeOK, KnownInv, [Next]_vars PROVE KnownInv'
<1>1. ASSUME UNCHANGED <<hubVars, remote, cleared>>, active' \in {active, None} PROVE KnownInv'
  BY <1>1, QuietKnown DEF hubVars
<1>2. ASSUME NEW c \in Clients, Close(c) PROVE KnownInv'
  <2>1. /\ active' = active /\ remote' = remote /\ cleared' = cleared /\ link'[c] = "off"
        /\ \A d \in Clients \ {c} : channel'[d] = channel[d] /\ link'[d] = link[d]
    BY <1>2, DisconnectFacts DEF Close, TypeOK
  <2> QED BY <2>1, QuietKnown
<1>3. ASSUME NEW c \in Clients, CancelAnswered(c) PROVE KnownInv'
  <2>1. /\ active' = active /\ link' = link /\ channel' = channel
        /\ \A d \in Clients : remote[d] \subseteq remote'[d] \union cleared'[d]
                              /\ remote'[d] \subseteq remote[d] /\ cleared[d] \subseteq cleared'[d]
    BY <1>3 DEF CancelAnswered, hubVars, TypeOK, ChatTypes, GhostTypes
  <2> QED BY <2>1, QuietKnown
<1>4. ASSUME Restart PROVE KnownInv'
  BY <1>4 DEF Restart, KnownInv
<1>5. ASSUME NEW c \in Clients, ServeCancel(c) PROVE KnownInv'
  <2>1. CASE active = None
    BY <1>1, <1>5, <2>1 DEF ServeCancel
  <2>2. CASE active # None
    <3>1. active.l \in Nat \ {0}
      BY <2>2, Snapshot DEF TypeOK
    <3>2. Post(c, active.l, "aborted") \in Reports
      BY <3>1 DEF Post, Reports, States
    <3> QED BY <1>5, <2>2, <3>2, UpdateKnown DEF ServeCancel
  <2> QED BY <2>1, <2>2
<1>6. ASSUME NEW p \in posts, Report(p) PROVE KnownInv'
  BY <1>6, UpdateKnown DEF Report, ghosts, TypeOK, ChatTypes
<1>7. ASSUME NEW c \in Clients,
             Begin(c) \/ StartAnswered(c) \/ StartUnanswered(c) \/ Stop(c) \/ End(c) \/ Cancel(c)
      PROVE  KnownInv'
  BY <1>1, <1>7 DEF Begin, StartAnswered, StartUnanswered, Stop, End, Cancel, ghosts
<1>8. ASSUME NEW p \in posts, LoseReport(p) PROVE KnownInv'
  BY <1>1, <1>8 DEF LoseReport, ghosts
<1>9. ASSUME Expire \/ UNCHANGED vars PROVE KnownInv'
  BY <1>1, <1>9 DEF Expire, vars, ghosts
<1> QED BY <1>2, <1>3, <1>4, <1>5, <1>6, <1>7, <1>8, <1>9, OpenKnown, DispatchKnown, DropOrEnd DEF Next

\* Snapshot, replay and broadcasts agree: a client that has handled what it was
\* sent knows the generation the hub records (applyGenerationState).
THEOREM RecordIsShown == Spec => []RecordedIsKnown
<1>1. Init => KnownInv
  BY DEF Init, HubInit, KnownInv
<1>2. TypeOK /\ KnownInv /\ [Next]_vars => (TypeOK /\ KnownInv)'
  BY NextTypes, NextKnown
<1>3. KnownInv => RecordedIsKnown
  <2>1. Len(<<>>) = 0
    OBVIOUS
  <2>2. \A c, l, r : Knows(l \in r, <<>>, c, l) => l \in r
    BY <2>1 DEF Knows
  <2> QED BY <2>2 DEF KnownInv, RecordedIsKnown, Drained
<1> QED BY InitTypes, <1>1, <1>2, <1>3, PTL DEF Spec

-----------------------------------------------------------------------------
(* The numbers of the events.                                                *)

LEMMA WindowFacts == HubTypes /\ HistoryInv => Window(sequence, Oldest, Elements(history))
<1> SUFFICES ASSUME HubTypes, HistoryInv PROVE Window(sequence, Oldest, Elements(history))
  OBVIOUS
<1> DEFINE n == Len(history)
<1>1. history \in Seq(Frames) /\ n \in Nat /\ sequence \in Nat /\ n <= sequence
  BY DEF HubTypes, HistoryInv
<1>2. Oldest = sequence - n + 1 /\ Oldest \in Nat \ {0} /\ Oldest <= sequence + 1
  BY <1>1 DEF Oldest
<1>3. \A i \in 1 .. n : history[i].kind = "event" /\ history[i].id = sequence - n + i
  BY DEF HistoryInv
<1>4. OldestRetainedId = Oldest
  <2>1. CASE history = <<>>
    BY <1>1, <1>2, <2>1 DEF OldestRetainedId
  <2>2. CASE history # <<>>
    <3>1. Head(history) = history[1] /\ 1 \in 1 .. n
      BY <1>1, <2>2
    <3> QED BY <1>1, <1>2, <1>3, <2>2, <3>1 DEF OldestRetainedId
  <2> QED BY <2>1, <2>2
<1>5. \A x \in Elements(history) : \E i \in 1 .. n : x = history[i]
  BY <1>1, ElementFacts
<1> HIDE DEF n
<1>6. ASSUME NEW x \in Elements(history)
      PROVE  x.kind = "event" /\ x.id \in Nat /\ x.id >= Oldest /\ x.id <= sequence
  <2>1. PICK i \in 1 .. n : x = history[i]
    BY <1>5
  <2> QED BY <1>1, <1>2, <1>3, <2>1
<1>7. ASSUME NEW x \in Elements(history), NEW y \in Elements(history), x.id = y.id PROVE x = y
  <2>1. PICK i \in 1 .. n : x = history[i]
    BY <1>5
  <2>2. PICK j \in 1 .. n : y = history[j]
    BY <1>5
  <2>3. sequence - n + i = sequence - n + j
    BY <1>3, <1>7, <2>1, <2>2
  <2>4. i = j
    BY <1>1, <2>3
  <2> QED BY <2>1, <2>2, <2>4
<1>8. ASSUME NEW u \in Nat \union {NoCursor}, u <= sequence
      PROVE  ReplayGap(u) <=> u # NoCursor /\ u < Oldest - 1
  BY <1>1, <1>2, <1>4, <1>8 DEF ReplayGap, NoCursor
<1> QED BY <1>2, <1>6, <1>7, <1>8 DEF Window

LEMMA WindowNext ==
    HubTypes' /\ HistoryInv' => Window(sequence, Oldest, Elements(history))'
BY WindowFacts, PTL

\* A cursor inside the window is replayed exactly the events newer than it.
LEMMA NewerFacts ==
    ASSUME HubTypes, HistoryInv, NEW last \in Nat, last <= sequence, ~ReplayGap(last)
    PROVE  /\ Newer(last) \in Seq(Frames)
           /\ Len(Newer(last)) = sequence - last
           /\ \A i \in 1 .. sequence - last :
                Newer(last)[i] \in Elements(history) /\ Newer(last)[i].id = last + i
<1> DEFINE n == Len(history)
           older == {i \in DOMAIN history : history[i].id <= last}
           k == last - (sequence - n)
<1>1. /\ history \in Seq(Frames) /\ n \in Nat /\ sequence \in Nat /\ n <= sequence
      /\ DOMAIN history = 1 .. n
  BY DEF HubTypes, HistoryInv
<1>2. k \in 0 .. n
  <2>1. Oldest \in Nat /\ ~(last < Oldest - 1)
    BY WindowFacts DEF Window, NoCursor
  <2>2. Oldest = sequence - n + 1
    BY DEF Oldest
  <2> QED BY <1>1, <2>1, <2>2
<1>3. older = 1 .. k
  <2>1. \A i \in 1 .. n : history[i].id <= last <=> i <= k
    BY <1>1, <1>2 DEF HistoryInv
  <2> QED BY <1>1, <1>2, <2>1
<1>4. Cardinality(older) = k
  <2> HIDE DEF k, older
  <2>1. k \in Int /\ 0 <= k
    BY <1>1, <1>2
  <2>2. Cardinality(1 .. k) = IF 1 > k THEN 0 ELSE k - 1 + 1
    BY <2>1, FS_Interval
  <2> QED BY <1>3, <2>1, <2>2
<1>5. k + 1 \in 1 .. n + 1
  BY <1>1, <1>2
<1>6. /\ SubSeq(history, k + 1, n) \in Seq(Frames)
      /\ Len(SubSeq(history, k + 1, n)) = n - (k + 1) + 1
      /\ \A i \in 1 .. n - (k + 1) + 1 : SubSeq(history, k + 1, n)[i] = history[k + 1 + i - 1]
  BY <1>1, <1>5, SuffixFacts
<1>7. Newer(last) = SubSeq(history, k + 1, n)
  BY <1>4 DEF Newer
<1>8. n - (k + 1) + 1 = sequence - last
  BY <1>1, <1>2
<1>9. ASSUME NEW i \in 1 .. sequence - last
      PROVE  Newer(last)[i] \in Elements(history) /\ Newer(last)[i].id = last + i
  <2>1. k + i \in 1 .. n /\ k + 1 + i - 1 = k + i
    BY <1>1, <1>2, <1>8
  <2>2. Newer(last)[i] = history[k + i]
    BY <1>6, <1>7, <1>8, <2>1
  <2>3. history[k + i].id = last + i
    <3>1. \A x \in 1 .. n : history[x].id = sequence - n + x
      BY DEF HistoryInv
    <3>2. sequence - n + (k + i) = last + i
      BY <1>1
    <3> HIDE DEF k, n
    <3> QED BY <2>1, <3>1, <3>2
  <2> QED BY <1>1, <2>1, <2>2, <2>3, ElementFacts
<1> QED BY <1>6, <1>7, <1>8, <1>9

\* A broadcast leaves every connection in order.
LEMMA PublishedCursor ==
    ASSUME HubTypes, HubTypes', HistoryInv, NEW e \in Event, NEW f, Published(e, f),
           NEW c \in Clients, CursorInv(c), remote'[c] = remote[c], blind' = blind
    PROVE  CursorInv(c)'
<1> DEFINE s == channel[c]
           t == channel'[c]
           u == lastEventId[c]
           n == Len(s)
           H == Elements(history)
           K == Elements(history')
           old == Oldest
           new == Oldest'
<1>1. /\ s \in Seq(Frames) /\ f \in Frames /\ f.kind = "event" /\ f.id = sequence + 1
      /\ sequence' = sequence + 1 /\ sequence \in Nat /\ link' = link /\ lastEventId' = lastEventId
      /\ u \in Nat \union {NoCursor} /\ u <= sequence /\ n \in Nat
  BY DEF HubTypes, Published, CursorInv
<1>2. /\ HistoryInv' /\ new >= old /\ f \in K /\ K \subseteq H \union {f}
      /\ \A x \in H : x.id >= new => x \in K
  BY PublishedHistory
<1>3. Window(sequence, old, H) /\ Window(sequence, Oldest, Elements(history))'
  BY <1>2, WindowFacts, WindowNext
<1>4. old \in Nat /\ new \in Nat /\ \A x \in K : x.id \in Nat /\ x.id <= sequence + 1
  BY <1>1, <1>3 DEF Window
<1>5. ReplayGap(u) => ReplayGap(u)'
  <2>1. ReplayGap(u) <=> u # NoCursor /\ u < old - 1
    BY <1>1, <1>3 DEF Window
  <2>2. ReplayGap(u)' <=> u # NoCursor /\ u < new - 1
    <3>1. u <= sequence'
      BY <1>1 DEF NoCursor
    <3> QED BY <1>1, <1>3, <3>1 DEF Window
  <2> QED BY <1>1, <1>2, <1>4, <2>1, <2>2 DEF NoCursor
<1>6. CASE link[c] # "open"
  BY <1>1, <1>6 DEF CursorInv, Published, NoCursor
<1>7. CASE link[c] = "open"
  <2>1. /\ t \in Seq(Frames) /\ Len(t) = n + 1 /\ t[n + 1] = f
        /\ \A i \in 1 .. n : t[i] = s[i] /\ t[i].id \in Nat
        /\ Elements(t) = Elements(s) \union {f}
    <3>1. t = Append(s, f)
      BY <1>7 DEF Published
    <3>2. \A i \in 1 .. n : s[i].id \in Nat
      <4>1. Elements(s) \subseteq Frames /\ \A i \in 1 .. n : s[i] \in Elements(s)
        BY <1>1, ElementFacts
      <4> QED BY <4>1 DEF Frames
    <3> QED BY <1>1, <3>1, <3>2, AppendFacts, AppendElements
  <2>2. ChannelOK(s, sequence, old, H) /\ (Resyncs(s) => ReplayGap(u))
        /\ (u # NoCursor => Resyncs(s) \/ Follows(u, s, H))
    BY <1>7 DEF CursorInv
  <2> HIDE DEF s, t, n, H, K, old, new
  <2>3. ASSUME NEW i \in 1 .. n + 1
        PROVE  /\ t[i].id <= sequence + 1
               /\ t[i].kind = "resync" => i = 1
               /\ t[i].kind = "event" /\ t[i].id >= new => t[i] \in K
               /\ t[i].kind # "ready" => \A x \in K : x.id > t[i].id => x \in Elements(t)
               /\ t[i].kind = "ready" => t[i].data.state = "started"
    <3>1. CASE i = n + 1
      BY <1>1, <1>2, <1>4, <2>1, <3>1
    <3>2. CASE i \in 1 .. n
      <4>1. /\ t[i].id <= sequence
            /\ t[i].kind = "resync" => i = 1
            /\ t[i].kind = "event" /\ t[i].id >= old => t[i] \in H
            /\ t[i].kind # "ready" => \A x \in H : x.id > t[i].id => x \in Elements(s)
            /\ t[i].kind = "ready" => t[i].data.state = "started"
        BY <2>1, <2>2, <3>2 DEF ChannelOK, n
      <4>2. t[i].id >= new => t[i].id >= old
        BY <1>2, <1>4, <2>1, <3>2
      <4> QED BY <1>1, <1>2, <2>1, <3>2, <4>1, <4>2
    <3> QED BY <1>1, <3>1, <3>2
  <2>4. ASSUME NEW i \in 1 .. n + 1, NEW k \in 1 .. n + 1,
               i < k, t[i].kind # "ready", t[k].kind = "event"
        PROVE  t[i].id < t[k].id
    <3>1. i \in 1 .. n
      BY <1>1, <2>4
    <3>2. CASE k = n + 1
      <4>1. t[i].id <= sequence /\ t[i].id \in Nat
        BY <2>1, <2>2, <3>1 DEF ChannelOK, n
      <4> QED BY <1>1, <2>1, <3>2, <4>1
    <3>3. CASE k \in 1 .. n
      BY <2>1, <2>2, <2>4, <3>1, <3>3 DEF ChannelOK, n
    <3> QED BY <1>1, <3>2, <3>3
  <2>5. ChannelOK(t, sequence + 1, new, K)
    BY <2>1, <2>3, <2>4 DEF ChannelOK
  <2>6. Resyncs(t) <=> Resyncs(s)
    <3>1. CASE n = 0
      BY <1>1, <2>1, <3>1 DEF Resyncs, n
    <3>2. CASE n > 0
      <4>1. t[1] = s[1]
        BY <1>1, <2>1, <3>2
      <4> QED BY <1>1, <2>1, <3>2, <4>1 DEF Resyncs, n
    <3> QED BY <1>1, <3>1, <3>2
  <2>7. Follows(u, s, H) => Follows(u, t, K)
    <3>1. ASSUME Follows(u, s, H), NEW i \in 1 .. n + 1, t[i].kind = "event" PROVE t[i].id > u
      <4>1. CASE i = n + 1
        BY <1>1, <2>1, <4>1 DEF NoCursor
      <4>2. CASE i \in 1 .. n
        BY <2>1, <3>1, <4>2 DEF Follows, n
      <4> QED BY <1>1, <4>1, <4>2
    <3>2. ASSUME Follows(u, s, H), NEW x \in K, x.id > u PROVE x \in Elements(t)
      BY <1>2, <2>1, <3>2 DEF Follows
    <3> QED BY <2>1, <3>1, <3>2 DEF Follows
  <2>8. u <= sequence + 1
    BY <1>1 DEF NoCursor
  <2>9. /\ link'[c] = "open" /\ lastEventId'[c] = u /\ u <= sequence'
        /\ ChannelOK(t, sequence', new, K)
        /\ Resyncs(t) => ReplayGap(u)'
        /\ u # NoCursor => Resyncs(t) \/ Follows(u, t, K)
    BY <1>1, <1>5, <1>7, <2>2, <2>5, <2>6, <2>7, <2>8
  <2> QED BY <1>1, <2>9 DEF CursorInv, t, K, new
<1> QED BY <1>6, <1>7

LEMMA FrameIds ==
    ASSUME NEW s \in Seq(Frames)
    PROVE  \A i \in 1 .. Len(s) : s[i] \in Elements(s) /\ s[i].id \in Nat
                                   /\ s[i].kind \in {"event", "ready", "resync"}
<1>1. Elements(s) \subseteq Frames /\ \A i \in 1 .. Len(s) : s[i] \in Elements(s)
  BY ElementFacts
<1> QED BY <1>1 DEF Frames

\* Taking the first frame leaves the connection in order, and behind it follows
\* all that is newer.
LEMMA TailKeeps ==
    ASSUME NEW s \in Seq(Frames), s # <<>>, NEW top, NEW old, NEW H,
           ChannelOK(s, top, old, H), \A x \in H : x.kind = "event" /\ x.id \in Nat
    PROVE  /\ ChannelOK(Tail(s), top, old, H)
           /\ ~Resyncs(Tail(s))
           /\ Head(s).id <= top
           /\ Head(s).kind # "ready" => Follows(Head(s).id, Tail(s), H)
           /\ \A u : Head(s).kind = "ready" /\ Follows(u, s, H) => Follows(u, Tail(s), H)
<1> DEFINE t == Tail(s)
           n == Len(s)
<1>1. /\ t \in Seq(Frames) /\ Len(t) = n - 1 /\ n \in Nat \ {0} /\ Head(s) = s[1]
      /\ \A i \in 1 .. n - 1 : t[i] = s[i + 1]
  BY TailFacts
<1>2. /\ \A i \in 1 .. n - 1 : i + 1 \in 1 .. n /\ i + 1 # 1 /\ 1 < i + 1
      /\ 1 \in 1 .. n
  BY <1>1
<1>3. \A i \in 1 .. n : s[i].id \in Nat
  BY FrameIds
<1> HIDE DEF t, n
<1>4. ASSUME NEW x \in Elements(s), x # s[1] PROVE x \in Elements(t)
  <2>1. PICK i \in 1 .. n : x = s[i]
    BY <1>4 DEF Elements, n
  <2>2. i - 1 \in 1 .. n - 1 /\ i - 1 + 1 = i
    BY <1>1, <1>4, <2>1
  <2>3. x = t[i - 1]
    BY <1>1, <2>1, <2>2
  <2> QED BY <1>1, <2>2, <2>3, ElementFacts
<1>5. \A i \in 1 .. n :
        /\ s[i].id <= top
        /\ s[i].kind = "resync" => i = 1
        /\ s[i].kind = "event" /\ s[i].id >= old => s[i] \in H
        /\ s[i].kind # "ready" => \A f \in H : f.id > s[i].id => f \in Elements(s)
        /\ s[i].kind = "ready" => s[i].data.state = "started"
  BY DEF ChannelOK, n
<1>6. \A i, k \in 1 .. n :
        i < k /\ s[i].kind # "ready" /\ s[k].kind = "event" => s[i].id < s[k].id
  BY DEF ChannelOK, n
<1>7. ASSUME NEW i \in 1 .. n - 1, t[i].kind # "ready", NEW f \in H, f.id > t[i].id
      PROVE  f \in Elements(t)
  <2>1. f \in Elements(s)
    BY <1>1, <1>2, <1>5, <1>7
  <2>2. CASE f = s[1]
    <3>1. t[i].kind = "event"
      BY <1>1, <1>2, <1>5, <1>7, FrameIds DEF n
    <3>2. s[1].id < t[i].id
      BY <1>1, <1>2, <1>6, <2>2, <3>1
    <3>3. s[1].id \in Nat /\ t[i].id \in Nat
      BY <1>1, <1>2, <1>3
    <3> QED BY <1>7, <2>2, <3>2, <3>3
  <2> QED BY <1>4, <2>1, <2>2
<1>8. \A i, k \in 1 .. n - 1 :
        i < k /\ t[i].kind # "ready" /\ t[k].kind = "event" => t[i].id < t[k].id
  <2> SUFFICES ASSUME NEW i \in 1 .. n - 1, NEW k \in 1 .. n - 1,
                      i < k, t[i].kind # "ready", t[k].kind = "event"
               PROVE  t[i].id < t[k].id
    OBVIOUS
  <2>1. i + 1 < k + 1
    BY <1>1
  <2> QED BY <1>1, <1>2, <1>6, <2>1
<1>9. ChannelOK(t, top, old, H)
  <2>1. \A i \in 1 .. n - 1 :
          /\ t[i].id <= top
          /\ t[i].kind = "resync" => i = 1
          /\ t[i].kind = "event" /\ t[i].id >= old => t[i] \in H
          /\ t[i].kind = "ready" => t[i].data.state = "started"
    <3> SUFFICES ASSUME NEW i \in 1 .. n - 1
                 PROVE  /\ t[i].id <= top
                        /\ t[i].kind # "resync"
                        /\ t[i].kind = "event" /\ t[i].id >= old => t[i] \in H
                        /\ t[i].kind = "ready" => t[i].data.state = "started"
      OBVIOUS
    <3>1. t[i] = s[i + 1] /\ i + 1 \in 1 .. n /\ i + 1 # 1
      BY <1>1, <1>2
    <3> QED BY <1>5, <3>1
  <2> QED BY <1>1, <1>7, <1>8, <2>1 DEF ChannelOK
<1>10. ~Resyncs(t)
  <2>1. CASE n = 1
    BY <1>1, <2>1 DEF Resyncs
  <2>2. CASE n # 1
    <3>1. 1 \in 1 .. n - 1
      BY <1>1, <2>2
    <3> QED BY <1>1, <1>2, <1>5, <3>1 DEF Resyncs
  <2> QED BY <2>1, <2>2
<1>11. ASSUME s[1].kind # "ready" PROVE Follows(s[1].id, t, H)
  <2>1. \A i \in 1 .. n - 1 : t[i].kind = "event" => t[i].id > s[1].id
    BY <1>1, <1>2, <1>3, <1>6, <1>11
  <2>2. ASSUME NEW f \in H, f.id > s[1].id PROVE f \in Elements(t)
    <3>1. f \in Elements(s) /\ f # s[1]
      BY <1>2, <1>3, <1>5, <1>11, <2>2
    <3> QED BY <1>4, <3>1
  <2> QED BY <1>1, <2>1, <2>2 DEF Follows
<1>12. ASSUME s[1].kind = "ready", NEW u, Follows(u, s, H) PROVE Follows(u, t, H)
  <2>1. \A i \in 1 .. n - 1 : t[i].kind = "event" => t[i].id > u
    BY <1>1, <1>2, <1>12 DEF Follows, n
  <2>2. ASSUME NEW f \in H, f.id > u PROVE f \in Elements(t)
    <3>1. f \in Elements(s) /\ f # s[1]
      BY <1>12, <2>2 DEF Follows
    <3> QED BY <1>4, <3>1
  <2> QED BY <1>1, <2>1, <2>2 DEF Follows
<1> QED BY <1>1, <1>2, <1>5, <1>9, <1>10, <1>11, <1>12 DEF t

\* A greeting is in order, and complete.
LEMMA GreetingKeeps ==
    ASSUME HubTypes, HistoryInv, NEW u \in Nat \union {NoCursor}, u <= sequence,
           NEW e \in Event, e.state = "started"
    PROVE  /\ ChannelOK(Greeting(u, e), sequence, Oldest, Elements(history))
           /\ Resyncs(Greeting(u, e)) => ReplayGap(u)
           /\ u # NoCursor => Resyncs(Greeting(u, e)) \/ Follows(u, Greeting(u, e), Elements(history))
<1> DEFINE g == Greeting(u, e)
           r == Frame("ready", sequence, e)
           q == Frame("resync", sequence, e)
           H == Elements(history)
<1>1. /\ r \in Frames /\ q \in Frames /\ r.kind = "ready" /\ r.data = e /\ q.data = e
      /\ r.id = sequence /\ q.id = sequence /\ q.kind = "resync" /\ sequence \in Nat
  BY FrameFacts DEF HubTypes
<1>2. Window(sequence, Oldest, H)
  BY WindowFacts
<1> HIDE DEF r, q, H
<1>3. CASE ReplayGap(u)
  <2>1. g = <<q>> \o <<r>>
    BY <1>3 DEF Greeting, r, q
  <2>2. PICK x \in Seq(Frames) : x = <<q>> /\ Len(x) = 1 /\ x[1] = q
    <3>1. <<q>> \in Seq(Frames)
      BY <1>1, SingletonFacts
    <3>2. Len(<<q>>) = 1 /\ <<q>>[1] = q
      OBVIOUS
    <3> QED BY <3>1, <3>2
  <2>3. g \in Seq(Frames) /\ Len(g) = 2 /\ g[1] = q /\ g[2] = r
    <3>1. g = x \o <<r>>
      BY <2>1, <2>2
    <3>2. /\ x \o <<r>> \in Seq(Frames) /\ Len(x \o <<r>>) = Len(x) + 1
          /\ \A i \in 1 .. Len(x) : (x \o <<r>>)[i] = x[i]
          /\ (x \o <<r>>)[Len(x) + 1] = r
      BY <1>1, ThenFacts
    <3> QED BY <2>2, <3>1, <3>2
  <2> HIDE DEF g
  <2>4. ASSUME NEW i \in 1 .. 2
        PROVE  /\ g[i].id = sequence
               /\ g[i].kind = "resync" => i = 1
               /\ g[i].kind # "event"
               /\ g[i].data.state = "started"
    BY <1>1, <2>3
  <2>5. \A f \in H : ~(f.id > sequence)
    BY <1>1, <1>2 DEF Window
  <2>6. ChannelOK(g, sequence, Oldest, H)
    BY <1>1, <2>3, <2>4, <2>5 DEF ChannelOK
  <2>7. Resyncs(g)
    BY <1>1, <2>3 DEF Resyncs
  <2> QED BY <1>3, <2>6, <2>7 DEF g, H
<1>4. CASE ~ReplayGap(u) /\ u = NoCursor
  <2>1. g = <<r>>
    BY <1>4 DEF Greeting, r
  <2>2. g \in Seq(Frames) /\ Len(g) = 1 /\ g[1] = r
    BY <1>1, <2>1
  <2> HIDE DEF g
  <2>3. ChannelOK(g, sequence, Oldest, H) /\ ~Resyncs(g)
    BY <1>1, <2>2 DEF ChannelOK, Resyncs
  <2> QED BY <1>4, <2>3 DEF g, H
<1>5. CASE ~ReplayGap(u) /\ u # NoCursor
  <2> DEFINE w == Newer(u)
             d == sequence - u
  <2>1. u \in Nat /\ d \in Nat
    BY <1>1, <1>5
  <2>2. /\ w \in Seq(Frames) /\ Len(w) = d
        /\ \A i \in 1 .. d : w[i] \in H /\ w[i].id = u + i
    BY <1>5, <2>1, NewerFacts DEF H
  <2>3. g = w \o <<r>>
    BY <1>5 DEF Greeting, r
  <2> HIDE DEF g, w
  <2>4. /\ g \in Seq(Frames) /\ Len(g) = d + 1 /\ g[d + 1] = r
        /\ \A i \in 1 .. d : g[i] = w[i]
    <3>1. /\ w \o <<r>> \in Seq(Frames) /\ Len(w \o <<r>>) = Len(w) + 1
          /\ \A i \in 1 .. Len(w) : (w \o <<r>>)[i] = w[i]
          /\ (w \o <<r>>)[Len(w) + 1] = r
      BY <1>1, <2>2, ThenFacts
    <3> QED BY <2>2, <2>3, <3>1
  <2>5. \A i \in 1 .. d : g[i] \in H /\ g[i].id = u + i /\ g[i].kind = "event"
    BY <1>2, <2>2, <2>4 DEF Window
  <2>6. ASSUME NEW f \in H, f.id > u PROVE f \in Elements(g)
    <3>1. f.id \in Nat /\ f.id <= sequence
      BY <1>2 DEF Window
    <3>2. f.id - u \in 1 .. d /\ u + (f.id - u) = f.id
      BY <1>1, <2>1, <2>6, <3>1
    <3>3. g[f.id - u] \in H /\ g[f.id - u].id = f.id
      BY <2>5, <3>2
    <3>4. g[f.id - u] = f
      BY <1>2, <3>3 DEF Window
    <3>5. f.id - u \in 1 .. Len(g)
      BY <2>1, <2>4, <3>2
    <3> QED BY <2>4, <3>4, <3>5, ElementFacts
  <2>7. \A i \in 1 .. d + 1 : i \in 1 .. d \/ i = d + 1
    BY <2>1
  <2>8. ASSUME NEW i \in 1 .. d + 1
        PROVE  /\ g[i].id <= sequence
               /\ g[i].kind # "resync"
               /\ g[i].kind = "event" => i \in 1 .. d /\ g[i] \in H /\ g[i].id = u + i
               /\ g[i].kind # "ready" => i \in 1 .. d /\ g[i].id = u + i
               /\ g[i].kind = "ready" => g[i].data.state = "started"
    <3>1. CASE i = d + 1
      BY <1>1, <2>4, <3>1
    <3>2. CASE i \in 1 .. d
      BY <1>1, <2>1, <2>5, <3>2
    <3> QED BY <2>7, <3>1, <3>2
  <2>9. ASSUME NEW i \in 1 .. d + 1, g[i].kind # "ready", NEW f \in H, f.id > g[i].id
        PROVE  f \in Elements(g)
    <3>1. f.id \in Nat /\ g[i].id = u + i /\ i \in Nat
      BY <1>2, <2>8, <2>9 DEF Window
    <3>2. f.id > u
      BY <2>1, <2>9, <3>1
    <3> QED BY <2>6, <3>2
  <2>10. ASSUME NEW i \in 1 .. d + 1, NEW k \in 1 .. d + 1,
                i < k, g[i].kind # "ready", g[k].kind = "event"
         PROVE  g[i].id < g[k].id
    BY <2>1, <2>8, <2>10
  <2>11. ChannelOK(g, sequence, Oldest, H)
    BY <2>4, <2>8, <2>9, <2>10 DEF ChannelOK
  <2>12. Follows(u, g, H)
    <3>1. \A i \in 1 .. d + 1 : g[i].kind = "event" => g[i].id > u
      BY <2>1, <2>8
    <3> QED BY <2>4, <2>6, <3>1 DEF Follows
  <2>13. ~Resyncs(g)
    <3>1. 1 \in 1 .. d + 1
      BY <2>1
    <3> QED BY <2>8, <3>1 DEF Resyncs
  <2> QED BY <2>11, <2>12, <2>13 DEF g, H
<1> QED BY <1>3, <1>4, <1>5

\* A client whose connection a step leaves.
LEMMA SameCursor ==
    ASSUME NEW c \in Clients, CursorInv(c), UNCHANGED <<sequence, history>>,
           channel'[c] = channel[c], link'[c] = link[c], lastEventId'[c] = lastEventId[c],
           remote'[c] \subseteq remote[c], c \in blind => c \in blind'
    PROVE  CursorInv(c)'
<1>1. Oldest' = Oldest /\ Elements(history)' = Elements(history)
  BY DEF Oldest, Elements
<1>2. ReplayGap(lastEventId[c])' <=> ReplayGap(lastEventId[c])
  BY DEF ReplayGap, OldestRetainedId
<1> QED BY <1>1, <1>2 DEF CursorInv

LEMMA SameHistory ==
    ASSUME HistoryInv, UNCHANGED <<sequence, history>> PROVE HistoryInv'
BY DEF HistoryInv

LEMMA QuietHub ==
    ASSUME HubInv, UNCHANGED hubVars, faults' = 0 => faults = 0,
           \A c \in Clients : remote'[c] \subseteq remote[c], blind' = blind
    PROVE  HubInv'
<1>1. \A c \in Clients : CursorInv(c) => CursorInv(c)'
  BY SameCursor DEF hubVars
<1> QED BY <1>1, SameHistory DEF HubInv, hubVars

LEMMA UpdateHub ==
    ASSUME TypeOK, HubInv, NEW p \in Reports, UpdateGenerationState(p),
           UNCHANGED <<remote, blind, faults>>
    PROVE  HubInv'
<1>1. HubTypes' /\ p \in Event
  BY UpdateTypes DEF Event
<1>2. PICK f \in Frames : Published(p, f)
  BY UpdateTypes
<1>3. HistoryInv'
  BY <1>1, <1>2, PublishedHistory DEF HubInv, TypeOK
<1>4. \A c \in Clients : CursorInv(c) => CursorInv(c)'
  BY <1>1, <1>2, PublishedCursor DEF HubInv, TypeOK
<1> QED BY <1>3, <1>4 DEF HubInv

\* A client only dispatches what an open connection brought.
LEMMA DispatchOpen ==
    ASSUME TypeOK, NEW c \in Clients, CursorInv(c), DispatchFrame(c)
    PROVE  link[c] = "open"
<1>1. channel[c] # <<>> /\ link[c] \in Links
  BY DEF DispatchFrame, Take, TypeOK, HubTypes
<1> QED BY <1>1 DEF CursorInv, Links

LEMMA DispatchHub ==
    ASSUME TypeOK, HubInv, NEW c \in Clients, DispatchFrame(c) PROVE HubInv'
<1> DEFINE s == channel[c]
           u == lastEventId[c]
           H == Elements(history)
<1>1. /\ s \in Seq(Frames) /\ s # <<>> /\ Head(s) \in Frames
      /\ channel'[c] = Tail(s)
      /\ lastEventId'[c] = IF Head(s).kind = "ready" THEN u ELSE Head(s).id
      /\ \A d \in Clients \ {c} : channel'[d] = channel[d] /\ lastEventId'[d] = lastEventId[d]
      /\ UNCHANGED <<sequence, history, link, blind, faults>>
  BY TakeFacts DEF DispatchFrame, TypeOK, CursorAfter, counters
<1>2. \A d \in Clients \ {c} : remote'[d] = remote[d]
  BY DispatchEffect DEF Applied, TypeOK, ChatTypes
<1>3. HistoryInv'
  BY <1>1, SameHistory DEF HubInv
<1>4. ASSUME CursorInv(c) PROVE CursorInv(c)'
  <2>1. link[c] = "open"
    BY <1>4, DispatchOpen
  <2>2. /\ ChannelOK(s, sequence, Oldest, H)
        /\ u # NoCursor => Resyncs(s) \/ Follows(u, s, H)
        /\ u <= sequence
    BY <1>4, <2>1 DEF CursorInv
  <2>3. \A x \in H : x.kind = "event" /\ x.id \in Nat
    BY WindowFacts DEF HubInv, TypeOK, Window
  <2>4. Oldest' = Oldest /\ Elements(history)' = H
    BY <1>1 DEF Oldest, Elements
  <2> HIDE DEF s, H
  <2>5. /\ ChannelOK(Tail(s), sequence, Oldest, H)
        /\ ~Resyncs(Tail(s))
        /\ Head(s).id <= sequence
        /\ Head(s).kind # "ready" => Follows(Head(s).id, Tail(s), H)
        /\ \A v : Head(s).kind = "ready" /\ Follows(v, s, H) => Follows(v, Tail(s), H)
    BY <1>1, <2>2, <2>3, TailKeeps
  <2>6. Head(s).kind = "ready" => ~Resyncs(s)
    BY <1>1 DEF Resyncs
  <2> DEFINE v == lastEventId'[c]
  <2>7. v <= sequence /\ (v # NoCursor => Follows(v, Tail(s), H))
    BY <1>1, <2>2, <2>5, <2>6
  <2> QED BY <1>1, <2>1, <2>4, <2>5, <2>7 DEF CursorInv, s
<1>5. \A d \in Clients \ {c} : CursorInv(d) => CursorInv(d)'
  BY <1>1, <1>2, SameCursor
<1> QED BY <1>1, <1>3, <1>4, <1>5 DEF HubInv

LEMMA OpenHub ==
    ASSUME TypeOK, HubInv, NEW c \in Clients, Open(c) PROVE HubInv'
<1> DEFINE e == Post(active.from, active.l, "started")
           u == lastEventId[c]
<1>1. e \in Event /\ e.state = "started" /\ Connect(c, e) /\ UNCHANGED <<remote, blind, faults>>
  BY Snapshot DEF Open, TypeOK, ghosts, counters, Post
<1> HIDE DEF e
<1>2. /\ channel'[c] = Greeting(u, e) /\ link[c] = "off" /\ link'[c] = "open"
      /\ \A d \in Clients \ {c} : channel'[d] = channel[d] /\ link'[d] = link[d]
      /\ UNCHANGED <<sequence, history, lastEventId>>
  BY <1>1, ConnectFacts DEF TypeOK
<1>3. HistoryInv'
  BY <1>2, SameHistory DEF HubInv
<1>4. ASSUME CursorInv(c) PROVE CursorInv(c)'
  <2>1. u \in Nat \union {NoCursor} /\ u <= sequence
    BY <1>4 DEF CursorInv, TypeOK, HubTypes
  <2>2. /\ ChannelOK(Greeting(u, e), sequence, Oldest, Elements(history))
        /\ Resyncs(Greeting(u, e)) => ReplayGap(u)
        /\ u # NoCursor => Resyncs(Greeting(u, e)) \/ Follows(u, Greeting(u, e), Elements(history))
    BY <1>1, <2>1, GreetingKeeps DEF HubInv, TypeOK
  <2>3. Oldest' = Oldest /\ Elements(history)' = Elements(history)
    BY <1>2 DEF Oldest, Elements
  <2>4. ReplayGap(lastEventId[c])' <=> ReplayGap(u)
    BY <1>2 DEF ReplayGap, OldestRetainedId
  <2> QED BY <1>2, <2>1, <2>2, <2>3, <2>4 DEF CursorInv
<1>5. \A d \in Clients \ {c} : CursorInv(d) => CursorInv(d)'
  BY <1>1, <1>2, SameCursor
<1> QED BY <1>1, <1>3, <1>4, <1>5 DEF HubInv

LEMMA CloseHub ==
    ASSUME TypeOK, HubInv, NEW c \in Clients, Close(c) PROVE HubInv'
<1>1. /\ channel'[c] = <<>> /\ link'[c] = "off"
      /\ \A d \in Clients \ {c} : channel'[d] = channel[d] /\ link'[d] = link[d]
      /\ UNCHANGED <<sequence, history, lastEventId, remote, faults>>
      /\ blind' = IF lastEventId[c] = NoCursor THEN blind \union {c} ELSE blind
  BY DisconnectFacts DEF Close, TypeOK
<1>2. \A d \in Clients \ {c} : CursorInv(d) => CursorInv(d)'
  BY <1>1, SameCursor
<1>3. CursorInv(c) => CursorInv(c)'
  BY <1>1 DEF CursorInv
<1> QED BY <1>1, <1>2, <1>3, SameHistory DEF HubInv

LEMMA RestartHub ==
    ASSUME TypeOK, Restart PROVE HubInv'
<1>1. sequence' = 0 /\ history' = <<>> /\ faults' # 0
  BY DEF Restart, HubRestart, TypeOK, CountTypes
<1> QED BY <1>1 DEF HubInv, HistoryInv

LEMMA NextHub ==
    ASSUME TypeOK, HubInv, [Next]_vars PROVE HubInv'
<1>0. faults \in Nat
  BY DEF TypeOK, CountTypes
<1>1. ASSUME UNCHANGED <<hubVars, remote, blind>>, faults' \in {faults, faults + 1} PROVE HubInv'
  BY <1>0, <1>1, QuietHub
<1>2. ASSUME NEW c \in Clients, CancelAnswered(c) PROVE HubInv'
  <2>1. \A d \in Clients : remote'[d] \subseteq remote[d]
    BY <1>2 DEF CancelAnswered, TypeOK, ChatTypes
  <2> QED BY <1>2, <2>1, QuietHub DEF CancelAnswered, counters
<1>3. ASSUME NEW c \in Clients, ServeCancel(c) PROVE HubInv'
  <2>1. CASE active = None
    BY <1>1, <1>3, <2>1 DEF ServeCancel, counters
  <2>2. CASE active # None
    <3>1. active.l \in Nat \ {0}
      BY <2>2, Snapshot DEF TypeOK
    <3>2. Post(c, active.l, "aborted") \in Reports
      BY <3>1 DEF Post, Reports, States
    <3> QED BY <1>3, <2>2, <3>2, UpdateHub DEF ServeCancel, counters
  <2> QED BY <2>1, <2>2
<1>4. ASSUME NEW p \in posts, Report(p) PROVE HubInv'
  BY <1>4, UpdateHub DEF Report, ghosts, counters, TypeOK, ChatTypes
<1>5. ASSUME NEW c \in Clients,
             Begin(c) \/ StartAnswered(c) \/ StartUnanswered(c) \/ Stop(c) \/ End(c) \/ Cancel(c)
      PROVE  HubInv'
  BY <1>1, <1>5 DEF Begin, StartAnswered, StartUnanswered, Stop, End, Cancel, ghosts, counters
<1>6. ASSUME NEW p \in posts, LoseReport(p) PROVE HubInv'
  BY <1>1, <1>6 DEF LoseReport, ghosts
<1>7. ASSUME Expire \/ UNCHANGED vars PROVE HubInv'
  BY <1>1, <1>7 DEF Expire, vars, ghosts, counters
<1> QED BY <1>2, <1>3, <1>4, <1>5, <1>6, <1>7, DispatchHub, OpenHub, CloseHub, RestartHub, DropOrEnd DEF Next

LEMMA InitHub == Init => HubInv
<1> SUFFICES ASSUME Init PROVE HubInv
  OBVIOUS
<1>1. Len(<<>>) = 0
  OBVIOUS
<1> QED BY <1>1 DEF Init, HubInit, HubInv, HistoryInv, CursorInv, NoCursor

-----------------------------------------------------------------------------
(* The end of a lifecycle, while no request is lost, no state expires and    *)
(* the server is not restarted.                                              *)

\* The actions that are left.
Sound ==
    \/ \E c \in Clients :
         \/ Begin(c) \/ StartAnswered(c) \/ Stop(c) \/ End(c)
         \/ Cancel(c) \/ ServeCancel(c) \/ CancelAnswered(c)
         \/ DispatchFrame(c) \/ Open(c) \/ Close(c)
    \/ \E p \in posts : Report(p)
    \/ UNCHANGED vars

LEMMA SoundSteps ==
    ASSUME TypeOK, [Next]_vars, faults' = 0
    PROVE  faults = 0 /\ Sound
<1>1. faults \in Nat
  BY DEF TypeOK, CountTypes
<1>2. ~Expire /\ ~Restart /\ ~(\E p \in posts : LoseReport(p))
      /\ ~(\E c \in Clients : StartUnanswered(c))
  BY <1>1 DEF Expire, Restart, LoseReport, StartUnanswered
<1>3. Sound
  <2>1. CASE UNCHANGED vars
    BY <2>1 DEF Sound
  <2>2. CASE Next
    BY <1>2, <2>2, DropOrEnd DEF Next, Sound
  <2> QED BY <2>1, <2>2
<1>4. ASSUME faults' # faults PROVE FALSE
  BY <1>3, <1>4 DEF Sound, Begin, StartAnswered, Stop, End, Cancel, ServeCancel, CancelAnswered,
     DispatchFrame, Open, Close, Report, counters, vars
<1> QED BY <1>3, <1>4

\* A step that leaves the generations and the reports.
SameLives ==
    /\ posts' = posts
    /\ \A d \in Clients : local'[d].phase = local[d].phase /\ local'[d].l = local[d].l

LEMMA SameLivesKeep ==
    ASSUME TypeOK, LiveInv, SameLives, active' \in {active, None}
    PROVE  LiveInv'
<1>1. \A p \in posts : p.from \in Clients
  BY DEF TypeOK, ChatTypes, Reports
<1>2. \A l : Over(l)' => Over(l)
  BY DEF Over, SameLives
<1> QED BY <1>1, <1>2 DEF LiveInv, SameLives

LEMMA LocalSame ==
    ASSUME TypeOK, NEW c \in Clients, StartAnswered(c) \/ Stop(c) \/ DispatchFrame(c)
    PROVE  /\ \A d \in Clients : /\ local'[d].l = local[d].l
                                 /\ local'[d].phase = "idle" <=> local[d].phase = "idle"
                                 /\ d # c => local'[d] = local[d]
           /\ posts' = posts
<1>1. local \in [Clients -> Live \union {NoGeneration}]
  BY DEF TypeOK, ChatTypes
<1>2. /\ local[c] \in Live \union {NoGeneration}
      /\ [local[c] EXCEPT !.aborted = TRUE].l = local[c].l
      /\ [local[c] EXCEPT !.aborted = TRUE].phase = local[c].phase
      /\ [local[c] EXCEPT !.phase = "running"].l = local[c].l
      /\ [local[c] EXCEPT !.phase = "running"].phase = "running"
  BY <1>1 DEF Live, NoGeneration
<1>3. CASE StartAnswered(c)
  BY <1>1, <1>2, <1>3 DEF StartAnswered, Running
<1>4. CASE Stop(c)
  <2>1. local' = [local EXCEPT ![c] = [local[c] EXCEPT !.aborted = TRUE]] /\ posts' = posts
    BY <1>4 DEF Stop
  <2>2. local'[c].phase = local[c].phase
    BY <1>1, <1>2, <2>1
  <2> QED BY <1>1, <1>2, <2>1, <2>2
<1>5. CASE DispatchFrame(c)
  <2>1. Applied(c, Head(channel[c])) /\ posts' = posts
    BY <1>5, DispatchEffect DEF DispatchFrame
  <2>2. local'[c] \in {local[c], [local[c] EXCEPT !.aborted = TRUE]}
        /\ \A d \in Clients \ {c} : local'[d] = local[d]
    BY <1>1, <2>1 DEF Applied
  <2>3. local'[c].phase = local[c].phase
    BY <1>2, <2>2
  <2> QED BY <1>2, <2>1, <2>2, <2>3
<1> QED BY <1>3, <1>4, <1>5

LEMMA BeginLives ==
    ASSUME TypeOK, OwnInv, NEW c \in Clients, Begin(c)
    PROVE  /\ LiveInv => LiveInv'
           /\ \A l : Over(l)' => Over(l) /\ l # begun + 1
<1> DEFINE p == Post(c, begun + 1, "started")
<1>1. /\ posts' = posts \union {p} /\ active' = active
      /\ local[c].phase = "idle" /\ local'[c].phase = "starting" /\ local'[c].l = begun + 1
      /\ \A d \in Clients \ {c} : local'[d] = local[d]
  BY DEF Begin, NoGeneration, TypeOK, ChatTypes
<1>2. p.l = begun + 1 /\ p.from = c
  BY DEF Post
<1> HIDE DEF p
<1>3. ASSUME NEW l, Over(l)' PROVE Over(l) /\ l # begun + 1
  BY <1>1, <1>2, <1>3 DEF Over
<1>4. ASSUME LiveInv, NEW q \in posts', q.state = "started"
      PROVE  local'[q.from].phase = "starting" /\ local'[q.from].l = q.l
  <2>1. CASE q = p
    BY <1>1, <1>2, <2>1
  <2>2. CASE q \in posts
    <3>1. local[q.from].phase = "starting" /\ local[q.from].l = q.l /\ q.from \in Clients
      BY <1>4, <2>2 DEF LiveInv, TypeOK, ChatTypes, Reports
    <3> QED BY <1>1, <3>1
  <2> QED BY <1>1, <1>4, <2>1, <2>2
<1> QED BY <1>1, <1>3, <1>4 DEF LiveInv

LEMMA EndLives ==
    ASSUME TypeOK, NEW c \in Clients, End(c)
    PROVE  /\ LiveInv => LiveInv'
           /\ \A l : Over(l)' => Over(l)
<1>1. PICK state \in {"finished", "aborted"} : posts' = posts \union {Post(c, local[c].l, state)}
  BY DEF End
<1> DEFINE p == Post(c, local[c].l, state)
<1>2. /\ posts' = posts \union {p} /\ active' = active
      /\ local[c].phase = "running"
      /\ \A d \in Clients \ {c} : local'[d] = local[d]
  BY <1>1 DEF End, TypeOK, ChatTypes
<1>3. p.l = local[c].l /\ p.state # "started"
  BY DEF Post
<1> HIDE DEF p
<1>4. ASSUME NEW l, Over(l)' PROVE Over(l)
  BY <1>2, <1>3, <1>4 DEF Over
<1>5. ASSUME LiveInv, NEW q \in posts', q.state = "started"
      PROVE  local'[q.from].phase = "starting" /\ local'[q.from].l = q.l
  <2>1. q \in posts
    BY <1>2, <1>3, <1>5
  <2>2. local[q.from].phase = "starting" /\ local[q.from].l = q.l /\ q.from \in Clients
    BY <1>5, <2>1 DEF LiveInv, TypeOK, ChatTypes, Reports
  <2> QED BY <1>2, <2>2
<1> QED BY <1>2, <1>4, <1>5 DEF LiveInv

LEMMA NextLive ==
    ASSUME TypeOK, OwnInv, LiveInv, Sound PROVE LiveInv'
<1>1. ASSUME posts' = posts, local' = local, active' \in {active, None} PROVE LiveInv'
  BY <1>1, SameLivesKeep DEF SameLives
<1>2. ASSUME NEW c \in Clients, Cancel(c) \/ CancelAnswered(c) \/ Open(c) \/ Close(c) PROVE LiveInv'
  BY <1>1, <1>2 DEF Cancel, CancelAnswered, Open, Close
<1>3. ASSUME NEW c \in Clients, ServeCancel(c) PROVE LiveInv'
  <2>1. active' \in {active, None}
    BY <1>3 DEF ServeCancel, UpdateGenerationState, Post
  <2> QED BY <1>1, <1>3, <2>1 DEF ServeCancel
<1>4. ASSUME NEW c \in Clients, Stop(c) \/ DispatchFrame(c) PROVE LiveInv'
  <2>1. SameLives
    <3>1. local'[c].phase = local[c].phase
      <4>1. CASE Stop(c)
        BY <4>1 DEF Stop, TypeOK, ChatTypes, Live, NoGeneration
      <4>2. CASE DispatchFrame(c)
        <5>1. local'[c] \in {local[c], [local[c] EXCEPT !.aborted = TRUE]}
          BY <4>2, DispatchEffect DEF Applied
        <5> QED BY <5>1 DEF TypeOK, ChatTypes, Live, NoGeneration
      <4> QED BY <1>4, <4>1, <4>2
    <3> QED BY <1>4, <3>1, LocalSame DEF SameLives
  <2>2. active' = active
    BY <1>4 DEF Stop, DispatchFrame
  <2> QED BY <2>1, <2>2, SameLivesKeep
<1>5. ASSUME NEW c \in Clients, StartAnswered(c) PROVE LiveInv'
  <2>1. \A l : Over(l)' => Over(l)
    BY <1>5, LocalSame DEF Over
  <2>2. ASSUME NEW q \in posts', q.state = "started"
        PROVE  local'[q.from].phase = "starting" /\ local'[q.from].l = q.l
    <3>1. /\ q \in posts /\ q \in Reports /\ q.from \in Clients
          /\ local[q.from].phase = "starting" /\ local[q.from].l = q.l
      BY <1>5, <2>2 DEF StartAnswered, LiveInv, TypeOK, ChatTypes, Reports
    <3>2. q.from # c
      <4>1. ASSUME q.from = c PROVE FALSE
        <5>1. q = Post(c, local[c].l, "started")
          BY <2>2, <3>1, <4>1 DEF Reports, Post
        <5> QED BY <1>5, <3>1, <5>1 DEF StartAnswered
      <4> QED BY <4>1
    <3> QED BY <1>5, <3>1, <3>2, LocalSame
  <2> QED BY <1>5, <2>1, <2>2 DEF LiveInv, StartAnswered
<1>6. ASSUME NEW p \in posts, Report(p) PROVE LiveInv'
  <2>1. posts' = posts \ {p} /\ local' = local /\ p \in Reports /\ p.l \in Nat \ {0}
        /\ UpdateGenerationState(p)
    BY <1>6 DEF Report, TypeOK, ChatTypes, Reports
  <2>2. \A q \in posts' : q.state = "started" =>
          local'[q.from].phase = "starting" /\ local'[q.from].l = q.l
    BY <2>1 DEF LiveInv
  <2>3. ASSUME NEW l, active' # None, l = active'.l PROVE ~Over(l)'
    <3>1. CASE p.state = "started"
      <4>1. active'.l = p.l
        BY <2>1, <3>1 DEF UpdateGenerationState
      <4>2. local[p.from].phase = "starting" /\ local[p.from].l = p.l /\ p.from \in Clients
        BY <2>1, <3>1 DEF LiveInv, Reports
      <4> QED BY <2>1, <2>3, <4>1, <4>2 DEF Over
    <3>2. CASE p.state # "started"
      <4>1. active' = active /\ active.l # p.l
        BY <2>1, <2>3, <3>2 DEF UpdateGenerationState
      <4>2. ~Over(active.l)
        BY <2>3, <4>1 DEF LiveInv
      <4> QED BY <2>1, <2>3, <4>1, <4>2 DEF Over
    <3> QED BY <3>1, <3>2
  <2> QED BY <2>2, <2>3 DEF LiveInv
<1>7. ASSUME UNCHANGED vars PROVE LiveInv'
  BY <1>1, <1>7 DEF vars
<1> QED BY <1>2, <1>3, <1>4, <1>5, <1>6, <1>7, BeginLives, EndLives DEF Sound

\* A client whose connection and cursor a step leaves, and which it tells nothing.
LEMMA SameOver ==
    ASSUME NEW c \in Clients, NEW l, OverInv(c, l), UNCHANGED <<sequence, history>>,
           channel'[c] = channel[c], link'[c] = link[c], lastEventId'[c] = lastEventId[c],
           l \in remote'[c] => l \in remote[c]
    PROVE  OverInv(c, l)'
<1>1. ReplayGap(lastEventId[c])' <=> ReplayGap(lastEventId[c])
  BY DEF ReplayGap, OldestRetainedId
<1>2. Elements(history)' = Elements(history)
  BY DEF Elements
<1>3. Knows(l \in remote'[c], channel[c], c, l) => Knows(l \in remote[c], channel[c], c, l)
  BY KnowsMore
<1>4. Missed(l \in remote'[c], lastEventId[c], Elements(history), c, l) =>
        Missed(l \in remote[c], lastEventId[c], Elements(history), c, l)
  BY DEF Missed
<1> QED BY <1>1, <1>2, <1>3, <1>4 DEF OverInv

\* What a client knows when it has handled a replay, it missed.
LEMMA ReplayMissed ==
    ASSUME HubTypes, HistoryInv, NEW u \in Nat, u <= sequence, ~ReplayGap(u),
           NEW c, NEW l, NEW knows, Knows(knows, Newer(u), c, l)
    PROVE  Missed(knows, u, Elements(history), c, l)
<1> DEFINE w == Newer(u)
           d == sequence - u
           H == Elements(history)
<1>1. /\ w \in Seq(Frames) /\ Len(w) = d
      /\ \A i \in 1 .. d : w[i] \in H /\ w[i].id = u + i
  BY NewerFacts
<1>2. Window(sequence, Oldest, H) /\ sequence \in Nat /\ d \in Nat
  BY WindowFacts DEF HubTypes
<1> HIDE DEF w, H
<1>3. ASSUME NEW g \in H, g.id > u PROVE g.id - u \in 1 .. d /\ g = w[g.id - u]
  <2>1. g.id \in Nat /\ g.id <= sequence
    BY <1>2 DEF Window
  <2>2. g.id - u \in 1 .. d /\ u + (g.id - u) = g.id
    BY <1>2, <1>3, <2>1
  <2>3. w[g.id - u] \in H /\ w[g.id - u].id = g.id
    BY <1>1, <2>2
  <2> QED BY <1>2, <2>2, <2>3 DEF Window
<1>4. ASSUME NEW i \in 1 .. d, Starts(w[i], c, l), \A k \in 1 .. d : i < k => ~Ends(w[k], c, l)
      PROVE  Missed(knows, u, H, c, l)
  <2>1. w[i] \in H /\ w[i].id > u
    BY <1>1
  <2>2. ASSUME NEW g \in H, g.id > w[i].id PROVE ~Ends(g, c, l)
    <3>1. g.id \in Nat /\ w[i].id = u + i
      BY <1>1, <1>2 DEF Window
    <3>2. g.id > u /\ i < g.id - u
      BY <2>2, <3>1
    <3>3. g.id - u \in 1 .. d /\ g = w[g.id - u]
      BY <1>3, <3>2
    <3> QED BY <1>4, <3>2, <3>3
  <2> QED BY <1>4, <2>1, <2>2 DEF Missed
<1>5. ASSUME knows, \A k \in 1 .. d : ~Ends(w[k], c, l) PROVE Missed(knows, u, H, c, l)
  <2>1. ASSUME NEW g \in H, g.id > u PROVE ~Ends(g, c, l)
    BY <1>3, <1>5, <2>1
  <2> QED BY <1>5, <2>1 DEF Missed
<1> QED BY <1>1, <1>4, <1>5 DEF Knows, w, H

\* What a client misses when its connection is lost, it was going to know.
LEMMA MissedKnown ==
    ASSUME NEW s \in Seq(Frames), NEW top, NEW old \in Nat, NEW H, NEW u \in Nat,
           ChannelOK(s, top, old, H), Follows(u, s, H), ~Resyncs(s), u >= old - 1,
           \A x \in H : x.kind = "event" /\ x.id \in Nat /\ x.id >= old,
           NEW c, NEW l, NEW knows, Missed(knows, u, H, c, l)
    PROVE  Knows(knows, s, c, l)
<1> DEFINE n == Len(s)
<1>1. /\ n \in Nat
      /\ \A i \in 1 .. n : s[i].id \in Nat /\ s[i].kind \in {"event", "ready", "resync"}
  BY FrameIds
<1>2. /\ \A i \in 1 .. n :
           /\ s[i].kind = "resync" => i = 1
           /\ s[i].kind = "event" /\ s[i].id >= old => s[i] \in H
           /\ s[i].kind = "ready" => s[i].data.state = "started"
      /\ \A i, k \in 1 .. n :
           i < k /\ s[i].kind # "ready" /\ s[k].kind = "event" => s[i].id < s[k].id
      /\ \A i \in 1 .. n : s[i].kind = "event" => s[i].id > u
      /\ \A f \in H : f.id > u => f \in Elements(s)
  BY DEF ChannelOK, Follows
\* A frame that ends a lifecycle is a retained event.
<1>3. ASSUME NEW k \in 1 .. n, Ends(s[k], c, l)
      PROVE  s[k].kind = "event" /\ s[k] \in H /\ s[k].id > u
  <2>1. s[k].kind = "event"
    BY <1>1, <1>2, <1>3 DEF Ends
  <2>2. s[k].id > u /\ s[k].id \in Nat
    BY <1>1, <1>2, <2>1
  <2>3. s[k].id >= old
    BY <2>2
  <2> QED BY <1>2, <2>1, <2>2, <2>3
<1>4. ASSUME NEW f \in H, f.id > u, Starts(f, c, l), \A g \in H : g.id > f.id => ~Ends(g, c, l)
      PROVE  Knows(knows, s, c, l)
  <2>1. PICK i \in 1 .. n : f = s[i]
    <3>1. f \in Elements(s)
      BY <1>2, <1>4
    <3> QED BY <3>1, ElementFacts
  <2>2. ASSUME NEW k \in 1 .. n, i < k, Ends(s[k], c, l) PROVE FALSE
    <3>1. s[k].kind = "event" /\ s[k] \in H
      BY <1>3, <2>2
    <3>2. s[i].kind = "event"
      BY <2>1
    <3>3. s[i].id < s[k].id
      BY <1>2, <2>2, <3>1, <3>2
    <3>4. s[i].id \in Nat /\ s[k].id \in Nat
      BY <1>1
    <3> QED BY <1>4, <2>1, <2>2, <3>1, <3>3, <3>4
  <2> QED BY <1>4, <2>1, <2>2 DEF Knows
<1>5. ASSUME knows, \A g \in H : g.id > u => ~Ends(g, c, l) PROVE Knows(knows, s, c, l)
  <2>1. \A k \in 1 .. n : ~Ends(s[k], c, l)
    BY <1>3, <1>5
  <2> QED BY <1>5, <2>1 DEF Knows
<1> QED BY <1>4, <1>5 DEF Missed

\* A broadcast about another lifecycle tells a client nothing of this one.
LEMMA PublishedOver ==
    ASSUME HubTypes, HubTypes', HistoryInv, NEW e \in Event, NEW f, Published(e, f),
           NEW c \in Clients, CursorInv(c), remote'[c] = remote[c],
           NEW l, OverInv(c, l), ~Starts(f, c, l), ~Ends(f, c, l)
    PROVE  OverInv(c, l)'
<1> DEFINE s == channel[c]
           u == lastEventId[c]
           k == l \in remote[c]
           H == Elements(history)
           K == Elements(history')
           new == Oldest'
<1>1. /\ s \in Seq(Frames) /\ f \in Frames /\ f.kind = "event" /\ sequence' = sequence + 1
      /\ sequence \in Nat /\ link' = link /\ lastEventId'[c] = u
      /\ u \in Nat \union {NoCursor} /\ u <= sequence
      /\ channel'[c] = IF link[c] = "open" THEN Append(s, f) ELSE s
  BY DEF HubTypes, Published, CursorInv
<1>2. /\ HistoryInv' /\ new >= Oldest /\ K \subseteq H \union {f}
      /\ \A x \in H : x.id >= new => x \in K
  BY PublishedHistory
<1>3. Window(sequence, Oldest, H) /\ Window(sequence, Oldest, Elements(history))'
  BY <1>2, WindowFacts, WindowNext
<1>4. /\ ReplayGap(u) <=> u # NoCursor /\ u < Oldest - 1
      /\ ReplayGap(lastEventId[c])' <=> u # NoCursor /\ u < new - 1
      /\ Oldest \in Nat /\ new \in Nat /\ \A x \in K \union H : x.id \in Nat
      /\ \A x \in K : x.id >= new
  <2>1. u <= sequence'
    BY <1>1 DEF NoCursor
  <2> QED BY <1>1, <1>3, <2>1 DEF Window
<1>5. ASSUME link[c] = "open", Knows(k, channel'[c], c, l) PROVE Resyncs(channel'[c])
  <2>1. Knows(k, s, c, l)
    BY <1>1, <1>5, KnowsAppend
  <2>2. Resyncs(s)
    BY <1>5, <2>1 DEF OverInv
  <2>3. /\ channel'[c] = Append(s, f) /\ Len(Append(s, f)) = Len(s) + 1 /\ Len(s) \in Nat
        /\ \A i \in 1 .. Len(s) : Append(s, f)[i] = s[i]
    BY <1>1, <1>5, AppendFacts
  <2> HIDE DEF s
  <2>4. 1 \in 1 .. Len(s)
    BY <2>2, <2>3 DEF Resyncs
  <2> QED BY <2>2, <2>3, <2>4 DEF Resyncs
<1>6. ASSUME link[c] = "off", u # NoCursor, ~ReplayGap(lastEventId[c])', Missed(k, u, K, c, l)
      PROVE  FALSE
  <2>1. ~ReplayGap(u) /\ u \in Nat /\ u >= new - 1
    BY <1>1, <1>2, <1>4, <1>6 DEF NoCursor
  <2>2. ~Missed(k, u, H, c, l)
    BY <1>6, <2>1 DEF OverInv
  <2> HIDE DEF K, H, k, new, u
  <2>3. ASSUME NEW g \in H, g.id > u PROVE g \in K
    BY <1>2, <1>4, <2>1, <2>3
  <2>4. ASSUME NEW x \in K, x.id > u, Starts(x, c, l), \A g \in K : g.id > x.id => ~Ends(g, c, l)
        PROVE  FALSE
    <3>1. x \in H
      BY <1>2, <2>4
    <3>2. ASSUME NEW g \in H, g.id > x.id PROVE ~Ends(g, c, l)
      <4>1. g.id > u
        BY <1>4, <2>1, <2>4, <3>2
      <4> QED BY <2>3, <2>4, <3>2, <4>1
    <3> QED BY <2>2, <2>4, <3>1, <3>2 DEF Missed
  <2>5. ASSUME k, \A g \in K : g.id > u => ~Ends(g, c, l) PROVE FALSE
    BY <2>2, <2>3, <2>5 DEF Missed
  <2> QED BY <1>6, <2>4, <2>5 DEF Missed
<1> QED BY <1>1, <1>5, <1>6 DEF OverInv

\* A broadcast that ends a lifecycle ends it for every client it is sent to.
LEMMA EndedOver ==
    ASSUME HubTypes, HubTypes', HistoryInv, NEW e \in Event, NEW f, Published(e, f),
           NEW c \in Clients, CursorInv(c), NEW l, Ends(f, c, l)
    PROVE  OverInv(c, l)'
<1> DEFINE u == lastEventId[c]
           K == Elements(history')
<1>1. /\ channel[c] \in Seq(Frames) /\ f \in Frames /\ f.id = sequence + 1
      /\ sequence' = sequence + 1
      /\ sequence \in Nat /\ link' = link /\ lastEventId'[c] = u
      /\ u \in Nat \union {NoCursor} /\ u <= sequence
      /\ link[c] = "open" => channel'[c] = Append(channel[c], f)
  BY DEF HubTypes, Published, CursorInv
<1>2. HistoryInv' /\ f \in K
  BY PublishedHistory
<1>3. Window(sequence, Oldest, Elements(history))'
  BY <1>2, WindowNext
<1>4. \A x \in K : x.id \in Nat /\ x.id <= sequence + 1 /\ (x.id = sequence + 1 => x = f)
  BY <1>1, <1>2, <1>3 DEF Window
<1>5. ASSUME link[c] = "open" PROVE ~Knows(l \in remote'[c], channel'[c], c, l)
  <2>1. ~Knows(l \in remote'[c], Append(channel[c], f), c, l)
    BY <1>1, KnowsAppend
  <2> QED BY <1>1, <1>5, <2>1
<1>6. ASSUME Missed(l \in remote'[c], u, K, c, l) PROVE FALSE
  <2> HIDE DEF u, K
  <2>1. ~(\A g \in K : g.id > u => ~Ends(g, c, l))
    <3>1. f.id > u
      BY <1>1 DEF NoCursor
    <3> QED BY <1>2, <3>1
  <2>2. PICK x \in K : Starts(x, c, l) /\ \A g \in K : g.id > x.id => ~Ends(g, c, l)
    BY <1>6, <2>1 DEF Missed
  <2>3. x # f
    BY <2>2, StartsOrEnds
  <2>4. f.id > x.id
    BY <1>1, <1>4, <2>3
  <2> QED BY <1>2, <2>2, <2>4
<1> QED BY <1>1, <1>5, <1>6 DEF OverInv

\* A client that is not told of a start never knows of the lifecycle.
LEMMA UnheardOver ==
    ASSUME HubTypes', NEW c \in Clients, NEW l, l \notin remote'[c],
           \A x \in Elements(history') \union Elements(channel'[c]) : ~Starts(x, c, l)
    PROVE  OverInv(c, l)'
<1>1. channel'[c] \in Seq(Frames)
  BY DEF HubTypes
<1>2. \A i \in 1 .. Len(channel'[c]) : ~Starts(channel'[c][i], c, l)
  BY <1>1, FrameIds
<1>3. ~Knows(l \in remote'[c], channel'[c], c, l)
  BY <1>2 DEF Knows
<1>4. ~Missed(l \in remote'[c], lastEventId'[c], Elements(history'), c, l)
  BY DEF Missed
<1> QED BY <1>3, <1>4 DEF OverInv

LEMMA ReportOver ==
    ASSUME TypeOK, OwnInv, HistoryInv, LiveInv, NEW p \in posts, Report(p),
           NEW c \in Clients, CursorInv(c), NEW l \in 1 .. begun, Over(l)',
           Over(l) => OverInv(c, l)
    PROVE  OverInv(c, l)'
<1>1. /\ p \in Reports /\ p \in Event /\ p.l \in Nat \ {0} /\ p.from \in Clients
      /\ posts' = posts \ {p} /\ local' = local /\ remote' = remote
      /\ UpdateGenerationState(p) /\ HubTypes
  BY DEF Report, TypeOK, ChatTypes, Reports, Event
<1>2. HubTypes'
  BY <1>1, UpdateTypes
<1>3. PICK f \in Frames : Published(p, f)
  BY <1>1, UpdateTypes
<1>4. f.kind = "event" /\ f.data = p
  BY <1>3 DEF Published
<1>5. CASE p.l # l
  <2>1. Over(l)
    BY <1>1, <1>5 DEF Over
  <2>2. ~Starts(f, c, l) /\ ~Ends(f, c, l)
    BY <1>4, <1>5 DEF Starts, Ends
  <2> QED BY <1>1, <1>2, <1>3, <2>1, <2>2, PublishedOver
<1>6. CASE p.l = l /\ p.state = "started"
  <2>1. local[p.from].phase = "starting" /\ local[p.from].l = l
    BY <1>6 DEF LiveInv
  <2> QED BY <1>1, <2>1 DEF Over
<1>7. CASE p.l = l /\ p.state # "started" /\ p.from # c
  <2>1. Ends(f, c, l)
    BY <1>4, <1>7 DEF Ends
  <2> QED BY <1>1, <1>2, <1>3, <2>1, EndedOver
<1>8. CASE p.l = l /\ p.from = c
  <2>1. Claims(c, l)
    BY <1>8 DEF Claims
  <2>2. l \notin remote[c] /\ \A d \in Clients : Claims(d, l) => d = c
    BY <1>1, <1>8, <2>1 DEF OwnInv, OwnerInv
  <2>3. ASSUME NEW x \in Elements(history') \union Elements(channel'[c]), Starts(x, c, l)
        PROVE  FALSE
    <3>1. x.data \in Said'
      <4>1. x \in Sent'
        BY <2>3 DEF Sent
      <4> QED BY <4>1 DEF Said
    <3>2. x.data # p /\ x.data \in Said
      BY <1>1, <1>3, <1>8, <2>3, <3>1, PublishedSaid DEF Starts
    <3>3. x.data \in Event /\ x.data.l = l /\ x.data.from # c /\ x.data.state = "started"
      BY <2>3, <3>2, SaidEvents DEF Starts
    <3>4. x.data.from \in Clients
      BY <1>1, <1>8, <3>3, EventFacts
    <3>5. Claims(x.data.from, l)
      BY <3>2, <3>3 DEF Claims
    <3> QED BY <2>2, <3>3, <3>4, <3>5
  <2> QED BY <1>1, <1>2, <2>2, <2>3, UnheardOver
<1> QED BY <1>5, <1>6, <1>7, <1>8

LEMMA ServeCancelOver ==
    ASSUME TypeOK, HistoryInv, LiveInv, NEW d \in Clients, ServeCancel(d),
           NEW c \in Clients, CursorInv(c), NEW l, Over(l)', Over(l) => OverInv(c, l)
    PROVE  OverInv(c, l)'
<1>1. posts' = posts /\ local' = local /\ remote' = remote
  BY DEF ServeCancel
<1>2. Over(l) /\ OverInv(c, l)
  BY <1>1 DEF Over
<1>3. CASE active = None
  BY <1>1, <1>2, <1>3, SameOver DEF ServeCancel, hubVars
<1>4. CASE active # None
  <2> DEFINE p == Post(d, active.l, "aborted")
  <2>1. active.l \in Nat \ {0} /\ active.l # l
    BY <1>2, <1>4, Snapshot DEF TypeOK, LiveInv
  <2>2. p \in Reports /\ p \in Event /\ p.l = active.l
    BY <2>1 DEF Post, Reports, Event, States
  <2>3. UpdateGenerationState(p)
    BY <1>4 DEF ServeCancel
  <2> HIDE DEF p
  <2>4. HubTypes'
    BY <2>2, <2>3, UpdateTypes
  <2>5. PICK f \in Frames : Published(p, f)
    BY <2>2, <2>3, UpdateTypes
  <2>6. ~Starts(f, c, l) /\ ~Ends(f, c, l)
    BY <2>1, <2>2, <2>5 DEF Published, Starts, Ends
  <2> QED BY <1>1, <1>2, <2>2, <2>4, <2>5, <2>6, PublishedOver DEF TypeOK
<1> QED BY <1>3, <1>4

LEMMA DispatchOver ==
    ASSUME TypeOK, NEW d \in Clients, DispatchFrame(d), NEW c \in Clients, CursorInv(c),
           NEW l \in Nat \ {0}, c \notin resynced', OverInv(c, l)
    PROVE  OverInv(c, l)'
<1>1. /\ \A e \in Clients \ {d} : channel'[e] = channel[e] /\ lastEventId'[e] = lastEventId[e]
      /\ UNCHANGED <<sequence, history, link>>
  BY TakeFacts DEF DispatchFrame, TypeOK
<1>2. CASE c # d
  <2>1. remote'[c] = remote[c]
    BY <1>2, DispatchEffect DEF Applied, TypeOK, ChatTypes
  <2> QED BY <1>1, <1>2, <2>1, SameOver
<1>3. CASE c = d
  <2>1. link[c] = "open"
    BY <1>3, DispatchOpen
  <2>2. ~Resyncs(channel[c])
    <3>1. Head(channel[c]).kind # "resync"
      BY <1>3 DEF DispatchFrame
    <3> QED BY <1>3, <3>1, TakeFacts DEF Resyncs, DispatchFrame, TypeOK
  <2>3. ~Knows(l \in remote'[c], channel'[c], c, l)
    BY <1>3, <2>1, <2>2, DispatchKnows DEF OverInv
  <2> QED BY <1>1, <2>1, <2>3 DEF OverInv
<1> QED BY <1>2, <1>3

LEMMA OpenOver ==
    ASSUME TypeOK, HistoryInv, LiveInv, NEW d \in Clients, Open(d),
           NEW c \in Clients \ blind, CursorInv(c), NEW l \in Nat \ {0}, Over(l), OverInv(c, l)
    PROVE  OverInv(c, l)'
<1> DEFINE e == Post(active.from, active.l, "started")
           u == lastEventId[c]
           k == l \in remote[c]
           g == Greeting(u, e)
           r == Frame("ready", sequence, e)
<1>1. e \in Event /\ Connect(d, e) /\ e.state = "started" /\ e.l = active.l /\ remote' = remote
  BY Snapshot DEF Open, TypeOK, Post
<1> HIDE DEF e
<1>2. /\ channel'[d] = Greeting(lastEventId[d], e) /\ link[d] = "off" /\ link'[d] = "open"
      /\ \A x \in Clients \ {d} : channel'[x] = channel[x] /\ link'[x] = link[x]
      /\ UNCHANGED <<sequence, history, lastEventId>>
  BY <1>1, ConnectFacts DEF TypeOK
<1>3. CASE c # d
  BY <1>1, <1>2, <1>3, SameOver
<1>4. CASE c = d
  <2>1. /\ u \in Nat \union {NoCursor} /\ u <= sequence
        /\ u = NoCursor => remote[c] = {}
    BY <1>2, <1>4 DEF CursorInv, TypeOK, HubTypes
\* The snapshot is about another lifecycle: this one is over.
  <2>2. r \in Frames /\ ~Starts(r, c, l) /\ ~Ends(r, c, l)
    <3>1. sequence \in Nat
      BY DEF TypeOK, HubTypes
    <3>2. r \in Frames /\ r.data = e
      BY <1>1, <3>1, FrameFacts
    <3>3. active.l # l
      BY Snapshot DEF TypeOK, LiveInv
    <3> HIDE DEF r
    <3> QED BY <1>1, <3>2, <3>3 DEF Starts, Ends
  <2> HIDE DEF r
  <2>3. ASSUME NEW w \in Seq(Frames), g = w \o <<r>>, Knows(k, g, c, l) PROVE Knows(k, w, c, l)
    <3>1. PICK t : t = w \o <<r>>
      OBVIOUS
    <3>2. Len(t) = Len(w) + 1 /\ t[Len(w) + 1] = r /\ \A i \in 1 .. Len(w) : t[i] = w[i]
      BY <2>2, <3>1, ThenFacts
    <3> HIDE DEF g, k
    <3>3. Knows(k, t, c, l) <=> Knows(k, w, c, l)
      BY <2>2, <3>2, KnowsNext
    <3> QED BY <2>3, <3>1, <3>3
  <2>4. ASSUME Knows(k, g, c, l) PROVE ReplayGap(u)
    <3>1. CASE u = NoCursor
      <4>1. <<>> \in Seq(Frames) /\ Len(<<>>) = 0
        OBVIOUS
      <4>2. ~Knows(k, <<>>, c, l)
        BY <2>1, <3>1, <4>1 DEF Knows
      <4>3. CASE ~ReplayGap(u)
        <5>1. g = <<r>>
          BY <3>1, <4>3 DEF Greeting, r
        <5>2. g = <<>> \o <<r>>
          BY <5>1
        <5> HIDE DEF g
        <5> QED BY <2>3, <2>4, <4>1, <4>2, <5>2
      <4> QED BY <4>3
    <3>2. CASE u # NoCursor /\ ~ReplayGap(u)
      <4>1. g = Newer(u) \o <<r>>
        BY <3>2 DEF Greeting, r
      <4>2. u \in Nat
        BY <2>1, <3>2
      <4>3. Newer(u) \in Seq(Frames)
        BY NewerTypes DEF TypeOK
      <4> HIDE DEF g
      <4>4. Knows(k, Newer(u), c, l)
        BY <2>3, <2>4, <4>1, <4>3
      <4>5. Missed(k, u, Elements(history), c, l)
        BY <2>1, <3>2, <4>2, <4>4, ReplayMissed DEF TypeOK
      <4> QED BY <1>2, <1>4, <3>2, <4>5 DEF OverInv
    <3> QED BY <3>1, <3>2
  <2>5. ReplayGap(u) => Resyncs(g)
    <3> DEFINE q == Frame("resync", sequence, e)
    <3>1. q \in Frames /\ q.kind = "resync"
      BY <1>1, FrameFacts DEF TypeOK, HubTypes
    <3>2. ReplayGap(u) => g = <<q>> \o <<r>>
      BY DEF Greeting, r
    <3> HIDE DEF q, g
    <3>3. PICK x \in Seq(Frames) : x = <<q>> /\ Len(x) = 1 /\ x[1] = q
      <4>1. <<q>> \in Seq(Frames)
        BY <3>1, SingletonFacts
      <4>2. Len(<<q>>) = 1 /\ <<q>>[1] = q
        OBVIOUS
      <4> QED BY <4>1, <4>2
    <3>4. Len(x \o <<r>>) = 2 /\ (x \o <<r>>)[1] = q
      BY <2>2, <3>3, ThenFacts
    <3> QED BY <3>1, <3>2, <3>3, <3>4 DEF Resyncs
  <2>6. channel'[c] = g /\ link'[c] = "open" /\ remote'[c] = remote[c]
    BY <1>1, <1>2, <1>4
  <2> HIDE DEF g, k
  <2>7. Knows(k, channel'[c], c, l) => Resyncs(channel'[c])
    BY <2>4, <2>5, <2>6
  <2> QED BY <2>6, <2>7 DEF OverInv, k
<1> QED BY <1>3, <1>4

LEMMA CloseOver ==
    ASSUME TypeOK, HistoryInv, NEW d \in Clients, Close(d),
           NEW c \in Clients \ blind', CursorInv(c), NEW l, OverInv(c, l)
    PROVE  OverInv(c, l)'
<1> DEFINE u == lastEventId[c]
           H == Elements(history)
           s == channel[c]
<1>1. /\ channel'[d] = <<>> /\ link'[d] = "off" /\ link[d] # "off"
      /\ \A x \in Clients \ {d} : channel'[x] = channel[x] /\ link'[x] = link[x]
      /\ UNCHANGED <<sequence, history, lastEventId, remote>>
      /\ blind' = IF lastEventId[d] = NoCursor THEN blind \union {d} ELSE blind
  BY DisconnectFacts DEF Close, TypeOK, Disconnect
<1>2. CASE c # d
  BY <1>1, <1>2, SameOver
<1>3. CASE c = d
  <2>1. link[c] = "open" /\ u # NoCursor
    BY <1>1, <1>3 DEF CursorInv, TypeOK, HubTypes, Links
  <2>2. /\ s \in Seq(Frames) /\ u \in Nat /\ u <= sequence
        /\ ChannelOK(s, sequence, Oldest, H)
        /\ Resyncs(s) => ReplayGap(u)
        /\ Resyncs(s) \/ Follows(u, s, H)
        /\ Knows(l \in remote[c], s, c, l) => Resyncs(s)
    BY <2>1 DEF CursorInv, OverInv, TypeOK, HubTypes
  <2>3. /\ Oldest \in Nat
        /\ \A x \in H : x.kind = "event" /\ x.id \in Nat /\ x.id >= Oldest
        /\ ReplayGap(u) <=> u < Oldest - 1
    BY <2>1, <2>2, WindowFacts DEF TypeOK, Window
  <2> HIDE DEF s, H, u
  <2>4. ASSUME ~ReplayGap(u), Missed(l \in remote[c], u, H, c, l) PROVE FALSE
    <3>1. ~Resyncs(s) /\ Follows(u, s, H) /\ u >= Oldest - 1
      BY <2>2, <2>3, <2>4
    <3>2. Knows(l \in remote[c], s, c, l)
      BY <2>2, <2>3, <2>4, <3>1, MissedKnown
    <3> QED BY <2>2, <3>1, <3>2
  <2>5. ReplayGap(lastEventId[c])' <=> ReplayGap(u)
    BY <1>1 DEF ReplayGap, OldestRetainedId, u
  <2>6. link'[c] = "off" /\ lastEventId'[c] = u /\ Elements(history') = H /\ remote'[c] = remote[c]
    BY <1>1, <1>3 DEF u, H
  <2> QED BY <2>4, <2>5, <2>6 DEF OverInv
<1> QED BY <1>2, <1>3

LEMMA NextEnd ==
    ASSUME TypeOK, OwnInv, HubInv, EndInv, [Next]_vars PROVE EndInv'
<1> SUFFICES ASSUME faults' = 0
             PROVE  /\ LiveInv'
                    /\ \A c \in Clients \ (blind' \union resynced') : \A l \in 1 .. begun' :
                         Over(l)' => OverInv(c, l)'
  BY DEF EndInv
<1>1. faults = 0 /\ Sound
  BY SoundSteps
<1>2. LiveInv /\ HistoryInv /\ \A c \in Clients : CursorInv(c)
  BY <1>1 DEF EndInv, HubInv
<1>3. LiveInv'
  BY <1>1, <1>2, NextLive
<1> SUFFICES ASSUME NEW c \in Clients \ (blind' \union resynced'), NEW l \in 1 .. begun', Over(l)'
             PROVE  OverInv(c, l)'
  BY <1>3
<1>4. /\ c \notin blind /\ c \notin resynced /\ l \in Nat \ {0} /\ begun \in Nat
      /\ begun' = begun \/ (begun' = begun + 1 /\ \E d \in Clients : Begin(d))
  <2>1. begun' = begun \/ (begun' = begun + 1 /\ \E d \in Clients : Begin(d))
    BY <1>1 DEF Sound, Begin, StartAnswered, Stop, End, Cancel, ServeCancel, CancelAnswered,
       DispatchFrame, Open, Close, Report, counters, vars
  <2>2. blind \subseteq blind' /\ resynced \subseteq resynced'
    BY <1>1 DEF Sound, Begin, StartAnswered, Stop, End, Cancel, ServeCancel, CancelAnswered,
       DispatchFrame, Open, Close, Report, ghosts, vars
  <2>3. begun \in Nat
    BY DEF TypeOK, CountTypes
  <2> QED BY <2>1, <2>2, <2>3
<1>5. Over(l) /\ l \in 1 .. begun => OverInv(c, l)
  BY <1>1, <1>4 DEF EndInv
<1>6. l \in 1 .. begun
  <2>1. ASSUME NEW d \in Clients, Begin(d) PROVE l # begun + 1
    BY <2>1, BeginLives
  <2>2. l # begun + 1 \/ begun' = begun
    BY <1>4, <2>1
  <2> QED BY <1>4, <2>2
<1>7. ASSUME UNCHANGED hubVars, \A d \in Clients : remote'[d] \subseteq remote[d],
             Over(l)' => Over(l)
      PROVE  OverInv(c, l)'
  BY <1>5, <1>6, <1>7, SameOver DEF hubVars
<1>8. ASSUME NEW d \in Clients,
             Begin(d) \/ StartAnswered(d) \/ Stop(d) \/ End(d) \/ Cancel(d) \/ CancelAnswered(d)
      PROVE  OverInv(c, l)'
  <2>1. UNCHANGED hubVars /\ \A x \in Clients : remote'[x] \subseteq remote[x]
    BY <1>8 DEF Begin, StartAnswered, Stop, End, Cancel, CancelAnswered, TypeOK, ChatTypes
  <2>2. CASE Begin(d)
    BY <1>7, <2>1, <2>2, BeginLives
  <2>3. CASE End(d)
    BY <1>7, <2>1, <2>3, EndLives
  <2>4. CASE StartAnswered(d) \/ Stop(d)
    <3>1. Over(l)' => Over(l)
      BY <2>4, LocalSame DEF Over
    <3> QED BY <1>7, <2>1, <3>1
  <2>5. CASE Cancel(d) \/ CancelAnswered(d)
    <3>1. Over(l)' => Over(l)
      BY <2>5 DEF Over, Cancel, CancelAnswered
    <3> QED BY <1>7, <2>1, <3>1
  <2> QED BY <1>8, <2>2, <2>3, <2>4, <2>5
<1>9. ASSUME UNCHANGED vars PROVE OverInv(c, l)'
  <2>1. Over(l)' => Over(l)
    BY <1>9 DEF vars, Over
  <2> QED BY <1>7, <1>9, <2>1 DEF vars
<1>10. ASSUME NEW d \in Clients, Open(d) \/ Close(d) PROVE OverInv(c, l)'
  <2>1. Over(l) /\ OverInv(c, l)
    <3>1. Over(l)
      BY <1>10 DEF Over, Open, Close
    <3> QED BY <1>5, <1>6, <3>1
  <2> QED BY <1>2, <1>4, <1>10, <2>1, OpenOver, CloseOver
<1>11. ASSUME NEW d \in Clients, DispatchFrame(d) PROVE OverInv(c, l)'
  <2>1. Over(l)
    BY <1>11, LocalSame DEF Over
  <2> QED BY <1>2, <1>4, <1>5, <1>6, <1>11, <2>1, DispatchOver
<1>12. ASSUME NEW d \in Clients, ServeCancel(d) PROVE OverInv(c, l)'
  BY <1>2, <1>5, <1>6, <1>12, ServeCancelOver
<1>13. ASSUME NEW p \in posts, Report(p) PROVE OverInv(c, l)'
  BY <1>2, <1>5, <1>6, <1>13, ReportOver
<1> QED BY <1>1, <1>8, <1>9, <1>10, <1>11, <1>12, <1>13 DEF Sound

LEMMA InitEnd == Init => EndInv
BY DEF Init, EndInv, LiveInv

LEMMA RestIsClear ==
    ASSUME TypeOK, OwnInv, EndInv PROVE NoStaleSource
<1> SUFFICES ASSUME AtRest, faults = 0, NEW c \in Clients \ (blind \union resynced),
                    NEW l \in remote[c]
             PROVE  FALSE
  BY DEF NoStaleSource, TypeOK, ChatTypes
<1>1. l \in 1 .. begun
  BY DEF OwnInv, KnownRemote
<1>2. Over(l)
  BY DEF AtRest, Over, NoGeneration
<1>3. OverInv(c, l)
  BY <1>1, <1>2 DEF EndInv
<1>4. link[c] = "open" /\ channel[c] = <<>> /\ Len(<<>>) = 0
  BY DEF AtRest, Drained
<1>5. Knows(TRUE, <<>>, c, l) /\ ~Resyncs(<<>>)
  BY <1>4 DEF Knows, Resyncs
<1>6. Knows(l \in remote[c], <<>>, c, l)
  BY <1>5, KnowsMore
<1> QED BY <1>3, <1>4, <1>5, <1>6 DEF OverInv

\* When every generation has ended and every report has arrived, no client still
\* holds the chat busy, whatever connections were lost in between and whoever
\* cancelled; clients that had to resynchronize, or had no replay cursor when
\* they lost a connection, are exempt (setRemoteChatGeneration,
\* clearRemoteChatGeneration, replayClient).
THEOREM NothingStale == Spec => []NoStaleSource
<1>1. Init => TypeOK /\ OwnInv /\ HubInv /\ EndInv
  BY InitTypes, InitOwn, InitHub, InitEnd
<1>2. TypeOK /\ OwnInv /\ HubInv /\ EndInv /\ [Next]_vars
        => (TypeOK /\ OwnInv /\ HubInv /\ EndInv)'
  BY NextTypes, NextOwn, NextHub, NextEnd
<1>3. TypeOK /\ OwnInv /\ EndInv => NoStaleSource
  BY RestIsClear
<1> QED BY <1>1, <1>2, <1>3, PTL DEF Spec
=============================================================================
