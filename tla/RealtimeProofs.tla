---------------------------- MODULE RealtimeProofs ----------------------------
(***************************************************************************)
(* Proofs about the delivery of events and about a store that is refreshed   *)
(* by them.  Part one: RealtimeDelivery, for any number of clients, any      *)
(* history limit, and any number of events, lost connections and restarts.   *)
(***************************************************************************)
EXTENDS RealtimePage, CharacterStore, FiniteSetTheorems, TLAPS

-----------------------------------------------------------------------------
(* Facts about sequences.                                                    *)

\* An element put behind a sequence.
LEMMA AppendFacts ==
  ASSUME NEW S, NEW s \in Seq(S), NEW e \in S
  PROVE  /\ Append(s, e) \in Seq(S) /\ Len(Append(s, e)) = Len(s) + 1
         /\ \A i \in 1 .. Len(s) : Append(s, e)[i] = s[i]
         /\ Append(s, e)[Len(s) + 1] = e
  OBVIOUS

\* What is left of a sequence without its head.
LEMMA TailFacts ==
  ASSUME NEW S, NEW s \in Seq(S), s # <<>>
  PROVE  /\ Tail(s) \in Seq(S) /\ Len(Tail(s)) = Len(s) - 1 /\ Len(s) \in Nat \ {0}
         /\ \A i \in 1 .. Len(Tail(s)) : Tail(s)[i] = s[i + 1]
         /\ Head(s) = s[1] /\ s[1] \in S
  OBVIOUS

\* The shortest sequences.
LEMMA SingletonFacts ==
  ASSUME NEW S, NEW e \in S
  PROVE  <<>> \in Seq(S) /\ <<e>> \in Seq(S)
  OBVIOUS

\* An element put behind a sequence, by position.
LEMMA ThenFacts ==
  ASSUME NEW S, NEW a \in Seq(S), NEW e \in S
  PROVE  /\ a \o <<e>> \in Seq(S) /\ Len(a \o <<e>>) = Len(a) + 1
         /\ \A i \in 1 .. Len(a) : (a \o <<e>>)[i] = a[i]
         /\ (a \o <<e>>)[Len(a) + 1] = e
  OBVIOUS

\* The end of a sequence, from position m on.
LEMMA SuffixFacts ==
  ASSUME NEW S, NEW s \in Seq(S), NEW m \in 1 .. Len(s) + 1
  PROVE  /\ SubSeq(s, m, Len(s)) \in Seq(S)
         /\ Len(SubSeq(s, m, Len(s))) = Len(s) - m + 1
         /\ \A i \in 1 .. Len(s) - m + 1 : SubSeq(s, m, Len(s))[i] = s[m + i - 1]
  OBVIOUS

-----------------------------------------------------------------------------

\* The retained events are the newest ones, numbered without a hole.
HistoryInv ==
    /\ Len(history) <= sequence
    /\ \A i \in 1 .. Len(history) :
         /\ history[i].kind = "event"
         /\ history[i].id = sequence - Len(history) + i

\* Every numbered frame carries an event that has been published.
Real(f, n) == f.kind = "event" => f.data \in 1 .. n

DataInv ==
    /\ \A i \in 1 .. Len(history) : Real(history[i], published)
    /\ \A c \in Clients : \A i \in 1 .. Len(channel[c]) : Real(channel[c][i], published)

\* Within the life of one process the number of an event is its place in the
\* order of publication, on the hub and on every connection.
EpochInv ==
    /\ published = sequence
    /\ \A i \in 1 .. Len(history) : history[i].data = history[i].id

Carries(ch, id) ==
    \E i \in 1 .. Len(ch) : ch[i].kind = "event" /\ ch[i].id = id

\* What holds of the frames on a connection, whatever the cursor: a resync
\* request can only come first, the event numbers grow, and behind each frame
\* follow all the events newer than it, up to the newest one, s.
ChannelOK(ch, s) ==
    /\ \A i \in 1 .. Len(ch) :
         /\ ch[i].id <= s
         /\ ch[i].kind = "event" => ch[i].data = ch[i].id
         /\ ch[i].kind = "resync" => i = 1
    /\ \A i, j \in 1 .. Len(ch) :
         i < j /\ ch[i].kind = "event" /\ ch[j].kind = "event" => ch[i].id < ch[j].id
    /\ \A i \in 1 .. Len(ch) :
         ch[i].kind # "ready" =>
           \A id \in ch[i].id + 1 .. s : Carries(ch, id)

\* A connected client with a cursor is sent everything newer than it, or a
\* resync request first.
Complete(cursor, ch, s) ==
    \/ \A id \in cursor + 1 .. s : Carries(ch, id)
    \/ Len(ch) > 0 /\ ch[1].kind = "resync"

\* What the client has handled reaches from its first event to its cursor.
CursorInv(c) ==
    IF lastEventId[c] = NoCursor
    THEN /\ from[c] = NotYet
         /\ \A i \in 1 .. Len(channel[c]) : channel[c][i].kind # "resync"
    ELSE /\ from[c] \in Nat \ {0}
         /\ lastEventId[c] <= sequence
         /\ \A n \in from[c] .. lastEventId[c] : n \in seen[c]

ClientInv(c) ==
    /\ link[c] # "ending"
    /\ link[c] = "off" => channel[c] = <<>>
    /\ ChannelOK(channel[c], sequence)
    /\ CursorInv(c)
    /\ link[c] = "open" /\ lastEventId[c] # NoCursor =>
         Complete(lastEventId[c], channel[c], sequence)

\* The inductive invariant.  The hub's half of it outlives a restart; the
\* clients' half is about one process.
DeliveryInv ==
    /\ TypeOK
    /\ HistoryInv
    /\ DataInv
    /\ restarts = 0 => EpochInv /\ \A c \in Clients : ClientInv(c)

----------------------------------------------------------------------------
(* The hub's operators.                                                      *)

\* Trimming keeps the newest events.
LEMMA TrimFacts ==
    ASSUME NEW h \in Seq(Frames)
    PROVE  /\ Trim(h) \in Seq(Frames)
           /\ Len(Trim(h)) <= HistoryLimit
           /\ Len(Trim(h)) <= Len(h)
           /\ \A i \in 1 .. Len(Trim(h)) : Trim(h)[i] = h[Len(h) - Len(Trim(h)) + i]
<1>1. CASE Len(h) > HistoryLimit
  <2> DEFINE m == Len(h) - HistoryLimit + 1
  <2>1. m \in 1 .. Len(h) + 1 /\ Len(h) - m + 1 = HistoryLimit
    BY <1>1, HistoryLimitAssumption
  <2>2. Trim(h) = SubSeq(h, m, Len(h))
    BY <1>1 DEF Trim
  <2>3. /\ SubSeq(h, m, Len(h)) \in Seq(Frames)
        /\ Len(SubSeq(h, m, Len(h))) = Len(h) - m + 1
        /\ \A i \in 1 .. Len(h) - m + 1 : SubSeq(h, m, Len(h))[i] = h[m + i - 1]
    BY <2>1, SuffixFacts
  <2>4. Len(Trim(h)) = HistoryLimit
    BY <2>1, <2>2, <2>3
  <2> QED BY <1>1, <2>2, <2>3, <2>4, HistoryLimitAssumption
<1>2. CASE ~(Len(h) > HistoryLimit)
  BY <1>2, HistoryLimitAssumption DEF Trim
<1> QED BY <1>1, <1>2

\* A cursor inside the window is replayed exactly the events newer than it.
LEMMA NewerFacts ==
    ASSUME TypeOK, HistoryInv, NEW last \in Nat, last <= sequence, ~ReplayGap(last)
    PROVE  /\ Newer(last) \in Seq(Frames)
           /\ Len(Newer(last)) = sequence - last
           /\ \A i \in 1 .. sequence - last :
                \E k \in 1 .. Len(history) :
                  Newer(last)[i] = history[k] /\ history[k].id = last + i
<1> DEFINE n == Len(history)
           older == {i \in DOMAIN history : history[i].id <= last}
           k == last - (sequence - n)
<1>1. /\ history \in Seq(Frames) /\ n \in Nat /\ sequence \in Nat /\ n <= sequence
      /\ DOMAIN history = 1 .. n
  BY DEF TypeOK, HistoryInv
<1>2. k \in 0 .. n
  <2>1. CASE n = 0
    <3>1. history = <<>>
      BY <1>1, <2>1
    <3> QED BY <1>1, <2>1, <3>1 DEF ReplayGap, OldestRetainedId, NoCursor
  <2>2. CASE n > 0
    <3>1. history # <<>> /\ Head(history) = history[1]
      BY <1>1, <2>2
    <3>2. history[1].id = sequence - n + 1
      BY <1>1, <2>2 DEF HistoryInv
    <3> QED BY <1>1, <2>2, <3>1, <3>2 DEF ReplayGap, OldestRetainedId, NoCursor
  <2> QED BY <1>1, <2>1, <2>2
<1>3. older = 1 .. k
  <2>1. \A i \in 1 .. n : history[i].id <= last <=> i <= k
    BY <1>1, <1>2 DEF HistoryInv
  <2> QED BY <1>1, <1>2, <2>1
<1>4. Cardinality(older) = k
  <2> HIDE DEF k, older
  <2>1. k \in Int /\ 0 <= k
    BY <1>1, <1>2
  <2>2. Cardinality(1 .. k) = IF 1 > k THEN 0 ELSE k - 1 + 1
    BY <2>1, FS_Interval
  <2> QED BY <1>3, <2>1, <2>2
<1>5. k + 1 \in 1 .. n + 1
  BY <1>1, <1>2
<1>6. /\ SubSeq(history, k + 1, n) \in Seq(Frames)
      /\ Len(SubSeq(history, k + 1, n)) = n - (k + 1) + 1
      /\ \A i \in 1 .. n - (k + 1) + 1 : SubSeq(history, k + 1, n)[i] = history[k + 1 + i - 1]
  BY <1>1, <1>5, SuffixFacts
<1>7. Newer(last) = SubSeq(history, k + 1, n)
  BY <1>4 DEF Newer
<1>8. n - (k + 1) + 1 = sequence - last
  BY <1>1, <1>2
<1>9. ASSUME NEW i \in 1 .. sequence - last
      PROVE  \E j \in 1 .. n : Newer(last)[i] = history[j] /\ history[j].id = last + i
  <2>1. k + i \in 1 .. n /\ k + 1 + i - 1 = k + i
    BY <1>1, <1>2, <1>8
  <2>2. Newer(last)[i] = history[k + i]
    BY <1>6, <1>7, <1>8, <2>1
  <2>3. history[k + i].id = last + i
    <3>1. \A x \in 1 .. n : history[x].id = sequence - n + x
      BY DEF HistoryInv
    <3>2. sequence - n + (k + i) = last + i
      BY <1>1
    <3> HIDE DEF k, n
    <3> QED BY <2>1, <3>1, <3>2
  <2> QED BY <2>1, <2>2, <2>3
<1> QED BY <1>6, <1>7, <1>8, <1>9

\* A broadcast adds the next number at the end of the history and of every
\* open connection, and trims the history.
LEMMA BroadcastFacts ==
    ASSUME DeliveryInv, Publish
    PROVE  \E f \in Frames :
             /\ f = Frame("event", sequence + 1, published + 1)
             /\ published' = published + 1 /\ sequence' = sequence + 1
             /\ history' = Trim(Append(history, f))
             /\ Append(history, f) \in Seq(Frames)
             /\ channel' \in [Clients -> Seq(Frames)]
             /\ \A c \in Clients :
                  channel'[c] = IF link[c] = "open" THEN Append(channel[c], f)
                                                    ELSE channel[c]
<1> DEFINE f == Frame("event", sequence + 1, published + 1)
<1>1. f \in Frames
  BY DEF DeliveryInv, TypeOK, Frame, Frames
<1>2. /\ published' = published + 1 /\ sequence' = sequence + 1
      /\ history' = Trim(Append(history, f))
      /\ channel' = [c \in Clients |-> IF link[c] = "open" THEN Append(channel[c], f)
                                                           ELSE channel[c]]
  BY DEF Publish, Broadcast
<1>3. history \in Seq(Frames) /\ channel \in [Clients -> Seq(Frames)]
  BY DEF DeliveryInv, TypeOK
<1> HIDE DEF f
<1>4. Append(history, f) \in Seq(Frames)
  BY <1>1, <1>3, AppendFacts
<1>5. \A c \in Clients : Append(channel[c], f) \in Seq(Frames)
  BY <1>1, <1>3, AppendFacts
<1>6. channel' \in [Clients -> Seq(Frames)]
  BY <1>2, <1>3, <1>5
<1>7. \A c \in Clients : channel'[c] = IF link[c] = "open" THEN Append(channel[c], f)
                                                           ELSE channel[c]
  BY <1>2
<1> QED BY <1>1, <1>2, <1>4, <1>6, <1>7 DEF f

\* The history after a broadcast.
LEMMA PublishHistory ==
    ASSUME DeliveryInv, Publish
    PROVE  /\ history' \in Seq(Frames) /\ Len(history') <= HistoryLimit
           /\ HistoryInv'
           /\ \A i \in 1 .. Len(history') :
                \/ \E k \in 1 .. Len(history) : history'[i] = history[k]
                \/ history'[i] = Frame("event", sequence + 1, published + 1)
<1>1. PICK f \in Frames :
        /\ f = Frame("event", sequence + 1, published + 1)
        /\ sequence' = sequence + 1 /\ history' = Trim(Append(history, f))
        /\ Append(history, f) \in Seq(Frames)
  BY BroadcastFacts
<1> DEFINE h == Append(history, f)
           n == Len(history)
           m == Len(Trim(h))
<1>2. history \in Seq(Frames) /\ n \in Nat /\ sequence \in Nat /\ n <= sequence
  BY DEF DeliveryInv, TypeOK, HistoryInv
<1>3. /\ Len(h) = n + 1 /\ h[n + 1] = f
      /\ \A i \in 1 .. n : h[i] = history[i]
  BY <1>1, <1>2, AppendFacts
<1>4. /\ Trim(h) \in Seq(Frames) /\ m <= HistoryLimit /\ m <= n + 1 /\ m \in Nat
      /\ \A i \in 1 .. m : Trim(h)[i] = h[n + 1 - m + i]
  <2>1. h \in Seq(Frames)
    BY <1>1
  <2>2. /\ Trim(h) \in Seq(Frames) /\ m <= HistoryLimit /\ m <= Len(h)
        /\ \A i \in 1 .. m : Trim(h)[i] = h[Len(h) - m + i]
    BY <2>1, TrimFacts
  <2> HIDE DEF h
  <2>3. m \in Nat
    BY <2>2
  <2> QED BY <1>3, <2>2, <2>3
<1>5. f.kind = "event" /\ f.id = sequence + 1
  BY <1>1 DEF Frame
<1>6. \A i \in 1 .. m :
        /\ Trim(h)[i].kind = "event"
        /\ Trim(h)[i].id = sequence + 1 - m + i
        /\ \/ \E k \in 1 .. n : Trim(h)[i] = history[k]
           \/ Trim(h)[i] = f
  <2> SUFFICES ASSUME NEW i \in 1 .. m
               PROVE  /\ Trim(h)[i].kind = "event"
                      /\ Trim(h)[i].id = sequence + 1 - m + i
                      /\ \/ \E k \in 1 .. n : Trim(h)[i] = history[k]
                         \/ Trim(h)[i] = f
    OBVIOUS
  <2> DEFINE k == n + 1 - m + i
  <2>1. k \in 1 .. n + 1 /\ Trim(h)[i] = h[k]
    <3> HIDE DEF h, m, n
    <3> QED BY <1>2, <1>4
  <2>2. CASE k = n + 1
    BY <1>2, <1>3, <1>4, <1>5, <2>1, <2>2
  <2>3. CASE k \in 1 .. n
    <3>1. Trim(h)[i] = history[k]
      BY <1>3, <2>1, <2>3
    <3>2. history[k].kind = "event" /\ history[k].id = sequence - n + k
      BY <2>3 DEF DeliveryInv, HistoryInv
    <3>3. sequence - n + k = sequence + 1 - m + i
      BY <1>2, <1>4
    <3> HIDE DEF h, k, m, n
    <3> QED BY <2>3, <3>1, <3>2, <3>3
  <2> QED BY <1>2, <2>1, <2>2, <2>3
<1>7. HistoryInv'
  <2>1. m <= sequence + 1
    BY <1>2, <1>4
  <2>2. history' = Trim(h) /\ Len(history') = m /\ sequence' = sequence + 1
    BY <1>1
  <2>3. \A i \in 1 .. m : history'[i].kind = "event" /\ history'[i].id = sequence + 1 - m + i
    BY <1>6, <2>2
  <2> HIDE DEF h, m
  <2> QED BY <1>2, <1>4, <2>1, <2>2, <2>3 DEF HistoryInv
<1> QED BY <1>1, <1>4, <1>6, <1>7

----------------------------------------------------------------------------
(* One connection.                                                           *)

\* An event put behind the others keeps the connection complete.
LEMMA AppendKeeps ==
    ASSUME NEW s \in Nat, NEW ch \in Seq(Frames), ChannelOK(ch, s),
           NEW f \in Frames, f = Frame("event", s + 1, s + 1)
    PROVE  /\ ChannelOK(Append(ch, f), s + 1)
           /\ \A cursor \in Nat : cursor <= s /\ Complete(cursor, ch, s) =>
                Complete(cursor, Append(ch, f), s + 1)
<1> DEFINE a == Append(ch, f)
           n == Len(ch)
<1>1. /\ a \in Seq(Frames) /\ Len(a) = n + 1 /\ a[n + 1] = f /\ n \in Nat
      /\ \A i \in 1 .. n : a[i] = ch[i] /\ ch[i] \in Frames
  BY AppendFacts
<1>2. f.kind = "event" /\ f.id = s + 1 /\ f.data = s + 1
  BY DEF Frame
<1> HIDE DEF a, n
<1>3. \A id : Carries(ch, id) \/ id = s + 1 => Carries(a, id)
  <2>1. ASSUME NEW id, Carries(ch, id) PROVE Carries(a, id)
    BY <1>1, <2>1 DEF Carries, n
  <2>2. Carries(a, s + 1)
    BY <1>1, <1>2 DEF Carries
  <2> QED BY <2>1, <2>2
<1>4. \A x \in Nat : (\A id \in x + 1 .. s : Carries(ch, id)) =>
                        \A id \in x + 1 .. s + 1 : Carries(a, id)
  BY <1>3
<1>5. ASSUME NEW i \in 1 .. n + 1
      PROVE  /\ a[i].id <= s + 1
             /\ a[i].kind = "event" => a[i].data = a[i].id
             /\ a[i].kind = "resync" => i = 1
             /\ a[i].kind # "ready" => \A id \in a[i].id + 1 .. s + 1 : Carries(a, id)
  <2>1. CASE i = n + 1
    BY <1>1, <1>2, <2>1
  <2>2. CASE i \in 1 .. n
    <3>1. a[i] = ch[i] /\ ch[i].id \in Nat
      BY <1>1, <2>2 DEF Frames
    <3>2. /\ ch[i].id <= s
          /\ ch[i].kind = "event" => ch[i].data = ch[i].id
          /\ ch[i].kind = "resync" => i = 1
          /\ ch[i].kind # "ready" => \A id \in ch[i].id + 1 .. s : Carries(ch, id)
      BY <2>2 DEF ChannelOK, n
    <3>3. ASSUME ch[i].kind # "ready", NEW id \in ch[i].id + 1 .. s + 1 PROVE Carries(a, id)
      <4>1. id \in ch[i].id + 1 .. s \/ id = s + 1
        BY <3>1
      <4> QED BY <1>3, <3>2, <3>3, <4>1
    <3>4. ch[i].id <= s + 1
      BY <3>1, <3>2
    <3> QED BY <3>1, <3>2, <3>3, <3>4
  <2> QED BY <1>1, <2>1, <2>2
<1>6. ASSUME NEW i \in 1 .. n + 1, NEW j \in 1 .. n + 1,
             i < j, a[i].kind = "event", a[j].kind = "event"
      PROVE  a[i].id < a[j].id
  <2>1. i \in 1 .. n /\ a[i] = ch[i] /\ ch[i].id \in Nat /\ ch[i].id <= s
    <3>1. i \in 1 .. n
      BY <1>1, <1>6
    <3> QED BY <1>1, <3>1 DEF Frames, ChannelOK, n
  <2>2. CASE j = n + 1
    BY <1>1, <1>2, <2>1, <2>2
  <2>3. CASE j \in 1 .. n
    BY <1>1, <1>6, <2>1, <2>3 DEF ChannelOK, n
  <2> QED BY <1>1, <2>2, <2>3
<1>7. ChannelOK(a, s + 1)
  BY <1>1, <1>5, <1>6 DEF ChannelOK
<1>8. ASSUME NEW cursor \in Nat, cursor <= s, Complete(cursor, ch, s)
      PROVE  Complete(cursor, a, s + 1)
  <2>1. CASE \A id \in cursor + 1 .. s : Carries(ch, id)
    BY <1>4, <2>1 DEF Complete
  <2>2. CASE Len(ch) > 0 /\ ch[1].kind = "resync"
    BY <1>1, <2>2 DEF Complete, n
  <2> QED BY <1>8, <2>1, <2>2 DEF Complete
<1> QED BY <1>7, <1>8 DEF a

\* Taking the first frame leaves a connection that is complete behind it.
LEMMA TailKeeps ==
    ASSUME NEW s \in Nat, NEW ch \in Seq(Frames), ch # <<>>, ChannelOK(ch, s)
    PROVE  /\ ChannelOK(Tail(ch), s)
           /\ \A i \in 1 .. Len(Tail(ch)) : Tail(ch)[i].kind # "resync"
           /\ Head(ch).kind # "ready" => Complete(Head(ch).id, Tail(ch), s)
           /\ Head(ch).kind = "ready" =>
                \A cursor \in Nat : Complete(cursor, ch, s) => Complete(cursor, Tail(ch), s)
<1> DEFINE t == Tail(ch)
           n == Len(ch)
<1>1. /\ t \in Seq(Frames) /\ Len(t) = n - 1 /\ n \in Nat \ {0}
      /\ \A i \in 1 .. n - 1 : t[i] = ch[i + 1]
      /\ Head(ch) = ch[1] /\ ch[1] \in Frames
      /\ \A i \in 1 .. n : ch[i] \in Frames
  BY TailFacts
<1> HIDE DEF t, n
<1>2. \A i \in 1 .. n - 1 : i + 1 \in 1 .. n
  BY <1>1
\* Only the number of the first frame can be gone.
<1>3. ASSUME NEW id, Carries(ch, id), ~(ch[1].kind = "event" /\ ch[1].id = id)
      PROVE  Carries(t, id)
  <2>1. PICK k \in 1 .. n : ch[k].kind = "event" /\ ch[k].id = id
    BY <1>3 DEF Carries, n
  <2>2. k # 1 /\ k - 1 \in 1 .. n - 1
    BY <1>1, <1>3, <2>1
  <2>3. t[k - 1] = ch[k]
    BY <1>1, <2>1, <2>2
  <2> QED BY <1>1, <2>1, <2>2, <2>3 DEF Carries
<1>4. ASSUME NEW i \in 1 .. n, ch[i].kind # "ready"
      PROVE  \A id \in ch[i].id + 1 .. s : Carries(t, id)
  <2> SUFFICES ASSUME NEW id \in ch[i].id + 1 .. s PROVE Carries(t, id)
    OBVIOUS
  <2>1. Carries(ch, id)
    BY <1>4 DEF ChannelOK, n
  <2>2. ch[i].id \in Nat /\ ch[1].id \in Nat
    BY <1>1 DEF Frames
  <2>3. CASE ch[1].kind = "event" /\ ch[1].id = id
    <3>1. i # 1
      BY <2>2, <2>3
    <3>2. ch[i].kind = "event"
      BY <1>1, <1>4, <3>1 DEF ChannelOK, Frames, n
    <3>3. ch[1].id < ch[i].id
      <4>1. 1 \in 1 .. n /\ 1 < i
        BY <1>1, <3>1
      <4> QED BY <2>3, <3>2, <4>1 DEF ChannelOK, n
    <3> QED BY <2>2, <2>3, <3>3
  <2> QED BY <1>3, <2>1, <2>3
<1>5. ChannelOK(t, s)
  <2>1. ASSUME NEW i \in 1 .. n - 1
        PROVE  /\ t[i].id <= s
               /\ t[i].kind = "event" => t[i].data = t[i].id
               /\ t[i].kind # "resync"
               /\ t[i].kind # "ready" => \A id \in t[i].id + 1 .. s : Carries(t, id)
    <3>1. t[i] = ch[i + 1] /\ i + 1 \in 1 .. n /\ i + 1 # 1
      BY <1>1, <1>2
    <3>2. /\ ch[i + 1].id <= s
          /\ ch[i + 1].kind = "event" => ch[i + 1].data = ch[i + 1].id
          /\ ch[i + 1].kind = "resync" => i + 1 = 1
      BY <3>1 DEF ChannelOK, n
    <3> QED BY <1>4, <3>1, <3>2
  <2>2. ASSUME NEW i \in 1 .. n - 1, NEW j \in 1 .. n - 1,
               i < j, t[i].kind = "event", t[j].kind = "event"
        PROVE  t[i].id < t[j].id
    <3>1. t[i] = ch[i + 1] /\ t[j] = ch[j + 1] /\ i + 1 < j + 1
      BY <1>1, <2>2
    <3> QED BY <1>2, <2>2, <3>1 DEF ChannelOK, n
  <2> QED BY <1>1, <2>1, <2>2 DEF ChannelOK
<1>6. \A i \in 1 .. n - 1 : t[i].kind # "resync"
  BY <1>1, <1>2 DEF ChannelOK, n
<1>7. ch[1].kind # "ready" => Complete(ch[1].id, t, s)
  BY <1>1, <1>4 DEF Complete
<1>8. ASSUME ch[1].kind = "ready", NEW cursor \in Nat, Complete(cursor, ch, s)
      PROVE  Complete(cursor, t, s)
  BY <1>3, <1>8 DEF Complete
<1> QED BY <1>1, <1>5, <1>6, <1>7, <1>8 DEF t, n

\* A greeting leaves the client of a living process complete.
LEMMA GreetingKeeps ==
    ASSUME TypeOK, HistoryInv, DataInv, EpochInv,
           NEW last \in Nat \union {NoCursor}, last <= sequence
    PROVE  /\ Greeting(last, 0) \in Seq(Frames)
           /\ ChannelOK(Greeting(last, 0), sequence)
           /\ last # NoCursor => Complete(last, Greeting(last, 0), sequence)
           /\ last = NoCursor => \A i \in 1 .. Len(Greeting(last, 0)) :
                                   Greeting(last, 0)[i].kind # "resync"
<1> DEFINE g == Greeting(last, 0)
           r == Frame("ready", sequence, 0)
           q == Frame("resync", sequence, 0)
<1>1. sequence \in Nat /\ r \in Frames /\ q \in Frames
  BY DEF TypeOK, Frames, Frame
<1>2. r.kind = "ready" /\ r.id = sequence /\ q.kind = "resync" /\ q.id = sequence
  BY DEF Frame
<1>3. CASE ReplayGap(last)
  <2>1. g = <<q>> \o <<r>>
    BY <1>3 DEF Greeting
  <2> HIDE DEF r, q, g
  <2>2. PICK x \in Seq(Frames) : x = <<q>> /\ Len(x) = 1 /\ x[1] = q
    <3>1. <<q>> \in Seq(Frames)
      BY <1>1, SingletonFacts
    <3>2. Len(<<q>>) = 1 /\ <<q>>[1] = q
      OBVIOUS
    <3> QED BY <3>1, <3>2
  <2>3. g \in Seq(Frames) /\ Len(g) = 2 /\ g[1] = q /\ g[2] = r
    <3>1. g = x \o <<r>>
      BY <2>1, <2>2
    <3>2. /\ x \o <<r>> \in Seq(Frames) /\ Len(x \o <<r>>) = Len(x) + 1
          /\ \A i \in 1 .. Len(x) : (x \o <<r>>)[i] = x[i]
          /\ (x \o <<r>>)[Len(x) + 1] = r
      BY <1>1, ThenFacts
    <3> QED BY <2>2, <3>1, <3>2
  <2>4. last # NoCursor
    BY <1>3 DEF ReplayGap
  <2>5. \A i \in 1 .. 2 : g[i].id = sequence /\ g[i].kind # "event" /\ (g[i].kind = "resync" => i = 1)
    BY <1>2, <2>3
  <2>6. \A id \in sequence + 1 .. sequence : FALSE
    BY <1>1
  <2>7. ChannelOK(g, sequence)
    BY <1>1, <2>3, <2>5, <2>6 DEF ChannelOK
  <2>8. Complete(last, g, sequence)
    BY <1>2, <2>3 DEF Complete
  <2> QED BY <2>3, <2>4, <2>7, <2>8 DEF g
<1>4. CASE ~ReplayGap(last) /\ last = NoCursor
  <2>1. g = <<r>>
    BY <1>4 DEF Greeting
  <2> HIDE DEF r, q, g
  <2>2. g \in Seq(Frames) /\ Len(g) = 1 /\ g[1] = r
    BY <1>1, <2>1
  <2> QED BY <1>1, <1>2, <1>4, <2>2 DEF ChannelOK, Complete, g
<1>5. CASE ~ReplayGap(last) /\ last # NoCursor
  <2> DEFINE w == Newer(last)
             d == sequence - last
  <2>1. last \in Nat /\ d \in Nat
    BY <1>1, <1>5
  <2>2. /\ w \in Seq(Frames) /\ Len(w) = d
        /\ \A i \in 1 .. d : \E k \in 1 .. Len(history) :
             w[i] = history[k] /\ history[k].id = last + i
    BY <1>5, <2>1, NewerFacts
  <2>3. \A i \in 1 .. d : w[i].kind = "event" /\ w[i].id = last + i /\ w[i].data = last + i
    BY <2>2 DEF HistoryInv, EpochInv
  <2>4. g = w \o <<r>>
    BY <1>5 DEF Greeting
  <2> HIDE DEF r, q, g, w, d
  <2>5. /\ g \in Seq(Frames) /\ Len(g) = d + 1 /\ g[d + 1] = r
        /\ \A i \in 1 .. d : g[i] = w[i]
    BY <1>1, <2>2, <2>4, ThenFacts
  <2>6. ASSUME NEW id \in last + 1 .. sequence PROVE Carries(g, id)
    <3>1. id - last \in 1 .. d /\ last + (id - last) = id
      BY <1>1, <2>1 DEF d
    <3>2. g[id - last].kind = "event" /\ g[id - last].id = id
      BY <2>3, <2>5, <3>1
    <3>3. id - last \in 1 .. Len(g)
      BY <2>1, <2>5, <3>1
    <3> QED BY <3>2, <3>3 DEF Carries
  <2>7. ASSUME NEW i \in 1 .. d + 1
        PROVE  /\ g[i].id <= sequence
               /\ g[i].kind = "event" => i \in 1 .. d /\ g[i].id = last + i /\ g[i].data = g[i].id
               /\ g[i].kind # "resync"
               /\ g[i].kind # "ready" => g[i].id = last + i
    <3>1. CASE i = d + 1
      BY <1>1, <1>2, <2>5, <3>1
    <3>2. CASE i \in 1 .. d
      BY <1>1, <2>1, <2>3, <2>5, <3>2 DEF d
    <3> QED BY <2>1, <3>1, <3>2
  <2>8. \A i \in 1 .. d + 1 : g[i].kind # "ready" =>
          \A id \in g[i].id + 1 .. sequence : Carries(g, id)
    BY <1>1, <2>1, <2>6, <2>7
  <2>9. \A i, j \in 1 .. d + 1 :
          i < j /\ g[i].kind = "event" /\ g[j].kind = "event" => g[i].id < g[j].id
    BY <2>1, <2>7
  <2>10. ChannelOK(g, sequence)
    BY <2>5, <2>7, <2>8, <2>9 DEF ChannelOK
  <2>11. Complete(last, g, sequence)
    BY <2>6 DEF Complete
  <2> QED BY <1>5, <2>5, <2>10, <2>11 DEF g
<1> QED BY <1>3, <1>4, <1>5

----------------------------------------------------------------------------
(* The steps.                                                                *)

LEMMA InitDelivery == DeliveryInit => DeliveryInv
<1> SUFFICES ASSUME DeliveryInit PROVE DeliveryInv
  OBVIOUS
<1> USE DEF DeliveryInit, HubInit
<1>1. TypeOK
  BY HistoryLimitAssumption, BoundsAssumption DEF TypeOK, Links, NoCursor, NotYet
<1>2. HistoryInv /\ DataInv /\ EpochInv
  BY DEF HistoryInv, DataInv, EpochInv
<1>3. \A c \in Clients : ClientInv(c)
  BY DEF ClientInv, ChannelOK, CursorInv, NoCursor, NotYet
<1> QED BY <1>1, <1>2, <1>3 DEF DeliveryInv

LEMMA PublishStep == DeliveryInv /\ Publish => DeliveryInv'
<1> SUFFICES ASSUME DeliveryInv, Publish PROVE DeliveryInv'
  OBVIOUS
<1>1. PICK f \in Frames :
        /\ f = Frame("event", sequence + 1, published + 1)
        /\ published' = published + 1 /\ sequence' = sequence + 1
        /\ channel' \in [Clients -> Seq(Frames)]
        /\ \A c \in Clients :
             channel'[c] = IF link[c] = "open" THEN Append(channel[c], f)
                                               ELSE channel[c]
  BY BroadcastFacts
<1>2. /\ history' \in Seq(Frames) /\ Len(history') <= HistoryLimit
      /\ HistoryInv'
      /\ \A i \in 1 .. Len(history') :
           \/ \E k \in 1 .. Len(history) : history'[i] = history[k]
           \/ history'[i] = f
  BY <1>1, PublishHistory
<1>3. /\ link' = link /\ lastEventId' = lastEventId /\ seen' = seen /\ from' = from
      /\ restarts' = restarts
  BY DEF Publish, Broadcast
<1>4. f.kind = "event" /\ f.id = sequence + 1 /\ f.data = published + 1
  BY <1>1 DEF Frame
<1>5. sequence \in Nat /\ published \in Nat /\ channel \in [Clients -> Seq(Frames)]
  BY DEF DeliveryInv, TypeOK
<1>6. TypeOK'
  <2>1. seen' \in [Clients -> SUBSET (1 .. published')]
    BY <1>1, <1>3, <1>5 DEF DeliveryInv, TypeOK
  <2> QED BY <1>1, <1>2, <1>3, <2>1 DEF DeliveryInv, TypeOK
<1>7. DataInv'
  <2>1. ASSUME NEW i \in 1 .. Len(history') PROVE Real(history'[i], published')
    <3>1. CASE history'[i] = f
      BY <1>1, <1>4, <1>5, <3>1 DEF Real
    <3>2. ASSUME NEW k \in 1 .. Len(history), history'[i] = history[k]
          PROVE  Real(history'[i], published')
      <4>1. Real(history[k], published)
        BY DEF DeliveryInv, DataInv
      <4> QED BY <1>1, <1>5, <3>2, <4>1 DEF Real
    <3> QED BY <1>2, <3>1, <3>2
  <2>2. ASSUME NEW c \in Clients, NEW i \in 1 .. Len(channel'[c])
        PROVE  Real(channel'[c][i], published')
    <3>1. CASE link[c] = "open"
      <4>1. channel'[c] = Append(channel[c], f)
        BY <1>1, <3>1
      <4>2. /\ Len(Append(channel[c], f)) = Len(channel[c]) + 1
            /\ \A k \in 1 .. Len(channel[c]) : Append(channel[c], f)[k] = channel[c][k]
            /\ Append(channel[c], f)[Len(channel[c]) + 1] = f
        BY <1>5, AppendFacts
      <4>3. Len(channel[c]) \in Nat
        BY <1>5
      <4>4. i \in 1 .. Len(channel[c]) \/ i = Len(channel[c]) + 1
        BY <4>1, <4>2, <4>3
      <4>5. channel'[c][i] = f \/ \E k \in 1 .. Len(channel[c]) : channel'[c][i] = channel[c][k]
        BY <4>1, <4>2, <4>4
      <4> QED BY <1>1, <1>4, <1>5, <4>5 DEF DeliveryInv, DataInv, Real
    <3>2. CASE link[c] # "open"
      BY <1>1, <1>5, <3>2 DEF DeliveryInv, DataInv, Real
    <3> QED BY <3>1, <3>2
  <2> QED BY <2>1, <2>2 DEF DataInv
<1>8. ASSUME restarts = 0 PROVE EpochInv'
  <2>1. \A i \in 1 .. Len(history') : history'[i].data = history'[i].id
    BY <1>2, <1>4, <1>8 DEF DeliveryInv, EpochInv
  <2> QED BY <1>1, <1>8, <2>1 DEF DeliveryInv, EpochInv
<1>9. ASSUME restarts = 0, NEW c \in Clients PROVE ClientInv(c)'
  <2>1. ClientInv(c) /\ sequence = published
    BY <1>9 DEF DeliveryInv, EpochInv
  <2>2. CASE link[c] = "open"
    <3>1. channel'[c] = Append(channel[c], f)
      BY <1>1, <2>2
    <3>2. f = Frame("event", sequence + 1, sequence + 1)
      BY <1>1, <2>1
    <3>3. channel[c] \in Seq(Frames) /\ ChannelOK(channel[c], sequence)
      BY <1>5, <2>1 DEF ClientInv
    <3>4. /\ ChannelOK(Append(channel[c], f), sequence + 1)
          /\ \A cursor \in Nat : cursor <= sequence /\ Complete(cursor, channel[c], sequence) =>
               Complete(cursor, Append(channel[c], f), sequence + 1)
      BY <1>5, <3>2, <3>3, AppendKeeps
    <3>5. ChannelOK(channel'[c], sequence')
      BY <1>1, <3>1, <3>4
    <3>6. lastEventId[c] \in Nat \union {NoCursor}
      BY DEF DeliveryInv, TypeOK
    <3>7. lastEventId[c] # NoCursor => Complete(lastEventId'[c], channel'[c], sequence')
      BY <1>1, <1>3, <2>1, <2>2, <3>1, <3>4, <3>6 DEF ClientInv, CursorInv
    <3>8. CursorInv(c)'
      <4>1. CASE lastEventId[c] = NoCursor
        <5>1. \A i \in 1 .. Len(channel[c]) : channel[c][i].kind # "resync"
          BY <2>1, <4>1 DEF ClientInv, CursorInv
        <5>2. /\ Len(Append(channel[c], f)) = Len(channel[c]) + 1
              /\ \A k \in 1 .. Len(channel[c]) : Append(channel[c], f)[k] = channel[c][k]
              /\ Append(channel[c], f)[Len(channel[c]) + 1] = f
              /\ Len(channel[c]) \in Nat
          BY <3>3, AppendFacts
        <5>3. \A i \in 1 .. Len(channel'[c]) : channel'[c][i].kind # "resync"
          BY <1>4, <3>1, <5>1, <5>2
        <5> QED BY <1>3, <2>1, <4>1, <5>3 DEF ClientInv, CursorInv
      <4>2. CASE lastEventId[c] # NoCursor
        BY <1>1, <1>3, <1>5, <2>1, <3>6, <4>2 DEF ClientInv, CursorInv
      <4> QED BY <4>1, <4>2
    <3> QED BY <1>3, <2>1, <2>2, <3>5, <3>7, <3>8 DEF ClientInv
  <2>3. CASE link[c] # "open"
    <3>1. link[c] = "off" /\ channel[c] = <<>> /\ channel'[c] = <<>>
      BY <1>1, <2>1, <2>3 DEF ClientInv, DeliveryInv, TypeOK, Links
    <3>2. ChannelOK(<<>>, sequence')
      BY DEF ChannelOK
    <3>3. CursorInv(c)'
      BY <1>1, <1>3, <1>5, <2>1, <3>1 DEF ClientInv, CursorInv, DeliveryInv, TypeOK
    <3> QED BY <1>3, <3>1, <3>2, <3>3 DEF ClientInv
  <2> QED BY <2>2, <2>3
<1> QED BY <1>2, <1>3, <1>6, <1>7, <1>8, <1>9 DEF DeliveryInv

\* What a greeting carries has been published, whichever process published it.
LEMMA GreetingReal ==
    ASSUME TypeOK, HistoryInv, DataInv, NEW last \in Nat \union {NoCursor}
    PROVE  /\ Greeting(last, 0) \in Seq(Frames)
           /\ \A i \in 1 .. Len(Greeting(last, 0)) : Real(Greeting(last, 0)[i], published)
<1> DEFINE g == Greeting(last, 0)
           r == Frame("ready", sequence, 0)
           q == Frame("resync", sequence, 0)
<1>1. r \in Frames /\ q \in Frames /\ Real(r, published) /\ Real(q, published)
  BY DEF TypeOK, Frames, Frame, Real
<1> HIDE DEF r, q
<1>2. PICK x \in Seq(Frames) :
        /\ g = x \o <<r>> \/ g = <<r>>
        /\ \A i \in 1 .. Len(x) : Real(x[i], published)
  <2>1. CASE ReplayGap(last)
    <3>1. g = <<q>> \o <<r>>
      BY <2>1 DEF Greeting, r, q
    <3>2. <<q>> \in Seq(Frames)
      BY <1>1, SingletonFacts
    <3>3. Len(<<q>>) = 1 /\ <<q>>[1] = q
      OBVIOUS
    <3> HIDE DEF g
    <3>4. \A i \in 1 .. Len(<<q>>) : Real(<<q>>[i], published)
      BY <1>1, <3>3
    <3> QED BY <3>1, <3>2, <3>4
  <2>2. CASE ~ReplayGap(last) /\ last # NoCursor
    <3>1. g = Newer(last) \o <<r>>
      BY <2>2 DEF Greeting, r
    <3>2. last \in Nat /\ last <= sequence
      BY <2>2 DEF ReplayGap, TypeOK
    <3>3. /\ Newer(last) \in Seq(Frames) /\ Len(Newer(last)) = sequence - last
          /\ \A i \in 1 .. sequence - last : \E k \in 1 .. Len(history) :
               Newer(last)[i] = history[k] /\ history[k].id = last + i
      BY <2>2, <3>2, NewerFacts
    <3>4. \A i \in 1 .. Len(Newer(last)) : Real(Newer(last)[i], published)
      BY <3>3 DEF DataInv
    <3> HIDE DEF g
    <3> QED BY <3>1, <3>3, <3>4
  <2>3. CASE ~ReplayGap(last) /\ last = NoCursor
    <3>1. g = <<r>>
      BY <2>3 DEF Greeting, r
    <3> HIDE DEF g
    <3>2. <<>> \in Seq(Frames)
      BY <1>1, SingletonFacts
    <3>3. \A i \in 1 .. Len(<<>>) : Real(<<>>[i], published)
      OBVIOUS
    <3> QED BY <3>1, <3>2, <3>3
  <2> QED BY <2>1, <2>2, <2>3
<1>3. CASE g = x \o <<r>>
  <2>1. /\ x \o <<r>> \in Seq(Frames) /\ Len(x \o <<r>>) = Len(x) + 1
        /\ \A i \in 1 .. Len(x) : (x \o <<r>>)[i] = x[i]
        /\ (x \o <<r>>)[Len(x) + 1] = r
    BY <1>1, ThenFacts
  <2>2. Len(x) \in Nat
    BY <1>2
  <2> HIDE DEF g
  <2>3. \A i \in 1 .. Len(g) : Real(g[i], published)
    BY <1>1, <1>2, <1>3, <2>1, <2>2
  <2> QED BY <1>3, <2>1, <2>3 DEF g
<1>4. CASE g = <<r>>
  <2>1. <<r>> \in Seq(Frames)
    BY <1>1, SingletonFacts
  <2>2. Len(<<r>>) = 1 /\ <<r>>[1] = r
    OBVIOUS
  <2> HIDE DEF g
  <2>3. \A i \in 1 .. Len(g) : Real(g[i], published)
    BY <1>1, <1>4, <2>2
  <2> QED BY <1>4, <2>1, <2>3 DEF g
<1> QED BY <1>2, <1>3, <1>4

LEMMA OpenStep ==
    ASSUME DeliveryInv, NEW c \in Clients, Open(c) PROVE DeliveryInv'
<1> DEFINE last == lastEventId[c]
           g == Greeting(last, 0)
<1>1. /\ link[c] = "off" /\ link' = [link EXCEPT ![c] = "open"]
      /\ channel' = [channel EXCEPT ![c] = g]
      /\ UNCHANGED <<sequence, history, lastEventId, published, seen, from, restarts>>
  BY DEF Open, Connect
<1>2. TypeOK /\ HistoryInv /\ DataInv /\ last \in Nat \union {NoCursor}
  BY DEF DeliveryInv, TypeOK
<1>3. g \in Seq(Frames) /\ \A i \in 1 .. Len(g) : Real(g[i], published)
  BY <1>2, GreetingReal
<1>4. TypeOK'
  BY <1>1, <1>2, <1>3 DEF TypeOK, Links
<1> HIDE DEF g
<1>5. HistoryInv' /\ DataInv'
  <2>1. HistoryInv'
    BY <1>1, <1>2 DEF HistoryInv
  <2>2. \A d \in Clients : channel'[d] = IF d = c THEN g ELSE channel[d]
    BY <1>1, <1>2 DEF TypeOK
  <2> QED BY <1>1, <1>2, <1>3, <2>1, <2>2 DEF DataInv
<1>6. ASSUME restarts = 0 PROVE EpochInv' /\ \A d \in Clients : ClientInv(d)'
  <2>1. EpochInv /\ \A d \in Clients : ClientInv(d)
    BY <1>6 DEF DeliveryInv
  <2>2. EpochInv'
    BY <1>1, <2>1 DEF EpochInv
  <2>3. ASSUME NEW d \in Clients, d # c PROVE ClientInv(d)'
    <3>1. link'[d] = link[d] /\ channel'[d] = channel[d]
      BY <1>1, <1>2, <2>3 DEF TypeOK
    <3> QED BY <1>1, <2>1, <3>1 DEF ClientInv, CursorInv
  <2>4. ClientInv(c)'
    <3>1. last <= sequence
      BY <1>2, <2>1 DEF ClientInv, CursorInv, NoCursor, TypeOK
    <3>2. /\ ChannelOK(g, sequence)
          /\ last # NoCursor => Complete(last, g, sequence)
          /\ last = NoCursor => \A i \in 1 .. Len(g) : g[i].kind # "resync"
      BY <1>2, <2>1, <3>1, GreetingKeeps DEF g
    <3>3. link'[c] = "open" /\ channel'[c] = g
      BY <1>1, <1>2 DEF TypeOK
    <3>4. ClientInv(c)
      BY <2>1
    <3>5. CursorInv(c)'
      BY <1>1, <3>2, <3>3, <3>4 DEF ClientInv, CursorInv
    <3> QED BY <1>1, <3>2, <3>3, <3>5 DEF ClientInv
  <2> QED BY <2>2, <2>3, <2>4
<1> QED BY <1>1, <1>4, <1>5, <1>6 DEF DeliveryInv

LEMMA DisconnectStep ==
    ASSUME DeliveryInv, NEW c \in Clients, Drop(c) \/ NoticeEnd(c) PROVE DeliveryInv'
<1>1. /\ link' = [link EXCEPT ![c] = "off"]
      /\ channel' = [channel EXCEPT ![c] = <<>>]
      /\ UNCHANGED <<sequence, history, lastEventId, published, seen, from, restarts>>
  BY DEF Drop, NoticeEnd, Disconnect
<1>2. TypeOK /\ HistoryInv /\ DataInv
  BY DEF DeliveryInv
<1>4. TypeOK'
  BY <1>1, <1>2 DEF TypeOK, Links
<1>5. \A d \in Clients : channel'[d] = IF d = c THEN <<>> ELSE channel[d]
  BY <1>1, <1>2 DEF TypeOK
<1>6. \A d \in Clients : link'[d] = IF d = c THEN "off" ELSE link[d]
  BY <1>1, <1>2 DEF TypeOK
<1>7. HistoryInv' /\ DataInv'
  BY <1>1, <1>2, <1>5 DEF HistoryInv, DataInv
<1>8. ASSUME restarts = 0 PROVE EpochInv' /\ \A d \in Clients : ClientInv(d)'
  <2>1. EpochInv /\ \A d \in Clients : ClientInv(d)
    BY <1>8 DEF DeliveryInv
  <2>2. EpochInv'
    BY <1>1, <2>1 DEF EpochInv
  <2>3. ASSUME NEW d \in Clients PROVE ClientInv(d)'
    <3>1. CursorInv(d)'
      BY <1>1, <1>5, <2>1 DEF ClientInv, CursorInv
    <3>2. ChannelOK(<<>>, sequence)
      BY DEF ChannelOK
    <3> QED BY <1>1, <1>5, <1>6, <2>1, <3>1, <3>2 DEF ClientInv
  <2> QED BY <2>2, <2>3
<1> QED BY <1>1, <1>4, <1>7, <1>8 DEF DeliveryInv

LEMMA RestartStep == DeliveryInv /\ Restart => DeliveryInv'
<1> SUFFICES ASSUME DeliveryInv, Restart PROVE DeliveryInv'
  OBVIOUS
<1>1. /\ sequence' = 0 /\ history' = <<>> /\ restarts' = restarts + 1
      /\ link' = [c \in Clients |-> IF link[c] = "open" THEN "ending" ELSE link[c]]
      /\ UNCHANGED <<channel, lastEventId, published, seen, from>>
      /\ restarts < MaxRestarts
  BY DEF Restart, HubRestart
<1>2. TypeOK'
  BY <1>1, HistoryLimitAssumption, BoundsAssumption DEF DeliveryInv, TypeOK, Links
<1>3. HistoryInv' /\ DataInv'
  BY <1>1 DEF DeliveryInv, HistoryInv, DataInv
<1>4. restarts' # 0
  BY <1>1, BoundsAssumption DEF DeliveryInv, TypeOK
<1> QED BY <1>2, <1>3, <1>4 DEF DeliveryInv

LEMMA DispatchStep ==
    ASSUME DeliveryInv, NEW c \in Clients, Dispatch(c) PROVE DeliveryInv'
<1> DEFINE ch == channel[c]
           f == Head(ch)
           last == lastEventId[c]
<1>1. /\ ch # <<>>
      /\ channel' = [channel EXCEPT ![c] = Tail(ch)]
      /\ lastEventId' = [lastEventId EXCEPT ![c] = CursorAfter(c, f)]
      /\ seen' = [seen EXCEPT ![c] = SeenAfter(c, f)]
      /\ from' = [from EXCEPT ![c] =
                    IF @ = NotYet /\ f.kind = "event" THEN f.data ELSE @]
      /\ UNCHANGED <<sequence, history, link, published, restarts>>
  BY DEF Dispatch, Take
<1>2. TypeOK /\ HistoryInv /\ DataInv
  BY DEF DeliveryInv
<1>3. ch \in Seq(Frames) /\ sequence \in Nat
  BY <1>2 DEF TypeOK
<1>4. /\ Tail(ch) \in Seq(Frames) /\ Len(Tail(ch)) = Len(ch) - 1 /\ Len(ch) \in Nat \ {0}
      /\ \A i \in 1 .. Len(Tail(ch)) : Tail(ch)[i] = ch[i + 1]
      /\ f = ch[1] /\ f \in Frames
  BY <1>1, <1>3, TailFacts
<1>5. 1 \in 1 .. Len(ch) /\ \A i \in 1 .. Len(Tail(ch)) : i + 1 \in 1 .. Len(ch)
  BY <1>4
<1>6. Real(f, published)
  BY <1>2, <1>4, <1>5 DEF DataInv
<1>7. f.kind \in {"event", "ready", "resync"} /\ f.id \in Nat /\ f.data \in Nat
  BY <1>4 DEF Frames
<1> HIDE DEF f, ch
<1>8. TypeOK'
  <2>1. CursorAfter(c, f) \in Nat \union {NoCursor}
    BY <1>2, <1>7 DEF CursorAfter, TypeOK
  <2>2. SeenAfter(c, f) \in SUBSET (1 .. published)
    BY <1>2, <1>6, <1>7 DEF SeenAfter, TypeOK, Real
  <2>3. (IF from[c] = NotYet /\ f.kind = "event" THEN f.data ELSE from[c]) \in Nat \union {NotYet}
    BY <1>2, <1>7 DEF TypeOK
  <2> QED BY <1>1, <1>2, <1>4, <2>1, <2>2, <2>3 DEF TypeOK
<1>9. \A d \in Clients :
        /\ channel'[d] = IF d = c THEN Tail(ch) ELSE channel[d]
        /\ lastEventId'[d] = IF d = c THEN CursorAfter(c, f) ELSE lastEventId[d]
        /\ seen'[d] = IF d = c THEN SeenAfter(c, f) ELSE seen[d]
        /\ from'[d] = IF d = c THEN IF from[c] = NotYet /\ f.kind = "event"
                                     THEN f.data ELSE from[c]
                               ELSE from[d]
  BY <1>1, <1>2 DEF TypeOK
<1>10. HistoryInv' /\ DataInv'
  <2>1. \A i \in 1 .. Len(Tail(ch)) : Real(Tail(ch)[i], published)
    BY <1>2, <1>4, <1>5 DEF DataInv, ch
  <2> QED BY <1>1, <1>2, <1>9, <2>1 DEF HistoryInv, DataInv
<1>11. ASSUME restarts = 0 PROVE EpochInv' /\ \A d \in Clients : ClientInv(d)'
  <2>1. EpochInv /\ \A d \in Clients : ClientInv(d)
    BY <1>11 DEF DeliveryInv
  <2>2. EpochInv'
    BY <1>1, <2>1 DEF EpochInv
  <2>3. ASSUME NEW d \in Clients, d # c PROVE ClientInv(d)'
    BY <1>1, <1>9, <2>1, <2>3 DEF ClientInv, CursorInv
  <2>4. ClientInv(c)'
    <3>1. ClientInv(c) /\ published = sequence
      BY <2>1 DEF EpochInv
    <3>2. ChannelOK(ch, sequence) /\ link[c] = "open" /\ link' = link
      BY <1>1, <1>2, <3>1 DEF ClientInv, TypeOK, Links, ch
    <3>3. /\ ChannelOK(Tail(ch), sequence)
          /\ \A i \in 1 .. Len(Tail(ch)) : Tail(ch)[i].kind # "resync"
          /\ f.kind # "ready" => Complete(f.id, Tail(ch), sequence)
          /\ f.kind = "ready" =>
               \A cursor \in Nat : Complete(cursor, ch, sequence) =>
                 Complete(cursor, Tail(ch), sequence)
      BY <1>1, <1>3, <3>2, TailKeeps DEF f
    <3>4. f.id <= sequence /\ (f.kind = "event" => f.data = f.id)
      BY <1>4, <1>5, <3>2 DEF ChannelOK
    <3>5. last \in Nat \union {NoCursor}
      BY <1>2 DEF TypeOK
    <3>6. last # NoCursor => Complete(last, ch, sequence)
      BY <3>1, <3>2 DEF ClientInv, ch
    <3>7. CASE f.kind = "ready"
      <4>1. /\ lastEventId'[c] = last /\ seen'[c] = seen[c] /\ from'[c] = from[c]
            /\ channel'[c] = Tail(ch)
        BY <1>9, <3>7 DEF CursorAfter, SeenAfter
      <4>2. CursorInv(c)'
        BY <1>1, <3>1, <3>3, <4>1 DEF ClientInv, CursorInv
      <4>3. last # NoCursor => Complete(last, Tail(ch), sequence)
        BY <3>3, <3>5, <3>6, <3>7
      <4> QED BY <1>1, <3>2, <3>3, <4>1, <4>2, <4>3 DEF ClientInv
    <3>8. CASE f.kind = "event"
      <4>1. /\ lastEventId'[c] = f.id /\ seen'[c] = seen[c] \union {f.id}
            /\ from'[c] = (IF from[c] = NotYet THEN f.id ELSE from[c])
            /\ channel'[c] = Tail(ch)
        BY <1>9, <3>4, <3>8 DEF CursorAfter, SeenAfter
      <4>2. f.id \in Nat \ {0} /\ f.id # NoCursor
        BY <1>6, <1>7, <3>4, <3>8 DEF Real, NoCursor
      <4>3. from'[c] \in Nat \ {0}
        BY <1>2, <3>1, <4>1, <4>2 DEF ClientInv, CursorInv, NotYet
      <4>4. ASSUME NEW n \in from'[c] .. f.id PROVE n \in seen'[c]
        <5>1. CASE last = NoCursor
          <6>1. from'[c] = f.id
            BY <3>1, <4>1, <5>1 DEF ClientInv, CursorInv
          <6> QED BY <4>1, <4>2, <4>4, <6>1
        <5>2. CASE last # NoCursor
          <6>1. /\ from[c] \in Nat \ {0} /\ from'[c] = from[c]
                /\ \A k \in from[c] .. last : k \in seen[c]
            BY <3>1, <4>1, <5>2 DEF ClientInv, CursorInv, NotYet
          <6>2. CASE n <= last \/ n = f.id
            BY <3>5, <4>1, <4>2, <4>4, <5>2, <6>1, <6>2
          <6>3. CASE last < n /\ n < f.id
            <7>1. n \in last + 1 .. sequence
              BY <1>3, <3>4, <3>5, <4>2, <4>3, <4>4, <5>2, <6>3
            <7>2. Carries(ch, n)
              BY <1>4, <3>6, <3>8, <5>2, <7>1 DEF Complete
            <7>3. PICK k \in 1 .. Len(ch) : ch[k].kind = "event" /\ ch[k].id = n
              BY <7>2 DEF Carries
            <7>4. 1 < k
              BY <1>4, <4>2, <6>3, <7>3
            <7>5. ch[1].id < ch[k].id
              BY <1>4, <1>5, <3>2, <3>8, <7>3, <7>4 DEF ChannelOK
            <7> QED BY <1>4, <4>2, <6>3, <7>1, <7>3, <7>5
          <6> QED BY <3>5, <4>2, <4>3, <4>4, <5>2, <6>2, <6>3
        <5> QED BY <5>1, <5>2
      <4>5. CursorInv(c)'
        BY <1>1, <3>4, <4>1, <4>2, <4>3, <4>4 DEF CursorInv
      <4> QED BY <1>1, <3>2, <3>3, <3>8, <4>1, <4>5 DEF ClientInv
    <3>9. CASE f.kind = "resync"
      <4>1. /\ lastEventId'[c] = f.id /\ seen'[c] = 1 .. published
            /\ from'[c] = from[c] /\ channel'[c] = Tail(ch)
        BY <1>9, <3>9 DEF CursorAfter, SeenAfter
      <4>2. last # NoCursor
        BY <1>4, <1>5, <3>1, <3>9 DEF ClientInv, CursorInv, ch
      <4>3. f.id # NoCursor
        BY <1>7 DEF NoCursor
      <4>4. from[c] \in Nat \ {0}
        BY <3>1, <4>2 DEF ClientInv, CursorInv
      <4>5. CursorInv(c)'
        BY <1>1, <1>3, <1>7, <3>1, <3>4, <4>1, <4>3, <4>4 DEF CursorInv
      <4> QED BY <1>1, <3>2, <3>3, <3>9, <4>1, <4>5 DEF ClientInv
    <3> QED BY <1>7, <3>7, <3>8, <3>9
  <2> QED BY <2>2, <2>3, <2>4
<1> QED BY <1>1, <1>8, <1>10, <1>11 DEF DeliveryInv

LEMMA NextDelivery == DeliveryInv /\ [DeliveryNext]_deliveryVars => DeliveryInv'
<1> SUFFICES ASSUME DeliveryInv, [DeliveryNext]_deliveryVars PROVE DeliveryInv'
  OBVIOUS
<1>1. CASE Publish
  BY <1>1, PublishStep
<1>2. CASE Restart
  BY <1>2, RestartStep
<1>3. ASSUME NEW c \in Clients, Open(c) \/ Dispatch(c) \/ Drop(c) \/ NoticeEnd(c)
      PROVE  DeliveryInv'
  BY <1>3, OpenStep, DispatchStep, DisconnectStep
<1>4. CASE UNCHANGED deliveryVars
  BY <1>4 DEF deliveryVars, hubVars, DeliveryInv, TypeOK, HistoryInv, DataInv, EpochInv,
              ClientInv, CursorInv
<1> QED BY <1>1, <1>2, <1>3, <1>4 DEF DeliveryNext

----------------------------------------------------------------------------
(* The theorems.                                                             *)

LEMMA InvariantAlways == DeliverySpec => []DeliveryInv
<1> QED BY InitDelivery, NextDelivery, PTL DEF DeliverySpec

\* Every variable of the hub and of its clients keeps its type across losses
\* and restarts, and the history never outgrows its limit.
THEOREM Typing == DeliverySpec => []TypeOK
<1>1. DeliveryInv => TypeOK
  BY DEF DeliveryInv
<1> QED BY InvariantAlways, <1>1, PTL

\* While one process serves them, clients with a cursor miss nothing: the
\* promise of replayClient for every history limit.
THEOREM ReplayIsLossless == DeliverySpec => []ReplayIsComplete
<1>1. DeliveryInv => ReplayIsComplete
  <2> SUFFICES ASSUME DeliveryInv, restarts = 0, NEW c \in Clients,
                      Drained(c), lastEventId[c] # NoCursor,
                      NEW n \in from[c] .. published
               PROVE  n \in seen[c]
    BY DEF ReplayIsComplete, NothingMissed
  <2>1. /\ ClientInv(c) /\ published = sequence /\ sequence \in Nat
        /\ lastEventId[c] \in Nat
    BY DEF DeliveryInv, EpochInv, TypeOK
  <2>2. from[c] \in Nat \ {0} /\ \A k \in from[c] .. lastEventId[c] : k \in seen[c]
    BY <2>1 DEF ClientInv, CursorInv
  <2>3. \A id : ~Carries(<<>>, id)
    BY DEF Carries
  <2>4. \A id \in lastEventId[c] + 1 .. sequence : FALSE
    BY <2>1, <2>3 DEF Drained, ClientInv, Complete
  <2>5. lastEventId[c] + 1 > sequence
    BY <2>1, <2>4
  <2> QED BY <2>1, <2>2, <2>5
<1> QED BY InvariantAlways, <1>1, PTL

\* What a client is still owed is always on its way to it.
THEOREM InFlight == DeliverySpec => []InFlightIsComplete
<1>1. DeliveryInv => InFlightIsComplete
  <2> SUFFICES ASSUME DeliveryInv, restarts = 0, NEW c \in Clients,
                      link[c] = "open", lastEventId[c] # NoCursor,
                      NEW id \in lastEventId[c] + 1 .. sequence
               PROVE  \E i \in DOMAIN channel[c] :
                        \/ channel[c][i].kind = "event" /\ channel[c][i].id = id
                        \/ channel[c][i].kind = "resync" /\ channel[c][i].id >= id
    BY DEF InFlightIsComplete
  <2>1. /\ ClientInv(c) /\ channel[c] \in Seq(Frames) /\ sequence \in Nat
        /\ DOMAIN channel[c] = 1 .. Len(channel[c]) /\ lastEventId[c] \in Nat
    BY DEF DeliveryInv, TypeOK
  <2>2. CASE Carries(channel[c], id)
    BY <2>1, <2>2 DEF Carries
  <2>3. CASE Len(channel[c]) > 0 /\ channel[c][1].kind = "resync"
    <3>1. 1 \in 1 .. Len(channel[c]) /\ channel[c][1].id \in Nat
      <4>1. 1 \in 1 .. Len(channel[c])
        BY <2>1, <2>3
      <4>2. channel[c][1] \in Frames
        BY <2>1, <4>1
      <4> QED BY <4>1, <4>2 DEF Frames
    <3>2. CASE channel[c][1].id >= id
      BY <2>1, <2>3, <3>1, <3>2
    <3>3. CASE channel[c][1].id < id
      <4>1. id \in channel[c][1].id + 1 .. sequence
        BY <2>1, <3>1, <3>3
      <4>2. Carries(channel[c], id)
        BY <2>1, <2>3, <3>1, <4>1 DEF ClientInv, ChannelOK
      <4> QED BY <2>2, <4>2
    <3> QED BY <2>1, <3>1, <3>2, <3>3
  <2>4. Complete(lastEventId[c], channel[c], sequence)
    BY <2>1 DEF ClientInv
  <2> QED BY <2>2, <2>3, <2>4 DEF Complete
<1> QED BY InvariantAlways, <1>1, PTL

(***************************************************************************)
(* Part two: CharacterStore, the store that reads again what the events      *)
(* announce, for any set of characters and chats, any choice of noted chats, *)
(* any number of edits, failures and flushes.                                *)
(***************************************************************************)

-----------------------------------------------------------------------------
(* The shape of the state.  A row's content is only compared, so it has no    *)
(* type; that of a character is a number, for what a refresh read is older    *)
(* than the changes made after it.                                            *)

Deletable == Characters \cup Chats

FlushShape(f) ==
    /\ f.phase \in {"lookup", "cut", "lost", "commit"}
    /\ f.seen \subseteq Rows /\ f.marked \subseteq Rows /\ f.gone \subseteq Deletable
    /\ DOMAIN f.rows = Rows
    /\ \A c \in Characters : f.rows[c] \in 0 .. edits
    /\ f.stamps \in [Characters -> 1 .. edits] /\ f.touched \in [Characters -> 0 .. edits]
    /\ f.touchMarks \in [Characters -> 0 .. edits]
    /\ DOMAIN f = {"phase", "seen", "done", "rows", "stamps", "touched", "gone", "chat", "position",
                   "marked", "touchMarks"}

RefreshShape(q) ==
    /\ q.phase \in {"characters", "everything"} /\ q.since \in 1 .. edits
    /\ \A c \in Characters : q.rows[c] \in 0 .. q.since
    /\ q.stamps \in [Characters -> 1 .. edits]
    /\ q.phase = "characters" => q.pending = {}

Shape ==
    /\ edits \in Nat \ {0}
    /\ \A r \in Rows : newest[r] \in 0 .. edits
    /\ DOMAIN db = Rows
    /\ \A c \in Characters : local[c] \in 0 .. edits /\ db[c] \in 0 .. edits
    /\ stamp \in [Characters -> 1 .. edits] /\ dbStamp \in [Characters -> 1 .. edits]
    /\ touches \in [Characters -> 0 .. edits]
    /\ dirty \subseteq Rows /\ deletes \subseteq Deletable
    /\ announced \in {"nothing", "characters", "everything"}
    /\ flush = None \/ FlushShape(flush)
    /\ refresh = None \/ RefreshShape(refresh)

-----------------------------------------------------------------------------
(* How the parts of a flush relate to the marks.                              *)

Moving == flush.phase = "commit"

FlushInv ==
    flush # None =>
        /\ flush.phase = "lookup" => flush.chat \in dirty \cap Chats
        /\ ~Moving => flush.gone \subseteq Characters
        /\ \A r \in Rows : flush.rows[r] # Absent => r \in flush.seen
        /\ \A c \in Characters : c \in flush.gone \/ flush.touched[c] # Absent
                                 => flush.rows[c] = Absent
        /\ \A r \in flush.gone : newest[r] # Absent

MarkInv ==
    /\ \A c \in Characters \cap dirty : touches[c] = Absent
    /\ \A r \in deletes : r \notin Held /\ newest[r] # Absent

\* A chat is nowhere without its character.
Rooted(f) == \A x \in Chats : f[x] # Absent => f[Owner[x]] # Absent

RootedInv == Rooted(local) /\ Rooted(db) /\ (refresh # None => Rooted(refresh.rows))

-----------------------------------------------------------------------------
(* A row that is there.                                                       *)

Going(r) == r \in deletes \/ (r \in Chats /\ Owner[r] \in deletes)

SentGone(r) ==
    /\ Moving
    /\ r \in flush.gone \/ (r \in Chats /\ Owner[r] \in flush.gone /\ Owner[r] \notin Held)

Covered(r) == r \in dirty \/ (Moving /\ r \in flush.seen /\ flush.rows[r] = newest[r])

Doomed(r) == r \in flush.gone \/ (r \in Chats /\ Owner[r] \in flush.gone)

\* The refresh that is to come shows what the database has of character r.
ToCome(r) == r \in Characters /\ (announced # "nothing" \/ (refresh # None /\ newest[r] <= refresh.since))

HeldInv(r) ==
    /\ \/ Covered(r)
       \/ saved[r] = newest[r] /\ db[r] # Absent /\ (local[r] = db[r] \/ ToCome(r))
    /\ r \in dirty \/ (Moving /\ r \in flush.marked) => local[r] = newest[r]
    /\ Moving /\ r \in Written(flush) => flush.rows[r] = newest[r] \/ r \in dirty
    /\ flush # None /\ r \in flush.seen => r \in dirty \/ (Moving /\ r \in flush.marked)
    /\ flush # None /\ Doomed(r) =>
         r \in dirty \/ (Moving /\ r \in Chats /\ Owner[r] \in flush.gone /\ r \in Written(flush))

(* A row that is not.                                                         *)
GoneInv(r) ==
    /\ Going(r) \/ SentGone(r) \/ (saved[r] = newest[r] /\ db[r] = Absent)
    /\ r \in dirty => Going(r)
    /\ flush # None /\ r \in flush.seen => Going(r) \/ SentGone(r)
    /\ Moving /\ r \in flush.marked => Going(r) \/ SentGone(r)

RowInv == \A r \in Rows \ overlooked : IF r \in Held THEN HeldInv(r) ELSE GoneInv(r)

-----------------------------------------------------------------------------
(* The stamp of a character.                                                  *)

StampSaved(c) ==
    \/ stamp[c] = dbStamp[c] \/ c \in dirty \/ touches[c] = stamp[c]
    \/ /\ Moving
       /\ \/ c \in Written(flush) /\ flush.stamps[c] = stamp[c]
          \/ flush.touched[c] = stamp[c]

StampSent(c) ==
    /\ flush # None /\ ~Moving /\ c \notin dirty /\ flush.stamps[c] = stamp[c]
         => flush.touched[c] = touches[c]
    /\ flush # None /\ flush.touched[c] # Absent
         => flush.touched[c] = flush.stamps[c] \/ c \in dirty
    /\ Moving =>
         /\ flush.stamps[c] = stamp[c] \/ c \in dirty \/ touches[c] = stamp[c]
         /\ flush.touchMarks[c] # Absent =>
              \/ c \in dirty
              \/ flush.touchMarks[c] = flush.stamps[c] /\ flush.touchMarks[c] <= stamp[c]
         /\ flush.touched[c] # Absent /\ c \notin dirty => flush.touchMarks[c] = flush.touched[c]

StampInv ==
    \A c \in Characters \ overlooked :
        c \in Held =>
            /\ StampSaved(c)
            /\ touches[c] # Absent => touches[c] = stamp[c]
            /\ StampSent(c)

-----------------------------------------------------------------------------
(* What a refresh has read is older than every mark that there is, but for    *)
(* those it found when it read everything.                                    *)

Marked == dirty \cup deletes \cup
          (IF flush = None THEN {} ELSE flush.seen \cup flush.gone \cup flush.marked)

TouchedSince(c) ==
    touches[c] # Absent \/ (flush # None /\ (flush.touched[c] # Absent \/ flush.touchMarks[c] # Absent))

Early(r) == newest[r] <= refresh.since /\ r \notin refresh.pending

ReadRow(r) ==
    Early(r) =>
        IF r \in Held
        THEN \/ refresh.rows[r] = db[r]
             \/ r \in Characters /\ announced # "nothing" /\ refresh.rows[r] # Absent
        ELSE saved[r] = newest[r] /\ db[r] = Absent /\ refresh.rows[r] = Absent

ReadStamp(c) ==
    Early(c) /\ stamp[c] <= refresh.since /\ c \in Held =>
        refresh.stamps[c] = stamp[c] /\ dbStamp[c] = stamp[c]

RefreshInv ==
    refresh # None =>
        /\ \A r \in Marked : newest[r] > refresh.since \/ r \in refresh.pending
        /\ \A c \in Characters :
             /\ TouchedSince(c) => stamp[c] > refresh.since \/ c \in refresh.pending
             /\ c \in Held /\ newest[c] > refresh.since => local[c] = newest[c]
        /\ \A r \in Rows \ overlooked : ReadRow(r)
        /\ \A c \in Characters \ overlooked : ReadStamp(c)

StoreInv == Shape /\ FlushInv /\ MarkInv /\ RootedInv /\ RowInv /\ StampInv /\ RefreshInv

-----------------------------------------------------------------------------
(* Facts about the constants and the records.                                 *)

LEMMA RowFacts ==
  /\ \A c \in Characters : c \in Rows /\ c \notin Chats /\ c \notin Lists /\ c \in Deletable
  /\ \A x \in Chats : /\ x \in Rows /\ x \notin Characters /\ x \notin Lists /\ x \in Deletable
                      /\ Owner[x] \in Characters
  /\ \A r \in Rows : r \in Characters \/ r \in Chats \/ r \in Lists
  /\ \A r \in Lists : r \in Rows /\ r \notin Deletable
  /\ Order \in Lists /\ \A c \in Characters : Manifest[c] \in Lists
  /\ \A r \in Deletable : r \in Rows
BY ChatsAssumption, RowsAssumption DEF Rows, Lists, Deletable

LEMMA HeldFacts == \A r \in Rows : r \in Held <=> local[r] # Absent
BY DEF Held

LEMMA NextHeldFacts == \A r \in Rows : r \in Held' <=> local'[r] # Absent
BY DEF Held

\* Which flushes there are.
LEMMA PhaseFacts ==
  ASSUME Shape
  PROVE  /\ flush = None => ~Moving /\ flush.phase # "lookup"
         /\ flush # None => FlushShape(flush)
         /\ Moving => flush # None
         /\ refresh # None => RefreshShape(refresh)
BY DEF Shape, FlushShape, None, Moving

-----------------------------------------------------------------------------
(* Changes of the rows.  The rows of S get new content and are marked, those   *)
(* of gone disappear and D is what is marked as deleted for them.             *)

Changed(S, gone, D) ==
    /\ Change(S, gone, S) /\ deletes' = deletes \cup D
    /\ S \subseteq Rows /\ gone \subseteq Deletable /\ D \subseteq gone /\ S \cap gone = {}
    /\ \A r \in S : r \in Held \/ newest[r] = Absent \/ r \in Lists
    /\ \A r \in gone : r \in D \/ (r \in Chats /\ Owner[r] \in D)
    /\ Rooted(local')

LEMMA ChangeFacts ==
  ASSUME NEW STATE S, NEW STATE gone, NEW STATE D, Changed(S, gone, D), Shape
  PROVE  /\ edits' = edits + 1 /\ edits \in Nat /\ edits' \in Nat \ {0} /\ edits' # Absent
         /\ \A r \in Rows :
              /\ r \in S => local'[r] = edits' /\ newest'[r] = edits' /\ r \in Held' /\ r \in dirty'
                            /\ r \notin overlooked' /\ r \notin gone
              /\ r \in gone => local'[r] = Absent /\ newest'[r] = edits' /\ r \notin Held'
                            /\ r \notin overlooked'
              /\ r \notin S /\ r \notin gone =>
                    /\ local'[r] = local[r] /\ newest'[r] = newest[r]
                    /\ (r \in Held' <=> r \in Held) /\ (r \in dirty' <=> r \in dirty)
                    /\ (r \in overlooked' <=> r \in overlooked)
         /\ \A c \in Characters : touches'[c] = IF c \in S THEN Absent ELSE touches[c]
         /\ touches' = [c \in Characters |-> IF c \in S THEN Absent ELSE touches[c]]
         /\ dirty' = dirty \cup S /\ deletes' = deletes \cup D
         /\ stamp' = stamp /\ db' = db /\ dbStamp' = dbStamp /\ flush' = flush
         /\ announced' = announced /\ refresh' = refresh /\ saved' = saved
<1>1. edits \in Nat \ {0} /\ edits' = edits + 1
  BY DEF Changed, Change, NextEdit, Shape
<1>2. edits' \in Nat \ {0} /\ edits' # Absent
  BY <1>1 DEF Absent
<1>3. /\ local' = [r \in Rows |-> IF r \in gone THEN Absent ELSE IF r \in S THEN edits' ELSE local[r]]
      /\ newest' = [r \in Rows |-> IF r \in S \cup gone THEN edits' ELSE newest[r]]
      /\ dirty' = dirty \cup S /\ overlooked' = overlooked \ (S \cup gone)
      /\ S \cap gone = {}
  BY DEF Changed, Change
<1>4. \A r \in Rows :
        /\ local'[r] = IF r \in gone THEN Absent ELSE IF r \in S THEN edits' ELSE local[r]
        /\ newest'[r] = IF r \in S \cup gone THEN edits' ELSE newest[r]
  BY <1>3
<1>5. /\ touches' = [c \in Characters |-> IF c \in S THEN Absent ELSE touches[c]]
      /\ deletes' = deletes \cup D
      /\ stamp' = stamp /\ db' = db /\ dbStamp' = dbStamp /\ flush' = flush
      /\ announced' = announced /\ refresh' = refresh /\ saved' = saved
  BY DEF Changed, Change, database, remoteState
<1>6. \A r \in Rows : (r \in Held <=> local[r] # Absent) /\ (r \in Held' <=> local'[r] # Absent)
  BY HeldFacts, NextHeldFacts
<1> QED BY <1>1, <1>2, <1>3, <1>4, <1>5, <1>6

LEMMA ChangeShape ==
  ASSUME NEW STATE S, NEW STATE gone, NEW STATE D, Changed(S, gone, D), Shape PROVE Shape'
<1>1. S \subseteq Rows /\ D \subseteq Deletable
  BY DEF Changed
<1>2. \A c \in Characters : c \in Rows
  BY RowFacts
<1>3. \A r \in Rows : newest'[r] \in 0 .. edits'
  BY ChangeFacts DEF Shape, Absent
<1>4. \A c \in Characters : local'[c] \in 0 .. edits' /\ db'[c] \in 0 .. edits'
  BY <1>2, ChangeFacts DEF Shape, Absent
<1>5. /\ stamp' \in [Characters -> 1 .. edits'] /\ dbStamp' \in [Characters -> 1 .. edits']
      /\ touches' \in [Characters -> 0 .. edits']
  BY ChangeFacts DEF Shape, Absent
<1>6. flush' = None \/ FlushShape(flush)'
  <2>1. edits' = edits + 1 /\ edits \in Nat /\ flush' = flush
    BY ChangeFacts
  <2>2. \A n : n \in 0 .. edits => n \in 0 .. edits'
    BY <2>1
  <2>3. \A n : n \in 1 .. edits => n \in 1 .. edits'
    BY <2>1
  <2> QED BY <2>1, <2>2, <2>3 DEF Shape, FlushShape
<1>7. refresh' = None \/ RefreshShape(refresh)'
  <2>1. edits' = edits + 1 /\ edits \in Nat /\ refresh' = refresh
    BY ChangeFacts
  <2>2. \A n : n \in 1 .. edits => n \in 1 .. edits'
    BY <2>1
  <2> QED BY <2>1, <2>2 DEF Shape, RefreshShape
<1>8. edits' \in Nat \ {0} /\ DOMAIN db' = Rows /\ announced' \in {"nothing", "characters", "everything"}
  BY ChangeFacts DEF Shape
<1>9. dirty' \subseteq Rows /\ deletes' \subseteq Deletable
  BY <1>1, ChangeFacts DEF Shape
<1> QED BY <1>3, <1>4, <1>5, <1>6, <1>7, <1>8, <1>9 DEF Shape

LEMMA ChangeFlush ==
  ASSUME NEW STATE S, NEW STATE gone, NEW STATE D, Changed(S, gone, D), Shape, FlushInv PROVE FlushInv'
<1>1. /\ flush' = flush /\ dirty \subseteq dirty' /\ edits' # Absent
      /\ \A r \in Rows : newest'[r] = edits' \/ newest'[r] = newest[r]
  BY ChangeFacts
<1>2. flush # None => flush.gone \subseteq Rows
  BY RowFacts, PhaseFacts DEF FlushShape
<1> QED BY <1>1, <1>2 DEF FlushInv, Moving

LEMMA ChangeMarks ==
  ASSUME NEW STATE S, NEW STATE gone, NEW STATE D, Changed(S, gone, D), Shape, MarkInv PROVE MarkInv'
<1>1. ASSUME NEW c \in Characters, c \in dirty' PROVE touches'[c] = Absent
  BY <1>1, ChangeFacts DEF MarkInv
<1>2. ASSUME NEW r \in deletes' PROVE r \notin Held' /\ newest'[r] # Absent
  <2>1. /\ S \cap gone = {} /\ D \subseteq gone /\ gone \subseteq Deletable
        /\ \A q \in S : q \in Held \/ newest[q] = Absent \/ q \in Lists
    BY DEF Changed
  <2>2. r \in Rows /\ r \notin Lists
    BY <2>1, <1>2, RowFacts, ChangeFacts DEF Shape
  <2>3. CASE r \in gone
    BY <2>2, <2>3, ChangeFacts
  <2>4. CASE r \notin gone
    <3>1. r \in deletes
      BY <1>2, <2>1, <2>4, ChangeFacts
    <3>2. r \notin Held /\ newest[r] # Absent
      BY <3>1 DEF MarkInv
    <3>3. r \notin S
      BY <2>1, <2>2, <3>2
    <3> QED BY <2>2, <2>4, <3>2, <3>3, ChangeFacts
  <2> QED BY <2>3, <2>4
<1> QED BY <1>1, <1>2 DEF MarkInv

LEMMA ChangeRooted ==
  ASSUME NEW STATE S, NEW STATE gone, NEW STATE D, Changed(S, gone, D), Shape, RootedInv PROVE RootedInv'
<1>1. db' = db /\ refresh' = refresh
  BY ChangeFacts
<1>2. Rooted(local')
  BY DEF Changed
<1> QED BY <1>1, <1>2 DEF RootedInv, Rooted

LEMMA ChangeRows ==
  ASSUME NEW STATE S, NEW STATE gone, NEW STATE D, Changed(S, gone, D), StoreInv PROVE RowInv'
<1>1. Shape /\ FlushInv /\ MarkInv /\ RowInv
  BY DEF StoreInv
<1>2. /\ flush' = flush /\ db' = db /\ saved' = saved /\ announced' = announced
      /\ refresh' = refresh /\ deletes \subseteq deletes' /\ edits' # Absent
      /\ edits' = edits + 1 /\ edits \in Nat
  BY <1>1, ChangeFacts
<1>3. ASSUME NEW r \in Rows, r \in S PROVE r \in Held' /\ HeldInv(r)'
  BY <1>1, <1>3, ChangeFacts DEF HeldInv, Covered
<1>4. ASSUME NEW r \in Rows, r \in gone PROVE r \notin Held' /\ GoneInv(r)'
  <2>1. Going(r)'
    BY <1>1, <1>4, ChangeFacts DEF Changed, Going
  <2> QED BY <1>1, <1>4, <2>1, ChangeFacts DEF GoneInv
<1>5. ASSUME NEW r \in Rows, r \notin S, r \notin gone, r \notin overlooked'
      PROVE  IF r \in Held' THEN HeldInv(r)' ELSE GoneInv(r)'
  <2>1. /\ local'[r] = local[r] /\ newest'[r] = newest[r] /\ (r \in Held' <=> r \in Held)
        /\ (r \in dirty' <=> r \in dirty) /\ r \notin overlooked
    BY <1>1, <1>5, ChangeFacts
  <2>2. IF r \in Held THEN HeldInv(r) ELSE GoneInv(r)
    BY <1>1, <2>1 DEF RowInv
  <2>3. CASE r \in Held
    BY <1>2, <2>1, <2>2, <2>3 DEF HeldInv, Covered, ToCome, Doomed, Moving, Written
  <2>4. CASE r \notin Held
    <3>1. Going(r) => Going(r)'
      BY <1>2 DEF Going
    <3>2. SentGone(r) => SentGone(r)'
      <4>1. ASSUME NEW c \in Characters, flush # None, c \in flush.gone, c \notin Held PROVE c \notin Held'
        <5>1. newest[c] # Absent /\ c \notin Lists /\ c \in Rows
          BY <1>1, <4>1, RowFacts DEF FlushInv
        <5>2. c \notin S
          BY <4>1, <5>1 DEF Changed
        <5> QED BY <1>1, <4>1, <5>1, <5>2, ChangeFacts
      <4>2. r \in Chats => Owner[r] \in Characters
        BY RowFacts
      <4>3. Moving => flush # None
        BY <1>1, PhaseFacts
      <4> QED BY <1>2, <4>1, <4>2, <4>3 DEF SentGone, Moving
    <3> QED BY <1>2, <2>1, <2>2, <2>4, <3>1, <3>2 DEF GoneInv, Moving
  <2> QED BY <2>1, <2>3, <2>4
<1>6. ASSUME NEW r \in Rows, r \notin overlooked'
      PROVE  IF r \in Held' THEN HeldInv(r)' ELSE GoneInv(r)'
  BY <1>3, <1>4, <1>5, <1>6
<1> QED BY <1>6 DEF RowInv

LEMMA ChangeStamps ==
  ASSUME NEW STATE S, NEW STATE gone, NEW STATE D, Changed(S, gone, D), StoreInv PROVE StampInv'
<1>1. Shape /\ StampInv
  BY DEF StoreInv
<1>2. flush' = flush /\ stamp' = stamp /\ dbStamp' = dbStamp
  BY <1>1, ChangeFacts
<1>3. SUFFICES ASSUME NEW c \in Characters, c \notin overlooked', c \in Held'
               PROVE  /\ StampSaved(c)' /\ (touches'[c] # Absent => touches'[c] = stamp'[c])
                      /\ StampSent(c)'
  BY DEF StampInv
<1>4. c \in Rows /\ c \notin gone
  BY <1>1, <1>3, RowFacts, ChangeFacts
<1>5. CASE c \in S
  <2>1. c \in dirty' /\ touches'[c] = Absent
    BY <1>1, <1>4, <1>5, ChangeFacts
  <2> QED BY <2>1 DEF StampSaved, StampSent
<1>6. CASE c \notin S
  <2>1. touches'[c] = touches[c] /\ (c \in dirty' <=> c \in dirty) /\ c \notin overlooked /\ c \in Held
    BY <1>1, <1>3, <1>4, <1>6, ChangeFacts
  <2>2. StampSaved(c) /\ (touches[c] # Absent => touches[c] = stamp[c]) /\ StampSent(c)
    BY <1>1, <2>1 DEF StampInv
  <2> QED BY <1>2, <2>1, <2>2 DEF StampSaved, StampSent, Moving, Written
<1> QED BY <1>5, <1>6

LEMMA ChangeRefresh ==
  ASSUME NEW STATE S, NEW STATE gone, NEW STATE D, Changed(S, gone, D), StoreInv PROVE RefreshInv'
<1>1. Shape /\ RefreshInv
  BY DEF StoreInv
<1>2. /\ flush' = flush /\ db' = db /\ saved' = saved /\ announced' = announced
      /\ refresh' = refresh /\ stamp' = stamp /\ dbStamp' = dbStamp
      /\ dirty' = dirty \cup S /\ deletes' = deletes \cup D
  BY <1>1, ChangeFacts
<1>3. SUFFICES ASSUME refresh # None PROVE RefreshInv'
  BY <1>2 DEF RefreshInv
<1>4. refresh.since \in Nat /\ edits' > refresh.since
  <2>1. refresh.since \in 1 .. edits
    BY <1>1, <1>3, PhaseFacts DEF RefreshShape
  <2>2. edits' = edits + 1 /\ edits \in Nat
    BY <1>1, ChangeFacts
  <2> QED BY <2>1, <2>2
<1>5. \A r \in Rows : /\ r \in S \cup gone => newest'[r] > refresh.since
                      /\ r \notin S \cup gone => newest'[r] = newest[r]
  BY <1>1, <1>4, ChangeFacts
<1>6. ASSUME NEW r \in Marked' PROVE newest'[r] > refresh.since \/ r \in refresh.pending
  <2>1. r \in Marked \/ r \in S \cup D
    BY <1>2, <1>6 DEF Marked
  <2>2. Marked \subseteq Rows
    BY <1>1, RowFacts, PhaseFacts DEF Marked, Shape, FlushShape
  <2>3. S \subseteq Rows /\ D \subseteq gone /\ gone \subseteq Rows
    BY RowFacts DEF Changed
  <2> QED BY <1>1, <1>3, <1>5, <2>1, <2>2, <2>3 DEF RefreshInv
<1>7. ASSUME NEW c \in Characters
      PROVE  /\ TouchedSince(c)' => stamp'[c] > refresh'.since \/ c \in refresh'.pending
             /\ c \in Held' /\ newest'[c] > refresh'.since => local'[c] = newest'[c]
  <2>1. TouchedSince(c)' => TouchedSince(c)
    BY <1>1, <1>2, ChangeFacts DEF TouchedSince
  <2>2. c \in Rows
    BY RowFacts
  <2>3. c \in Held' /\ newest'[c] > refresh'.since => local'[c] = newest'[c]
    BY <1>1, <1>2, <1>3, <2>2, ChangeFacts DEF RefreshInv
  <2> QED BY <1>1, <1>2, <1>3, <2>1, <2>3 DEF RefreshInv
<1>8. ASSUME NEW r \in Rows, r \notin overlooked' PROVE ReadRow(r)'
  <2>1. SUFFICES ASSUME newest'[r] <= refresh.since, r \notin refresh.pending PROVE ReadRow(r)'
    BY <1>2 DEF ReadRow, Early
  <2>2. r \notin S /\ r \notin gone
    <3>1. newest'[r] \in Nat
      BY <1>1, ChangeShape DEF Shape
    <3> QED BY <1>4, <1>5, <2>1, <3>1
  <2>3. /\ newest'[r] = newest[r] /\ (r \in Held' <=> r \in Held) /\ r \notin overlooked
    BY <1>1, <1>8, <2>2, ChangeFacts
  <2>4. ReadRow(r)
    BY <1>1, <1>3, <2>3 DEF RefreshInv
  <2> QED BY <1>2, <2>3, <2>4 DEF ReadRow, Early
<1>9. ASSUME NEW c \in Characters, c \notin overlooked' PROVE ReadStamp(c)'
  <2>1. c \in Rows
    BY RowFacts
  <2>2. SUFFICES ASSUME newest'[c] <= refresh.since PROVE ReadStamp(c)'
    BY <1>2 DEF ReadStamp, Early
  <2>3. c \notin S /\ c \notin gone
    <3>1. newest'[c] \in Nat
      BY <1>1, <2>1, ChangeShape DEF Shape
    <3> QED BY <1>4, <1>5, <2>1, <2>2, <3>1
  <2>4. /\ newest'[c] = newest[c] /\ (c \in Held' <=> c \in Held) /\ c \notin overlooked
    BY <1>1, <1>9, <2>1, <2>3, ChangeFacts
  <2>5. ReadStamp(c)
    BY <1>1, <1>3, <2>4 DEF RefreshInv
  <2> QED BY <1>2, <2>4, <2>5 DEF ReadStamp, Early
<1> QED BY <1>2, <1>6, <1>7, <1>8, <1>9 DEF RefreshInv

LEMMA ChangeStep ==
  ASSUME NEW STATE S, NEW STATE gone, NEW STATE D, Changed(S, gone, D), StoreInv PROVE StoreInv'
BY ChangeShape, ChangeFlush, ChangeMarks, ChangeRooted, ChangeRows, ChangeStamps, ChangeRefresh
   DEF StoreInv

\* Content under a character that stays, or that comes with it.
LEMMA ChangeRoots ==
  ASSUME Shape, RootedInv, NEW STATE S, NEW STATE gone, NEW STATE M, Change(S, gone, M),
         \A x \in Chats : x \in S => Owner[x] \in Held \ gone,
         \A x \in Chats : Owner[x] \in gone => x \in gone \/ x \notin Held \cup S
  PROVE  Rooted(local')
<1>1. edits \in Nat /\ edits' = edits + 1
  BY DEF Change, NextEdit, Shape
<1>2. edits' # Absent
  BY <1>1 DEF Absent
<1>3. \A r \in Rows : local'[r] = IF r \in gone THEN Absent ELSE IF r \in S THEN edits' ELSE local[r]
  BY DEF Change
<1>4. ASSUME NEW x \in Chats, local'[x] # Absent PROVE local'[Owner[x]] # Absent
  <2>1. x \in Rows /\ Owner[x] \in Rows
    BY RowFacts
  <2>2. x \notin gone /\ (x \in S \/ x \in Held)
    BY <1>3, <1>4, <2>1, HeldFacts
  <2>3. Owner[x] \notin gone
    BY <2>2
  <2>4. x \in Held => Owner[x] \in Held
    BY <2>1, HeldFacts DEF RootedInv, Rooted
  <2>5. local[Owner[x]] # Absent
    BY <2>1, <2>2, <2>4, HeldFacts
  <2> QED BY <1>2, <1>3, <2>1, <2>3, <2>5
<1> QED BY <1>4 DEF Rooted

LEMMA EditStep ==
  ASSUME StoreInv, NEW r \in Deletable, Edit(r) PROVE StoreInv'
<1>1. r \in Held /\ Change({r}, {}, {r}) /\ deletes' = deletes /\ r \in Rows
  BY RowFacts DEF Edit
<1>2. \A x \in Chats : x \in {r} => Owner[x] \in Held
  BY <1>1, RowFacts, HeldFacts DEF StoreInv, RootedInv, Rooted
<1>3. Rooted(local')
  BY <1>1, <1>2, ChangeRoots DEF StoreInv
<1>4. Changed({r}, {}, {})
  BY <1>1, <1>3 DEF Changed
<1> QED BY <1>4, ChangeStep

LEMMA AddCharacterStep ==
  ASSUME StoreInv, NEW c \in Characters, AddCharacter(c) PROVE StoreInv'
<1>1. newest[c] = Absent /\ Change({c, Order}, {}, {c, Order}) /\ deletes' = deletes
  BY DEF AddCharacter
<1>2. c \in Rows /\ Order \in Rows /\ Order \in Lists /\ \A x \in Chats : x \notin {c, Order}
  BY RowFacts
<1>3. Rooted(local')
  BY <1>1, <1>2, ChangeRoots DEF StoreInv
<1>4. Changed({c, Order}, {}, {})
  BY <1>1, <1>2, <1>3 DEF Changed
<1> QED BY <1>4, ChangeStep

LEMMA RemoveCharacterStep ==
  ASSUME StoreInv, NEW c \in Characters, RemoveCharacter(c) PROVE StoreInv'
<1> DEFINE gone == {c} \cup (ChatsOf(c) \cap Held)
<1>1. Change({Order}, gone, {Order}) /\ deletes' = deletes \cup {c}
  BY DEF RemoveCharacter
<1>2. /\ Order \in Rows /\ Order \in Lists /\ gone \subseteq Deletable /\ Order \notin gone
      /\ \A x \in Chats : x \notin {Order}
      /\ \A r \in gone : r \in {c} \/ (r \in Chats /\ Owner[r] \in {c})
  BY RowFacts DEF ChatsOf
<1>3. \A x \in Chats : Owner[x] \in gone => x \in gone \/ x \notin Held \cup {Order}
  BY RowFacts DEF ChatsOf
<1>4. Rooted(local')
  <2> HIDE DEF gone
  <2> QED BY <1>1, <1>2, <1>3, ChangeRoots DEF StoreInv
<1>5. Changed({Order}, gone, {c})
  <2>1. {c} \subseteq gone
    OBVIOUS
  <2> HIDE DEF gone
  <2> QED BY <1>1, <1>2, <1>4, <2>1 DEF Changed
<1> QED BY <1>5, ChangeStep

LEMMA AddChatStep ==
  ASSUME StoreInv, NEW x \in Chats, AddChat(x) PROVE StoreInv'
<1> DEFINE m == Manifest[Owner[x]]
<1>1. newest[x] = Absent /\ Owner[x] \in Held /\ Change({x, m}, {}, {x, m}) /\ deletes' = deletes
  BY DEF AddChat
<1>2. x \in Rows /\ m \in Rows /\ m \in Lists /\ \A y \in Chats : y \in {x, m} => y = x
  BY RowFacts
<1> HIDE DEF m
<1>3. Rooted(local')
  BY <1>1, <1>2, ChangeRoots DEF StoreInv
<1>4. Changed({x, m}, {}, {})
  BY <1>1, <1>2, <1>3 DEF Changed
<1> QED BY <1>4, ChangeStep

LEMMA RemoveChatStep ==
  ASSUME StoreInv, NEW x \in Chats, RemoveChat(x) PROVE StoreInv'
<1> DEFINE m == Manifest[Owner[x]]
<1>1. Change({m}, {x}, {m}) /\ deletes' = deletes \cup {x}
  BY DEF RemoveChat
<1>2. /\ m \in Rows /\ m \in Lists /\ x \in Deletable /\ m \notin {x}
      /\ \A y \in Chats : y \notin {m} /\ Owner[y] \notin {x}
  BY RowFacts
<1> HIDE DEF m
<1>3. Rooted(local')
  BY <1>1, <1>2, ChangeRoots DEF StoreInv
<1>4. Changed({m}, {x}, {x})
  BY <1>1, <1>2, <1>3 DEF Changed
<1> QED BY <1>4, ChangeStep

-----------------------------------------------------------------------------
(* A touch.                                                                   *)

LEMMA TouchStep ==
  ASSUME StoreInv, NEW c \in Characters, Touch(c) PROVE StoreInv'
<1>1. /\ edits \in Nat /\ edits' = edits + 1 /\ edits' # Absent
      /\ stamp \in [Characters -> 1 .. edits] /\ touches \in [Characters -> 0 .. edits]
  BY DEF Touch, NextEdit, StoreInv, Shape, Absent
<1>2. /\ stamp' = [stamp EXCEPT ![c] = edits']
      /\ touches' = IF c \in dirty THEN touches ELSE [touches EXCEPT ![c] = edits']
      /\ UNCHANGED <<local, db, dbStamp, dirty, deletes, flush, announced, refresh, newest,
                     saved, overlooked>>
  BY DEF Touch, database, remoteState, ghosts
<1>3. \A n : (n \in 0 .. edits => n \in 0 .. edits') /\ (n \in 1 .. edits => n \in 1 .. edits')
  BY <1>1
<1>4. /\ stamp'[c] = edits' /\ \A d \in Characters : d # c => stamp'[d] = stamp[d]
      /\ \A d \in Characters : d # c => touches'[d] = touches[d]
      /\ c \in dirty => touches'[c] = touches[c]
      /\ c \notin dirty => touches'[c] = edits'
  BY <1>1, <1>2
<1>5. /\ stamp' \in [Characters -> 1 .. edits'] /\ touches' \in [Characters -> 0 .. edits']
      /\ dbStamp' \in [Characters -> 1 .. edits']
  BY <1>1, <1>2, <1>3 DEF StoreInv, Shape
<1>6. Shape'
  <2>1. flush' = None \/ FlushShape(flush)'
    BY <1>2, <1>3 DEF StoreInv, Shape, FlushShape
  <2>2. refresh' = None \/ RefreshShape(refresh)'
    BY <1>2, <1>3 DEF StoreInv, Shape, RefreshShape
  <2> QED BY <1>1, <1>2, <1>3, <1>5, <2>1, <2>2 DEF StoreInv, Shape
<1>7. FlushInv' /\ RootedInv'
  BY <1>2 DEF StoreInv, FlushInv, Moving, RootedInv, Rooted
<1>8. MarkInv'
  BY <1>2, <1>4 DEF StoreInv, MarkInv, Held
<1>9. RowInv'
  BY <1>2 DEF StoreInv, RowInv, Held, HeldInv, GoneInv, Covered, ToCome, Doomed, Moving, Written,
              Going, SentGone
<1>10. StampInv'
  <2>1. SUFFICES ASSUME NEW d \in Characters, d \notin overlooked, d \in Held
                 PROVE  /\ StampSaved(d)' /\ (touches'[d] # Absent => touches'[d] = stamp'[d])
                        /\ StampSent(d)'
    BY <1>2 DEF StampInv, Held
  <2>2. StampSaved(d) /\ (touches[d] # Absent => touches[d] = stamp[d]) /\ StampSent(d)
    BY <2>1 DEF StoreInv, StampInv
  <2>3. CASE d # c
    BY <1>2, <1>4, <2>2, <2>3 DEF StampSaved, StampSent, Moving, Written
  <2>4. CASE d = c /\ c \in dirty
    <3>1. touches'[c] = Absent
      BY <1>4, <2>4 DEF StoreInv, MarkInv
    <3> QED BY <1>2, <2>4, <3>1 DEF StampSaved, StampSent, Moving
  <2>5. CASE d = c /\ c \notin dirty
    <3>1. touches'[c] = edits' /\ stamp'[c] = edits'
      BY <1>4, <2>5
    <3>2. flush # None => flush.stamps[c] # edits' /\ \A n \in 0 .. edits : n <= edits'
      BY <1>1, PhaseFacts DEF StoreInv, FlushShape
    <3>3. flush # None => flush.touchMarks[c] <= edits'
      BY <3>2, PhaseFacts DEF StoreInv, FlushShape
    <3>4. Moving => flush # None
      BY PhaseFacts DEF StoreInv
    <3> QED BY <1>2, <2>2, <2>5, <3>1, <3>2, <3>3, <3>4 DEF StampSaved, StampSent, Moving
  <2> QED BY <2>3, <2>4, <2>5
<1>11. RefreshInv'
  <2>1. SUFFICES ASSUME refresh # None PROVE RefreshInv'
    BY <1>2 DEF RefreshInv
  <2>2. RefreshInv /\ refresh.since \in 1 .. edits
    BY <2>1, PhaseFacts DEF StoreInv, RefreshShape
  <2>3. stamp'[c] > refresh.since /\ ~(stamp'[c] <= refresh.since)
    BY <1>1, <1>4, <2>2
  <2>4. \A d \in Characters : TouchedSince(d)' => d = c \/ TouchedSince(d)
    BY <1>2, <1>4 DEF TouchedSince
  <2>5. \A d \in Characters \ overlooked : ReadStamp(d)'
    BY <1>2, <1>4, <2>1, <2>2, <2>3 DEF RefreshInv, ReadStamp, Early, Held
  <2>6. \A r \in Rows \ overlooked : ReadRow(r)'
    BY <1>2, <2>1, <2>2 DEF RefreshInv, ReadRow, Early, Held
  <2>7. Marked' = Marked /\ Held' = Held
    BY <1>2 DEF Marked, Held
  <2> QED BY <1>2, <1>4, <2>1, <2>2, <2>3, <2>4, <2>5, <2>6, <2>7 DEF RefreshInv
<1> QED BY <1>6, <1>7, <1>8, <1>9, <1>10, <1>11 DEF StoreInv

-----------------------------------------------------------------------------
(* Steps of the queue that change nothing of this.                            *)

LEMMA IdleStep ==
  ASSUME StoreInv,
         UNCHANGED <<local, stamp, database, marks, flush, remoteState, edits, ghosts>>
  PROVE  StoreInv'
<1>1. UNCHANGED <<local, stamp, db, dbStamp, dirty, touches, deletes, flush, announced, refresh,
                  edits, newest, saved, overlooked>>
  BY DEF database, marks, remoteState, ghosts
<1>2. Shape' /\ FlushInv' /\ MarkInv' /\ RootedInv'
  BY <1>1 DEF StoreInv, Shape, FlushShape, RefreshShape, FlushInv, Moving, MarkInv, Held, RootedInv, Rooted
<1>3. RowInv'
  BY <1>1 DEF StoreInv, RowInv, Held, HeldInv, GoneInv, Covered, ToCome, Doomed, Moving, Written,
              Going, SentGone
<1>4. StampInv'
  BY <1>1 DEF StoreInv, StampInv, StampSaved, StampSent, Held, Moving, Written
<1>5. RefreshInv'
  BY <1>1 DEF StoreInv, RefreshInv, Marked, TouchedSince, ReadRow, ReadStamp, Early, Held
<1> QED BY <1>2, <1>3, <1>4, <1>5 DEF StoreInv

\* A flush that ends before its commit leaves every mark as it was.
LEMMA DropStep ==
  ASSUME StoreInv, flush # None, ~Moving, flush' = None,
         UNCHANGED <<local, stamp, database, marks, remoteState, edits, ghosts>>
  PROVE  StoreInv'
<1>1. UNCHANGED <<local, stamp, db, dbStamp, dirty, touches, deletes, announced, refresh,
                  edits, newest, saved, overlooked>>
  BY DEF database, marks, remoteState, ghosts
<1>2. ~Moving /\ ~Moving' /\ flush'.phase # "lookup"
  BY DEF Moving, None
<1>3. Shape' /\ FlushInv' /\ MarkInv' /\ RootedInv'
  <2>1. refresh' = None \/ RefreshShape(refresh)'
    BY <1>1 DEF StoreInv, Shape, RefreshShape
  <2> QED BY <1>1, <2>1 DEF StoreInv, Shape, FlushInv, MarkInv, Held, RootedInv, Rooted
<1>4. RowInv'
  BY <1>1, <1>2 DEF StoreInv, RowInv, Held, HeldInv, GoneInv, Covered, ToCome, Going, SentGone
<1>5. StampInv'
  BY <1>1, <1>2 DEF StoreInv, StampInv, StampSaved, StampSent, Held
<1>6. RefreshInv'
  <2>1. Marked' \subseteq Marked
    BY <1>1 DEF Marked
  <2>2. \A c \in Characters : TouchedSince(c)' => TouchedSince(c)
    BY <1>1 DEF TouchedSince
  <2> QED BY <1>1, <2>1, <2>2 DEF StoreInv, RefreshInv, ReadRow, ReadStamp, Early, Held
<1> QED BY <1>3, <1>4, <1>5, <1>6 DEF StoreInv

-----------------------------------------------------------------------------
(* A flush that serialises.  Its record is a candidate as long as every mark   *)
(* is still set.                                                              *)

Candidate(f) ==
    /\ FlushShape(f) /\ f.phase # "commit"
    /\ f.gone \subseteq Characters
    /\ \A r \in f.seen \ overlooked : IF r \in Held THEN r \in dirty ELSE Going(r)
    /\ \A r \in Rows : f.rows[r] # Absent => r \in f.seen
    /\ \A c \in Characters : c \in f.gone \/ f.touched[c] # Absent => f.rows[c] = Absent
    /\ \A r \in f.gone : newest[r] # Absent
    /\ \A r \in Held \ overlooked :
         r \in f.gone \/ (r \in Chats /\ Owner[r] \in f.gone) => r \in dirty
    /\ \A c \in (Characters \cap Held) \ overlooked :
         /\ c \notin dirty /\ f.stamps[c] = stamp[c] => f.touched[c] = touches[c]
         /\ f.touched[c] # Absent => f.touched[c] = f.stamps[c] \/ c \in dirty
    /\ refresh # None =>
         /\ \A r \in f.seen \cup f.gone \cup f.marked :
              newest[r] > refresh.since \/ r \in refresh.pending
         /\ \A c \in Characters : f.touched[c] # Absent \/ f.touchMarks[c] # Absent =>
              stamp[c] > refresh.since \/ c \in refresh.pending

LEMMA DirtyFacts ==
  ASSUME StoreInv
  PROVE  /\ dirty \subseteq Rows
         /\ \A r \in dirty \ overlooked : r \notin Held => Going(r)
         /\ refresh # None => \A r \in dirty : newest[r] > refresh.since \/ r \in refresh.pending
<1>1. dirty \subseteq Rows
  BY DEF StoreInv, Shape
<1>2. \A r \in Rows \ overlooked : r \notin Held /\ r \in dirty => Going(r)
  BY DEF StoreInv, RowInv, GoneInv
<1>3. refresh # None => \A r \in dirty : newest[r] > refresh.since \/ r \in refresh.pending
  BY DEF StoreInv, RefreshInv, Marked
<1> QED BY <1>1, <1>2, <1>3

LEMMA CandidateNow ==
  ASSUME StoreInv, flush # None, ~Moving PROVE Candidate(flush)
<1>1. FlushShape(flush) /\ flush.phase # "commit"
  BY DEF StoreInv, Shape, Moving
<1>2. /\ flush.gone \subseteq Characters
      /\ \A r \in Rows : flush.rows[r] # Absent => r \in flush.seen
      /\ \A c \in Characters : c \in flush.gone \/ flush.touched[c] # Absent
                               => flush.rows[c] = Absent
      /\ \A r \in flush.gone : newest[r] # Absent
  BY DEF StoreInv, FlushInv
<1>3. ASSUME NEW r \in flush.seen \ overlooked PROVE IF r \in Held THEN r \in dirty ELSE Going(r)
  <2>1. r \in Rows /\ IF r \in Held THEN HeldInv(r) ELSE GoneInv(r)
    BY <1>1, <1>3 DEF StoreInv, RowInv, FlushShape
  <2> QED BY <1>3, <2>1 DEF HeldInv, GoneInv, SentGone
<1>4. \A r \in Held \ overlooked :
        r \in flush.gone \/ (r \in Chats /\ Owner[r] \in flush.gone) => r \in dirty
  BY <1>1 DEF StoreInv, RowInv, HeldInv, Doomed, Held
<1>5. \A c \in (Characters \cap Held) \ overlooked :
         /\ c \notin dirty /\ flush.stamps[c] = stamp[c] => flush.touched[c] = touches[c]
         /\ flush.touched[c] # Absent => flush.touched[c] = flush.stamps[c] \/ c \in dirty
  BY DEF StoreInv, StampInv, StampSent
<1>6. refresh # None =>
         /\ \A r \in flush.seen \cup flush.gone \cup flush.marked :
              newest[r] > refresh.since \/ r \in refresh.pending
         /\ \A c \in Characters : flush.touched[c] # Absent \/ flush.touchMarks[c] # Absent =>
              stamp[c] > refresh.since \/ c \in refresh.pending
  BY DEF StoreInv, RefreshInv, Marked, TouchedSince
<1> QED BY <1>1, <1>2, <1>3, <1>4, <1>5, <1>6 DEF Candidate

LEMMA CandidateStarted ==
  ASSUME StoreInv, flush = None PROVE Candidate(Started)
<1> DEFINE f == Started
<1>1. /\ f.phase = "lookup" /\ f.seen = dirty \cap Characters
      /\ f.rows = [r \in Rows |-> IF r \in dirty \cap Characters THEN local[r] ELSE Absent]
      /\ f.stamps = stamp
      /\ f.touched = [c \in Characters |-> IF c \in dirty THEN Absent ELSE touches[c]]
      /\ f.gone = (deletes \cap Characters) \ Held
      /\ f.marked = {} /\ f.touchMarks = NoTouches
  BY DEF Started
<1>2. FlushShape(f)
  <2>1. \A c \in Characters : c \in Rows /\ local[c] \in 0 .. edits
    BY RowFacts DEF StoreInv, Shape
  <2>2. /\ stamp \in [Characters -> 1 .. edits] /\ touches \in [Characters -> 0 .. edits]
        /\ 0 \in 0 .. edits
    BY DEF StoreInv, Shape
  <2>3. f.touched \in [Characters -> 0 .. edits] /\ f.touchMarks \in [Characters -> 0 .. edits]
    BY <1>1, <2>2 DEF NoTouches, Absent
  <2>4. DOMAIN f.rows = Rows /\ \A c \in Characters : f.rows[c] \in 0 .. edits
    BY <1>1, <2>1, <2>2 DEF Absent
  <2>5. f.seen \subseteq Rows /\ f.marked \subseteq Rows /\ f.gone \subseteq Deletable
    BY <1>1 DEF StoreInv, Shape, Deletable
  <2>6. DOMAIN f = {"phase", "seen", "done", "rows", "stamps", "touched", "gone", "chat", "position",
                   "marked", "touchMarks"}
    BY DEF Started
  <2> QED BY <1>1, <2>2, <2>3, <2>4, <2>5, <2>6 DEF FlushShape
<1> HIDE DEF f
<1>3. \A c \in Characters : c \in Rows /\ f.rows[c] = (IF c \in dirty THEN local[c] ELSE Absent)
  BY <1>1, RowFacts
<1>4. \A c \in Characters : f.touched[c] = IF c \in dirty THEN Absent ELSE touches[c]
  BY <1>1
<1>5. \A r \in Rows : f.rows[r] # Absent => r \in f.seen
  BY <1>1
<1>6. \A c \in Characters : c \in f.gone \/ f.touched[c] # Absent => f.rows[c] = Absent
  BY <1>1, <1>3, <1>4, HeldFacts
<1>7. \A r \in f.gone : newest[r] # Absent
  BY <1>1 DEF StoreInv, MarkInv
<1>8. ASSUME NEW r \in Held \ overlooked, r \in f.gone \/ (r \in Chats /\ Owner[r] \in f.gone)
      PROVE  r \in dirty
  <2>1. r \in Chats /\ Owner[r] \in Characters /\ Owner[r] \notin Held /\ r \in Rows
    BY <1>1, <1>8, RowFacts
  <2>2. local[r] # Absent /\ local[Owner[r]] = Absent
    BY <1>8, <2>1, RowFacts, HeldFacts
  <2> QED BY <2>1, <2>2 DEF StoreInv, RootedInv, Rooted
<1>9. ASSUME NEW c \in (Characters \cap Held) \ overlooked
      PROVE  /\ c \notin dirty /\ f.stamps[c] = stamp[c] => f.touched[c] = touches[c]
             /\ f.touched[c] # Absent => f.touched[c] = f.stamps[c] \/ c \in dirty
  BY <1>1, <1>4 DEF StoreInv, StampInv
<1>10. refresh # None =>
         /\ \A r \in f.seen \cup f.gone \cup f.marked :
              newest[r] > refresh.since \/ r \in refresh.pending
         /\ \A c \in Characters : f.touched[c] # Absent \/ f.touchMarks[c] # Absent =>
              stamp[c] > refresh.since \/ c \in refresh.pending
  BY <1>1, <1>4 DEF StoreInv, RefreshInv, Marked, TouchedSince, NoTouches
<1>11. f.phase # "commit" /\ f.gone \subseteq Characters
  BY <1>1
<1>12. \A r \in f.seen \ overlooked : IF r \in Held THEN r \in dirty ELSE Going(r)
  BY <1>1, DirtyFacts
<1> QED BY <1>2, <1>5, <1>6, <1>7, <1>8, <1>9, <1>10, <1>11, <1>12 DEF Candidate, f

LEMMA SerialisedFields ==
  ASSUME NEW STATE f, FlushShape(f), NEW STATE S
  PROVE  LET g == Serialised(f, S)
         IN  /\ DOMAIN g = DOMAIN f /\ g.phase = f.phase /\ g.seen = f.seen \cup S
             /\ g.stamps = f.stamps /\ g.touched = f.touched /\ g.gone = f.gone
             /\ g.chat = f.chat /\ g.position = f.position /\ g.marked = f.marked
             /\ g.touchMarks = f.touchMarks /\ DOMAIN g.rows = Rows
             /\ \A r \in Rows : g.rows[r] = IF r \in S THEN local[r] ELSE f.rows[r]
BY DEF FlushShape, Serialised

LEMMA CandidateSerialised ==
  ASSUME StoreInv, NEW STATE f, Candidate(f), NEW STATE S, S \subseteq dirty \ Characters
  PROVE  Candidate(Serialised(f, S))
<1> DEFINE g == Serialised(f, S)
<1>1. FlushShape(f) /\ \A c \in Characters : c \in Rows
  BY RowFacts DEF Candidate
<1>2. \A r \in Rows : g.rows[r] = IF r \in S THEN local[r] ELSE f.rows[r]
  BY <1>1, SerialisedFields
<1>3. \A c \in Characters : g.rows[c] = f.rows[c]
  BY <1>1, <1>2
<1>4. /\ g.phase = f.phase /\ g.seen = f.seen \cup S /\ g.stamps = f.stamps
      /\ g.touched = f.touched /\ g.gone = f.gone /\ g.chat = f.chat /\ g.position = f.position
      /\ g.marked = f.marked /\ g.touchMarks = f.touchMarks /\ DOMAIN g.rows = Rows
      /\ DOMAIN g = DOMAIN f
  BY <1>1, SerialisedFields
<1> HIDE DEF g
<1>6. FlushShape(g)
  BY <1>1, <1>3, <1>4, DirtyFacts DEF FlushShape, Candidate
<1>7. \A r \in Rows : g.rows[r] # Absent => r \in g.seen
  BY <1>2, <1>4 DEF Candidate
<1>8. \A r \in g.seen \ overlooked : IF r \in Held THEN r \in dirty ELSE Going(r)
  BY <1>4, DirtyFacts DEF Candidate
<1>9. \A c \in Characters : c \in g.gone \/ g.touched[c] # Absent => g.rows[c] = Absent
  BY <1>3, <1>4 DEF Candidate
<1>10. refresh # None =>
         \A r \in g.seen \cup g.gone \cup g.marked :
           newest[r] > refresh.since \/ r \in refresh.pending
  BY <1>4, DirtyFacts DEF Candidate
<1> QED BY <1>4, <1>6, <1>7, <1>8, <1>9, <1>10 DEF Candidate, g

\* The chat whose note has been looked up.
LEMMA CandidateNoted ==
  ASSUME StoreInv, NEW STATE f, Candidate(f), f.chat \in dirty \cap Chats
  PROVE  Candidate(WithNoted(f))
<1> DEFINE g == WithNoted(f)
           v == local[chats[Owner[f.chat]][f.position]]
<1>1. FlushShape(f) /\ f.chat \in Rows /\ \A c \in Characters : c \in Rows /\ c # f.chat
  BY RowFacts DEF Candidate
<1>2. /\ g.phase = f.phase /\ g.seen = f.seen \cup {f.chat} /\ g.stamps = f.stamps
      /\ g.touched = f.touched /\ g.gone = f.gone /\ g.chat = f.chat /\ g.position = f.position
      /\ g.marked = f.marked /\ g.touchMarks = f.touchMarks
      /\ g.rows = [f.rows EXCEPT ![f.chat] = v]
      /\ DOMAIN g = DOMAIN f
  BY <1>1 DEF FlushShape, WithNoted
<1> HIDE DEF g, v
<1>3. DOMAIN g.rows = Rows /\ \A r \in Rows : r # f.chat => g.rows[r] = f.rows[r]
  BY <1>1, <1>2 DEF FlushShape
<1>4. \A c \in Characters : g.rows[c] = f.rows[c]
  BY <1>1, <1>3
<1>5. FlushShape(g)
  BY <1>1, <1>2, <1>3, <1>4 DEF FlushShape
<1>6. \A r \in Rows : g.rows[r] # Absent => r \in g.seen
  BY <1>2, <1>3 DEF Candidate
<1>7. \A r \in g.seen \ overlooked : IF r \in Held THEN r \in dirty ELSE Going(r)
  BY <1>2, DirtyFacts DEF Candidate
<1>8. \A c \in Characters : c \in g.gone \/ g.touched[c] # Absent => g.rows[c] = Absent
  BY <1>2, <1>4 DEF Candidate
<1>9. refresh # None =>
        \A r \in g.seen \cup g.gone \cup g.marked :
          newest[r] > refresh.since \/ r \in refresh.pending
  BY <1>2, DirtyFacts DEF Candidate
<1> QED BY <1>2, <1>5, <1>6, <1>7, <1>8, <1>9 DEF Candidate, g

\* The flush waits for the next note.
LEMMA LookupStep ==
  ASSUME StoreInv, ~Moving, NEW STATE f, Candidate(f), NEW n \in dirty \cap Chats, NEW STATE i,
         flush' = [f EXCEPT !.phase = "lookup", !.chat = n, !.position = i],
         UNCHANGED <<local, stamp, database, marks, remoteState, edits, ghosts>>
  PROVE  StoreInv'
<1>1. UNCHANGED <<local, stamp, db, dbStamp, dirty, touches, deletes, announced, refresh,
                  edits, newest, saved, overlooked>>
  BY DEF database, marks, remoteState, ghosts
<1>2. FlushShape(f)
  BY DEF Candidate
<1>3. /\ flush'.phase = "lookup" /\ flush'.seen = f.seen /\ flush'.stamps = f.stamps
      /\ flush'.rows = f.rows /\ flush'.touched = f.touched /\ flush'.gone = f.gone
      /\ flush'.chat = n /\ flush'.marked = f.marked /\ flush'.touchMarks = f.touchMarks
      /\ DOMAIN flush' = DOMAIN f
  BY <1>2 DEF FlushShape
<1>4. FlushShape(flush)' /\ flush'.phase = "lookup" /\ ~Moving' /\ flush' # None
  BY <1>1, <1>2, <1>3 DEF FlushShape, Candidate, Moving, None
<1>5. Shape'
  <2>1. refresh' = None \/ RefreshShape(refresh)'
    BY <1>1 DEF StoreInv, Shape, RefreshShape
  <2> QED BY <1>1, <1>4, <2>1 DEF StoreInv, Shape
<1>6. FlushInv'
  BY <1>1, <1>3, <1>4 DEF FlushInv, Candidate
<1>7. MarkInv' /\ RootedInv'
  BY <1>1 DEF StoreInv, MarkInv, Held, RootedInv, Rooted
<1>8. RowInv'
  <2>1. Held' = Held
    BY <1>1 DEF Held
  <2>2. ASSUME NEW r \in Held \ overlooked PROVE HeldInv(r)'
    <3>1. /\ HeldInv(r) /\ (r \in f.gone \/ (r \in Chats /\ Owner[r] \in f.gone) => r \in dirty)
          /\ r \in f.seen => r \in dirty
      BY <2>2 DEF StoreInv, RowInv, Held, Candidate
    <3> QED BY <1>1, <1>3, <1>4, <3>1 DEF HeldInv, Covered, ToCome, Doomed
  <2>3. ASSUME NEW r \in Rows \ overlooked, r \notin Held PROVE GoneInv(r)'
    <3>1. GoneInv(r) /\ (r \in f.seen => Going(r))
      BY <2>3 DEF StoreInv, RowInv, Candidate
    <3> QED BY <1>1, <1>3, <1>4, <3>1 DEF GoneInv, Going, SentGone
  <2> QED BY <1>1, <2>1, <2>2, <2>3 DEF RowInv
<1>9. StampInv'
  <2>1. Held' = Held
    BY <1>1 DEF Held
  <2>2. ASSUME NEW c \in (Characters \cap Held) \ overlooked
        PROVE  /\ StampSaved(c)' /\ (touches'[c] # Absent => touches'[c] = stamp'[c])
               /\ StampSent(c)'
    BY <1>1, <1>3, <1>4 DEF StoreInv, StampInv, StampSaved, StampSent, Candidate
  <2> QED BY <1>1, <2>1, <2>2 DEF StampInv
<1>10. RefreshInv'
  <2>1. SUFFICES ASSUME refresh # None PROVE RefreshInv'
    BY <1>1 DEF RefreshInv
  <2>2. \A r \in Marked' : newest[r] > refresh.since \/ r \in refresh.pending
    BY <1>1, <1>3, <1>4, <2>1 DEF StoreInv, RefreshInv, Marked, Candidate
  <2>3. \A c \in Characters : TouchedSince(c)' => stamp[c] > refresh.since \/ c \in refresh.pending
    BY <1>1, <1>3, <1>4, <2>1 DEF StoreInv, RefreshInv, TouchedSince, Candidate
  <2> QED BY <1>1, <2>1, <2>2, <2>3 DEF StoreInv, RefreshInv, ReadRow, ReadStamp, Early, Held
<1> QED BY <1>5, <1>6, <1>7, <1>8, <1>9, <1>10 DEF StoreInv

-----------------------------------------------------------------------------
(* The commit is sent: the marks move into the flush, and what was read before *)
(* its newest change is overlooked.                                           *)

LEMMA SendStep ==
  ASSUME StoreInv, ~Moving, NEW STATE f, Candidate(f), SendCommit(f),
         UNCHANGED <<local, stamp, database, remoteState, edits, newest, saved>>
  PROVE  StoreInv'
<1> DEFINE g == Serialised(f, dirty \cap Lists)
           doomed == (deletes \cap Chats) \ Held
<1>1. Candidate(g)
  BY CandidateSerialised, RowFacts
<1>2. /\ flush' = [g EXCEPT !.phase = "commit", !.gone = g.gone \cup doomed,
                            !.marked = dirty, !.touchMarks = touches]
      /\ dirty' = {} /\ touches' = NoTouches
      /\ deletes' = deletes \ (g.gone \cup doomed)
      /\ overlooked' = overlooked \cup {r \in dirty \cap Held : g.rows[r] # local[r]}
                                  \cup {c \in Characters : g.stamps[c] # stamp[c]}
  BY DEF SendCommit
<1> HIDE DEF g
<1>3. UNCHANGED <<local, stamp, db, dbStamp, announced, refresh, edits, newest, saved>>
  BY DEF database, remoteState
<1>4. Held' = Held
  BY <1>3 DEF Held
<1>5. /\ flush'.phase = "commit" /\ flush'.seen = g.seen /\ flush'.rows = g.rows
      /\ flush'.stamps = g.stamps /\ flush'.touched = g.touched
      /\ flush'.gone = g.gone \cup doomed /\ flush'.marked = dirty
      /\ flush'.touchMarks = touches /\ DOMAIN flush' = DOMAIN g
  BY <1>1, <1>2 DEF Candidate, FlushShape
<1>6. /\ doomed \subseteq deletes /\ doomed \subseteq Chats /\ doomed \subseteq Deletable
      /\ \A c \in Characters : c \notin doomed
  BY RowFacts
<1>7. \A r \in deletes : r \notin Held /\ newest[r] # Absent
  BY DEF StoreInv, MarkInv
<1> HIDE DEF doomed
<1>8. Moving' /\ flush' # None
  BY <1>5 DEF Moving, None
<1>9. \A c \in Characters : touches'[c] = Absent
  BY <1>2 DEF NoTouches
<1>10. Shape'
  <2>1. 0 \in 0 .. edits /\ dirty \subseteq Rows /\ touches \in [Characters -> 0 .. edits]
        /\ deletes \subseteq Deletable
    BY DEF StoreInv, Shape
  <2>2. touches' \in [Characters -> 0 .. edits]
    BY <1>2, <2>1 DEF NoTouches, Absent
  <2>3. FlushShape(flush)'
    BY <1>1, <1>3, <1>5, <1>6, <2>1 DEF FlushShape, Candidate
  <2>4. refresh' = None \/ RefreshShape(refresh)'
    BY <1>3 DEF StoreInv, Shape, RefreshShape
  <2>5. dirty' \subseteq Rows /\ deletes' \subseteq Deletable
    BY <1>2, <2>1
  <2> QED BY <1>3, <2>2, <2>3, <2>4, <2>5 DEF StoreInv, Shape
<1>11. FlushInv'
  <2>2. \A r \in Rows : flush'.rows[r] # Absent => r \in flush'.seen
    BY <1>1, <1>5 DEF Candidate
  <2>3. \A c \in Characters : c \in flush'.gone \/ flush'.touched[c] # Absent
                              => flush'.rows[c] = Absent
    BY <1>1, <1>5, <1>6 DEF Candidate
  <2>4. \A r \in flush'.gone : newest'[r] # Absent
    BY <1>1, <1>3, <1>5, <1>6, <1>7 DEF Candidate
  <2> QED BY <1>5, <1>8, <2>2, <2>3, <2>4 DEF FlushInv
<1>12. MarkInv' /\ RootedInv'
  BY <1>2, <1>3, <1>4, <1>7 DEF StoreInv, MarkInv, RootedInv, Rooted
\* What the flush reads of a row that is not overlooked.
<1>13. ASSUME NEW r \in (dirty \cap Held) \ overlooked'
       PROVE  /\ g.rows[r] = local[r] /\ local[r] = newest[r] /\ local[r] # Absent
              /\ r \in Written(g)
  <2>1. r \in Rows /\ r \notin overlooked /\ g.rows[r] = local[r]
    BY <1>2, <1>13 DEF Held
  <2>2. local[r] = newest[r] /\ local[r] # Absent
    BY <1>13, <2>1, HeldFacts DEF StoreInv, RowInv, HeldInv
  <2> QED BY <1>1, <2>1, <2>2 DEF Written, Candidate
<1>14. RowInv'
  <2>1. ASSUME NEW r \in Held \ overlooked' PROVE HeldInv(r)'
    <3>1. r \in Rows /\ r \notin overlooked /\ HeldInv(r) /\ newest'[r] = newest[r]
      BY <1>2, <1>3, <2>1 DEF StoreInv, RowInv, Held
    <3>2. Written(flush)' = Written(g) /\ (r \in g.seen => r \in dirty)
      BY <1>1, <1>5, <2>1, <3>1 DEF Written, Candidate
    <3>3. r \in dirty => g.rows[r] = newest[r] /\ local[r] = newest[r] /\ r \in Written(g)
      BY <1>13, <2>1
    <3>4. \/ Covered(r)'
          \/ saved'[r] = newest'[r] /\ db'[r] # Absent /\ (local'[r] = db'[r] \/ ToCome(r)')
      <4>1. CASE r \in dirty
        BY <1>3, <1>5, <1>8, <3>3, <4>1 DEF Covered, Written
      <4>2. CASE r \notin dirty
        BY <1>3, <3>1, <4>2 DEF HeldInv, Covered, ToCome
      <4> QED BY <4>1, <4>2
    <3>5. r \in dirty' \/ (Moving' /\ r \in flush'.marked) => local'[r] = newest'[r]
      BY <1>2, <1>3, <1>5, <3>3
    <3>6. Moving' /\ r \in Written(flush)' => flush'.rows[r] = newest'[r] \/ r \in dirty'
      BY <1>3, <1>5, <3>2, <3>3 DEF Written
    <3>7. Doomed(r)' => r \in Chats /\ Owner[r] \in flush'.gone /\ r \in Written(flush)'
      <4>1. SUFFICES ASSUME Doomed(r)' PROVE r \in Chats /\ Owner[r] \in flush'.gone /\ r \in Written(flush)'
        OBVIOUS
      <4>2. r \notin doomed
        BY <2>1, <1>6, <1>7
      <4>3. r \in g.gone \/ (r \in Chats /\ Owner[r] \in g.gone)
        BY <4>1, <4>2, <1>5, <1>6, RowFacts DEF Doomed
      <4>4. r \in dirty
        BY <1>1, <2>1, <3>1, <4>3 DEF Candidate
      <4>5. r \notin g.gone
        <5>1. r \in g.gone => r \in Characters /\ g.rows[r] = Absent
          BY <1>1 DEF Candidate
        <5> QED BY <1>13, <2>1, <4>4, <5>1
      <4> QED BY <1>5, <3>2, <3>3, <4>3, <4>4, <4>5
    <3>8. r \in flush'.seen => r \in flush'.marked
      BY <1>5, <3>2
    <3> QED BY <1>8, <3>4, <3>5, <3>6, <3>7, <3>8 DEF HeldInv
  <2>2. ASSUME NEW r \in Rows, r \notin Held, r \notin overlooked' PROVE GoneInv(r)'
    <3>1. GoneInv(r) /\ ~SentGone(r) /\ (r \in g.seen => Going(r))
      BY <1>1, <1>2, <2>2 DEF StoreInv, RowInv, SentGone, Candidate
    <3>2. Going(r) => Going(r)' \/ SentGone(r)'
      <4>1. \A q \in deletes : q \in deletes' \/ (q \in flush'.gone /\ q \notin Held')
        BY <1>2, <1>4, <1>5, <1>7
      <4> QED BY <1>8, <4>1 DEF Going, SentGone
    <3> QED BY <1>2, <1>3, <1>5, <3>1, <3>2 DEF GoneInv
  <2> QED BY <1>4, <2>1, <2>2 DEF RowInv
<1>15. StampInv'
  <2>1. SUFFICES ASSUME NEW c \in (Characters \cap Held) \ overlooked'
                 PROVE  StampSaved(c)' /\ (touches'[c] # Absent => touches'[c] = stamp'[c])
                        /\ StampSent(c)'
    BY <1>4 DEF StampInv
  <2>2. c \notin overlooked /\ g.stamps[c] = stamp[c]
    BY <1>2, <2>1
  <2>3. StampSaved(c) /\ (touches[c] # Absent => touches[c] = stamp[c])
    BY <2>1, <2>2 DEF StoreInv, StampInv
  <2>4. /\ c \notin dirty => g.touched[c] = touches[c]
        /\ g.touched[c] # Absent => g.touched[c] = g.stamps[c] \/ c \in dirty
        /\ g.touched[c] # Absent => g.rows[c] = Absent
    BY <1>1, <2>1, <2>2 DEF Candidate
  <2>5. c \in dirty => g.rows[c] # Absent /\ c \in Written(g) /\ g.touched[c] = Absent
    BY <1>13, <2>1, <2>4
  <2>6. Written(flush)' = Written(g)
    BY <1>5 DEF Written
  <2>7. StampSaved(c)'
    BY <1>3, <1>5, <1>8, <2>2, <2>3, <2>4, <2>5, <2>6 DEF StampSaved
  <2>8. touches[c] \in 0 .. edits /\ stamp[c] \in 1 .. edits /\ edits \in Nat
    BY DEF StoreInv, Shape
  <2>9. touches[c] # Absent => touches[c] = g.stamps[c] /\ touches[c] <= stamp[c]
    BY <2>2, <2>3, <2>8
  <2>10. flush'.phase # "lookup"
    BY <1>5
  <2>11. flush'.touched[c] # Absent => flush'.touched[c] = flush'.stamps[c]
    BY <1>5, <2>4, <2>5
  <2>12. flush'.touched[c] # Absent => flush'.touchMarks[c] = flush'.touched[c]
    BY <1>5, <2>4, <2>5
  <2>13. StampSent(c)'
    BY <1>3, <1>5, <1>8, <2>2, <2>9, <2>10, <2>11, <2>12 DEF StampSent
  <2> QED BY <1>9, <2>1, <2>7, <2>13
<1>16. RefreshInv'
  <2>1. SUFFICES ASSUME refresh # None PROVE RefreshInv'
    BY <1>3 DEF RefreshInv
  <2>2. \A r \in Marked' : newest[r] > refresh.since \/ r \in refresh.pending
    <3>1. Marked' \subseteq dirty \cup deletes \cup g.gone \cup g.seen
      BY <1>1, <1>2, <1>5, <1>6, <1>8 DEF Marked, Candidate
    <3> QED BY <1>1, <2>1, <3>1 DEF StoreInv, RefreshInv, Marked, Candidate
  <2>3. \A c \in Characters : TouchedSince(c)' => stamp[c] > refresh.since \/ c \in refresh.pending
    <3>1. \A c \in Characters : TouchedSince(c)' => TouchedSince(c) \/ g.touched[c] # Absent
      BY <1>5, <1>8, <1>9 DEF TouchedSince
    <3> QED BY <1>1, <2>1, <3>1 DEF StoreInv, RefreshInv, Candidate
  <2>4. \A r : r \notin overlooked' => r \notin overlooked
    BY <1>2
  <2> QED BY <1>3, <1>4, <2>1, <2>2, <2>3, <2>4 DEF StoreInv, RefreshInv, ReadRow, ReadStamp, Early
<1> QED BY <1>10, <1>11, <1>12, <1>14, <1>15, <1>16 DEF StoreInv

LEMMA SerialiseStep ==
  ASSUME StoreInv, ~Moving, NEW STATE f, Candidate(f), SerialiseChats(f),
         UNCHANGED <<local, stamp, database, remoteState, edits, newest, saved>>
  PROVE  StoreInv'
<1> DEFINE left == (dirty \cap Chats) \ f.done
           noted == left \cap Noted \cap Held
<1>1. dirty \subseteq Rows /\ \A S \in SUBSET left : S \subseteq dirty \ Characters
  BY RowFacts DEF StoreInv, Shape
<1>2. CASE noted = {}
  <2>1. Candidate(Serialised(f, left))
    BY <1>1, CandidateSerialised
  <2>2. SendCommit(Serialised(f, left))
    BY <1>2 DEF SerialiseChats
  <2> HIDE DEF left
  <2> QED BY <2>1, <2>2, SendStep
<1>3. CASE noted # {}
  <2>1. PICK n \in noted, S \in SUBSET (left \ noted) :
          /\ flush' = [Serialised(f, S) EXCEPT
                         !.phase = "lookup", !.chat = n,
                         !.position = CHOOSE i \in DOMAIN chats[Owner[n]] : chats[Owner[n]][i] = n]
          /\ UNCHANGED <<marks, overlooked>>
    BY <1>3 DEF SerialiseChats
  <2>2. Candidate(Serialised(f, S)) /\ n \in dirty \cap Chats
    BY <1>1, CandidateSerialised
  <2>3. UNCHANGED ghosts
    BY <2>1 DEF ghosts
  <2> QED BY <2>1, <2>2, <2>3, LookupStep
<1> QED BY <1>2, <1>3

LEMMA BeginFlushStep ==
  ASSUME StoreInv, BeginFlush PROVE StoreInv'
<1>1. flush = None /\ ~Moving
  BY DEF BeginFlush, Moving, None
<1>2. UNCHANGED <<local, stamp, database, remoteState, edits, newest, saved>>
  BY DEF BeginFlush, content
<1>3. CASE hasPendingWrites
  BY <1>1, <1>2, <1>3, CandidateStarted, SerialiseStep DEF BeginFlush
<1>4. CASE ~hasPendingWrites
  <2>1. UNCHANGED <<marks, flush, overlooked>>
    BY <1>4 DEF BeginFlush
  <2> QED BY <1>2, <2>1, IdleStep DEF ghosts
<1> QED BY <1>3, <1>4

LEMMA NoteFoundStep ==
  ASSUME StoreInv, NoteFound PROVE StoreInv'
<1> DEFINE found == flush.phase = "lookup" /\ Found(flush)
<1>1. flush # None /\ ~Moving
  BY DEF NoteFound, Moving
<1>2. UNCHANGED <<local, stamp, database, remoteState, edits, newest, saved>>
  BY DEF NoteFound, content
<1>3. CASE found
  <2>1. flush.chat \in dirty \cap Chats
    BY <1>1, <1>3 DEF StoreInv, FlushInv
  <2>2. Candidate(WithNoted(flush))
    BY <1>1, <2>1, CandidateNow, CandidateNoted
  <2>3. SerialiseChats(WithNoted(flush))
    BY <1>3 DEF NoteFound
  <2> QED BY <1>1, <1>2, <2>2, <2>3, SerialiseStep
<1>4. CASE ~found /\ flush.phase = "cut"
  <2>1. SerialiseChats(flush)
    BY <1>4 DEF NoteFound
  <2> QED BY <1>1, <1>2, <2>1, CandidateNow, SerialiseStep
<1>5. CASE ~found /\ flush.phase # "cut"
  <2>1. flush' = None /\ UNCHANGED <<marks, overlooked>>
    BY <1>5 DEF NoteFound
  <2> QED BY <1>1, <1>2, <2>1, DropStep DEF ghosts
<1> QED BY <1>3, <1>4, <1>5

-----------------------------------------------------------------------------
(* The answer to a commit: it was applied or not, and the marks are taken back *)
(* or not; a commit that was not applied takes them back.                      *)

Restored ==
    /\ dirty' = dirty \cup flush.marked
    /\ touches' = [c \in Characters |-> IF c \in dirty' THEN Absent
                                       ELSE Later(touches[c], flush.touchMarks[c])]
    /\ deletes' = deletes \cup (flush.gone \ Held)

Answered ==
    /\ Moving /\ flush' = None
    /\ UNCHANGED <<local, stamp, remoteState, edits, newest, overlooked>>
    /\ Store \/ (UNCHANGED <<database, saved>> /\ Restored)
    /\ UNCHANGED marks \/ Restored

LEMMA AnswerFacts ==
  ASSUME Shape, Answered
  PROVE  /\ FlushShape(flush) /\ flush # None /\ ~Moving' /\ flush'.phase # "lookup"
         /\ UNCHANGED <<local, stamp, announced, refresh, edits, newest, overlooked>>
         /\ Held' = Held
BY PhaseFacts DEF Answered, Moving, None, remoteState, Held

LEMMA StoreFacts ==
  ASSUME Store
  PROVE  /\ \A x \in Written(flush) \cap Chats :
              /\ Owner[x] \notin flush.gone
              /\ Owner[x] \in Written(flush) \/ db[Owner[x]] # Absent
         /\ \A r \in Rows :
              /\ Doomed(r) => db'[r] = Absent
              /\ Doomed(r) /\ r \notin Held => saved'[r] = newest[r]
              /\ ~Doomed(r) /\ r \in Written(flush) =>
                    db'[r] = flush.rows[r] /\ saved'[r] = flush.rows[r]
              /\ ~Doomed(r) /\ r \notin Written(flush) => db'[r] = db[r] /\ saved'[r] = saved[r]
         /\ \A c \in Characters :
              dbStamp'[c] = IF c \in Written(flush) THEN flush.stamps[c]
                            ELSE IF flush.touched[c] # Absent THEN flush.touched[c]
                            ELSE dbStamp[c]
         /\ DOMAIN db' = Rows /\ DOMAIN dbStamp' = Characters
         /\ dbStamp' = [c \in Characters |-> dbStamp'[c]]
<1> DEFINE gone == WithChats(flush.gone)
<1>1. \A r \in Rows : r \in gone <=> Doomed(r)
  BY DEF Doomed, WithChats
<1>2. /\ db' = [r \in Rows |-> IF r \in gone THEN Absent
                               ELSE IF r \in Written(flush) THEN flush.rows[r] ELSE db[r]]
      /\ saved' = [r \in Rows |-> IF r \in gone /\ r \notin Held THEN newest[r]
                                  ELSE IF r \in Written(flush) THEN flush.rows[r]
                                  ELSE saved[r]]
  BY DEF Store
<1> HIDE DEF gone
<1>3. \A r \in Rows :
         /\ db'[r] = IF r \in gone THEN Absent
                     ELSE IF r \in Written(flush) THEN flush.rows[r] ELSE db[r]
         /\ saved'[r] = IF r \in gone /\ r \notin Held THEN newest[r]
                        ELSE IF r \in Written(flush) THEN flush.rows[r]
                        ELSE saved[r]
  BY <1>2
<1>4. DOMAIN db' = Rows
  BY <1>2
<1>5. /\ \A x \in Written(flush) \cap Chats :
              /\ Owner[x] \notin flush.gone
              /\ Owner[x] \in Written(flush) \/ db[Owner[x]] # Absent
      /\ dbStamp' = [c \in Characters |->
                         IF c \in Written(flush) THEN flush.stamps[c]
                         ELSE IF flush.touched[c] # Absent THEN flush.touched[c]
                         ELSE dbStamp[c]]
  BY DEF Store, Acceptable
<1>6. \A r \in Rows :
         /\ Doomed(r) => db'[r] = Absent
         /\ Doomed(r) /\ r \notin Held => saved'[r] = newest[r]
         /\ ~Doomed(r) /\ r \in Written(flush) => db'[r] = flush.rows[r] /\ saved'[r] = flush.rows[r]
         /\ ~Doomed(r) /\ r \notin Written(flush) => db'[r] = db[r] /\ saved'[r] = saved[r]
  BY <1>1, <1>3
<1> QED BY <1>4, <1>5, <1>6

LEMMA RestoredFacts ==
  ASSUME Shape, Answered
  PROVE  /\ dirty \subseteq dirty' /\ deletes \subseteq deletes'
         /\ dirty' \subseteq dirty \cup flush.marked
         /\ deletes' \subseteq deletes \cup (flush.gone \ Held)
         /\ \A c \in Characters :
              /\ c \notin dirty' => \/ touches'[c] = touches[c]
                                    \/ touches'[c] = Later(touches[c], flush.touchMarks[c])
              /\ touches'[c] # Absent => touches[c] # Absent \/ flush.touchMarks[c] # Absent
         /\ touches' = [c \in Characters |-> touches'[c]]
<1>1. CASE UNCHANGED marks
  <2>1. dirty' = dirty /\ deletes' = deletes /\ touches' = touches
    BY <1>1 DEF marks
  <2>2. touches = [c \in Characters |-> touches[c]]
    BY DEF Shape
  <2> QED BY <2>1, <2>2
<1>2. CASE Restored
  BY <1>2 DEF Restored, Later
<1> QED BY <1>1, <1>2 DEF Answered

LEMMA AnswerShape ==
  ASSUME StoreInv, Answered PROVE Shape' /\ FlushInv' /\ MarkInv'
<1>1. Shape /\ FlushInv /\ MarkInv
  BY DEF StoreInv
<1>2. /\ UNCHANGED <<local, stamp, announced, refresh, edits, newest, overlooked>>
      /\ Held' = Held /\ FlushShape(flush) /\ flush # None /\ flush' = None
  BY <1>1, AnswerFacts DEF Answered
<1>3. \A c \in Characters : db'[c] \in 0 .. edits /\ dbStamp'[c] \in 1 .. edits
  <2>1. CASE Store
    <3>1. ASSUME NEW c \in Characters PROVE db'[c] \in 0 .. edits
      <4>1. c \in Rows /\ 0 \in 0 .. edits /\ db[c] \in 0 .. edits /\ flush.rows[c] \in 0 .. edits
        BY <1>1, <1>2, RowFacts DEF Shape, FlushShape
      <4>2. db'[c] = Absent \/ db'[c] = flush.rows[c] \/ db'[c] = db[c]
        BY <2>1, <4>1, StoreFacts
      <4> QED BY <4>1, <4>2 DEF Absent
    <3>2. ASSUME NEW c \in Characters PROVE dbStamp'[c] \in 1 .. edits
      <4>1. /\ flush.stamps[c] \in 1 .. edits /\ flush.touched[c] \in 0 .. edits
            /\ dbStamp[c] \in 1 .. edits /\ edits \in Nat
        BY <1>1, <1>2 DEF Shape, FlushShape
      <4>2. \/ dbStamp'[c] = flush.stamps[c] \/ dbStamp'[c] = dbStamp[c]
            \/ dbStamp'[c] = flush.touched[c] /\ flush.touched[c] # Absent
        BY <2>1, StoreFacts
      <4> QED BY <4>1, <4>2 DEF Absent
    <3> QED BY <3>1, <3>2
  <2>2. CASE UNCHANGED <<database, saved>>
    BY <1>1, <2>2 DEF Shape, database
  <2> QED BY <2>1, <2>2 DEF Answered
<1>4. DOMAIN db' = Rows /\ dbStamp' \in [Characters -> 1 .. edits]
  <2>1. CASE Store
    BY <1>3, <2>1, StoreFacts
  <2>2. CASE UNCHANGED <<database, saved>>
    BY <1>1, <2>2 DEF Shape, database
  <2> QED BY <2>1, <2>2 DEF Answered
<1>5. touches' \in [Characters -> 0 .. edits] /\ \A c \in Characters \cap dirty' : touches'[c] = Absent
  <2>1. CASE UNCHANGED marks
    BY <1>1, <2>1 DEF Shape, MarkInv, marks
  <2>2. CASE Restored
    <3>1. touches' = [c \in Characters |-> IF c \in dirty' THEN Absent
                                       ELSE Later(touches[c], flush.touchMarks[c])]
      BY <2>2 DEF Restored
    <3>2. \A c \in Characters : /\ touches[c] \in 0 .. edits /\ flush.touchMarks[c] \in 0 .. edits
                                /\ 0 \in 0 .. edits
      BY <1>1, <1>2 DEF Shape, FlushShape
    <3> QED BY <3>1, <3>2 DEF Later, Absent
  <2> QED BY <2>1, <2>2 DEF Answered
<1>6. dirty' \subseteq Rows /\ deletes' \subseteq Deletable
  BY <1>1, <1>2, RestoredFacts DEF Shape, FlushShape
<1>7. \A r \in deletes' : r \notin Held /\ newest[r] # Absent
  BY <1>1, <1>2, RestoredFacts DEF FlushInv, MarkInv
<1>8. refresh' = None \/ RefreshShape(refresh)'
  BY <1>1, <1>2 DEF Shape, RefreshShape
<1>9. Shape'
  BY <1>1, <1>2, <1>3, <1>4, <1>5, <1>6, <1>8 DEF Shape
<1>10. FlushInv' /\ MarkInv'
  BY <1>2, <1>5, <1>7 DEF FlushInv, MarkInv
<1> QED BY <1>9, <1>10

LEMMA AnswerRooted ==
  ASSUME StoreInv, Answered PROVE RootedInv'
<1>1. Shape /\ Rooted(db)
  BY DEF StoreInv, RootedInv
<1>2. UNCHANGED <<local, refresh>>
  BY <1>1, AnswerFacts
<1>3. Rooted(db')
  <2>1. CASE Store
    <3>1. SUFFICES ASSUME NEW x \in Chats, db'[x] # Absent PROVE db'[Owner[x]] # Absent
      BY DEF Rooted
    <3>2. x \in Rows /\ Owner[x] \in Rows /\ Owner[x] \notin Chats
      BY RowFacts
    <3>3. ~Doomed(x)
      BY <2>1, <3>1, <3>2, StoreFacts
    <3>4. ~Doomed(Owner[x])
      BY <3>2, <3>3 DEF Doomed
    <3>5. CASE Owner[x] \in Written(flush)
      BY <2>1, <3>2, <3>4, <3>5, StoreFacts DEF Written
    <3>6. CASE Owner[x] \notin Written(flush)
      <4>1. db'[Owner[x]] = db[Owner[x]]
        BY <2>1, <3>2, <3>4, <3>6, StoreFacts
      <4>2. x \in Written(flush) => db[Owner[x]] # Absent
        BY <2>1, <3>6, StoreFacts
      <4>3. x \notin Written(flush) => db[x] # Absent
        BY <2>1, <3>1, <3>2, <3>3, StoreFacts
      <4> QED BY <1>1, <4>1, <4>2, <4>3 DEF Rooted
    <3> QED BY <3>5, <3>6
  <2>2. CASE UNCHANGED <<database, saved>>
    BY <1>1, <2>2 DEF database, Rooted
  <2> QED BY <2>1, <2>2 DEF Answered
<1> QED BY <1>2, <1>3 DEF StoreInv, RootedInv, Rooted

LEMMA AnswerRows ==
  ASSUME StoreInv, Answered PROVE RowInv'
<1>1. Shape /\ FlushInv /\ RowInv /\ Moving
  BY DEF StoreInv, Answered
<1>2. /\ UNCHANGED <<local, announced, refresh, newest, overlooked>>
      /\ Held' = Held /\ flush # None /\ flush' = None /\ ~Moving' /\ FlushShape(flush)
  BY <1>1, AnswerFacts DEF Answered
<1>3. Written(flush) \subseteq flush.seen /\ flush.marked \subseteq Rows
  BY <1>2 DEF Written, FlushShape
<1>4. ASSUME NEW r \in Held \ overlooked PROVE HeldInv(r)'
  <2>1. r \in Rows /\ local[r] # Absent /\ HeldInv(r)
    BY <1>1, <1>4, HeldFacts DEF RowInv, Held
  <2>2. r \in dirty' => local[r] = newest[r]
    BY <1>1, <2>1, RestoredFacts DEF HeldInv
  <2>3. \/ r \in dirty'
        \/ saved'[r] = newest[r] /\ db'[r] # Absent /\ (local[r] = db'[r] \/ ToCome(r))
    <3>1. SUFFICES ASSUME r \notin dirty'
                   PROVE  saved'[r] = newest[r] /\ db'[r] # Absent /\ (local[r] = db'[r] \/ ToCome(r))
      OBVIOUS
    <3>2. r \notin dirty
      BY <1>1, <3>1, RestoredFacts
    <3>3. CASE Store
      <4>1. ~Doomed(r)
        BY <1>2, <2>1, <3>2, <3>3, StoreFacts DEF HeldInv
      <4>2. CASE r \in Written(flush)
        <5>1. flush.rows[r] = newest[r] /\ local[r] = newest[r]
          BY <1>1, <1>2, <1>3, <2>1, <3>2, <4>2 DEF HeldInv
        <5> QED BY <2>1, <3>3, <4>1, <4>2, <5>1, StoreFacts
      <4>3. CASE r \notin Written(flush)
        <5>1. ~Covered(r)
          BY <1>1, <1>2, <2>1, <3>2, <4>3 DEF HeldInv, Covered, Written
        <5> QED BY <2>1, <3>3, <4>1, <4>3, <5>1, StoreFacts DEF HeldInv
      <4> QED BY <4>2, <4>3
    <3>4. CASE UNCHANGED <<database, saved>> /\ Restored
      <4>1. ~Covered(r)
        BY <1>2, <2>1, <3>1, <3>2, <3>4 DEF HeldInv, Covered, Restored
      <4> QED BY <2>1, <3>4, <4>1 DEF HeldInv, database
    <3> QED BY <3>3, <3>4 DEF Answered
  <2> QED BY <1>2, <2>2, <2>3 DEF HeldInv, Covered, ToCome
<1>5. ASSUME NEW r \in Rows \ overlooked, r \notin Held PROVE GoneInv(r)'
  <2>1. GoneInv(r)
    BY <1>1, <1>5 DEF RowInv
  <2>2. Going(r) => Going(r)'
    BY <1>1, RestoredFacts DEF Going
  <2>3. Restored /\ SentGone(r) => Going(r)'
    BY <1>5 DEF Restored, SentGone, Going
  <2>4. r \in dirty' => Going(r)'
    <3>1. CASE Restored
      BY <1>1, <2>1, <2>2, <2>3, <3>1 DEF GoneInv, Restored
    <3>2. CASE UNCHANGED marks
      BY <2>1, <2>2, <3>2 DEF GoneInv, marks
    <3> QED BY <3>1, <3>2 DEF Answered
  <2>5. Going(r)' \/ (saved'[r] = newest[r] /\ db'[r] = Absent)
    <3>1. CASE Store
      <4>1. CASE Doomed(r)
        BY <1>5, <3>1, <4>1, StoreFacts
      <4>2. CASE ~Doomed(r)
        <5>1. ~SentGone(r)
          BY <4>2 DEF Doomed, SentGone
        <5>2. r \in Written(flush) => Going(r)
          BY <1>2, <1>3, <2>1, <5>1 DEF GoneInv
        <5> QED BY <1>5, <2>1, <2>2, <3>1, <4>2, <5>1, <5>2, StoreFacts DEF GoneInv
      <4> QED BY <4>1, <4>2
    <3>2. CASE UNCHANGED <<database, saved>> /\ Restored
      BY <2>1, <2>2, <2>3, <3>2 DEF GoneInv, database
    <3> QED BY <3>1, <3>2 DEF Answered
  <2> QED BY <1>2, <2>4, <2>5 DEF GoneInv
<1> QED BY <1>2, <1>4, <1>5 DEF RowInv

LEMMA AnswerStamps ==
  ASSUME StoreInv, Answered PROVE StampInv'
<1>1. Shape /\ FlushInv /\ Moving
  BY DEF StoreInv, Answered
<1>2. /\ UNCHANGED <<stamp, overlooked>> /\ Held' = Held
      /\ flush # None /\ flush' = None /\ ~Moving' /\ FlushShape(flush) /\ flush'.phase # "lookup"
  BY <1>1, AnswerFacts DEF Answered
<1>3. SUFFICES ASSUME NEW c \in (Characters \cap Held) \ overlooked
               PROVE  StampSaved(c)' /\ (touches'[c] # Absent => touches'[c] = stamp'[c])
                      /\ StampSent(c)'
  BY <1>2 DEF StampInv
<1>4. StampSaved(c) /\ (touches[c] # Absent => touches[c] = stamp[c]) /\ StampSent(c)
  BY <1>3 DEF StoreInv, StampInv
<1>5. /\ stamp[c] \in 1 .. edits /\ touches[c] \in 0 .. edits /\ edits \in Nat
      /\ flush.touchMarks[c] \in 0 .. edits /\ flush.touched[c] \in 0 .. edits
      /\ c \in Rows
  BY <1>1, <1>2, RowFacts DEF Shape, FlushShape
<1>6. c \in Written(flush) => c \in dirty \/ c \in flush.marked
  BY <1>2, <1>3, <1>5 DEF StoreInv, RowInv, HeldInv, Written
<1>7. c \in Written(flush) => flush.touched[c] = Absent
  BY <1>1, <1>2 DEF FlushInv, Written
<1>8. Absent = 0
  BY DEF Absent
<1>9. ASSUME c \notin dirty'
      PROVE  /\ touches[c] = stamp[c] => touches'[c] = stamp[c]
             /\ touches'[c] # Absent => touches'[c] = stamp[c]
             /\ Restored /\ flush.touched[c] = stamp[c] => touches'[c] = stamp[c]
  <2>1. c \notin dirty
    BY <1>1, <1>9, RestoredFacts
  <2>2. /\ flush.stamps[c] = stamp[c] \/ touches[c] = stamp[c]
        /\ flush.touchMarks[c] # Absent =>
             flush.touchMarks[c] = flush.stamps[c] /\ flush.touchMarks[c] <= stamp[c]
        /\ flush.touched[c] # Absent => flush.touchMarks[c] = flush.touched[c]
    BY <1>1, <1>4, <2>1 DEF StampSent
  <2>3. CASE UNCHANGED marks
    <3>1. touches' = touches /\ dirty' = dirty
      BY <2>3 DEF marks
    <3>2. Restored /\ flush.touched[c] = stamp[c] => touches[c] = Later(touches[c], flush.touchMarks[c])
      BY <1>9, <3>1 DEF Restored
    <3>3. flush.touched[c] = stamp[c] => Later(touches[c], flush.touchMarks[c]) = stamp[c]
      BY <1>4, <1>5, <1>8, <2>2 DEF Later
    <3> QED BY <1>4, <3>1, <3>2, <3>3
  <2>4. CASE Restored
    <3>1. touches'[c] = Later(touches[c], flush.touchMarks[c])
      BY <1>9, <2>4 DEF Restored
    <3> QED BY <1>4, <1>5, <1>8, <2>2, <3>1 DEF Later
  <2> QED BY <2>3, <2>4 DEF Answered
<1>10. stamp[c] = dbStamp'[c] \/ c \in dirty' \/ touches'[c] = stamp[c]
  <2>1. SUFFICES ASSUME c \notin dirty', touches'[c] # stamp[c] PROVE stamp[c] = dbStamp'[c]
    OBVIOUS
  <2>2. c \notin dirty /\ touches[c] # stamp[c]
    BY <1>1, <1>9, <2>1, RestoredFacts
  <2>3. flush.stamps[c] = stamp[c]
    BY <1>1, <1>4, <2>2 DEF StampSent
  <2>4. CASE Store
    <3>1. dbStamp'[c] = IF c \in Written(flush) THEN flush.stamps[c]
                        ELSE IF flush.touched[c] # Absent THEN flush.touched[c]
                        ELSE dbStamp[c]
      BY <2>4, StoreFacts
    <3>2. flush.touched[c] # Absent => flush.touched[c] = flush.stamps[c]
      BY <1>2, <1>4, <2>2 DEF StampSent
    <3> QED BY <1>4, <1>5, <1>7, <1>8, <2>2, <2>3, <3>1, <3>2 DEF StampSaved
  <2>5. CASE UNCHANGED <<database, saved>> /\ Restored
    <3>1. c \notin Written(flush)
      BY <1>6, <2>1, <2>2, <2>5 DEF Restored
    <3>2. flush.touched[c] # stamp[c]
      BY <1>9, <2>1, <2>5
    <3> QED BY <1>4, <2>2, <2>5, <3>1, <3>2 DEF StampSaved, database
  <2> QED BY <2>4, <2>5 DEF Answered
<1>11. touches'[c] # Absent => touches'[c] = stamp[c]
  <2>1. c \in dirty' => touches'[c] = Absent
    BY <1>3, AnswerShape DEF MarkInv
  <2> QED BY <1>9, <2>1
<1> QED BY <1>2, <1>10, <1>11 DEF StampSaved, StampSent

LEMMA AnswerRefresh ==
  ASSUME StoreInv, Answered PROVE RefreshInv'
<1>1. Shape /\ FlushInv /\ RowInv /\ Moving /\ RefreshInv
  BY DEF StoreInv, Answered
<1>2. /\ UNCHANGED <<local, stamp, announced, refresh, newest, overlooked>> /\ Held' = Held
      /\ flush # None /\ flush' = None /\ ~Moving' /\ FlushShape(flush)
  BY <1>1, AnswerFacts DEF Answered
<1>3. SUFFICES ASSUME refresh # None PROVE RefreshInv'
  BY <1>2 DEF RefreshInv
<1>4. refresh.since \in 1 .. edits /\ edits \in Nat
  BY <1>1, <1>3, PhaseFacts DEF Shape, RefreshShape
<1>5. \A r \in Marked' : newest[r] > refresh.since \/ r \in refresh.pending
  <2>1. Marked' \subseteq Marked
    BY <1>1, <1>2, RestoredFacts DEF Marked
  <2> QED BY <1>1, <1>3, <2>1 DEF RefreshInv
<1>6. \A c \in Characters : TouchedSince(c)' => stamp[c] > refresh.since \/ c \in refresh.pending
  <2>1. \A c \in Characters : TouchedSince(c)' => TouchedSince(c)
    BY <1>1, <1>2, RestoredFacts DEF TouchedSince
  <2> QED BY <1>1, <1>3, <2>1 DEF RefreshInv
<1>7. \A r \in Rows : Early(r) => r \notin Marked
  <2>1. \A r \in Rows : newest[r] \in 0 .. edits
    BY <1>1 DEF Shape
  <2> QED BY <1>1, <1>3, <1>4, <2>1 DEF RefreshInv, Early
<1>8. Written(flush) \subseteq flush.seen /\ flush.seen \subseteq Marked /\ dirty \subseteq Marked
  BY <1>2 DEF Written, Marked
<1>9. ASSUME NEW r \in Rows \ overlooked PROVE ReadRow(r)'
  <2>1. SUFFICES ASSUME Early(r) PROVE ReadRow(r)'
    BY <1>2 DEF ReadRow, Early
  <2>2. r \notin Written(flush) /\ r \notin dirty /\ ReadRow(r)
    BY <1>1, <1>3, <1>7, <1>8, <1>9, <2>1 DEF RefreshInv
  <2>3. CASE Store
    <3>1. CASE r \in Held
      <4>1. ~Doomed(r)
        BY <1>1, <1>2, <1>9, <2>2, <3>1 DEF RowInv, HeldInv
      <4> QED BY <1>2, <1>9, <2>2, <2>3, <3>1, <4>1, StoreFacts DEF ReadRow, Early
    <3>2. CASE r \notin Held
      BY <1>2, <1>9, <2>1, <2>2, <2>3, <3>2, StoreFacts DEF ReadRow, Early
    <3> QED BY <3>1, <3>2
  <2>4. CASE UNCHANGED <<database, saved>>
    BY <1>2, <2>2, <2>4 DEF ReadRow, Early, database
  <2> QED BY <2>3, <2>4 DEF Answered
<1>10. ASSUME NEW c \in Characters \ overlooked PROVE ReadStamp(c)'
  <2>1. SUFFICES ASSUME Early(c), stamp[c] <= refresh.since, c \in Held
                 PROVE  ReadStamp(c)'
    BY <1>2 DEF ReadStamp, Early
  <2>2. c \in Rows /\ stamp[c] \in 1 .. edits
    BY <1>1, RowFacts DEF Shape
  <2>3. c \notin Written(flush) /\ ReadStamp(c)
    BY <1>1, <1>3, <1>7, <1>8, <1>10, <2>1, <2>2 DEF RefreshInv
  <2>4. ~(stamp[c] > refresh.since)
    BY <1>4, <2>1, <2>2
  <2>5. flush.touched[c] = Absent
    BY <1>1, <1>2, <1>3, <2>1, <2>4 DEF RefreshInv, TouchedSince, Early
  <2>6. CASE Store
    BY <1>2, <2>3, <2>5, <2>6, StoreFacts DEF ReadStamp, Early
  <2>7. CASE UNCHANGED <<database, saved>>
    BY <1>2, <2>3, <2>7 DEF ReadStamp, Early, database
  <2> QED BY <2>6, <2>7 DEF Answered
<1> QED BY <1>1, <1>2, <1>3, <1>5, <1>6, <1>9, <1>10 DEF RefreshInv

LEMMA AnswerStep ==
  ASSUME StoreInv, Answered PROVE StoreInv'
BY AnswerShape, AnswerRooted, AnswerRows, AnswerStamps, AnswerRefresh DEF StoreInv

LEMMA CommitStep ==
  ASSUME StoreInv, CommitSucceeds \/ \E applied \in BOOLEAN : CommitFails(applied)
  PROVE  StoreInv'
<1>1. CASE CommitSucceeds
  <2>1. Answered
    BY <1>1 DEF CommitSucceeds, Answered, Moving, content
  <2> QED BY <2>1, AnswerStep
<1>2. ASSUME NEW applied \in BOOLEAN, CommitFails(applied) PROVE StoreInv'
  <2>1. Restored
    BY <1>2 DEF CommitFails, Restored
  <2>2. Store \/ UNCHANGED <<database, saved>>
    BY <1>2 DEF CommitFails
  <2>3. Answered
    BY <1>2, <2>1, <2>2 DEF CommitFails, Answered, Moving, content
  <2> QED BY <2>3, AnswerStep
<1> QED BY <1>1, <1>2

-----------------------------------------------------------------------------
(* Other clients, and the refresh that follows what they announce.            *)

Announced ==
    /\ NextEdit
    /\ announced' \in {"characters", "everything"}
    /\ DOMAIN db' = Rows
    /\ \A r \in Rows : db'[r] # db[r] => r \in Characters /\ db[r] # Absent /\ db'[r] = edits'
    /\ UNCHANGED <<local, stamp, dbStamp, marks, flush, refresh, ghosts>>

LEMMA AnnouncedStep ==
  ASSUME StoreInv, Announced PROVE StoreInv'
<1>1. /\ edits \in Nat \ {0} /\ edits' = edits + 1 /\ edits' # Absent
      /\ announced' \in {"characters", "everything"} /\ announced' # "nothing" /\ DOMAIN db' = Rows
      /\ UNCHANGED <<local, stamp, dbStamp, dirty, touches, deletes, flush, refresh, newest,
                     saved, overlooked>>
  BY DEF Announced, NextEdit, StoreInv, Shape, Absent, marks, ghosts
<1>2. \A r \in Rows : /\ r \notin Characters => db'[r] = db[r]
                      /\ db'[r] = db[r] \/ (db[r] # Absent /\ db'[r] = edits')
                      /\ db'[r] = Absent <=> db[r] = Absent
  BY <1>1 DEF Announced
<1>3. \A n : (n \in 0 .. edits => n \in 0 .. edits') /\ (n \in 1 .. edits => n \in 1 .. edits')
  BY <1>1
<1>4. Held' = Held
  BY <1>1 DEF Held
<1>5. Shape'
  <2>1. flush' = None \/ FlushShape(flush)'
    BY <1>1, <1>3 DEF StoreInv, Shape, FlushShape
  <2>2. refresh' = None \/ RefreshShape(refresh)'
    BY <1>1, <1>3 DEF StoreInv, Shape, RefreshShape
  <2>3. \A d \in Characters : local'[d] \in 0 .. edits' /\ db'[d] \in 0 .. edits'
    <3>1. edits' \in 0 .. edits'
      BY <1>1
    <3> QED BY <1>1, <1>2, <1>3, <3>1, RowFacts DEF StoreInv, Shape
  <2>4. stamp' \in [Characters -> 1 .. edits'] /\ dbStamp' \in [Characters -> 1 .. edits']
    BY <1>1, <1>3 DEF StoreInv, Shape
  <2>5. touches' \in [Characters -> 0 .. edits'] /\ \A r \in Rows : newest'[r] \in 0 .. edits'
    BY <1>1, <1>3 DEF StoreInv, Shape
  <2> QED BY <1>1, <2>1, <2>2, <2>3, <2>4, <2>5 DEF StoreInv, Shape
<1>6. FlushInv' /\ MarkInv'
  BY <1>1, <1>4 DEF StoreInv, FlushInv, Moving, MarkInv
<1>7. RootedInv'
  <2>1. ASSUME NEW x \in Chats, db'[x] # Absent PROVE db'[Owner[x]] # Absent
    BY <1>2, <2>1, RowFacts DEF StoreInv, RootedInv, Rooted
  <2> QED BY <1>1, <2>1 DEF StoreInv, RootedInv, Rooted
<1>8. RowInv'
  <2>1. ASSUME NEW r \in Held \ overlooked PROVE HeldInv(r)'
    <3>1. HeldInv(r) /\ r \in Rows
      BY <2>1 DEF StoreInv, RowInv, Held
    <3>2. r \in Characters => ToCome(r)'
      BY <1>1 DEF ToCome
    <3>3. local[r] = db[r] \/ ToCome(r) => local'[r] = db'[r] \/ ToCome(r)'
      BY <1>1, <1>2, <3>1, <3>2 DEF ToCome
    <3> QED BY <1>1, <1>2, <3>1, <3>3 DEF HeldInv, Covered, Doomed, Moving, Written
  <2>2. ASSUME NEW r \in Rows \ overlooked, r \notin Held PROVE GoneInv(r)'
    <3>1. GoneInv(r)
      BY <2>2 DEF StoreInv, RowInv
    <3> QED BY <1>1, <1>2, <1>4, <3>1 DEF GoneInv, Going, SentGone, Moving
  <2> QED BY <1>1, <1>4, <2>1, <2>2 DEF RowInv
<1>9. StampInv'
  BY <1>1, <1>4 DEF StoreInv, StampInv, StampSaved, StampSent, Moving, Written
<1>10. RefreshInv'
  <2>1. SUFFICES ASSUME refresh # None PROVE RefreshInv'
    BY <1>1 DEF RefreshInv
  <2>2. ASSUME NEW r \in Rows \ overlooked PROVE ReadRow(r)'
    <3>1. ReadRow(r)
      BY <2>1, <2>2 DEF StoreInv, RefreshInv
    <3>2. CASE r \in Characters
      BY <1>1, <1>2, <1>4, <2>2, <3>1, <3>2 DEF ReadRow, Early
    <3>3. CASE r \notin Characters
      BY <1>1, <1>2, <1>4, <2>2, <3>1, <3>3 DEF ReadRow, Early
    <3> QED BY <3>2, <3>3
  <2>3. Marked' = Marked /\ \A d \in Characters : TouchedSince(d)' <=> TouchedSince(d)
    BY <1>1 DEF Marked, TouchedSince
  <2> QED BY <1>1, <1>4, <2>1, <2>2, <2>3 DEF StoreInv, RefreshInv, ReadStamp, Early
<1> QED BY <1>5, <1>6, <1>7, <1>8, <1>9, <1>10 DEF StoreInv

LEMMA RemoteStep ==
  ASSUME StoreInv, NEW c \in Characters, NEW what \in {"characters", "everything"},
         RemoteChange(c, what)
  PROVE  StoreInv'
<1>1. c \in Rows /\ DOMAIN db = Rows
  BY RowFacts DEF StoreInv, Shape
<1>2. db[c] # Absent /\ db' = [db EXCEPT ![c] = edits'] /\ announced' \in {"characters", "everything"}
  BY DEF RemoteChange, Announce
<1>3. UNCHANGED <<local, stamp, dbStamp, marks, flush, refresh, ghosts>> /\ NextEdit
  BY DEF RemoteChange, content
<1>4. Announced
  BY <1>1, <1>2, <1>3 DEF Announced
<1> QED BY <1>4, AnnouncedStep

LEMMA ResyncStep == ASSUME StoreInv, ResyncRequired PROVE StoreInv'
<1>1. /\ announced' \in {"characters", "everything"} /\ db' = db /\ NextEdit
      /\ UNCHANGED <<local, stamp, dbStamp, marks, flush, refresh, ghosts>>
  BY DEF ResyncRequired, Announce, content, database
<1>2. DOMAIN db' = Rows
  BY <1>1 DEF StoreInv, Shape
<1>3. Announced
  BY <1>1, <1>2 DEF Announced
<1> QED BY <1>3, AnnouncedStep

LEMMA ReadStep ==
  ASSUME StoreInv, ReadCharacters PROVE StoreInv'
<1>1. /\ flush = None /\ dirty = {} /\ touches = NoTouches /\ deletes = {}
      /\ announced' = "nothing"
      /\ refresh' = [phase |-> "characters", rows |-> db, chats |-> chats,
                     stamps |-> dbStamp, since |-> edits, pending |-> {}]
      /\ UNCHANGED <<local, stamp, db, dbStamp, dirty, touches, deletes, flush, edits, newest,
                     saved, overlooked>>
  BY DEF ReadCharacters, hasPendingWrites, content, database, marks, ghosts
<1>2. /\ ~Moving /\ Held' = Held /\ ~Moving' /\ refresh' # None /\ flush.phase # "lookup"
      /\ refresh'.rows = db /\ refresh'.stamps = dbStamp /\ refresh'.since = edits
      /\ refresh'.phase = "characters" /\ refresh'.pending = {}
  BY <1>1 DEF Moving, None, Held
<1>3. /\ \A r \in Rows : newest[r] \in 0 .. edits /\ newest[r] <= edits /\ ~(newest[r] > edits)
      /\ \A c \in Characters : touches[c] = Absent /\ stamp[c] # Absent
  BY <1>1 DEF StoreInv, Shape, NoTouches, Absent
<1>4. Shape'
  <2>1. RefreshShape(refresh)'
    BY <1>1, <1>2 DEF StoreInv, Shape, RefreshShape
  <2> QED BY <1>1, <2>1 DEF StoreInv, Shape
<1>5. FlushInv' /\ MarkInv' /\ RootedInv'
  BY <1>1, <1>2 DEF StoreInv, FlushInv, MarkInv, RootedInv, Rooted
<1>6. \A r \in Held \ overlooked : HeldInv(r)'
  BY <1>1, <1>2, <1>3 DEF StoreInv, RowInv, HeldInv, Covered, ToCome, Held
<1>7. \A r \in Rows \ overlooked : r \notin Held => saved[r] = newest[r] /\ db[r] = Absent
  <2>1. ASSUME NEW r \in Rows \ overlooked, r \notin Held PROVE saved[r] = newest[r] /\ db[r] = Absent
    BY <1>1, <1>2, <2>1 DEF StoreInv, RowInv, GoneInv, Going, SentGone
  <2> QED BY <2>1
<1>8. RowInv'
  BY <1>1, <1>2, <1>6, <1>7 DEF RowInv, GoneInv
<1>9. \A c \in (Characters \cap Held) \ overlooked : stamp[c] = dbStamp[c]
  BY <1>1, <1>2, <1>3 DEF StoreInv, StampInv, StampSaved
<1>10. StampInv'
  BY <1>1, <1>2, <1>3, <1>9 DEF StampInv, StampSaved, StampSent
<1>11. RefreshInv'
  <2>1. Marked' = {} /\ \A c \in Characters : ~TouchedSince(c)'
    BY <1>1, <1>3 DEF Marked, TouchedSince
  <2>2. \A c \in Characters : c \in Rows
    BY RowFacts
  <2>3. \A r \in Rows \ overlooked : ReadRow(r)'
    BY <1>1, <1>2, <1>7 DEF ReadRow, Early
  <2>4. \A c \in Characters \ overlooked : ReadStamp(c)'
    BY <1>1, <1>2, <1>9 DEF ReadStamp, Early
  <2> QED BY <1>1, <1>2, <1>3, <2>1, <2>2, <2>3, <2>4 DEF RefreshInv
<1> QED BY <1>4, <1>5, <1>8, <1>10, <1>11 DEF StoreInv

LEMMA ReplaceStep ==
  ASSUME StoreInv, ReplaceCharacters PROVE StoreInv'
<1>1. /\ refresh # None /\ refresh' = None
      /\ local' = RefreshedRows /\ stamp' = refresh.stamps
      /\ deletes' = {r \in deletes : local'[r] = Absent}
      /\ overlooked' = overlooked
           \cup {r \in Rows : /\ newest[r] > refresh.since
                              /\ local'[r] # local[r] \/ (r \in Chats /\ Owner[r] \in Back)}
           \cup {c \in Characters : stamp'[c] # stamp[c] /\ stamp[c] > refresh.since}
      /\ UNCHANGED <<db, dbStamp, dirty, touches, flush, announced, edits, newest, saved>>
  BY DEF ReplaceCharacters, ChangedAfter, TouchedAfter, KeptDeletes, database
<1>2. RefreshShape(refresh) /\ refresh.since \in Nat /\ refresh.pending = {}
  BY <1>1, PhaseFacts DEF ReplaceCharacters, StoreInv, Shape, RefreshShape
<1>3. /\ \A c \in Characters : local'[c] = refresh.rows[c] /\ c \in Rows
      /\ \A r \in Lists : local'[r] = local[r]
      /\ \A x \in Chats : local'[x] = IF Owner[x] \in Back THEN refresh.rows[x]
                                      ELSE IF refresh.rows[Owner[x]] = Absent THEN Absent
                                      ELSE local[x]
  BY <1>1, RowFacts DEF RefreshedRows
<1>4. \A c \in Characters : c \in Back <=> c \notin Held /\ refresh.rows[c] # Absent
  BY DEF Back
<1>5. \A r \in Rows : (r \in Held <=> local[r] # Absent) /\ (r \in Held' <=> local'[r] # Absent)
  BY HeldFacts, NextHeldFacts
<1>6. \A r \in Rows : newest[r] \in Nat /\ (newest[r] > refresh.since \/ newest[r] <= refresh.since)
  <2>1. \A r \in Rows : newest[r] \in 0 .. edits /\ edits \in Nat
    BY DEF StoreInv, Shape
  <2> QED BY <1>2, <2>1
<1>7. Shape'
  <2>1. \A c \in Characters : local'[c] \in 0 .. edits
    <3>1. refresh.since \in 1 .. edits /\ edits \in Nat /\ \A c \in Characters : refresh.rows[c] \in 0 .. refresh.since
      BY <1>2 DEF RefreshShape, StoreInv, Shape
    <3> QED BY <1>3, <3>1
  <2>2. flush' = None \/ FlushShape(flush)'
    BY <1>1 DEF StoreInv, Shape, FlushShape
  <2>3. stamp' \in [Characters -> 1 .. edits] /\ deletes' \subseteq Deletable
    BY <1>1, <1>2 DEF StoreInv, Shape, RefreshShape
  <2> QED BY <1>1, <2>1, <2>2, <2>3 DEF StoreInv, Shape
<1>8. FlushInv'
  BY <1>1 DEF StoreInv, FlushInv, Moving
<1>9. MarkInv'
  <2>1. \A r \in deletes' : r \in Rows /\ r \in deletes /\ local'[r] = Absent
    BY <1>1, RowFacts DEF StoreInv, Shape
  <2> QED BY <1>1, <1>5, <2>1 DEF StoreInv, MarkInv
<1>10. RootedInv'
  <2>1. ASSUME NEW x \in Chats, local'[x] # Absent PROVE local'[Owner[x]] # Absent
    BY <1>3, <1>4, <2>1, RowFacts
  <2> QED BY <1>1, <2>1 DEF StoreInv, RootedInv, Rooted
<1>11. ASSUME NEW r \in Rows, r \notin overlooked', newest[r] > refresh.since
       PROVE  /\ r \notin overlooked /\ local'[r] = local[r] /\ (r \in Held' <=> r \in Held)
              /\ r \in Chats => Owner[r] \notin Back
  BY <1>1, <1>5, <1>11
<1>12. ASSUME NEW r \in Rows, r \notin overlooked, newest[r] <= refresh.since
       PROVE  /\ r \notin dirty /\ r \notin deletes
              /\ flush # None => r \notin flush.seen /\ r \notin flush.gone /\ r \notin flush.marked
              /\ ReadRow(r)
  <2>1. r \notin Marked
    BY <1>1, <1>2, <1>6, <1>12 DEF StoreInv, RefreshInv
  <2>2. ReadRow(r)
    BY <1>1, <1>12 DEF StoreInv, RefreshInv
  <2> QED BY <2>1, <2>2 DEF Marked
<1>13. Moving => flush # None
  BY PhaseFacts DEF StoreInv
\* A row that was there and has not changed since the read.
<1>14. ASSUME NEW r \in Held \ overlooked, newest[r] <= refresh.since
       PROVE  r \in Held' /\ HeldInv(r)'
  <2>1. r \in Rows /\ r \notin dirty /\ HeldInv(r)
    BY <1>12, <1>14 DEF Held, StoreInv, RowInv
  <2>2. flush # None => r \notin flush.seen /\ r \notin flush.gone /\ r \notin flush.marked
    BY <1>12, <1>14, <2>1
  <2>3. \/ refresh.rows[r] = db[r]
        \/ r \in Characters /\ announced # "nothing" /\ refresh.rows[r] # Absent
    BY <1>2, <1>12, <1>14, <2>1 DEF ReadRow, Early
  <2>4. saved[r] = newest[r] /\ db[r] # Absent /\ (local[r] = db[r] \/ ToCome(r))
    BY <1>13, <2>1, <2>2 DEF HeldInv, Covered
  <2>5. local'[r] # Absent /\ (local'[r] = db[r] \/ (r \in Characters /\ announced # "nothing"))
    <3>1. CASE r \in Characters
      BY <1>3, <2>3, <2>4, <3>1
    <3>2. CASE r \in Lists
      BY <1>3, <1>5, <2>1, <2>4, <3>2, <1>14, RowFacts DEF ToCome
    <3>3. CASE r \in Chats
      <4>1. r \notin Characters /\ Owner[r] \in Rows /\ Owner[r] \in Characters
        BY <3>3, RowFacts
      <4>2. Owner[r] \in Held
        BY <1>5, <1>14, <2>1, <3>3, <4>1 DEF StoreInv, RootedInv, Rooted
      <4>3. refresh.rows[Owner[r]] # Absent
        BY <1>1, <2>3, <2>4, <3>3, <4>1 DEF StoreInv, RootedInv, Rooted
      <4>4. local'[r] = local[r]
        BY <1>3, <1>4, <3>3, <4>1, <4>2, <4>3
      <4> QED BY <1>5, <1>14, <2>1, <2>4, <4>1, <4>4 DEF ToCome
    <3> QED BY <2>1, <3>1, <3>2, <3>3, RowFacts
  <2>6. r \notin Written(flush) \/ ~Moving
    BY <1>13, <2>2 DEF Written
  <2>7. flush # None /\ Doomed(r) =>
         r \in dirty \/ (Moving /\ r \in Chats /\ Owner[r] \in flush.gone /\ r \in Written(flush))
    BY <2>1 DEF HeldInv
  <2> QED BY <1>1, <1>5, <1>13, <2>1, <2>2, <2>4, <2>5, <2>6, <2>7
          DEF HeldInv, ToCome, Moving, Doomed, Written
\* A row that was not there and has not changed since the read.
<1>15. ASSUME NEW r \in Rows \ overlooked, r \notin Held, newest[r] <= refresh.since
       PROVE  r \notin Held' /\ GoneInv(r)'
  <2>1. saved[r] = newest[r] /\ db[r] = Absent /\ refresh.rows[r] = Absent /\ local[r] = Absent
    BY <1>2, <1>5, <1>12, <1>15 DEF ReadRow, Early
  <2>2. local'[r] = Absent
    BY <1>3, <1>15, <2>1, RowFacts
  <2>3. r \notin dirty /\ (flush # None => r \notin flush.marked /\ r \notin flush.seen)
    BY <1>12, <1>15
  <2> QED BY <1>1, <1>5, <1>13, <1>15, <2>1, <2>2, <2>3 DEF GoneInv, Moving
<1>16. RowInv'
  <2>1. SUFFICES ASSUME NEW r \in Rows, r \notin overlooked'
                 PROVE  IF r \in Held' THEN HeldInv(r)' ELSE GoneInv(r)'
    BY DEF RowInv
  <2>2. r \notin overlooked
    BY <1>1, <2>1
  <2>3. CASE newest[r] <= refresh.since
    BY <1>14, <1>15, <2>1, <2>2, <2>3
  <2>4. CASE newest[r] > refresh.since
    <3>1. local'[r] = local[r] /\ (r \in Held' <=> r \in Held) /\ (r \in Chats => Owner[r] \notin Back)
      BY <1>11, <2>1, <2>4
    <3>2. CASE r \in Held
      <4>1. HeldInv(r)
        BY <2>1, <2>2, <3>2 DEF StoreInv, RowInv
      <4>2. ~(newest[r] <= refresh.since)
        BY <1>2, <1>6, <2>1, <2>4
      <4>3. local[r] = db[r] \/ ToCome(r) => local'[r] = db'[r] \/ ToCome(r)'
        BY <1>1, <3>1, <4>2 DEF ToCome
      <4>4. HeldInv(r)'
        BY <1>1, <3>1, <4>1, <4>3 DEF HeldInv, Covered, Doomed, Moving, Written
      <4> QED BY <3>1, <3>2, <4>4
    <3>3. CASE r \notin Held
      <4>1. GoneInv(r)
        BY <2>1, <2>2, <3>3 DEF StoreInv, RowInv
      <4>2. \A c \in Characters : c \notin Held /\ c \notin Back => local'[c] = Absent
        BY <1>3, <1>4
      <4>3. Going(r) => Going(r)'
        <5>1. r \in deletes => r \in deletes'
          BY <1>1, <1>5, <3>1, <3>3
        <5>2. r \in Chats /\ Owner[r] \in deletes => Owner[r] \in deletes'
          <6>1. SUFFICES ASSUME r \in Chats, Owner[r] \in deletes PROVE Owner[r] \in deletes'
            OBVIOUS
          <6>2. Owner[r] \in Characters /\ Owner[r] \notin Held /\ Owner[r] \notin Back
            BY <3>1, <6>1, RowFacts DEF StoreInv, MarkInv
          <6> QED BY <1>1, <4>2, <6>1, <6>2
        <5> QED BY <5>1, <5>2 DEF Going
      <4>4. SentGone(r) => SentGone(r)'
        <5>1. r \in Chats /\ Owner[r] \notin Held => Owner[r] \notin Held'
          BY <1>5, <3>1, <4>2, RowFacts
        <5> QED BY <1>1, <5>1 DEF SentGone, Moving
      <4>5. GoneInv(r)'
        BY <1>1, <4>1, <4>3, <4>4 DEF GoneInv, Moving
      <4> QED BY <3>1, <3>3, <4>5
    <3> QED BY <3>2, <3>3
  <2> QED BY <1>6, <2>1, <2>3, <2>4
<1>17. StampInv'
  <2>1. SUFFICES ASSUME NEW c \in Characters, c \notin overlooked', c \in Held'
                 PROVE  StampSaved(c)' /\ (touches'[c] # Absent => touches'[c] = stamp'[c])
                        /\ StampSent(c)'
    BY DEF StampInv
  <2>2. c \in Rows /\ c \notin overlooked /\ (stamp'[c] = stamp[c] \/ ~(stamp[c] > refresh.since))
    BY <1>1, <1>3, <2>1
  <2>3. c \in Held
    <3>1. CASE newest[c] > refresh.since
      BY <1>11, <2>1, <2>2, <3>1
    <3>2. CASE newest[c] <= refresh.since
      BY <1>15, <2>1, <2>2, <3>2
    <3> QED BY <1>6, <2>2, <3>1, <3>2
  <2>4. stamp'[c] = stamp[c]
    <3>1. SUFFICES ASSUME ~(stamp[c] > refresh.since) PROVE stamp'[c] = stamp[c]
      BY <2>2
    <3>2. stamp[c] <= refresh.since
      <4>1. stamp[c] \in 1 .. edits /\ edits \in Nat
        BY DEF StoreInv, Shape
      <4> QED BY <1>2, <3>1, <4>1
    <3>3. newest[c] <= refresh.since
      <4>1. SUFFICES ASSUME newest[c] > refresh.since PROVE FALSE
        BY <1>6, <2>2
      <4>2. local[c] = newest[c] /\ local'[c] = local[c]
        BY <1>1, <1>11, <2>1, <2>2, <2>3, <4>1 DEF StoreInv, RefreshInv
      <4>3. refresh.rows[c] \in 0 .. refresh.since /\ newest[c] \in Nat
        BY <1>2, <1>6, <2>2 DEF RefreshShape
      <4> QED BY <1>2, <1>3, <4>1, <4>2, <4>3
    <3>4. ReadStamp(c)
      BY <1>1, <2>1, <2>2 DEF StoreInv, RefreshInv
    <3> QED BY <1>1, <1>2, <2>3, <3>2, <3>3, <3>4 DEF ReadStamp, Early
  <2>5. StampSaved(c) /\ (touches[c] # Absent => touches[c] = stamp[c]) /\ StampSent(c)
    BY <2>1, <2>2, <2>3 DEF StoreInv, StampInv
  <2> QED BY <1>1, <2>4, <2>5 DEF StampSaved, StampSent, Moving, Written
<1>18. RefreshInv'
  BY <1>1 DEF RefreshInv
<1> QED BY <1>7, <1>8, <1>9, <1>10, <1>16, <1>17, <1>18 DEF StoreInv

\* What a read of everything finds: a row without a mark is the database's.
LEMMA ReadAllStep == ASSUME StoreInv, ReadEverything PROVE StoreInv'
<1>1. PICK lists \in Arrangements(db) :
        refresh' = [phase |-> "everything", rows |-> db, chats |-> lists,
                    stamps |-> dbStamp, since |-> edits, pending |-> InHand]
  BY DEF ReadEverything
<1>2. /\ announced' = "nothing"
      /\ UNCHANGED <<local, stamp, db, dbStamp, dirty, touches, deletes, flush, edits, newest,
                     saved, overlooked>>
  BY DEF ReadEverything, content, database, marks, ghosts
<1>3. /\ refresh' # None /\ refresh'.rows = db /\ refresh'.stamps = dbStamp
      /\ refresh'.since = edits /\ refresh'.pending = InHand /\ refresh'.phase = "everything"
  BY <1>1 DEF None
<1>4. Held' = Held
  BY <1>2 DEF Held
<1>5. \A r \in Rows : newest[r] \in 0 .. edits /\ newest[r] <= edits /\ ~(newest[r] > edits)
  BY DEF StoreInv, Shape
<1>6. Shape'
  <2>1. RefreshShape(refresh)'
    BY <1>2, <1>3 DEF StoreInv, Shape, RefreshShape
  <2>2. flush' = None \/ FlushShape(flush)'
    BY <1>2 DEF StoreInv, Shape, FlushShape
  <2> QED BY <1>2, <2>1, <2>2 DEF StoreInv, Shape
<1>7. FlushInv' /\ MarkInv' /\ RootedInv'
  BY <1>2, <1>3, <1>4 DEF StoreInv, FlushInv, Moving, MarkInv, RootedInv, Rooted
<1>8. RowInv'
  <2>1. ASSUME NEW r \in Held \ overlooked PROVE HeldInv(r)'
    <3>1. HeldInv(r) /\ r \in Rows
      BY <2>1 DEF StoreInv, RowInv, Held
    <3>2. r \in Characters => ToCome(r)'
      BY <1>2, <1>3, <1>5, <3>1 DEF ToCome
    <3>3. ToCome(r) => ToCome(r)'
      BY <3>2 DEF ToCome
    <3> QED BY <1>2, <3>1, <3>3 DEF HeldInv, Covered, Doomed, Moving, Written
  <2>2. ASSUME NEW r \in Rows \ overlooked, r \notin Held PROVE GoneInv(r)'
    <3>1. GoneInv(r)
      BY <2>2 DEF StoreInv, RowInv
    <3> QED BY <1>2, <1>4, <3>1 DEF GoneInv, Going, SentGone, Moving
  <2> QED BY <1>2, <1>4, <2>1, <2>2 DEF RowInv
<1>9. StampInv'
  BY <1>2, <1>4 DEF StoreInv, StampInv, StampSaved, StampSent, Moving, Written
<1>10. Moving => flush # None
  BY PhaseFacts DEF StoreInv
<1>11. ASSUME NEW r \in Rows \ overlooked, r \notin InHand PROVE ReadRow(r)'
  <2>1. CASE r \in Held
    BY <1>2, <1>3, <1>4, <2>1 DEF ReadRow
  <2>2. CASE r \notin Held
    <3>1. GoneInv(r)
      BY <1>11, <2>2 DEF StoreInv, RowInv
    <3>2. ~Going(r) /\ ~SentGone(r)
      BY <1>10, <1>11 DEF Going, SentGone, InHand, WithChats
    <3> QED BY <1>2, <1>3, <1>4, <2>2, <3>1, <3>2 DEF GoneInv, ReadRow
  <2> QED BY <2>1, <2>2
<1>12. ASSUME NEW c \in Characters \ overlooked, c \notin InHand, c \in Held PROVE dbStamp[c] = stamp[c]
  <2>1. StampSaved(c) /\ stamp[c] # Absent
    BY <1>12 DEF StoreInv, StampInv, Shape, Absent
  <2>2. /\ c \notin dirty /\ touches[c] = Absent
        /\ flush # None => c \notin flush.seen /\ flush.touched[c] = Absent
    BY <1>12 DEF InHand
  <2>3. Moving => c \notin Written(flush)
    BY <1>10, <2>2 DEF Written
  <2> QED BY <1>10, <2>1, <2>2, <2>3 DEF StampSaved
<1>13. RefreshInv'
  <2>1. Marked' \subseteq InHand
    BY <1>2 DEF Marked, InHand, WithChats
  <2>2. \A c \in Characters : TouchedSince(c)' => c \in InHand
    BY <1>2 DEF TouchedSince, InHand
  <2>3. \A r \in Rows \ overlooked : ReadRow(r)'
    BY <1>3, <1>11 DEF ReadRow, Early
  <2>4. \A c \in Characters \ overlooked : ReadStamp(c)'
    BY <1>2, <1>3, <1>4, <1>12 DEF ReadStamp, Early
  <2> QED BY <1>2, <1>3, <1>5, <2>1, <2>2, <2>3, <2>4, RowFacts DEF RefreshInv
<1> QED BY <1>6, <1>7, <1>8, <1>9, <1>13 DEF StoreInv

\* What starting anew leaves of a row that it does not overlook.
LEMMA InstallStep == ASSUME StoreInv, InstallStartupData PROVE StoreInv'
<1>1. /\ refresh # None /\ refresh' = None
      /\ local' = refresh.rows /\ stamp' = refresh.stamps
      /\ dirty' = {} /\ touches' = NoTouches /\ deletes' = {}
      /\ flush' = (IF flush = None THEN None ELSE CutOff(flush))
      /\ overlooked' = overlooked \cup refresh.pending
           \cup {r \in Rows : newest[r] > refresh.since}
           \cup {c \in Characters : stamp[c] > refresh.since}
      /\ UNCHANGED <<db, dbStamp, announced, edits, newest, saved>>
  BY DEF InstallStartupData, ChangedAfter, TouchedAfter, database
<1>2. RefreshShape(refresh) /\ refresh.since \in 1 .. edits /\ edits \in Nat
  BY <1>1, PhaseFacts DEF StoreInv, Shape, RefreshShape
<1>3. \A c \in Characters : touches'[c] = Absent
  BY <1>1 DEF NoTouches
\* The flush, if there is one.
<1>4. ASSUME flush # None
      PROVE  /\ FlushShape(flush') /\ flush' # None /\ flush'.phase # "lookup"
             /\ flush'.phase = "commit" <=> flush.phase = "commit"
             /\ flush'.stamps = flush.stamps /\ flush'.touched = flush.touched
             /\ flush'.gone = flush.gone /\ flush'.marked = flush.marked
             /\ flush'.touchMarks = flush.touchMarks
             /\ \A r \in Rows : r \notin dirty => flush'.rows[r] = flush.rows[r]
             /\ \A r \in Rows : r \in flush'.seen => r \in flush.seen \/ r \in dirty
             /\ flush.seen \subseteq flush'.seen
             /\ \A c \in Characters : flush'.rows[c] = flush.rows[c]
             /\ \A r \in Rows : flush'.rows[r] # Absent => r \in flush'.seen
  <2>1. FlushShape(flush) /\ \A r \in Rows : flush.rows[r] # Absent => r \in flush.seen
    BY <1>4 DEF StoreInv, Shape, FlushInv
  <2>2. CASE flush.phase # "lookup"
    <3>1. flush' = [flush EXCEPT !.done = {}]
      BY <1>1, <1>4, <2>2 DEF CutOff
    <3>2. /\ flush'.phase = flush.phase /\ flush'.seen = flush.seen /\ flush'.rows = flush.rows
          /\ flush'.stamps = flush.stamps /\ flush'.touched = flush.touched
          /\ flush'.gone = flush.gone /\ flush'.marked = flush.marked
          /\ flush'.touchMarks = flush.touchMarks /\ DOMAIN flush' = DOMAIN flush
      BY <2>1, <3>1 DEF FlushShape
    <3>3. FlushShape(flush') /\ flush' # None
      BY <2>1, <3>2 DEF FlushShape, None
    <3> QED BY <2>1, <2>2, <3>2, <3>3
  <2>3. CASE flush.phase = "lookup" /\ Found(flush)
    <3> DEFINE x == flush.chat
               v == local[chats[Owner[flush.chat]][flush.position]]
    <3>1. x \in dirty /\ x \in Rows /\ \A c \in Characters : c \in Rows /\ c # x
      BY <1>4, <2>3, RowFacts DEF StoreInv, FlushInv
    <3>2. flush' = [WithNoted(flush) EXCEPT !.phase = "cut", !.done = {}]
      BY <1>1, <1>4, <2>3 DEF CutOff
    <3>3. /\ flush'.phase = "cut" /\ flush'.seen = flush.seen \cup {x}
          /\ flush'.rows = [flush.rows EXCEPT ![x] = v]
          /\ flush'.stamps = flush.stamps /\ flush'.touched = flush.touched
          /\ flush'.gone = flush.gone /\ flush'.marked = flush.marked
          /\ flush'.touchMarks = flush.touchMarks /\ DOMAIN flush' = DOMAIN flush
      BY <2>1, <3>2 DEF FlushShape, WithNoted
    <3> HIDE DEF x, v
    <3>4. DOMAIN flush'.rows = Rows /\ \A r \in Rows : r # x => flush'.rows[r] = flush.rows[r]
      BY <2>1, <3>1, <3>3 DEF FlushShape
    <3>5. FlushShape(flush') /\ flush' # None
      BY <2>1, <3>1, <3>3, <3>4 DEF FlushShape, None
    <3> QED BY <2>1, <2>3, <3>1, <3>3, <3>4, <3>5
  <2>4. CASE flush.phase = "lookup" /\ ~Found(flush)
    <3>1. flush' = [flush EXCEPT !.phase = "lost"]
      BY <1>1, <1>4, <2>4 DEF CutOff
    <3>2. /\ flush'.phase = "lost" /\ flush'.seen = flush.seen /\ flush'.rows = flush.rows
          /\ flush'.stamps = flush.stamps /\ flush'.touched = flush.touched
          /\ flush'.gone = flush.gone /\ flush'.marked = flush.marked
          /\ flush'.touchMarks = flush.touchMarks /\ DOMAIN flush' = DOMAIN flush
      BY <2>1, <3>1 DEF FlushShape
    <3>3. FlushShape(flush') /\ flush' # None
      BY <2>1, <3>2 DEF FlushShape, None
    <3> QED BY <2>1, <2>4, <3>2, <3>3
  <2> QED BY <2>2, <2>3, <2>4
<1>5. /\ flush = None <=> flush' = None
      /\ Moving' <=> Moving
      /\ Moving => flush # None
  <2>1. flush = None => flush' = None /\ ~Moving /\ ~Moving'
    BY <1>1 DEF Moving, None
  <2> QED BY <1>4, <2>1 DEF Moving
<1>6. Shape'
  <2>1. \A c \in Characters : local'[c] \in 0 .. edits
    BY <1>1, <1>2 DEF RefreshShape
  <2>2. touches' \in [Characters -> 0 .. edits]
    BY <1>1, <1>2 DEF NoTouches, Absent
  <2>3. flush' = None \/ FlushShape(flush)'
    BY <1>1, <1>4, <1>5 DEF FlushShape
  <2>4. stamp' \in [Characters -> 1 .. edits]
    BY <1>1, <1>2 DEF RefreshShape
  <2> QED BY <1>1, <2>1, <2>2, <2>3, <2>4 DEF StoreInv, Shape
<1>7. FlushInv' /\ MarkInv'
  BY <1>1, <1>4, <1>5 DEF StoreInv, FlushInv, MarkInv, Moving
<1>8. RootedInv'
  BY <1>1 DEF StoreInv, RootedInv, Rooted
\* A row that is not overlooked has no mark and is in no flush.
<1>9. ASSUME NEW r \in Rows, r \notin overlooked'
      PROVE  /\ r \notin overlooked /\ Early(r) /\ ReadRow(r) /\ r \notin dirty
             /\ flush # None => r \notin flush.seen /\ r \notin flush.gone /\ r \notin flush.marked
  <2>1. newest[r] \in 0 .. edits
    BY DEF StoreInv, Shape
  <2>2. r \notin overlooked /\ r \notin refresh.pending /\ ~(newest[r] > refresh.since)
    BY <1>1, <1>9
  <2>3. Early(r)
    BY <1>2, <2>1, <2>2 DEF Early
  <2>4. ReadRow(r) /\ r \notin Marked
    BY <1>1, <1>9, <2>2 DEF StoreInv, RefreshInv
  <2> QED BY <2>2, <2>3, <2>4 DEF Marked
<1>10. ASSUME NEW r \in Rows, r \notin overlooked', r \in Held PROVE HeldInv(r)' /\ r \in Held'
  <2>1. /\ Early(r) /\ ReadRow(r) /\ r \notin dirty /\ HeldInv(r)
        /\ flush # None => r \notin flush.seen /\ r \notin flush.gone /\ r \notin flush.marked
    BY <1>9, <1>10 DEF StoreInv, RowInv
  <2>2. saved[r] = newest[r] /\ db[r] # Absent
    BY <1>5, <2>1 DEF HeldInv, Covered
  <2>3. \/ local'[r] = db[r]
        \/ r \in Characters /\ announced # "nothing" /\ local'[r] # Absent
    BY <1>1, <1>10, <2>1 DEF ReadRow
  <2>4. r \in Held'
    BY <1>10, <2>2, <2>3, NextHeldFacts
  <2>5. flush # None => ~Doomed(r) /\ ~Doomed(r)'
    <3>1. flush # None => ~Doomed(r)
      BY <2>1 DEF HeldInv, Written
    <3> QED BY <1>4, <3>1 DEF Doomed
  <2>6. flush' # None => r \notin flush'.seen /\ r \notin flush'.marked
    BY <1>4, <1>5, <1>10, <2>1
  <2> QED BY <1>1, <1>5, <2>2, <2>3, <2>4, <2>5, <2>6 DEF HeldInv, ToCome, Written
<1>11. ASSUME NEW r \in Rows, r \notin overlooked', r \notin Held PROVE GoneInv(r)' /\ r \notin Held'
  <2>1. /\ ReadRow(r) /\ Early(r)
        /\ flush # None => r \notin flush.seen /\ r \notin flush.gone /\ r \notin flush.marked
        /\ r \notin dirty
    BY <1>9, <1>11
  <2>2. saved[r] = newest[r] /\ db[r] = Absent /\ local'[r] = Absent
    BY <1>1, <1>11, <2>1 DEF ReadRow
  <2>3. flush' # None => r \notin flush'.seen /\ r \notin flush'.marked
    BY <1>4, <1>5, <1>11, <2>1
  <2> QED BY <1>1, <1>5, <1>11, <2>2, <2>3, NextHeldFacts DEF GoneInv
<1>12. RowInv'
  BY <1>10, <1>11 DEF RowInv
<1>13. StampInv'
  <2>1. SUFFICES ASSUME NEW c \in Characters, c \notin overlooked', c \in Held'
                 PROVE  StampSaved(c)' /\ (touches'[c] # Absent => touches'[c] = stamp'[c])
                        /\ StampSent(c)'
    BY DEF StampInv
  <2>2. c \in Rows /\ c \in Held
    BY <1>11, <2>1, RowFacts
  <2>3. c \notin overlooked /\ Early(c) /\ c \notin dirty /\ c \notin refresh.pending
    BY <1>1, <1>9, <2>1, <2>2
  <2>4. stamp[c] \in 1 .. edits /\ ~(stamp[c] > refresh.since) /\ stamp[c] # Absent
    BY <1>1, <2>1 DEF StoreInv, Shape, Absent
  <2>5. ReadStamp(c) /\ ~TouchedSince(c)
    BY <1>1, <2>1, <2>3, <2>4 DEF StoreInv, RefreshInv
  <2>6. stamp'[c] = stamp[c] /\ dbStamp[c] = stamp[c]
    <3>1. stamp[c] <= refresh.since
      BY <1>2, <2>4
    <3> QED BY <1>1, <2>2, <2>3, <2>5, <3>1 DEF ReadStamp
  <2>7. touches[c] = Absent /\ (flush # None => flush.touched[c] = Absent /\ flush.touchMarks[c] = Absent)
    BY <2>5 DEF TouchedSince
  <2>8. StampSent(c)
    BY <2>1, <2>2, <2>3 DEF StoreInv, StampInv
  <2>9. Moving => flush.stamps[c] = stamp[c]
    BY <2>3, <2>4, <2>7, <2>8 DEF StampSent
  <2> QED BY <1>1, <1>3, <1>4, <1>5, <2>6, <2>7, <2>9 DEF StampSaved, StampSent
<1>14. RefreshInv'
  BY <1>1 DEF RefreshInv
<1> QED BY <1>6, <1>7, <1>8, <1>12, <1>13, <1>14 DEF StoreInv

-----------------------------------------------------------------------------
(* The initial states, and every step.                                        *)

LEMMA InitStore == ASSUME Init PROVE StoreInv
<1>1. /\ local \in [Rows -> {Absent, 1}]
      /\ \A x \in Chats : local[x] = 1 => local[Owner[x]] = 1
  BY DEF Init
<1>2. /\ db = local /\ newest = local /\ saved = local /\ edits = 1
      /\ stamp = [c \in Characters |-> 1] /\ dbStamp = stamp
      /\ dirty = {} /\ touches = NoTouches /\ deletes = {}
      /\ flush = None /\ announced = "nothing" /\ refresh = None /\ overlooked = {}
  BY DEF Init
<1>3. ~Moving /\ flush.phase # "lookup"
  BY <1>2 DEF Moving, None
<1>4. \A r \in Rows : local[r] \in 0 .. 1 /\ (r \in Held => local[r] = 1)
  BY <1>1, HeldFacts DEF Absent
<1>5. Shape
  <2>1. touches \in [Characters -> 0 .. edits] /\ stamp \in [Characters -> 1 .. edits]
    BY <1>2 DEF NoTouches, Absent
  <2>2. \A r \in Rows : newest[r] \in 0 .. edits
    BY <1>2, <1>4
  <2>3. \A c \in Characters : local[c] \in 0 .. edits /\ db[c] \in 0 .. edits
    BY <1>2, <1>4, RowFacts
  <2>4. edits \in Nat \ {0} /\ DOMAIN db = Rows
    BY <1>1, <1>2
  <2>5. dirty \subseteq Rows /\ deletes \subseteq Deletable
    BY <1>2
  <2> QED BY <1>2, <2>1, <2>2, <2>3, <2>4, <2>5 DEF Shape
<1>6. FlushInv /\ MarkInv
  BY <1>2 DEF FlushInv, MarkInv
<1>7. RootedInv
  <2>1. ASSUME NEW x \in Chats, local[x] # Absent PROVE local[Owner[x]] # Absent
    BY <1>1, <1>4, <2>1, RowFacts DEF Absent
  <2> QED BY <1>2, <2>1 DEF RootedInv, Rooted
<1>8. RowInv
  <2>1. ASSUME NEW r \in Held PROVE HeldInv(r)
    BY <1>2, <1>3, <1>4, <2>1 DEF HeldInv, Held
  <2>2. ASSUME NEW r \in Rows, r \notin Held PROVE GoneInv(r)
    BY <1>2, <1>3, <2>2 DEF GoneInv, Held
  <2> QED BY <2>1, <2>2 DEF RowInv
<1>9. StampInv
  BY <1>2, <1>3 DEF StampInv, StampSaved, StampSent, NoTouches
<1>10. RefreshInv
  BY <1>2 DEF RefreshInv
<1> QED BY <1>5, <1>6, <1>7, <1>8, <1>9, <1>10 DEF StoreInv

LEMMA StoreStep == ASSUME StoreInv, [Next]_vars PROVE StoreInv'
<1>1. CASE UNCHANGED vars
  BY <1>1, IdleStep DEF vars, content, remoteState, ghosts
<1>2. CASE Flush \/ TimerFires
  BY <1>2, IdleStep DEF Flush, TimerFires, content
<1>3. CASE NoteLookupFails
  <2>1. flush # None /\ ~Moving /\ flush' = None
    BY <1>3 DEF NoteLookupFails, Moving
  <2> QED BY <1>3, <2>1, DropStep DEF NoteLookupFails, content
<1>4. CASE \E r \in Characters \cup Chats : Edit(r)
  BY <1>4, EditStep DEF Deletable
<1>5. CASE \E c \in Characters : AddCharacter(c) \/ RemoveCharacter(c) \/ Touch(c)
  BY <1>5, AddCharacterStep, RemoveCharacterStep, TouchStep
<1>6. CASE \E x \in Chats : AddChat(x) \/ RemoveChat(x)
  BY <1>6, AddChatStep, RemoveChatStep
<1>7. CASE BeginFlush
  BY <1>7, BeginFlushStep
<1>8. CASE NoteFound
  BY <1>8, NoteFoundStep
<1>9. CASE CommitSucceeds \/ \E applied \in BOOLEAN : CommitFails(applied)
  BY <1>9, CommitStep
<1>10. CASE ReadCharacters
  BY <1>10, ReadStep
<1>11. CASE ReplaceCharacters
  BY <1>11, ReplaceStep
<1>12. CASE \E c \in Characters, what \in {"characters", "everything"} : RemoteChange(c, what)
  BY <1>12, RemoteStep
<1>13. CASE ResyncRequired
  BY <1>13, ResyncStep
<1>14. CASE ReadEverything
  BY <1>14, ReadAllStep
<1>15. CASE InstallStartupData
  BY <1>15, InstallStep
<1> QED BY <1>1, <1>2, <1>3, <1>4, <1>5, <1>6, <1>7, <1>8, <1>9, <1>10, <1>11, <1>12, <1>13,
           <1>14, <1>15 DEF Next

\* The inductive invariant of the store.
THEOREM StoreInvariant == Spec => []StoreInv
<1>1. Init => StoreInv
  BY InitStore
<1>2. StoreInv /\ [Next]_vars => StoreInv'
  BY StoreStep
<1> QED BY <1>1, <1>2, PTL DEF Spec

-----------------------------------------------------------------------------
(* What the store promises.                                                   *)

(* A change of this page that the database does not have is marked or on its  *)
(* way: no flush, failed lookup, lost answer or refresh drops it, except      *)
(* where the code clears a mark or replaces content under a newer change, and *)
(* where reading everything again discards what was pending.                  *)
THEOREM UnsavedMarked == Spec => []UnsavedIsMarked
<1>1. StoreInv => UnsavedIsMarked
  <2>1. SUFFICES ASSUME StoreInv, NEW r \in Rows \ overlooked, saved[r] # newest[r]
                 PROVE  \/ r \in dirty \cup deletes
                        \/ r \in Chats /\ Owner[r] \in deletes
                        \/ Sending(r)
    BY DEF UnsavedIsMarked, Regarded
  <2>2. Moving <=> flush # None /\ flush.phase = "commit"
    BY <2>1, PhaseFacts DEF StoreInv, Moving
  <2>3. CASE r \in Held
    BY <2>1, <2>2, <2>3 DEF StoreInv, RowInv, HeldInv, Covered, Sending
  <2>4. CASE r \notin Held
    BY <2>1, <2>2, <2>4 DEF StoreInv, RowInv, GoneInv, Going, SentGone, Sending
  <2> QED BY <2>3, <2>4
<1> QED BY <1>1, StoreInvariant, PTL

(* Once nothing is pending, running or announced, the page shows what the     *)
(* database has, rows and interaction stamps, with the same exception.        *)
THEOREM ConvergedAtRest == Spec => []Converged
<1>1. StoreInv => Converged
  <2>1. SUFFICES ASSUME StoreInv, AtRest
                 PROVE  /\ \A r \in Rows \ overlooked : local[r] = db[r]
                        /\ \A c \in Characters \ overlooked : c \in Held => stamp[c] = dbStamp[c]
    BY DEF Converged, Regarded
  <2>2. /\ dirty = {} /\ deletes = {} /\ touches = NoTouches /\ flush = None /\ refresh = None
        /\ announced = "nothing"
    BY <2>1 DEF AtRest, hasPendingWrites, StoreInv, Shape
  <2>3. ~Moving
    BY <2>2 DEF Moving, None
  <2>4. ASSUME NEW r \in Rows \ overlooked PROVE local[r] = db[r]
    <3>1. CASE r \in Held
      BY <2>1, <2>2, <2>3, <2>4, <3>1 DEF StoreInv, RowInv, HeldInv, Covered, ToCome
    <3>2. CASE r \notin Held
      BY <2>1, <2>2, <2>3, <2>4, <3>2, HeldFacts
         DEF StoreInv, RowInv, GoneInv, Going, SentGone
    <3> QED BY <3>1, <3>2
  <2>5. ASSUME NEW c \in Characters \ overlooked, c \in Held PROVE stamp[c] = dbStamp[c]
    <3>1. touches[c] = Absent /\ stamp[c] # Absent
      BY <2>1, <2>2 DEF NoTouches, StoreInv, Shape, Absent
    <3> QED BY <2>1, <2>2, <2>3, <2>5, <3>1 DEF StoreInv, StampInv, StampSaved
  <2> QED BY <2>4, <2>5
<1> QED BY <1>1, StoreInvariant, PTL

-----------------------------------------------------------------------------
(* Part three: Reconnect, the loop that keeps a page connected, for any      *)
(* number of attempts, losses and online events.                             *)

\* An aborted attempt is one that is not over yet, the attempts nobody has
\* aborted are the one that holds the controller, and there is none only while
\* the timer is set.
LoopInv ==
  /\ ReconnectTypes
  /\ \A a \in superseded : Live(a)
  /\ Trying = {controller} \ {NoController}
  /\ controller = NoController => timer
  /\ ShownIsReal

\* connect makes its attempt the only one.
LEMMA BeginsAlone ==
  ASSUME LoopInv, NEW a \in Attempts, NEW set \in BOOLEAN, Begin(a, set)
  PROVE  /\ attempt' \in [Attempts -> Phases]
         /\ superseded' \subseteq Attempts /\ superseded \subseteq superseded'
         /\ \A b \in superseded' : Live(b)'
         /\ controller' = a /\ Trying' = {a}
         /\ timer' \in BOOLEAN /\ shown' \in BOOLEAN
         /\ shown' => \E b \in Attempts : attempt'[b] = "ready"
  <1> USE ReconnectAssumption DEF LoopInv, ReconnectTypes, Begin
  <1>1. a \notin superseded /\ a # controller
    BY DEF Live, Trying
  <1>2. controller # NoController => Live(controller) /\ controller \notin superseded
    BY DEF Trying
  <1>3. attempt' \in [Attempts -> Phases] /\ superseded' \subseteq Attempts
    BY DEF Phases, Unaware
  <1>4. \A b \in superseded' : Live(b)'
    BY <1>1, <1>2 DEF Live, Unaware, Interrupted
  <1>5. Trying' = {a}
    <2>1. \A b \in Attempts : Live(b)' /\ b \notin superseded' => b = a
      BY <1>1 DEF Trying, Live, Unaware, Interrupted
    <2>2. Live(a)' /\ a \notin superseded'
      BY <1>1 DEF Live, Unaware
    <2> QED
      BY <2>1, <2>2 DEF Trying
  <1>6. shown' => \E b \in Attempts : attempt'[b] = "ready"
    <2>1. SUFFICES ASSUME shown', NEW b \in Attempts, attempt[b] = "ready"
                   PROVE  attempt'[b] = "ready"
      BY DEF ShownIsReal
    <2> QED
      BY <2>1 DEF Interrupted
  <1>7. timer' \in BOOLEAN /\ shown' \in BOOLEAN
    OBVIOUS
  <1> QED
    BY <1>3, <1>4, <1>5, <1>6, <1>7

\* An attempt that is over is not being tried any more; unless it was aborted
\* it leaves the timer behind.
LEMMA EndsAlone ==
  ASSUME LoopInv, NEW a \in Attempts, Live(a), Ended(a)
  PROVE  /\ attempt' \in [Attempts -> Phases]
         /\ superseded' \subseteq Attempts /\ deaf' \subseteq superseded'
         /\ \A b \in superseded' : Live(b)'
         /\ Trying' = {controller'} \ {NoController}
         /\ controller' \in Attempts \cup {NoController}
         /\ controller' = NoController => timer'
         /\ timer' \in BOOLEAN /\ shown' = FALSE
  <1> USE ReconnectAssumption DEF LoopInv, ReconnectTypes, Ended, Schedules
  <1>1. attempt' \in [Attempts -> Phases] /\ superseded' \subseteq Attempts
        /\ deaf' \subseteq superseded' /\ timer' \in BOOLEAN
        /\ controller' \in Attempts \cup {NoController}
    BY DEF Phases
  <1>2. Trying' = Trying \ {a}
    BY DEF Trying, Live, Phases
  <1>3. a \in superseded => a \notin Trying
    BY DEF Trying
  <1>4. a \notin superseded => a = controller
    BY DEF Trying
  <1>5. \A b \in superseded' : Live(b)'
    BY DEF Live
  <1> QED
    BY <1>1, <1>2, <1>3, <1>4, <1>5

LEMMA LoopStep ==
  ASSUME LoopInv, [ReconnectNext]_reconnectVars
  PROVE  LoopInv'
  <1> USE ReconnectAssumption DEF LoopInv, ReconnectTypes
  <1>1. CASE ReconnectTimerFires
    BY <1>1, BeginsAlone DEF ReconnectTimerFires, ShownIsReal
  <1>2. CASE Online
    <2>1. PICK a \in Attempts : Begin(a, timer)
      BY <1>2 DEF Online
    <2>2. native' \in BOOLEAN /\ deaf' = deaf
      BY <1>2 DEF Online
    <2> QED
      BY <2>1, <2>2, BeginsAlone DEF ShownIsReal
  <1>3. ASSUME NEW a \in Attempts, Fails(a)
        PROVE  LoopInv'
    <2>1. Live(a) /\ Ended(a) /\ native' \in BOOLEAN
      BY <1>3 DEF Fails
    <2> QED
      BY <2>1, EndsAlone DEF ShownIsReal
  <1>4. ASSUME NEW a \in Attempts, Authenticated(a)
        PROVE  LoopInv'
    <2>1. CASE Ended(a)
      <3>1. Live(a)
        BY <1>4 DEF Authenticated, Live
      <3> QED
        BY <1>4, <2>1, <3>1, EndsAlone DEF Authenticated, ShownIsReal
    <2>2. CASE ~Ended(a)
      BY <1>4, <2>2 DEF Authenticated, Trying, Live, Phases, ShownIsReal
    <2> QED
      BY <2>1, <2>2
  <1>5. ASSUME NEW a \in Attempts, Attached(a)
        PROVE  LoopInv'
    BY <1>5 DEF Attached, Trying, Live, Phases, ShownIsReal
  <1>6. ASSUME NEW a \in Attempts, DispatchReady(a)
        PROVE  LoopInv'
    BY <1>6 DEF DispatchReady, Trying, Live, Phases, ShownIsReal
  <1>7. CASE UNCHANGED reconnectVars
    BY <1>7 DEF reconnectVars, Trying, Live, ShownIsReal
  <1> QED
    BY <1>1, <1>2, <1>3, <1>4, <1>5, <1>6, <1>7 DEF ReconnectNext

\* The first call of connect.
LEMMA LoopInit == ReconnectInit => LoopInv
  <1>1. SUFFICES ASSUME ReconnectInit, NEW first \in Attempts, controller = first,
                        attempt = [a \in Attempts |-> IF a = first THEN "auth" ELSE "free"]
                 PROVE  LoopInv
    BY DEF ReconnectInit
  <1>2. Trying = {first}
    BY <1>1 DEF ReconnectInit, Trying, Live
  <1>3. attempt \in [Attempts -> Phases]
    BY <1>1 DEF Phases
  <1>4. ReconnectTypes
    BY <1>1, <1>3 DEF ReconnectInit, ReconnectTypes
  <1> QED
    BY <1>1, <1>2, <1>4, ReconnectAssumption DEF ReconnectInit, LoopInv, ShownIsReal

\* The loop holds from the first connect on.
THEOREM LoopInvariant == ReconnectSpec => []LoopInv
  BY LoopInit, LoopStep, PTL DEF ReconnectSpec

\* In any number of attempts, losses and online events the loop that reconnects
\* a page never stops.
THEOREM NeverGivesUp == ReconnectSpec => []LoopGoesOn
  <1>1. LoopInv => LoopGoesOn
    BY ReconnectAssumption DEF LoopInv, ReconnectTypes, LoopGoesOn
  <1> QED
    BY <1>1, LoopInvariant, PTL

\* No two attempts of a page would both reconnect.
THEOREM NeverTwoLoops == ReconnectSpec => []OneLoop
  <1>1. LoopInv => OneLoop
    BY DEF LoopInv, OneLoop
  <1> QED
    BY <1>1, LoopInvariant, PTL

\* A page that takes itself for connected is.
THEOREM ShownConnected == ReconnectSpec => []ShownIsReal
  <1>1. LoopInv => ShownIsReal
    BY DEF LoopInv
  <1> QED
    BY <1>1, LoopInvariant, PTL

-----------------------------------------------------------------------------
(* Part four: RealtimePage, where a page with such a loop reads the hub.     *)

\* What a connection does when it ends is a step of the delivery, or nothing.
LEMMA ClosingIsDelivery ==
  ASSUME NEW reads, ClosesIf(reads)
  PROVE  [DeliveryNext]_deliveryVars
  BY PageAssumption DEF ClosesIf, Closes, DeliveryNext

\* Each step of the page is a step of the delivery, or leaves it alone.
LEMMA PageDelivers ==
  [PageNext]_pageVars => [DeliveryNext]_deliveryVars
  <1>1. SUFFICES ASSUME PageNext \/ UNCHANGED pageVars PROVE [DeliveryNext]_deliveryVars
    OBVIOUS
  <1>2. CASE HubSteps
    BY <1>2 DEF HubSteps, DeliveryNext
  <1>3. CASE PageDispatches \/ PageNoticesEnd
    BY <1>3, PageAssumption DEF PageDispatches, PageNoticesEnd, DeliveryNext
  <1>4. CASE PageTimerFires
    BY <1>4, ClosingIsDelivery DEF PageTimerFires
  <1>5. CASE PageOnline
    BY <1>5 DEF PageOnline
  <1>6. ASSUME NEW a \in Attempts,
               PageAuthenticated(a) \/ PageAttached(a) \/ DeafDispatches(a) \/ PageFails(a)
        PROVE  [DeliveryNext]_deliveryVars
    <2>1. CASE PageAttached(a)
      BY <2>1, PageAssumption DEF PageAttached, DeliveryNext
    <2>2. CASE PageAuthenticated(a) \/ DeafDispatches(a)
      BY <2>2 DEF PageAuthenticated, DeafDispatches
    <2>3. CASE PageFails(a)
      BY <2>3, ClosingIsDelivery DEF PageFails
    <2> QED
      BY <1>6, <2>1, <2>2, <2>3
  <1>7. CASE UNCHANGED pageVars
    BY <1>7 DEF pageVars
  <1> QED
    BY <1>1, <1>2, <1>3, <1>4, <1>5, <1>6, <1>7 DEF PageNext

\* Each step of the page is a step of the loop, or leaves it alone.
LEMMA PageLoops ==
  ASSUME LoopInv, [PageNext]_pageVars
  PROVE  [ReconnectNext]_reconnectVars
  <1>1. Reading => controller \in Attempts
    BY DEF Reading, LoopInv, ReconnectTypes
  <1>2. CASE HubSteps
    BY <1>2 DEF HubSteps
  <1>3. CASE PageDispatches \/ PageNoticesEnd
    BY <1>1, <1>3 DEF PageDispatches, PageNoticesEnd, ReconnectNext
  <1>4. CASE PageTimerFires \/ PageOnline
    BY <1>4 DEF PageTimerFires, PageOnline, ReconnectNext
  <1>5. ASSUME NEW a \in Attempts,
               PageAuthenticated(a) \/ PageAttached(a) \/ DeafDispatches(a) \/ PageFails(a)
        PROVE  [ReconnectNext]_reconnectVars
    BY <1>5 DEF PageAuthenticated, PageAttached, DeafDispatches, PageFails, ReconnectNext
  <1>6. CASE UNCHANGED pageVars
    BY <1>6 DEF pageVars
  <1> QED
    BY <1>2, <1>3, <1>4, <1>5, <1>6 DEF PageNext

\* A page that reconnects is one of the clients whose delivery part one is
\* about, and reconnects the way part three is about.
THEOREM PageIsBoth == PageSpec => DeliverySpec /\ ReconnectSpec
  <1>1. PageInit => DeliveryInit /\ ReconnectInit /\ LoopInv
    BY LoopInit DEF PageInit
  <1>2. LoopInv /\ [PageNext]_pageVars => LoopInv'
    BY PageLoops, LoopStep
  <1>3. LoopInv /\ [PageNext]_pageVars => [DeliveryNext]_deliveryVars /\ [ReconnectNext]_reconnectVars
    BY PageDelivers, PageLoops
  <1> QED
    BY <1>1, <1>2, <1>3, PTL DEF PageSpec, DeliverySpec, ReconnectSpec

\* So the page that loses its connection, waits, takes up a newer attempt and
\* presents its cursor misses nothing of one process.
THEOREM PageMissesNothing == PageSpec => []ReplayIsComplete
  BY PageIsBoth, ReplayIsLossless, PTL

\* The page has a connection just while the attempt that holds the controller
\* reads it.
OwnsConnection == link[Page] # "off" <=> Reading

\* The two halves of the page agree in any order of aborts, losses and
\* reconnects, so that asking a step that dispatches or that notices an end for
\* Reading forbids none.
LEMMA ConnectionIsRead == PageSpec => []OwnsConnection
  <1>1. PageInit => OwnsConnection
    BY PageAssumption, LoopInit
       DEF PageInit, DeliveryInit, HubInit, ReconnectInit, OwnsConnection, Reading
  <1>2. ASSUME LoopInv, TypeOK, OwnsConnection, [PageNext]_pageVars
        PROVE  OwnsConnection'
    <2> USE ReconnectAssumption, PageAssumption DEF OwnsConnection
    <2>1. /\ attempt \in [Attempts -> Phases] /\ link \in [Clients -> Links]
          /\ controller \in Attempts \cup {NoController} /\ Page \in Clients
          /\ deaf \subseteq superseded /\ superseded \subseteq Attempts
          /\ controller # NoController => Live(controller) /\ controller \notin superseded
      BY <1>2 DEF LoopInv, ReconnectTypes, TypeOK, Trying
    <2>2. CASE HubSteps
      BY <1>2, <2>1, <2>2 DEF HubSteps, Publish, Broadcast, Restart, HubRestart, Reading,
                              reconnectVars, Links
    <2>3. CASE PageDispatches
      <3>1. link' = link /\ Reading
        BY <2>3 DEF PageDispatches, Dispatch, Take
      <3>2. Reading'
        BY <2>1, <2>3, <3>1 DEF PageDispatches, DispatchReady, reconnectVars, Reading
      <3> QED
        BY <1>2, <3>1, <3>2
    <2>4. ASSUME Closes PROVE link'[Page] = "off"
      BY <2>1, <2>4 DEF Closes, Drop, NoticeEnd, Disconnect
    <2>5. CASE PageNoticesEnd
      BY <2>1, <2>4, <2>5 DEF PageNoticesEnd, Closes, Fails, Ended, Reading
    <2>6. ASSUME NEW a \in Attempts, Begin(a, FALSE) \/ Begin(a, timer) PROVE ~Reading'
      BY <2>1, <2>6 DEF Begin, Reading
    <2>7. CASE PageTimerFires
      <3>1. ~Reading'
        BY <2>6, <2>7 DEF PageTimerFires, ReconnectTimerFires
      <3>2. link'[Page] = "off"
        BY <1>2, <2>4, <2>7 DEF PageTimerFires, ClosesIf, deliveryVars, hubVars
      <3> QED
        BY <3>1, <3>2
    <2>8. CASE PageOnline
      <3>1. ~Reading /\ ~Reading'
        BY <2>6, <2>8 DEF PageOnline, Online, Reading
      <3> QED
        BY <1>2, <2>8, <3>1 DEF PageOnline, deliveryVars, hubVars
    <2>9. ASSUME NEW a \in Attempts, PageAuthenticated(a) PROVE OwnsConnection'
      <3>1. link' = link
        BY <2>9 DEF PageAuthenticated, deliveryVars, hubVars
      <3>2. Reading' = Reading
        BY <2>1, <2>9 DEF PageAuthenticated, Authenticated, Ended, Reading
      <3> QED
        BY <1>2, <3>1, <3>2
    <2>10. ASSUME NEW a \in Attempts, PageAttached(a) PROVE OwnsConnection'
      <3>1. CASE a = controller
        BY <2>1, <2>10, <3>1 DEF PageAttached, Attached, Open, Connect, Reading
      <3>2. CASE a # controller
        BY <1>2, <2>1, <2>10, <3>2 DEF PageAttached, Attached, deliveryVars, hubVars, Reading
      <3> QED
        BY <3>1, <3>2
    <2>11. ASSUME NEW a \in Attempts, DeafDispatches(a) PROVE OwnsConnection'
      BY <1>2, <2>1, <2>11 DEF DeafDispatches, DispatchReady, deliveryVars, hubVars, Reading
    <2>12. ASSUME NEW a \in Attempts, PageFails(a) PROVE OwnsConnection'
      <3>1. CASE a = controller
        <4>1. ~Reading'
          BY <2>1, <2>12, <3>1 DEF PageFails, Fails, Ended, Reading
        <4>2. link'[Page] = "off"
          BY <1>2, <2>4, <2>12, <3>1 DEF PageFails, ClosesIf, deliveryVars, hubVars
        <4> QED
          BY <4>1, <4>2
      <3>2. CASE a # controller
        <4>1. Reading' = Reading
          BY <2>1, <2>12, <3>2 DEF PageFails, Fails, Ended, Reading
        <4>2. link' = link
          BY <2>12, <3>2 DEF PageFails, ClosesIf, deliveryVars, hubVars
        <4> QED
          BY <1>2, <4>1, <4>2
      <3> QED
        BY <3>1, <3>2
    <2>13. CASE UNCHANGED pageVars
      BY <1>2, <2>13 DEF pageVars, deliveryVars, hubVars, reconnectVars, Reading
    <2> QED
      BY <1>2, <2>2, <2>3, <2>5, <2>7, <2>8, <2>9, <2>10, <2>11, <2>12, <2>13 DEF PageNext
  <1>3. PageSpec => []LoopInv /\ []TypeOK
    BY PageIsBoth, LoopInvariant, Typing, PTL
  <1>4. LoopInv /\ TypeOK /\ OwnsConnection /\ [PageNext]_pageVars => OwnsConnection'
    BY <1>2
  <1> QED
    BY <1>1, <1>3, <1>4, PTL DEF PageSpec
=============================================================================
