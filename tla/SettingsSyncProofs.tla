-------------------------- MODULE SettingsSyncProofs --------------------------
(***************************************************************************)
(* Proofs about SettingsSync, for any number of clients, keys, edits,       *)
(* deletions, attempts and troubles.                                       *)
(***************************************************************************)
EXTENDS SettingsSync, TLAPS

-----------------------------------------------------------------------------
(* Types.                                                                    *)

Cells   == Values \cup {Absent}
Bodies  == UNION {[D -> Cells] : D \in SUBSET Keys}
Changes == [ups : SUBSET Keys, dels : SUBSET Keys, all : BOOLEAN]
Events  == [from : Clients \cup {Nobody}, revision : Nat, change : Changes]
Calls   == [stage : {"idle", "sent", "refused", "written"}, tries : Nat, base : Nat]
Strays  == [from : Clients, base : Nat, body : Bodies]
Batches == [busy : BOOLEAN, change : Changes, read : Bodies]

TypeInv ==
    /\ view \in [Clients -> [Keys -> Cells]] /\ dirty \in [Clients -> SUBSET Keys]
    /\ commits \in [Clients -> Seq(Bodies)] /\ call \in [Clients -> Calls]
    /\ strays \subseteq Strays /\ revision \in [Clients -> Nat]
    /\ db \in [Keys -> Cells] /\ current \in Nat
    /\ channel \in [Clients -> Seq(Events)] /\ pending \in [Clients -> Changes]
    /\ batch \in [Clients -> Batches]
    /\ edits \in Nat /\ deletes \in Nat /\ by \in [Values -> Clients \cup {Nobody}]
    /\ raced \in [Clients -> SUBSET Keys] /\ overtaken \in [Clients -> SUBSET Keys]
    /\ writer \in [Keys -> Clients \cup {Nobody}] /\ revived \subseteq Keys

\* A call has a commit, a batch that is not being applied is empty, and a value
\* that is somewhere has been entered.
Entered(v) == v = Absent \/ v <= edits
ShapeInv ==
    /\ \A c \in Clients : /\ call[c] # Idle => commits[c] # <<>>
                          /\ ~batch[c].busy => batch[c] = NoBatch
                          /\ \A k \in Keys : Entered(view[c][k])
                          /\ \A i \in 1 .. Len(commits[c]) :
                               \A k \in DOMAIN commits[c][i] : Entered(commits[c][i][k])
                          /\ \A k \in DOMAIN batch[c].read : Entered(batch[c].read[k])
    /\ \A s \in strays : \A k \in DOMAIN s.body : Entered(s.body[k])
    /\ \A k \in Keys : Entered(db[k])

\* Nobody knows a revision that the database has not reached.
RevisionInv ==
    /\ \A c \in Clients :
         /\ revision[c] <= current /\ call[c].base <= current
         /\ \A i \in 1 .. Len(channel[c]) : channel[c][i].revision <= current
    /\ \A s \in strays : s.base <= current

-----------------------------------------------------------------------------
(* What is on its way between a client and the database.                     *)

\* The commits of a client that are still to be written, oldest first.
Queue(c) == IF call[c].stage = "written" THEN Tail(commits[c]) ELSE commits[c]

\* Key k is in queue q, and the last commit that has it gives it the value v.
Holds(q, k)       == \E i \in 1 .. Len(q) : k \in DOMAIN q[i]
EndsWith(q, k, v) == \E i \in 1 .. Len(q) :
                       /\ k \in DOMAIN q[i] /\ q[i][k] = v
                       /\ \A j \in i + 1 .. Len(q) : k \notin DOMAIN q[j]

\* Client c is going to reread k.
Told(change, k)   == change.all \/ k \in change.ups \cup change.dels
Foreign(c, e, k)  == e.from # c /\ Told(e.change, k)
Coming(c, k)      == \/ Told(pending[c], k)
                     \/ \E i \in 1 .. Len(channel[c]) : Foreign(c, channel[c][i], k)

\* What the store shows is in the database, is going to be written, or is going
\* to be reread.
Shown(c, k) ==
    /\ Holds(Queue(c), k) => EndsWith(Queue(c), k, view[c][k])
    /\ ~Holds(Queue(c), k) => \/ view[c][k] = db[k] \/ Coming(c, k)
                              \/ Told(batch[c].change, k)
ViewInv ==
    \A c \in Clients : \A k \in Keys :
        k \notin dirty[c] \cup overtaken[c] \cup revived => Shown(c, k)

\* What a batch has read is what the database has, unless the key was written
\* since, by the client itself or by another one, whose event is on its way.
ReadInv ==
    \A c \in Clients : \A k \in DOMAIN batch[c].read :
        k \notin raced[c] => /\ batch[c].read[k] = db[k] \/ Coming(c, k)
                             /\ writer[k] = c => batch[c].read[k] = db[k]

\* A key that was announced as deleted is deleted.
Gone(k) == k \notin revived => db[k] = Absent
DeletedInv ==
    \A c \in Clients :
        /\ \A k \in pending[c].dels \cup batch[c].change.dels : Gone(k)
        /\ \A i \in 1 .. Len(channel[c]) : \A k \in channel[c][i].change.dels : Gone(k)

\* A request that was given up and would still be accepted holds nothing that
\* its client is not going to commit again.
Live(s, c) == s \in strays /\ s.from = c /\ s.base = current
StrayInv ==
    \A c \in Clients : \A s \in strays : Live(s, c) =>
        \A k \in DOMAIN s.body \ overtaken[c] : k \in dirty[c] \/ Holds(Queue(c), k)

-----------------------------------------------------------------------------
(* The order of a client's own values: database, live requests, queue, store. *)

Own(c, v)       == v # Absent /\ by[v] = c
NotAfter(c, v, w) == Own(c, v) /\ Own(c, w) => v <= w

\* Value v of key k is not newer than anything client c has still to write.
Behind(c, k, v) ==
    /\ NotAfter(c, v, view[c][k])
    /\ \A i \in 1 .. Len(Queue(c)) :
         k \in DOMAIN Queue(c)[i] => NotAfter(c, v, Queue(c)[i][k])

QueueSorted(c, k) ==
    \A i, j \in 1 .. Len(Queue(c)) :
        i < j /\ k \in DOMAIN Queue(c)[i] /\ k \in DOMAIN Queue(c)[j]
        => NotAfter(c, Queue(c)[i][k], Queue(c)[j][k])
QueueBehind(c, k) ==
    \A i \in 1 .. Len(Queue(c)) :
        k \in DOMAIN Queue(c)[i] => NotAfter(c, Queue(c)[i][k], view[c][k])
StraysBehind(c, k) ==
    \A s \in strays : Live(s, c) /\ k \in DOMAIN s.body =>
        Behind(c, k, s.body[k]) /\ (writer[k] = c => NotAfter(c, db[k], s.body[k]))

Ordered(c, k) ==
    /\ QueueSorted(c, k) /\ QueueBehind(c, k) /\ StraysBehind(c, k)
    /\ writer[k] = c => Behind(c, k, db[k])
OrderInv == \A c \in Clients : \A k \in Keys \ overtaken[c] : Ordered(c, k)

\* The inductive invariant.
SyncInv ==
    /\ TypeInv /\ ShapeInv /\ RevisionInv
    /\ ReadInv /\ DeletedInv /\ StrayInv /\ ViewInv /\ OrderInv

-----------------------------------------------------------------------------
(* Facts about the data.                                                     *)

\* What is left of a sequence without its head.
LEMMA TailFacts ==
  ASSUME NEW S, NEW s \in Seq(S), s # <<>>
  PROVE  /\ Tail(s) \in Seq(S) /\ Len(Tail(s)) = Len(s) - 1 /\ Len(s) \in Nat \ {0}
         /\ \A i \in 1 .. Len(Tail(s)) : Tail(s)[i] = s[i + 1]
         /\ Head(s) = s[1] /\ s[1] \in S
  OBVIOUS

\* An element put behind a sequence.
LEMMA AppendFacts ==
  ASSUME NEW S, NEW s \in Seq(S), NEW e \in S
  PROVE  /\ Append(s, e) \in Seq(S) /\ Len(Append(s, e)) = Len(s) + 1
         /\ \A i \in 1 .. Len(s) : Append(s, e)[i] = s[i]
         /\ Append(s, e)[Len(s) + 1] = e
  OBVIOUS

LEMMA TailAppend ==
  ASSUME NEW S, NEW s \in Seq(S), s # <<>>, NEW e \in S
  PROVE  Tail(Append(s, e)) = Append(Tail(s), e)
  OBVIOUS

LEMMA BodyFacts ==
  /\ \A b \in Bodies : DOMAIN b \in SUBSET Keys /\ \A k \in DOMAIN b : b[k] \in Cells
  /\ \A D \in SUBSET Keys : \A b \in [D -> Cells] : b \in Bodies
  BY DEF Bodies

LEMMA CellFacts ==
  /\ \A v \in Cells : v \in Int /\ (v = Absent \/ v \in Values)
  /\ 0 \in Cells /\ Absent \in Cells /\ Absent \notin Values /\ Values \subseteq Nat
  BY BoundsAssumption DEF Cells, Values, Absent

LEMMA NothingFacts ==
  /\ NoChange \in Changes /\ \A k : ~Told(NoChange, k)
  /\ NoChange.dels = {} /\ NoChange.ups = {} /\ ~NoChange.all
  /\ NoBatch \in Batches /\ NoBatch.change = NoChange /\ DOMAIN NoBatch.read = {} /\ ~NoBatch.busy
  /\ Idle \in Calls /\ Idle.stage = "idle" /\ Idle.base = 0
<1>1. /\ NoChange \in Changes /\ \A k : ~Told(NoChange, k)
      /\ NoChange.dels = {} /\ NoChange.ups = {} /\ ~NoChange.all
  BY DEF NoChange, Change, Changes, Told
<1>2. <<>> \in Bodies /\ DOMAIN <<>> = {}
  BY DEF Bodies
<1>3. /\ NoBatch \in Batches /\ NoBatch.change = NoChange /\ DOMAIN NoBatch.read = {}
      /\ ~NoBatch.busy
  BY <1>1, <1>2 DEF NoBatch, Batches
<1>4. Idle \in Calls /\ Idle.stage = "idle" /\ Idle.base = 0
  BY DEF Idle, Calls
<1> QED BY <1>1, <1>3, <1>4

LEMMA QueueFacts ==
  ASSUME TypeInv, ShapeInv, NEW c \in Clients
  PROVE  /\ Queue(c) \in Seq(Bodies) /\ Len(Queue(c)) \in Nat
         /\ \A i \in 1 .. Len(Queue(c)) : /\ Queue(c)[i] \in Bodies
                                          /\ \A k \in DOMAIN Queue(c)[i] : Entered(Queue(c)[i][k])
<1>1. commits[c] \in Seq(Bodies)
  BY DEF TypeInv
<1>2. CASE call[c].stage = "written"
  <2>1. Queue(c) = Tail(commits[c]) /\ commits[c] # <<>>
    BY <1>2, NothingFacts DEF Queue, ShapeInv
  <2>2. /\ Tail(commits[c]) \in Seq(Bodies)
        /\ \A i \in 1 .. Len(Tail(commits[c])) : /\ Tail(commits[c])[i] = commits[c][i + 1]
                                                 /\ i + 1 \in 1 .. Len(commits[c])
    BY <1>1, <2>1, TailFacts
  <2> QED BY <2>1, <2>2 DEF ShapeInv
<1>3. CASE call[c].stage # "written"
  BY <1>1, <1>3 DEF Queue, ShapeInv
<1> QED BY <1>2, <1>3

\* Unconfirmed(c) is what is in the queue and in requests given up.
LEMMA UnconfirmedFacts ==
  ASSUME TypeInv, ShapeInv, NEW c \in Clients, NEW k
  PROVE  k \in Unconfirmed(c) <=>
           Holds(Queue(c), k) \/ \E s \in strays : s.from = c /\ k \in DOMAIN s.body
<1> DEFINE sent == IF call[c].stage = "written" THEN 2 ELSE 1
<1>1. k \in Unconfirmed(c) <=>
        \/ \E i \in sent .. Len(commits[c]) : k \in DOMAIN commits[c][i]
        \/ \E s \in strays : s.from = c /\ k \in DOMAIN s.body
  BY DEF Unconfirmed
<1>2. (\E i \in sent .. Len(commits[c]) : k \in DOMAIN commits[c][i]) <=> Holds(Queue(c), k)
  <2>1. CASE call[c].stage = "written"
    <3>1. Queue(c) = Tail(commits[c]) /\ commits[c] # <<>> /\ commits[c] \in Seq(Bodies) /\ sent = 2
      BY <2>1, NothingFacts DEF Queue, ShapeInv, TypeInv
    <3>2. /\ Len(Tail(commits[c])) = Len(commits[c]) - 1 /\ Len(commits[c]) \in Nat
          /\ \A i \in 1 .. Len(Tail(commits[c])) : Tail(commits[c])[i] = commits[c][i + 1]
      BY <3>1, TailFacts
    <3>3. ASSUME NEW i \in 2 .. Len(commits[c]), k \in DOMAIN commits[c][i] PROVE Holds(Queue(c), k)
      <4>1. i - 1 \in 1 .. Len(Tail(commits[c])) /\ commits[c][(i - 1) + 1] = commits[c][i]
        BY <3>2
      <4> QED BY <3>1, <3>2, <3>3, <4>1 DEF Holds
    <3>4. ASSUME Holds(Queue(c), k) PROVE \E i \in 2 .. Len(commits[c]) : k \in DOMAIN commits[c][i]
      <4>1. PICK i \in 1 .. Len(Tail(commits[c])) : k \in DOMAIN Tail(commits[c])[i]
        BY <3>1, <3>4 DEF Holds
      <4>2. i + 1 \in 2 .. Len(commits[c])
        BY <3>2
      <4> QED BY <3>2, <4>1, <4>2
    <3> QED BY <3>1, <3>3, <3>4
  <2>2. CASE call[c].stage # "written"
    BY <2>2 DEF Queue, Holds
  <2> QED BY <2>1, <2>2
<1> HIDE DEF sent
<1> QED BY <1>1, <1>2

\* A queue without its first commit.
LEMMA DropHead ==
  ASSUME NEW q \in Seq(Bodies), NEW r \in Seq(Bodies), q # <<>>, r = Tail(q), NEW k
  PROVE  /\ Holds(q, k) <=> Holds(r, k) \/ k \in DOMAIN q[1]
         /\ \A v : EndsWith(q, k, v) => \/ EndsWith(r, k, v)
                                        \/ ~Holds(r, k) /\ k \in DOMAIN q[1] /\ q[1][k] = v
<1>1. /\ Len(r) = Len(q) - 1 /\ Len(q) \in Nat \ {0} /\ \A i \in 1 .. Len(r) : r[i] = q[i + 1]
  BY TailFacts
<1>2. ASSUME Holds(q, k), k \notin DOMAIN q[1] PROVE Holds(r, k)
  <2>1. PICK i \in 1 .. Len(q) : k \in DOMAIN q[i]
    BY <1>2 DEF Holds
  <2>2. i - 1 \in 1 .. Len(r) /\ (i - 1) + 1 = i
    BY <1>1, <1>2, <2>1
  <2> QED BY <1>1, <2>1, <2>2 DEF Holds
<1>3. ASSUME Holds(r, k) PROVE Holds(q, k)
  BY <1>1, <1>3 DEF Holds
<1>4. k \in DOMAIN q[1] => Holds(q, k)
  BY <1>1 DEF Holds
<1>5. ASSUME NEW v, EndsWith(q, k, v)
      PROVE  EndsWith(r, k, v) \/ (~Holds(r, k) /\ k \in DOMAIN q[1] /\ q[1][k] = v)
  <2>1. PICK i \in 1 .. Len(q) : /\ k \in DOMAIN q[i] /\ q[i][k] = v
                                 /\ \A j \in i + 1 .. Len(q) : k \notin DOMAIN q[j]
    BY <1>5 DEF EndsWith
  <2>2. CASE i = 1
    BY <1>1, <2>1, <2>2 DEF Holds
  <2>3. CASE i # 1
    <3>1. i - 1 \in 1 .. Len(r) /\ (i - 1) + 1 = i
      BY <1>1, <2>3
    <3>2. \A j \in (i - 1) + 1 .. Len(r) : j + 1 \in i + 1 .. Len(q) /\ j \in 1 .. Len(r)
      BY <1>1, <3>1
    <3> QED BY <1>1, <2>1, <3>1, <3>2 DEF EndsWith
  <2> QED BY <2>2, <2>3
<1> QED BY <1>2, <1>3, <1>4, <1>5

\* A queue with one commit more.
LEMMA AddLast ==
  ASSUME NEW q \in Seq(Bodies), NEW b \in Bodies, NEW r, r = Append(q, b), NEW k
  PROVE  /\ Holds(r, k) <=> Holds(q, k) \/ k \in DOMAIN b
         /\ k \in DOMAIN b => EndsWith(r, k, b[k])
         /\ \A v : k \notin DOMAIN b /\ EndsWith(q, k, v) => EndsWith(r, k, v)
<1>1. /\ Len(r) = Len(q) + 1 /\ Len(q) \in Nat /\ r[Len(q) + 1] = b
      /\ \A i \in 1 .. Len(q) : r[i] = q[i]
  BY AppendFacts
<1>2. Holds(r, k) <=> Holds(q, k) \/ k \in DOMAIN b
  BY <1>1 DEF Holds
<1>3. k \in DOMAIN b => EndsWith(r, k, b[k])
  BY <1>1 DEF EndsWith
<1>4. \A v : k \notin DOMAIN b /\ EndsWith(q, k, v) => EndsWith(r, k, v)
  BY <1>1 DEF EndsWith
<1> QED BY <1>2, <1>3, <1>4

\* An event behind the others of a connection.
LEMMA EventAppended ==
  ASSUME TypeInv, NEW c \in Clients, NEW e \in Events, channel'[c] = Append(channel[c], e),
         UNCHANGED pending, NEW k
  PROVE  /\ Coming(c, k) => Coming(c, k)'
         /\ Foreign(c, e, k) => Coming(c, k)'
<1>1. channel[c] \in Seq(Events)
  BY DEF TypeInv
<1>2. /\ Len(channel'[c]) = Len(channel[c]) + 1 /\ Len(channel[c]) \in Nat
      /\ \A i \in 1 .. Len(channel[c]) : channel'[c][i] = channel[c][i]
      /\ channel'[c][Len(channel[c]) + 1] = e
  BY <1>1, AppendFacts
<1>3. Coming(c, k) => Coming(c, k)'
  BY <1>2 DEF Coming
<1>4. Foreign(c, e, k) => Coming(c, k)'
  BY <1>2 DEF Coming
<1> QED BY <1>3, <1>4

LEMMA InvFacts == SyncInv => TypeInv /\ ShapeInv
  BY DEF SyncInv

LEMMA EventFacts ==
  ASSUME TypeInv, NEW c \in Clients
  PROVE  /\ channel[c] \in Seq(Events) /\ Len(channel[c]) \in Nat
         /\ \A i \in 1 .. Len(channel[c]) :
              /\ channel[c][i] \in Events /\ channel[c][i].revision \in Nat
              /\ channel[c][i].change \in Changes /\ channel[c][i].change.dels \subseteq Keys
         /\ pending[c] \in Changes /\ pending[c].dels \subseteq Keys
         /\ batch[c].change \in Changes /\ batch[c].change.dels \subseteq Keys
         /\ batch[c].read \in Bodies /\ call[c].base \in Nat
<1>1. channel[c] \in Seq(Events) /\ pending[c] \in Changes
  BY DEF TypeInv
<1>2. /\ Len(channel[c]) \in Nat /\ \A i \in 1 .. Len(channel[c]) : channel[c][i] \in Events
  BY <1>1
<1>3. batch[c].change \in Changes /\ batch[c].read \in Bodies /\ call[c].base \in Nat
  BY DEF TypeInv, Batches, Calls
<1>4. \A e \in Events : e.revision \in Nat /\ e.change \in Changes
  BY DEF Events
<1>5. \A h \in Changes : h.dels \subseteq Keys
  BY DEF Changes
<1> QED BY <1>1, <1>2, <1>3, <1>4, <1>5

-----------------------------------------------------------------------------
(* Commits.                                                                  *)

\* The order of the values does not depend on events and batches.
LEMMA OrderSame ==
  ASSUME OrderInv, \A c \in Clients : Queue(c)' = Queue(c),
         UNCHANGED <<view, by, db, current, writer, strays, overtaken>>
  PROVE  OrderInv'
<1> SUFFICES ASSUME NEW c \in Clients, NEW k \in Keys \ overtaken[c] PROVE Ordered(c, k)'
  BY DEF OrderInv
<1>1. Ordered(c, k)
  BY DEF OrderInv
<1>2. \A v : Behind(c, k, v)' <=> Behind(c, k, v)
  BY DEF Behind, NotAfter, Own
<1>3. QueueSorted(c, k)' /\ QueueBehind(c, k)'
  BY <1>1 DEF Ordered, QueueSorted, QueueBehind, NotAfter, Own
<1>4. StraysBehind(c, k)'
  BY <1>1, <1>2 DEF Ordered, StraysBehind, Live, NotAfter, Own
<1>5. (writer[k] = c => Behind(c, k, db[k]))'
  BY <1>1, <1>2 DEF Ordered
<1> QED BY <1>3, <1>4, <1>5 DEF Ordered

\* A step in which a call moves on but nothing is written, given up or shown.
LEMMA CallMoves ==
  ASSUME SyncInv, TypeInv', ShapeInv', RevisionInv', \A c \in Clients : Queue(c)' = Queue(c),
         UNCHANGED <<view, dirty, serverVars, queueVars, counterVars, ghostVars>>
  PROVE  SyncInv'
<1> USE DEF serverVars, tableVars, queueVars, counterVars, ghostVars
<1>1. ReadInv'
  BY DEF SyncInv, ReadInv, Coming
<1>2. DeletedInv'
  BY DEF SyncInv, DeletedInv, Gone
<1>3. StrayInv'
  BY DEF SyncInv, StrayInv, Live
<1>4. ViewInv'
  BY DEF SyncInv, ViewInv, Shown, Coming
<1>5. OrderInv'
  BY OrderSame DEF SyncInv
<1> QED BY <1>1, <1>2, <1>3, <1>4, <1>5 DEF SyncInv

LEMMA StartCommitStep ==
  ASSUME SyncInv, NEW c \in Clients, StartCommit(c) PROVE SyncInv'
<1> DEFINE new == [stage |-> "sent", tries |-> 1, base |-> revision[c]]
<1>1. /\ call[c] = Idle /\ commits[c] # <<>> /\ call' = [call EXCEPT ![c] = new]
      /\ UNCHANGED <<storeVars, commits, revision, serverVars, queueVars, counterVars, ghostVars>>
  BY DEF StartCommit
<1>2. new \in Calls /\ new.stage = "sent" /\ new.base = revision[c]
  BY DEF SyncInv, TypeInv, Calls
<1> HIDE DEF new
<1>3. call' \in [Clients -> Calls] /\ call'[c] = new /\ \A d \in Clients : d # c => call'[d] = call[d]
  BY <1>1, <1>2 DEF SyncInv, TypeInv
<1> USE DEF storeVars, serverVars, tableVars, queueVars, counterVars, ghostVars
<1>4. TypeInv'
  BY <1>1, <1>3 DEF SyncInv, TypeInv
<1>5. ShapeInv'
  BY <1>1, <1>3 DEF SyncInv, ShapeInv, Entered
<1>6. RevisionInv'
  BY <1>1, <1>2, <1>3 DEF SyncInv, RevisionInv
<1>7. \A d \in Clients : Queue(d)' = Queue(d)
  BY <1>1, <1>2, <1>3, NothingFacts DEF Queue
<1> QED BY <1>1, <1>4, <1>5, <1>6, <1>7, CallMoves

LEMMA EndCommitFacts ==
  ASSUME SyncInv, NEW c \in Clients, commits[c] # <<>>, EndCommit(c)
  PROVE  /\ commits' \in [Clients -> Seq(Bodies)] /\ call' \in [Clients -> Calls]
         /\ commits'[c] = Tail(commits[c]) /\ call'[c] = Idle
         /\ \A d \in Clients : d # c => /\ commits'[d] = commits[d] /\ call'[d] = call[d]
                                        /\ Queue(d)' = Queue(d)
         /\ Queue(c)' = IF call[c].stage = "written" THEN Queue(c) ELSE Tail(Queue(c))
         /\ Head(commits[c]) \in Bodies /\ Head(commits[c]) = commits[c][1] /\ 1 \in 1 .. Len(commits[c])
         /\ \A d \in Clients : \A i \in 1 .. Len(commits'[d]) :
              \A k \in DOMAIN commits'[d][i] : Entered(commits'[d][i][k])
<1>1. commits[c] \in Seq(Bodies)
  BY DEF SyncInv, TypeInv
<1>2. /\ Tail(commits[c]) \in Seq(Bodies)
      /\ Len(Tail(commits[c])) = Len(commits[c]) - 1 /\ Len(commits[c]) \in Nat \ {0}
      /\ \A i \in 1 .. Len(Tail(commits[c])) : /\ Tail(commits[c])[i] = commits[c][i + 1]
                                               /\ i + 1 \in 1 .. Len(commits[c])
      /\ Head(commits[c]) = commits[c][1] /\ commits[c][1] \in Bodies
  BY <1>1, TailFacts
<1>3. /\ commits' \in [Clients -> Seq(Bodies)] /\ call' \in [Clients -> Calls]
      /\ commits'[c] = Tail(commits[c]) /\ call'[c] = Idle
      /\ \A d \in Clients : d # c => commits'[d] = commits[d] /\ call'[d] = call[d]
  BY <1>2, NothingFacts DEF EndCommit, SyncInv, TypeInv
<1>4. \A d \in Clients : d # c => Queue(d)' = Queue(d)
  BY <1>3 DEF Queue
<1>5. Queue(c)' = IF call[c].stage = "written" THEN Queue(c) ELSE Tail(Queue(c))
  BY <1>3, NothingFacts DEF Queue
<1>6. \A d \in Clients : \A i \in 1 .. Len(commits'[d]) :
        \A k \in DOMAIN commits'[d][i] : Entered(commits'[d][i][k])
  <2>1. \A d \in Clients : \A i \in 1 .. Len(commits[d]) :
          \A k \in DOMAIN commits[d][i] : Entered(commits[d][i][k])
    BY DEF SyncInv, ShapeInv
  <2>2. \A i \in 1 .. Len(commits'[c]) : \A k \in DOMAIN commits'[c][i] :
          Entered(commits'[c][i][k])
    <3> SUFFICES ASSUME NEW i \in 1 .. Len(Tail(commits[c])), NEW k \in DOMAIN Tail(commits[c])[i]
                 PROVE  Entered(Tail(commits[c])[i][k])
      BY <1>3
    <3> QED BY <1>2, <2>1
  <2> QED BY <1>3, <2>1, <2>2
<1>7. Head(commits[c]) \in Bodies /\ Head(commits[c]) = commits[c][1] /\ 1 \in 1 .. Len(commits[c])
  BY <1>2
<1>8. \A d \in Clients : d # c => /\ commits'[d] = commits[d] /\ call'[d] = call[d]
                                  /\ Queue(d)' = Queue(d)
  BY <1>3, <1>4
<1> QED BY <1>3, <1>5, <1>6, <1>7, <1>8

LEMMA CommitConfirmedStep ==
  ASSUME SyncInv, NEW c \in Clients, CommitConfirmed(c) PROVE SyncInv'
<1>1. /\ call[c].stage = "written" /\ revision' = [revision EXCEPT ![c] = call[c].base] /\ EndCommit(c)
      /\ UNCHANGED <<storeVars, serverVars, queueVars, counterVars, ghostVars>>
  BY DEF CommitConfirmed
<1>2. commits[c] # <<>> /\ call[c].base \in Nat
  BY <1>1, NothingFacts DEF SyncInv, ShapeInv, TypeInv, Calls
<1>3. /\ commits' \in [Clients -> Seq(Bodies)] /\ call' \in [Clients -> Calls]
      /\ commits'[c] = Tail(commits[c]) /\ call'[c] = Idle
      /\ \A d \in Clients : d # c => commits'[d] = commits[d] /\ call'[d] = call[d]
      /\ \A d \in Clients : Queue(d)' = Queue(d)
      /\ \A d \in Clients : \A i \in 1 .. Len(commits'[d]) :
           \A k \in DOMAIN commits'[d][i] : Entered(commits'[d][i][k])
  BY <1>1, <1>2, EndCommitFacts
<1>4. revision' \in [Clients -> Nat] /\ \A d \in Clients : revision'[d] \in {revision[d], call[d].base}
  BY <1>1, <1>2 DEF SyncInv, TypeInv
<1> USE DEF storeVars, serverVars, tableVars, queueVars, counterVars, ghostVars
<1>5. TypeInv'
  BY <1>1, <1>3, <1>4 DEF SyncInv, TypeInv
<1>6. ShapeInv'
  BY <1>1, <1>3 DEF SyncInv, ShapeInv, Entered
<1>7. RevisionInv'
  BY <1>1, <1>3, <1>4, NothingFacts DEF SyncInv, RevisionInv, TypeInv
<1> QED BY <1>1, <1>3, <1>5, <1>6, <1>7, CallMoves

LEMMA CommitRetriedStep ==
  ASSUME SyncInv, NEW c \in Clients, CommitRetried(c) PROVE SyncInv'
<1>1. PICK base \in {call[c].base, revision[c]} :
         call' = [call EXCEPT ![c] = [stage |-> "sent", tries |-> call[c].tries + 1, base |-> base]]
  BY DEF CommitRetried, Larger, SyncInv, TypeInv
<1> DEFINE new == [stage |-> "sent", tries |-> call[c].tries + 1, base |-> base]
<1>2. /\ call[c].stage = "refused"
      /\ UNCHANGED <<storeVars, commits, revision, serverVars, queueVars, counterVars, ghostVars>>
  BY DEF CommitRetried
<1>3. new \in Calls /\ new.stage = "sent" /\ new.base = base
  BY DEF SyncInv, TypeInv, Calls
<1>4. call' = [call EXCEPT ![c] = new]
  BY <1>1
<1> HIDE DEF new
<1>5. call' \in [Clients -> Calls] /\ call'[c] = new /\ \A d \in Clients : d # c => call'[d] = call[d]
  BY <1>3, <1>4 DEF SyncInv, TypeInv
<1>6. commits[c] # <<>>
  BY <1>2, NothingFacts DEF SyncInv, ShapeInv
<1> USE DEF storeVars, serverVars, tableVars, queueVars, counterVars, ghostVars
<1>7. TypeInv'
  BY <1>2, <1>5 DEF SyncInv, TypeInv
<1>8. ShapeInv'
  BY <1>2, <1>5, <1>6 DEF SyncInv, ShapeInv, Entered
<1>9. RevisionInv'
  BY <1>2, <1>3, <1>5 DEF SyncInv, RevisionInv
<1>10. \A d \in Clients : Queue(d)' = Queue(d)
  BY <1>2, <1>3, <1>5 DEF Queue
<1> QED BY <1>2, <1>7, <1>8, <1>9, <1>10, CallMoves

\* What is in order stays so when the first commit leaves the queue, and what was
\* first is behind what is left.
LEMMA OrderKept ==
  ASSUME SyncInv, NEW d \in Clients, NEW k \in Keys \ overtaken[d], UNCHANGED <<view, by>>,
         Queue(d)' = Queue(d) \/ (Queue(d) # <<>> /\ Queue(d)' = Tail(Queue(d)))
  PROVE  /\ QueueSorted(d, k)' /\ QueueBehind(d, k)'
         /\ \A v : \/ Behind(d, k, v)
                   \/ /\ Queue(d) # <<>> /\ Queue(d)' = Tail(Queue(d))
                      /\ k \in DOMAIN Queue(d)[1] /\ v = Queue(d)[1][k]
                   => Behind(d, k, v)'
<1>1. Ordered(d, k) /\ Queue(d) \in Seq(Bodies)
  BY QueueFacts, InvFacts DEF SyncInv, OrderInv
<1>2. \A v, w : NotAfter(d, v, w)' <=> NotAfter(d, v, w)
  BY DEF NotAfter, Own
<1>3. CASE Queue(d)' = Queue(d) /\ ~(Queue(d) # <<>> /\ Queue(d)' = Tail(Queue(d)))
  BY <1>1, <1>2, <1>3 DEF Ordered, QueueSorted, QueueBehind, Behind
<1>4. CASE Queue(d) # <<>> /\ Queue(d)' = Tail(Queue(d))
  <2>1. /\ \A i \in 1 .. Len(Queue(d)') : i + 1 \in 1 .. Len(Queue(d)) /\ Queue(d)'[i] = Queue(d)[i + 1]
        /\ 1 \in 1 .. Len(Queue(d))
    BY <1>1, <1>4, TailFacts
  <2>2. QueueSorted(d, k)'
    <3> SUFFICES ASSUME NEW i \in 1 .. Len(Queue(d)'), NEW j \in 1 .. Len(Queue(d)'), i < j,
                        k \in DOMAIN Queue(d)'[i], k \in DOMAIN Queue(d)'[j]
                 PROVE  NotAfter(d, Queue(d)[i][k], Queue(d)[j][k])'
      BY DEF QueueSorted
    <3>1. /\ i + 1 \in 1 .. Len(Queue(d)) /\ Queue(d)'[i] = Queue(d)[i + 1]
          /\ j + 1 \in 1 .. Len(Queue(d)) /\ Queue(d)'[j] = Queue(d)[j + 1] /\ i + 1 < j + 1
      BY <2>1
    <3>2. NotAfter(d, Queue(d)[i + 1][k], Queue(d)[j + 1][k])
      BY <1>1, <3>1 DEF Ordered, QueueSorted
    <3> QED BY <3>1, <3>2 DEF NotAfter, Own
  <2>3. QueueBehind(d, k)'
    BY <1>1, <1>2, <2>1 DEF Ordered, QueueBehind
  <2>4. \A v : Behind(d, k, v) => Behind(d, k, v)'
    BY <1>2, <2>1 DEF Behind
  <2>5. ASSUME NEW v, k \in DOMAIN Queue(d)[1], v = Queue(d)[1][k] PROVE Behind(d, k, v)'
    <3>1. NotAfter(d, v, view[d][k])
      BY <1>1, <2>1, <2>5 DEF Ordered, QueueBehind
    <3>2. ASSUME NEW i \in 1 .. Len(Queue(d)'), k \in DOMAIN Queue(d)'[i]
          PROVE  NotAfter(d, v, Queue(d)'[i][k])
      <4>1. /\ i + 1 \in 1 .. Len(Queue(d)) /\ Queue(d)'[i] = Queue(d)[i + 1] /\ 1 < i + 1
            /\ 1 \in 1 .. Len(Queue(d))
        BY <2>1
      <4> QED BY <1>1, <2>5, <3>2, <4>1 DEF Ordered, QueueSorted
    <3> QED BY <1>2, <3>1, <3>2 DEF Behind
  <2> QED BY <2>2, <2>3, <2>4, <2>5
<1> QED BY <1>3, <1>4

\* A commit is given up: its keys are dirty again, and its request may still
\* arrive if it had not been answered.
LEMMA GivenUp ==
  ASSUME SyncInv, NEW c \in Clients, commits[c] # <<>>, Failed(c), strays \subseteq strays',
         \A s \in strays' \ strays :
            /\ s = [from |-> c, base |-> call[c].base, body |-> Head(commits[c])]
            /\ call[c].stage = "sent"
  PROVE  SyncInv'
<1> PICK body : body = Head(commits[c])
  OBVIOUS
<1> PICK X : X = strays' \ strays /\ strays' = strays \cup X
  OBVIOUS
<1>1. /\ dirty' = [dirty EXCEPT ![c] = @ \cup DOMAIN body] /\ EndCommit(c)
      /\ UNCHANGED <<view, armed, revision, db, current, writer, revived, channel, pending, batch,
                     edits, deletes, by, raced, overtaken>>
  BY DEF Failed, RestoreKeyAfterFailedCommit, tableVars, queueVars, ghostVars
<1>2. /\ commits' \in [Clients -> Seq(Bodies)] /\ call' \in [Clients -> Calls]
      /\ commits'[c] = Tail(commits[c]) /\ call'[c] = Idle
      /\ \A d \in Clients : d # c => /\ commits'[d] = commits[d] /\ call'[d] = call[d]
                                     /\ Queue(d)' = Queue(d)
      /\ Queue(c)' = IF call[c].stage = "written" THEN Queue(c) ELSE Tail(Queue(c))
      /\ body \in Bodies /\ body = commits[c][1] /\ 1 \in 1 .. Len(commits[c])
      /\ \A d \in Clients : \A i \in 1 .. Len(commits'[d]) :
           \A k \in DOMAIN commits'[d][i] : Entered(commits'[d][i][k])
  BY <1>1, EndCommitFacts
<1>3. /\ \A s \in X : /\ s \in Strays /\ s.from = c /\ s.base = call[c].base /\ s.body = body
                      /\ call[c].stage = "sent"
  <2>1. call[c].base \in Nat
    BY DEF SyncInv, TypeInv, Calls
  <2> QED BY <1>2, <2>1 DEF Strays
<1>4. /\ dirty' \in [Clients -> SUBSET Keys] /\ dirty'[c] = dirty[c] \cup DOMAIN body
      /\ \A d \in Clients : d # c => dirty'[d] = dirty[d]
  BY <1>1, <1>2, BodyFacts DEF SyncInv, TypeInv
<1>5. \/ Queue(c)' = Queue(c)
      \/ /\ call[c].stage # "written" /\ Queue(c) # <<>> /\ Queue(c)' = Tail(Queue(c))
         /\ Queue(c)[1] = body /\ Queue(c)' \in Seq(Bodies)
  <2>1. commits[c] \in Seq(Bodies)
    BY DEF SyncInv, TypeInv
  <2> QED BY <1>2, <2>1, TailFacts DEF Queue
<1>6. \A d \in Clients : \A k :
        /\ Holds(Queue(d), k) => Holds(Queue(d), k)' \/ k \in dirty'[d]
        /\ Holds(Queue(d), k)' => Holds(Queue(d), k)
        /\ \A v : EndsWith(Queue(d), k, v) => EndsWith(Queue(d), k, v)' \/ k \in dirty'[d]
  <2> SUFFICES ASSUME NEW d \in Clients, NEW k
               PROVE  /\ Holds(Queue(d), k) => Holds(Queue(d)', k) \/ k \in dirty'[d]
                      /\ Holds(Queue(d)', k) => Holds(Queue(d), k)
                      /\ \A v : EndsWith(Queue(d), k, v)
                               => EndsWith(Queue(d)', k, v) \/ k \in dirty'[d]
    BY DEF Holds, EndsWith
  <2>1. CASE Queue(d)' = Queue(d)
    BY <2>1
  <2>2. CASE Queue(d)' # Queue(d)
    <3>1. /\ d = c /\ Queue(c) # <<>> /\ Queue(c)' = Tail(Queue(c)) /\ Queue(c)[1] = body
          /\ Queue(c)' \in Seq(Bodies) /\ Queue(c) \in Seq(Bodies) /\ DOMAIN body \subseteq dirty'[c]
      BY <1>2, <1>4, <1>5, <2>2, QueueFacts, InvFacts
    <3> QED BY <3>1, DropHead
  <2> QED BY <2>1, <2>2
<1>7. TypeInv'
  BY <1>1, <1>2, <1>3, <1>4 DEF SyncInv, TypeInv
<1>8. ShapeInv'
  <2>1. \A k \in DOMAIN body : Entered(body[k])
    BY <1>2 DEF SyncInv, ShapeInv
  <2> QED BY <1>1, <1>2, <1>3, <2>1 DEF SyncInv, ShapeInv, Entered
<1>9. RevisionInv'
  <2>1. \A s \in strays' : s.base <= current
    BY <1>3 DEF SyncInv, RevisionInv
  <2>2. \A d \in Clients : call'[d].base <= current
    <3>1. call'[c].base <= current
      BY <1>2, NothingFacts DEF SyncInv, TypeInv
    <3> QED BY <1>2, <3>1 DEF SyncInv, RevisionInv
  <2> QED BY <1>1, <2>1, <2>2 DEF SyncInv, RevisionInv
<1>10. ReadInv' /\ DeletedInv'
  BY <1>1 DEF SyncInv, ReadInv, DeletedInv, Gone, Coming
<1>11. StrayInv'
  BY <1>1, <1>3, <1>4, <1>6 DEF SyncInv, StrayInv, Live
<1>12. ViewInv'
  BY <1>1, <1>4, <1>6 DEF SyncInv, ViewInv, Shown, Coming
<1>13. OrderInv'
  <2> SUFFICES ASSUME NEW d \in Clients, NEW k \in Keys \ overtaken[d] PROVE Ordered(d, k)'
    BY <1>1 DEF OrderInv
  <2>1. Ordered(d, k)
    BY DEF SyncInv, OrderInv
  <2>2. /\ Queue(d)' = Queue(d) \/ (Queue(d) # <<>> /\ Queue(d)' = Tail(Queue(d)))
        /\ X # {} /\ d = c => Queue(d) # <<>> /\ Queue(d)' = Tail(Queue(d)) /\ Queue(d)[1] = body
    <3>1. X # {} => call[c].stage # "written"
      BY <1>3
    <3> QED BY <1>2, <1>5, <3>1 DEF Queue
  <2>3. /\ QueueSorted(d, k)' /\ QueueBehind(d, k)'
        /\ \A v : \/ Behind(d, k, v)
                  \/ X # {} /\ d = c /\ k \in DOMAIN body /\ v = body[k]
                  => Behind(d, k, v)'
    BY <1>1, <2>2, OrderKept
  <2>4. \A v, w : NotAfter(d, v, w)' <=> NotAfter(d, v, w)
    BY <1>1 DEF NotAfter, Own
  <2>5. (writer[k] = d => Behind(d, k, db[k]))'
    BY <1>1, <2>1, <2>3 DEF Ordered
  <2>6. StraysBehind(d, k)'
    <3> SUFFICES ASSUME NEW s \in strays', Live(s, d)', k \in DOMAIN s.body
                 PROVE  Behind(d, k, s.body[k])' /\ (writer[k] = d => NotAfter(d, db[k], s.body[k]))'
      BY DEF StraysBehind
    <3>1. CASE s \in strays
      BY <1>1, <2>1, <2>3, <2>4, <3>1 DEF Ordered, StraysBehind, Live
    <3>2. CASE s \in X
      <4>1. d = c /\ s.body = body /\ Queue(d)[1] = body /\ 1 \in 1 .. Len(Queue(d))
        BY <1>3, <2>2, <3>2, QueueFacts, InvFacts DEF Live
      <4>2. Behind(d, k, body[k])'
        BY <2>3, <3>2, <4>1
      <4>3. (writer[k] = d => NotAfter(d, db[k], body[k]))'
        BY <1>1, <2>1, <2>4, <4>1 DEF Ordered, Behind
      <4> QED BY <4>1, <4>2, <4>3
    <3> QED BY <3>1, <3>2
  <2> QED BY <2>3, <2>5, <2>6 DEF Ordered
<1> QED BY <1>7, <1>8, <1>9, <1>10, <1>11, <1>12, <1>13 DEF SyncInv

LEMMA CommitRefusedStep ==
  ASSUME SyncInv, NEW c \in Clients, CommitRefused(c) PROVE SyncInv'
<1>1. Failed(c) /\ UNCHANGED strays /\ commits[c] # <<>>
  BY NothingFacts DEF CommitRefused, SyncInv, ShapeInv
<1> QED BY <1>1, GivenUp

LEMMA CommitLostStep ==
  ASSUME SyncInv, NEW c \in Clients, CommitLost(c) PROVE SyncInv'
<1>1. Failed(c) /\ commits[c] # <<>>
  BY DEF CommitLost, SyncInv, ShapeInv
<1>2. /\ strays \subseteq strays'
      /\ \A s \in strays' \ strays :
           /\ s = [from |-> c, base |-> call[c].base, body |-> Head(commits[c])]
           /\ call[c].stage = "sent"
  BY DEF CommitLost
<1> QED BY <1>1, <1>2, GivenUp

-----------------------------------------------------------------------------
(* The server.                                                               *)

\* What a transaction changes.
LEMMA WriteFacts ==
  ASSUME SyncInv, NEW c \in Clients, NEW body \in Bodies, Write(c, body)
  PROVE  /\ db' \in [Keys -> Cells] /\ current' = current + 1
         /\ \A k \in Keys : db'[k] = IF k \in DOMAIN body THEN body[k] ELSE db[k]
         /\ writer' \in [Keys -> Clients \cup {Nobody}]
         /\ \A k \in Keys : writer'[k] = IF k \in DOMAIN body THEN c ELSE writer[k]
         /\ revived' \subseteq Keys /\ revived \subseteq revived'
         /\ \A k \in DOMAIN body : db[k] = Absent /\ k \notin revived' => body[k] = Absent
         /\ raced' \in [Clients -> SUBSET Keys]
         /\ \A d \in Clients : raced[d] \subseteq raced'[d]
         /\ DOMAIN body \cap DOMAIN batch[c].read \subseteq raced'[c]
         /\ channel' \in [Clients -> Seq(Events)]
         /\ \E e \in Events :
              /\ e.from = c /\ e.revision = current + 1
              /\ \A k \in DOMAIN body : Told(e.change, k)
              /\ \A k \in e.change.dels : k \in DOMAIN body /\ body[k] = Absent
              /\ \A d \in Clients : channel'[d] = Append(channel[d], e)
<1>1. /\ DOMAIN body \subseteq Keys /\ \A k \in DOMAIN body : body[k] \in Cells
  BY BodyFacts
<1>2. /\ db' \in [Keys -> Cells] /\ current' = current + 1
      /\ \A k \in Keys : db'[k] = IF k \in DOMAIN body THEN body[k] ELSE db[k]
  BY <1>1 DEF Write, SyncInv, TypeInv
<1>3. /\ writer' \in [Keys -> Clients \cup {Nobody}]
      /\ \A k \in Keys : writer'[k] = IF k \in DOMAIN body THEN c ELSE writer[k]
  BY <1>1 DEF Write, SyncInv, TypeInv
<1>4. /\ revived' \subseteq Keys /\ revived \subseteq revived'
      /\ \A k \in DOMAIN body : db[k] = Absent /\ k \notin revived' => body[k] = Absent
  BY <1>1 DEF Write, SyncInv, TypeInv
<1>5. /\ raced' \in [Clients -> SUBSET Keys]
      /\ \A d \in Clients : raced[d] \subseteq raced'[d]
      /\ DOMAIN body \cap DOMAIN batch[c].read \subseteq raced'[c]
  BY <1>1 DEF Write, SyncInv, TypeInv
<1> DEFINE e == [from |-> c, revision |-> current + 1, change |-> Touched(body)]
<1>6. /\ Touched(body) \in Changes /\ \A k \in DOMAIN body : Told(Touched(body), k)
      /\ \A k \in Touched(body).dels : k \in DOMAIN body /\ body[k] = Absent
  BY <1>1 DEF Touched, Change, Changes, Told
<1>7. /\ e \in Events /\ e.from = c /\ e.revision = current + 1 /\ e.change = Touched(body)
  BY <1>6 DEF Events, SyncInv, TypeInv
<1>8. channel' = [d \in Clients |-> Append(channel[d], e)]
  BY DEF Write
<1> HIDE DEF e
<1>9. \A d \in Clients : Append(channel[d], e) \in Seq(Events)
  BY <1>7, AppendFacts DEF SyncInv, TypeInv
<1>10. channel' \in [Clients -> Seq(Events)] /\ \A d \in Clients : channel'[d] = Append(channel[d], e)
  BY <1>8, <1>9
<1> QED BY <1>2, <1>3, <1>4, <1>5, <1>6, <1>7, <1>10

\* A transaction keeps the invariant when what it writes is its client's next commit,
\* or is going to be written by that client again.
LEMMA Written ==
  ASSUME SyncInv, NEW c \in Clients, NEW body \in Bodies, Write(c, body),
         \A k \in DOMAIN body : Entered(body[k]),
         UNCHANGED <<view, dirty, armed, revision, pending, batch, edits, deletes, by, overtaken>>,
         commits' = commits, call' \in [Clients -> Calls], strays' \subseteq strays,
         \A d \in Clients : call'[d] = call[d] \/ (call'[d].base = current' /\ commits[d] # <<>>),
         \A d \in Clients : d # c => Queue(d)' = Queue(d),
         \/ /\ Queue(c)' = Queue(c)
            /\ \A k \in DOMAIN body \ overtaken[c] : k \in dirty[c] \/ Holds(Queue(c), k)
            /\ \A k \in DOMAIN body \ overtaken[c] : Behind(c, k, body[k])
         \/ Queue(c) # <<>> /\ Queue(c)' = Tail(Queue(c)) /\ Queue(c)[1] = body
  PROVE  SyncInv'
<1>1. /\ db' \in [Keys -> Cells] /\ current' = current + 1
      /\ \A k \in Keys : db'[k] = IF k \in DOMAIN body THEN body[k] ELSE db[k]
      /\ writer' \in [Keys -> Clients \cup {Nobody}]
      /\ \A k \in Keys : writer'[k] = IF k \in DOMAIN body THEN c ELSE writer[k]
      /\ revived' \subseteq Keys /\ revived \subseteq revived'
      /\ \A k \in DOMAIN body : db[k] = Absent /\ k \notin revived' => body[k] = Absent
      /\ raced' \in [Clients -> SUBSET Keys]
      /\ \A d \in Clients : raced[d] \subseteq raced'[d]
      /\ DOMAIN body \cap DOMAIN batch[c].read \subseteq raced'[c]
      /\ channel' \in [Clients -> Seq(Events)]
  BY WriteFacts
<1>2. PICK e \in Events :
        /\ e.from = c /\ e.revision = current + 1
        /\ \A k \in DOMAIN body : Told(e.change, k)
        /\ \A k \in e.change.dels : k \in DOMAIN body /\ body[k] = Absent
        /\ \A d \in Clients : channel'[d] = Append(channel[d], e)
  BY WriteFacts
<1>3. \A d \in Clients : \A i \in 1 .. Len(channel'[d]) :
        \/ channel'[d][i] = e
        \/ i \in 1 .. Len(channel[d]) /\ channel'[d][i] = channel[d][i]
  <2> SUFFICES ASSUME NEW d \in Clients, NEW i \in 1 .. Len(channel'[d])
               PROVE  \/ channel'[d][i] = e
                      \/ i \in 1 .. Len(channel[d]) /\ channel'[d][i] = channel[d][i]
    OBVIOUS
  <2>1. /\ Len(channel'[d]) = Len(channel[d]) + 1 /\ Len(channel[d]) \in Nat
        /\ \A j \in 1 .. Len(channel[d]) : channel'[d][j] = channel[d][j]
        /\ channel'[d][Len(channel[d]) + 1] = e
    BY <1>2, AppendFacts, EventFacts, InvFacts
  <2> QED BY <2>1
<1>4. \A d \in Clients : \A k \in Keys :
        /\ Coming(d, k) => Coming(d, k)'
        /\ d # c /\ k \in DOMAIN body => Coming(d, k)'
  <2>1. \A d \in Clients : \A k \in DOMAIN body : d # c => Foreign(d, e, k)
    BY <1>2 DEF Foreign
  <2> QED BY <1>2, <2>1, EventAppended, InvFacts
<1>5. TypeInv'
  BY <1>1 DEF SyncInv, TypeInv
<1>6. ShapeInv'
  <2>1. \A k \in Keys : Entered(db'[k])
    BY <1>1 DEF SyncInv, ShapeInv
  <2>2. \A d \in Clients : call'[d] # Idle => commits'[d] # <<>>
    BY DEF SyncInv, ShapeInv
  <2> QED BY <2>1, <2>2 DEF SyncInv, ShapeInv, Entered
<1>7. RevisionInv'
  <2>1. \A d \in Clients : call'[d].base <= current'
    <3>1. \A d \in Clients : call[d].base <= current /\ call[d].base \in Nat /\ current \in Nat
      BY EventFacts DEF SyncInv, TypeInv, RevisionInv
    <3>2. \A d \in Clients : call'[d].base \in {call[d].base, current + 1}
      BY <1>1
    <3> SUFFICES ASSUME NEW d \in Clients PROVE call'[d].base <= current + 1
      BY <1>1
    <3>3. call[d].base <= current /\ call[d].base \in Nat /\ current \in Nat
      BY <3>1
    <3> QED BY <3>2, <3>3
  <2>2. \A d \in Clients : \A i \in 1 .. Len(channel'[d]) : channel'[d][i].revision <= current'
    <3>1. \A d \in Clients : \A i \in 1 .. Len(channel[d]) :
            channel[d][i].revision <= current /\ channel[d][i].revision \in Nat
      BY EventFacts, InvFacts DEF SyncInv, RevisionInv
    <3>2. current \in Nat
      BY DEF SyncInv, TypeInv
    <3> SUFFICES ASSUME NEW d \in Clients, NEW i \in 1 .. Len(channel'[d])
                 PROVE  channel'[d][i].revision <= current + 1
      BY <1>1
    <3>3. CASE channel'[d][i] = e
      BY <1>2, <3>2, <3>3
    <3>4. CASE i \in 1 .. Len(channel[d]) /\ channel'[d][i] = channel[d][i]
      <4>1. channel[d][i].revision <= current /\ channel[d][i].revision \in Nat
        BY <3>1, <3>4
      <4> QED BY <3>2, <3>4, <4>1
    <3> QED BY <1>3, <3>3, <3>4
  <2>3. \A d \in Clients : revision'[d] <= current'
    BY <1>1 DEF SyncInv, TypeInv, RevisionInv
  <2>4. \A s \in strays' : s.base <= current'
    BY <1>1 DEF SyncInv, TypeInv, RevisionInv, Strays
  <2> QED BY <2>1, <2>2, <2>3, <2>4 DEF RevisionInv
<1>8. \A d \in Clients : \A s \in strays' : ~Live(s, d)'
  BY <1>1 DEF SyncInv, TypeInv, RevisionInv, Strays, Live
<1>9. ReadInv'
  <2> SUFFICES ASSUME NEW d \in Clients, NEW k \in DOMAIN batch[d].read, k \notin raced'[d]
               PROVE  /\ batch[d].read[k] = db'[k] \/ Coming(d, k)'
                      /\ writer'[k] = d => batch[d].read[k] = db'[k]
    BY DEF ReadInv
  <2>1. k \in Keys
    BY BodyFacts DEF SyncInv, TypeInv, Batches
  <2>2. /\ batch[d].read[k] = db[k] \/ Coming(d, k)
        /\ writer[k] = d => batch[d].read[k] = db[k]
    BY <1>1 DEF SyncInv, ReadInv
  <2> QED BY <1>1, <1>4, <2>1, <2>2
<1>10. DeletedInv'
  <2>1. \A k \in Keys : Gone(k) => Gone(k)'
    BY <1>1 DEF Gone
  <2>2. \A d \in Clients : \A i \in 1 .. Len(channel'[d]) :
          \A k \in channel'[d][i].change.dels : Gone(k)'
    <3>1. \A k \in e.change.dels : Gone(k)'
      BY <1>1, <1>2, BodyFacts DEF Gone
    <3>2. \A d \in Clients : \A i \in 1 .. Len(channel[d]) :
            \A k \in channel[d][i].change.dels : k \in Keys /\ Gone(k)
      BY EventFacts, InvFacts DEF SyncInv, DeletedInv
    <3> SUFFICES ASSUME NEW d \in Clients, NEW i \in 1 .. Len(channel'[d]),
                        NEW k \in channel'[d][i].change.dels
                 PROVE  Gone(k)'
      OBVIOUS
    <3>3. CASE channel'[d][i] = e
      BY <3>1, <3>3
    <3>4. CASE i \in 1 .. Len(channel[d]) /\ channel'[d][i] = channel[d][i]
      BY <2>1, <3>2, <3>4
    <3> QED BY <1>3, <3>3, <3>4
  <2>3. \A d \in Clients : \A k \in pending[d].dels \cup batch[d].change.dels : k \in Keys /\ Gone(k)
    BY EventFacts, InvFacts DEF SyncInv, DeletedInv
  <2> QED BY <2>1, <2>2, <2>3 DEF DeletedInv
<1>11. StrayInv'
  BY <1>8 DEF StrayInv
<1>12. ViewInv'
  <2> SUFFICES ASSUME NEW d \in Clients, NEW k \in Keys, k \notin dirty[d] \cup overtaken[d] \cup revived'
               PROVE  Shown(d, k)'
    BY DEF ViewInv
  <2>1. Shown(d, k)
    BY <1>1 DEF SyncInv, ViewInv
  <2>2. CASE d # c
    BY <1>1, <1>4, <2>1, <2>2 DEF Shown
  <2>3. CASE d = c /\ Queue(c)' = Queue(c)
    BY <1>1, <1>4, <2>1, <2>3 DEF Shown
  <2>4. CASE d = c /\ Queue(c) # <<>> /\ Queue(c)' = Tail(Queue(c)) /\ Queue(c)[1] = body
    <3>1. Queue(c) \in Seq(Bodies) /\ Tail(Queue(c)) \in Seq(Bodies)
      BY <2>4, QueueFacts, InvFacts, TailFacts
    <3>2. /\ Holds(Queue(c), k) <=> Holds(Tail(Queue(c)), k) \/ k \in DOMAIN body
          /\ \A v : EndsWith(Queue(c), k, v) => \/ EndsWith(Tail(Queue(c)), k, v)
                                                \/ /\ ~Holds(Tail(Queue(c)), k)
                                                   /\ k \in DOMAIN body /\ body[k] = v
      BY <2>4, <3>1, DropHead
    <3>3. /\ Holds(Queue(c), k)' <=> Holds(Tail(Queue(c)), k)
          /\ \A v : EndsWith(Queue(c), k, v)' <=> EndsWith(Tail(Queue(c)), k, v)
      BY <2>4 DEF Holds, EndsWith
    <3>4. CASE Holds(Queue(c), k)'
      <4>1. EndsWith(Queue(c), k, view[c][k])
        BY <2>1, <2>4, <3>2, <3>3, <3>4 DEF Shown
      <4>2. EndsWith(Queue(c), k, view[c][k])'
        BY <3>2, <3>3, <3>4, <4>1
      <4> QED BY <2>4, <3>4, <4>2 DEF Shown
    <3>5. CASE ~Holds(Queue(c), k)'
      <4>1. view[c][k] = db'[k] \/ Coming(c, k)' \/ Told(batch[c].change, k)
        <5>1. CASE k \in DOMAIN body
          <6>1. EndsWith(Queue(c), k, view[c][k])
            BY <2>1, <2>4, <3>2, <5>1 DEF Shown
          <6>2. ~EndsWith(Tail(Queue(c)), k, view[c][k])
            BY <3>3, <3>5 DEF Holds, EndsWith
          <6>3. body[k] = view[c][k]
            BY <3>2, <6>1, <6>2
          <6> QED BY <1>1, <5>1, <6>3
        <5>2. CASE k \notin DOMAIN body
          <6>1. ~Holds(Queue(c), k)
            BY <3>2, <3>3, <3>5, <5>2
          <6>2. view[c][k] = db[k] \/ Coming(c, k) \/ Told(batch[c].change, k)
            BY <2>1, <2>4, <6>1 DEF Shown
          <6> QED BY <1>1, <1>4, <5>2, <6>2
        <5> QED BY <5>1, <5>2
      <4> QED BY <2>4, <3>5, <4>1 DEF Shown
    <3> QED BY <3>4, <3>5
  <2> QED BY <2>2, <2>3, <2>4
<1>13. OrderInv'
  <2> SUFFICES ASSUME NEW d \in Clients, NEW k \in Keys \ overtaken[d] PROVE Ordered(d, k)'
    BY DEF OrderInv
  <2>1. Ordered(d, k)
    BY DEF SyncInv, OrderInv
  <2>2. /\ QueueSorted(d, k)' /\ QueueBehind(d, k)'
        /\ \A v : \/ Behind(d, k, v)
                  \/ /\ Queue(d) # <<>> /\ Queue(d)' = Tail(Queue(d))
                     /\ k \in DOMAIN Queue(d)[1] /\ v = Queue(d)[1][k]
                  => Behind(d, k, v)'
    BY OrderKept
  <2>3. StraysBehind(d, k)'
    BY <1>8 DEF StraysBehind
  <2>4. (writer[k] = d => Behind(d, k, db[k]))'
    <3>1. CASE k \in DOMAIN body
      BY <1>1, <2>2, <3>1
    <3>2. CASE k \notin DOMAIN body
      BY <1>1, <2>1, <2>2, <3>2 DEF Ordered
    <3> QED BY <3>1, <3>2
  <2> QED BY <2>2, <2>3, <2>4 DEF Ordered
<1> QED BY <1>5, <1>6, <1>7, <1>9, <1>10, <1>11, <1>12, <1>13 DEF SyncInv

\* A refused request tells its client the revision.
LEMMA ServeStep ==
  ASSUME SyncInv, NEW c \in Clients, Serve(c) PROVE SyncInv'
<1>1. /\ call[c].stage = "sent" /\ commits[c] # <<>>
      /\ UNCHANGED <<storeVars, commits, revision, strays, queueVars, counterVars, overtaken>>
  BY NothingFacts DEF Serve, SyncInv, ShapeInv
<1>2. /\ commits[c] \in Seq(Bodies) /\ Queue(c) = commits[c] /\ Head(commits[c]) = commits[c][1]
      /\ Head(commits[c]) \in Bodies /\ current \in Nat /\ 1 \in 1 .. Len(commits[c])
  BY <1>1, TailFacts DEF SyncInv, TypeInv, Queue
<1> USE DEF storeVars, queueVars, counterVars, ghostVars, serverVars
<1>3. CASE Accepts(call[c].base)
  <2>1. /\ Write(c, Head(commits[c]))
        /\ call' = [call EXCEPT ![c].stage = "written", ![c].base = current + 1]
    BY <1>3 DEF Serve
  <2>2. /\ call' \in [Clients -> Calls] /\ call'[c].stage = "written" /\ call'[c].base = current + 1
        /\ \A d \in Clients : d # c => call'[d] = call[d]
    <3>1. PICK n \in Nat : n = current + 1
      BY <1>2
    <3> DEFINE new == [call[c] EXCEPT !.stage = "written", !.base = n]
    <3>2. call' = [call EXCEPT ![c] = new]
      BY <2>1, <3>1
    <3>3. call[c] \in Calls
      BY DEF SyncInv, TypeInv
    <3>4. new \in Calls /\ new.stage = "written" /\ new.base = n
      BY <3>3 DEF Calls
    <3> HIDE DEF new
    <3> QED BY <3>1, <3>2, <3>4 DEF SyncInv, TypeInv
  <2>3. Queue(c)' = Tail(commits[c]) /\ \A d \in Clients : d # c => Queue(d)' = Queue(d)
    BY <1>1, <2>2 DEF Queue
  <2>4. \A k \in DOMAIN Head(commits[c]) : Entered(Head(commits[c])[k])
    BY <1>2 DEF SyncInv, ShapeInv
  <2>5. current' = current + 1
    BY <2>1 DEF Write
  <2>6. PICK body \in Bodies : body = Head(commits[c])
    BY <1>2
  <2> QED BY <1>1, <1>2, <2>1, <2>2, <2>3, <2>4, <2>5, <2>6, Written
<1>4. CASE ~Accepts(call[c].base)
  <2>1. /\ call' = [call EXCEPT ![c].stage = "refused", ![c].base = current]
        /\ UNCHANGED <<tableVars, channel, raced>>
    BY <1>4 DEF Serve
  <2>2. /\ call' \in [Clients -> Calls] /\ call'[c].stage = "refused" /\ call'[c].base = current
        /\ \A d \in Clients : d # c => call'[d] = call[d]
    <3> DEFINE new == [call[c] EXCEPT !.stage = "refused", !.base = current]
    <3>1. call' = [call EXCEPT ![c] = new]
      BY <2>1
    <3>2. call[c] \in Calls /\ call \in [Clients -> Calls]
      BY DEF SyncInv, TypeInv
    <3>3. new \in Calls /\ new.stage = "refused" /\ new.base = current
      BY <1>2, <3>2 DEF Calls
    <3> HIDE DEF new
    <3> QED BY <3>1, <3>2, <3>3
  <2>3. \A d \in Clients : Queue(d)' = Queue(d)
    BY <1>1, <2>2 DEF Queue
  <2>4. TypeInv'
    BY <1>1, <2>1, <2>2 DEF SyncInv, TypeInv, tableVars
  <2>5. ShapeInv'
    BY <1>1, <2>1, <2>2 DEF SyncInv, ShapeInv, Entered, tableVars
  <2>6. RevisionInv'
    BY <1>1, <1>2, <2>1, <2>2 DEF SyncInv, RevisionInv, tableVars
  <2> QED BY <1>1, <2>1, <2>3, <2>4, <2>5, <2>6, CallMoves
<1> QED BY <1>3, <1>4

LEMMA ServeStrayStep ==
  ASSUME SyncInv, NEW s \in strays, ServeStray(s) PROVE SyncInv'
<1>1. /\ strays' = strays \ {s}
      /\ UNCHANGED <<storeVars, commitVars, queueVars, counterVars, overtaken>>
  BY DEF ServeStray
<1>2. s.from \in Clients /\ s.body \in Bodies /\ s \in Strays
  BY DEF SyncInv, TypeInv, Strays
<1> USE DEF storeVars, commitVars, queueVars, counterVars, ghostVars, serverVars
<1>3. \A d \in Clients : Queue(d)' = Queue(d)
  BY <1>1 DEF Queue
<1>4. CASE Accepts(s.base)
  <2>1. Write(s.from, s.body)
    BY <1>4 DEF ServeStray
  <2>2. Live(s, s.from)
    BY <1>4 DEF Accepts, Live
  <2>3. \A k \in DOMAIN s.body : Entered(s.body[k])
    BY DEF SyncInv, ShapeInv
  <2>4. \A k \in DOMAIN s.body \ overtaken[s.from] : k \in dirty[s.from] \/ Holds(Queue(s.from), k)
    BY <1>2, <2>2 DEF SyncInv, StrayInv
  <2>5. \A k \in DOMAIN s.body \ overtaken[s.from] : Behind(s.from, k, s.body[k])
    BY <1>2, <2>2, BodyFacts DEF SyncInv, OrderInv, Ordered, StraysBehind
  <2>6. call' \in [Clients -> Calls] /\ strays' \subseteq strays /\ \A d \in Clients : call'[d] = call[d]
    BY <1>1 DEF SyncInv, TypeInv
  <2> QED BY <1>1, <1>2, <1>3, <2>1, <2>3, <2>4, <2>5, <2>6, Written
<1>5. CASE ~Accepts(s.base)
  <2>1. UNCHANGED <<tableVars, channel, raced>>
    BY <1>5 DEF ServeStray
  <2> USE DEF tableVars
  <2>2. TypeInv' /\ RevisionInv'
    BY <1>1, <2>1 DEF SyncInv, TypeInv, RevisionInv
  <2>3. ShapeInv'
    BY <1>1, <2>1 DEF SyncInv, ShapeInv, Entered
  <2>4. ReadInv' /\ DeletedInv'
    BY <1>1, <2>1 DEF SyncInv, ReadInv, DeletedInv, Gone, Coming
  <2>5. StrayInv'
    BY <1>1, <1>3, <2>1 DEF SyncInv, StrayInv, Live
  <2>6. ViewInv'
    BY <1>1, <1>3, <2>1 DEF SyncInv, ViewInv, Shown, Coming
  <2>7. OrderInv'
    <3> SUFFICES ASSUME NEW d \in Clients, NEW k \in Keys \ overtaken[d] PROVE Ordered(d, k)'
      BY <1>1 DEF OrderInv
    <3>1. Ordered(d, k)
      BY DEF SyncInv, OrderInv
    <3>2. QueueSorted(d, k)' /\ QueueBehind(d, k)' /\ \A v : Behind(d, k, v) => Behind(d, k, v)'
      BY <1>1, <1>3, OrderKept
    <3>3. StraysBehind(d, k)'
      BY <1>1, <2>1, <3>1, <3>2 DEF Ordered, StraysBehind, Live, NotAfter, Own
    <3>4. (writer[k] = d => Behind(d, k, db[k]))'
      BY <2>1, <3>1, <3>2 DEF Ordered
    <3> QED BY <3>2, <3>3, <3>4 DEF Ordered
  <2> QED BY <2>2, <2>3, <2>4, <2>5, <2>6, <2>7 DEF SyncInv
<1> QED BY <1>4, <1>5

-----------------------------------------------------------------------------
(* The store.                                                                *)

\* The user enters a value that is newer than every other one, or deletes a key.
LEMMA Changed ==
  ASSUME SyncInv, NEW c \in Clients, NEW k \in Keys, NEW v \in Cells, ChangeKey(c, k, v),
         UNCHANGED <<commitVars, serverVars, queueVars, raced>>,
         edits' \in Nat, edits <= edits', deletes' \in Nat,
         by' \in [Values -> Clients \cup {Nobody}],
         \A w \in Values : w <= edits => by'[w] = by[w],
         v = Absent \/ (edits < v /\ v <= edits')
  PROVE  SyncInv'
<1>1. /\ view' = [view EXCEPT ![c][k] = v] /\ dirty' = [dirty EXCEPT ![c] = @ \cup {k}]
      /\ overtaken' = [overtaken EXCEPT ![c] = IF k \in Unconfirmed(c) THEN @ ELSE @ \ {k}]
  BY DEF ChangeKey
<1>2. /\ view' \in [Clients -> [Keys -> Cells]] /\ view'[c][k] = v
      /\ \A d \in Clients : \A j \in Keys : d # c \/ j # k => view'[d][j] = view[d][j]
      /\ dirty' \in [Clients -> SUBSET Keys] /\ k \in dirty'[c]
      /\ \A d \in Clients : /\ dirty[d] \subseteq dirty'[d]
                            /\ \A j : d # c \/ j # k => (j \in dirty'[d] <=> j \in dirty[d])
      /\ overtaken' \in [Clients -> SUBSET Keys]
      /\ \A d \in Clients : \A j : d # c \/ j # k => (j \in overtaken'[d] <=> j \in overtaken[d])
      /\ k \in overtaken[c] /\ k \notin overtaken'[c] => k \notin Unconfirmed(c)
  BY <1>1 DEF SyncInv, TypeInv
<1> USE DEF commitVars, serverVars, tableVars, queueVars
<1>3. \A d \in Clients : Queue(d)' = Queue(d)
  BY DEF Queue
<1>4. \A w \in Cells : Entered(w) => Entered(w)'
  BY CellFacts DEF Entered, SyncInv, TypeInv
<1>5. Entered(v)'
  BY DEF Entered
<1>6. \A d \in Clients : \A x, y \in Cells :
        Entered(x) /\ Entered(y) => (NotAfter(d, x, y)' <=> NotAfter(d, x, y))
  BY CellFacts DEF Entered, NotAfter, Own
<1>7. \A x \in Cells : Entered(x) => NotAfter(c, x, v)'
  BY CellFacts DEF Entered, NotAfter, Own, SyncInv, TypeInv
<1>8. /\ \A d \in Clients : \A j \in Keys : view[d][j] \in Cells /\ Entered(view[d][j])
      /\ \A d \in Clients : \A i \in 1 .. Len(Queue(d)) : \A j \in DOMAIN Queue(d)[i] :
           Queue(d)[i][j] \in Cells /\ Entered(Queue(d)[i][j])
      /\ \A s \in strays : \A j \in DOMAIN s.body : s.body[j] \in Cells /\ Entered(s.body[j])
      /\ \A j \in Keys : db[j] \in Cells /\ Entered(db[j])
  <2>1. \A s \in strays : s.body \in Bodies
    BY DEF SyncInv, TypeInv, Strays
  <2>2. \A d \in Clients : \A i \in 1 .. Len(Queue(d)) :
          Queue(d)[i] \in Bodies /\ \A j \in DOMAIN Queue(d)[i] : Entered(Queue(d)[i][j])
    BY QueueFacts, InvFacts
  <2> QED BY <2>1, <2>2, BodyFacts DEF SyncInv, TypeInv, ShapeInv
<1>9. TypeInv'
  BY <1>2 DEF SyncInv, TypeInv
<1>10. ShapeInv'
  <2>1. \A d \in Clients : \A j \in Keys : Entered(view[d][j])'
    BY <1>2, <1>4, <1>5, <1>8
  <2>2. \A d \in Clients : \A i \in 1 .. Len(commits[d]) : \A j \in DOMAIN commits[d][i] :
          Entered(commits[d][i][j])'
    <3>1. \A d \in Clients : \A i \in 1 .. Len(commits[d]) : commits[d][i] \in Bodies
      BY DEF SyncInv, TypeInv
    <3>2. \A d \in Clients : \A i \in 1 .. Len(commits[d]) : \A j \in DOMAIN commits[d][i] :
            commits[d][i][j] \in Cells /\ Entered(commits[d][i][j])
      BY <3>1, BodyFacts DEF SyncInv, ShapeInv
    <3> QED BY <1>4, <3>2
  <2>3. \A d \in Clients : \A j \in DOMAIN batch[d].read : Entered(batch[d].read[j])'
    <3>1. \A d \in Clients : \A j \in DOMAIN batch[d].read :
            batch[d].read[j] \in Cells /\ Entered(batch[d].read[j])
      BY EventFacts, InvFacts, BodyFacts DEF SyncInv, ShapeInv
    <3> QED BY <1>4, <3>1
  <2>4. /\ \A s \in strays : \A j \in DOMAIN s.body : Entered(s.body[j])'
        /\ \A j \in Keys : Entered(db[j])'
    BY <1>4, <1>8
  <2>5. \A d \in Clients : /\ call[d] # Idle => commits[d] # <<>>
                           /\ ~batch[d].busy => batch[d] = NoBatch
    BY DEF SyncInv, ShapeInv
  <2> QED BY <2>1, <2>2, <2>3, <2>4, <2>5 DEF ShapeInv, Entered
<1>11. RevisionInv'
  BY DEF SyncInv, RevisionInv
<1>12. ReadInv' /\ DeletedInv'
  BY DEF SyncInv, ReadInv, DeletedInv, Gone, Coming
<1>13. StrayInv'
  BY <1>2, <1>3 DEF SyncInv, StrayInv, Live
<1>14. ViewInv'
  <2> SUFFICES ASSUME NEW d \in Clients, NEW j \in Keys,
                      j \notin dirty'[d] \cup overtaken'[d] \cup revived
               PROVE  Shown(d, j)'
    BY DEF ViewInv
  <2>1. d # c \/ j # k
    BY <1>2
  <2>2. Shown(d, j)
    BY <1>2, <2>1 DEF SyncInv, ViewInv
  <2> QED BY <1>2, <1>3, <2>1, <2>2 DEF Shown, Coming
<1>15. OrderInv'
  <2> SUFFICES ASSUME NEW d \in Clients, NEW j \in Keys \ overtaken'[d] PROVE Ordered(d, j)'
    BY DEF OrderInv
  <2>1. \A x \in Cells : Entered(x) /\ NotAfter(d, x, view[d][j]) => NotAfter(d, x, view[d][j])'
    <3>1. CASE d = c /\ j = k
      BY <1>2, <1>7, <3>1 DEF NotAfter, Own
    <3>2. CASE d # c \/ j # k
      BY <1>2, <1>6, <1>8, <3>2 DEF NotAfter, Own
    <3> QED BY <3>1, <3>2
  <2>2. CASE j \notin overtaken[d]
    <3>1. Ordered(d, j)
      BY <2>2 DEF SyncInv, OrderInv
    <3>2. \A x \in Cells : Entered(x) /\ Behind(d, j, x) => Behind(d, j, x)'
      BY <1>3, <1>6, <1>8, <2>1 DEF Behind
    <3>3. QueueSorted(d, j)'
      BY <1>3, <1>6, <1>8, <3>1 DEF Ordered, QueueSorted
    <3>4. QueueBehind(d, j)'
      BY <1>3, <1>8, <2>1, <3>1 DEF Ordered, QueueBehind
    <3>5. StraysBehind(d, j)'
      BY <1>6, <1>8, <3>1, <3>2 DEF Ordered, StraysBehind, Live
    <3>6. (writer[j] = d => Behind(d, j, db[j]))'
      BY <1>8, <3>1, <3>2 DEF Ordered
    <3> QED BY <3>3, <3>4, <3>5, <3>6 DEF Ordered
  <2>3. CASE j \in overtaken[d]
    <3>1. d = c /\ j = k /\ k \notin Unconfirmed(c)
      BY <1>2, <2>3
    <3>2. ~Holds(Queue(c), k) /\ \A s \in strays : s.from = c => k \notin DOMAIN s.body
      BY <3>1, UnconfirmedFacts, InvFacts
    <3>3. \A i \in 1 .. Len(Queue(c)) : k \notin DOMAIN Queue(c)[i]
      BY <3>2 DEF Holds
    <3>4. QueueSorted(c, k)' /\ QueueBehind(c, k)'
      BY <1>3, <3>3 DEF QueueSorted, QueueBehind
    <3>5. StraysBehind(c, k)'
      BY <3>2 DEF StraysBehind, Live
    <3>6. Behind(c, k, db[k])'
      BY <1>2, <1>3, <1>7, <1>8, <3>3 DEF Behind, NotAfter, Own
    <3> QED BY <3>1, <3>4, <3>5, <3>6 DEF Ordered
  <2> QED BY <2>2, <2>3
<1> QED BY <1>9, <1>10, <1>11, <1>12, <1>13, <1>14, <1>15 DEF SyncInv

LEMMA SetStep ==
  ASSUME SyncInv, NEW c \in Clients, NEW k \in Keys, Set(c, k) PROVE SyncInv'
<1>1. /\ edits \in Nat /\ deletes \in Nat /\ MaxEdits \in Nat /\ edits + deletes < MaxEdits
      /\ edits' = edits + 1 /\ by' = [by EXCEPT ![edits + 1] = c] /\ ChangeKey(c, k, edits + 1)
      /\ UNCHANGED <<commitVars, serverVars, queueVars, deletes, raced>>
  BY BoundsAssumption DEF Set, SyncInv, TypeInv
<1>2. edits + 1 \in Values /\ edits + 1 \in Cells
  BY <1>1 DEF Values, Cells
<1>3. /\ by' \in [Values -> Clients \cup {Nobody}]
      /\ \A w \in Values : w <= edits => by'[w] = by[w]
  BY <1>1, <1>2 DEF SyncInv, TypeInv
<1>4. PICK v \in Cells : v = edits + 1
  BY <1>2
<1> QED BY <1>1, <1>3, <1>4, Changed

LEMMA DeleteStep ==
  ASSUME SyncInv, NEW c \in Clients, NEW k \in Keys, Delete(c, k) PROVE SyncInv'
<1>1. /\ deletes' = deletes + 1 /\ ChangeKey(c, k, Absent)
      /\ UNCHANGED <<commitVars, serverVars, queueVars, edits, by, raced>>
  BY DEF Delete
<1>2. /\ edits' \in Nat /\ edits <= edits' /\ deletes' \in Nat
      /\ by' \in [Values -> Clients \cup {Nobody}] /\ Absent \in Cells
  BY <1>1, CellFacts DEF SyncInv, TypeInv
<1> QED BY <1>1, <1>2, Changed

\* The dirty keys leave the store for the queue.
LEMMA FlushStep ==
  ASSUME SyncInv, NEW c \in Clients, Flush(c) PROVE SyncInv'
<1> USE DEF commitVars, serverVars, tableVars, queueVars, counterVars, ghostVars
<1>1. /\ UNCHANGED <<view, call, revision, serverVars, queueVars, counterVars, ghostVars>>
      /\ dirty' \in [Clients -> SUBSET Keys] /\ dirty'[c] = {}
      /\ \A d \in Clients : d # c => dirty'[d] = dirty[d]
  BY DEF Flush, SyncInv, TypeInv
<1>2. CASE dirty[c] = {}
  <2>1. commits' = commits /\ dirty' = dirty
    BY <1>2 DEF Flush, SyncInv, TypeInv
  <2>2. TypeInv' /\ RevisionInv' /\ ShapeInv'
    BY <1>1, <2>1 DEF SyncInv, TypeInv, RevisionInv, ShapeInv, Entered
  <2>3. \A d \in Clients : Queue(d)' = Queue(d)
    BY <1>1, <2>1 DEF Queue
  <2> QED BY <1>1, <2>1, <2>2, <2>3, CallMoves
<1>3. CASE dirty[c] # {}
  <2>1. PICK body : body = [k \in dirty[c] |-> view[c][k]]
    OBVIOUS
  <2>2. /\ DOMAIN body = dirty[c] /\ dirty[c] \subseteq Keys
        /\ \A k \in dirty[c] : body[k] = view[c][k] /\ view[c][k] \in Cells /\ Entered(view[c][k])
    BY <2>1 DEF SyncInv, TypeInv, ShapeInv
  <2>3. body \in Bodies
    <3>1. body \in [dirty[c] -> Cells]
      BY <2>1, <2>2
    <3> QED BY <2>2, <3>1, BodyFacts
  <2>4. commits' = [commits EXCEPT ![c] = Append(@, body)]
    BY <1>3, <2>1 DEF Flush
  <2>5. /\ commits[c] \in Seq(Bodies)
        /\ Append(commits[c], body) \in Seq(Bodies)
        /\ Len(Append(commits[c], body)) = Len(commits[c]) + 1
        /\ \A i \in 1 .. Len(commits[c]) : Append(commits[c], body)[i] = commits[c][i]
        /\ Append(commits[c], body)[Len(commits[c]) + 1] = body
        /\ Len(commits[c]) \in Nat
    <3>1. commits[c] \in Seq(Bodies)
      BY DEF SyncInv, TypeInv
    <3> QED BY <2>3, <3>1, AppendFacts
  <2>6. /\ commits' \in [Clients -> Seq(Bodies)] /\ commits'[c] = Append(commits[c], body)
        /\ \A d \in Clients : d # c => commits'[d] = commits[d]
    BY <2>4, <2>5 DEF SyncInv, TypeInv
  <2>7. /\ Queue(c)' = Append(Queue(c), body) /\ Queue(c) \in Seq(Bodies)
        /\ \A d \in Clients : d # c => Queue(d)' = Queue(d)
    <3>1. \A d \in Clients : d # c => Queue(d)' = Queue(d)
      BY <1>1, <2>6 DEF Queue
    <3>2. CASE call[c].stage = "written"
      <4>1. commits[c] # <<>>
        BY <3>2, NothingFacts DEF SyncInv, ShapeInv
      <4>2. Tail(Append(commits[c], body)) = Append(Tail(commits[c]), body)
        BY <2>3, <2>5, <4>1, TailAppend
      <4> QED BY <1>1, <2>6, <3>1, <3>2, <4>2, QueueFacts, InvFacts DEF Queue
    <3>3. CASE call[c].stage # "written"
      BY <1>1, <2>6, <3>1, <3>3, QueueFacts, InvFacts DEF Queue
    <3> QED BY <3>2, <3>3
  <2>8. \A k : /\ Holds(Queue(c), k)' <=> Holds(Queue(c), k) \/ k \in dirty[c]
               /\ k \in dirty[c] => EndsWith(Queue(c), k, view[c][k])'
               /\ \A v : k \notin dirty[c] /\ EndsWith(Queue(c), k, v) => EndsWith(Queue(c), k, v)'
    <3> SUFFICES ASSUME NEW k
                 PROVE /\ Holds(Queue(c)', k) <=> Holds(Queue(c), k) \/ k \in dirty[c]
                       /\ k \in dirty[c] => EndsWith(Queue(c)', k, view[c][k])
                       /\ \A v : k \notin dirty[c] /\ EndsWith(Queue(c), k, v)
                                 => EndsWith(Queue(c)', k, v)
      BY <1>1 DEF Holds, EndsWith
    <3> QED BY <2>2, <2>3, <2>7, AddLast
  <2>9. /\ Len(Queue(c)') = Len(Queue(c)) + 1 /\ Len(Queue(c)) \in Nat
        /\ \A i \in 1 .. Len(Queue(c)) : Queue(c)'[i] = Queue(c)[i]
        /\ Queue(c)'[Len(Queue(c)) + 1] = body
    BY <2>3, <2>7, AppendFacts
  <2>10. TypeInv'
    BY <1>1, <2>6 DEF SyncInv, TypeInv
  <2>11. ShapeInv'
    <3>1. \A d \in Clients : \A i \in 1 .. Len(commits'[d]) : \A k \in DOMAIN commits'[d][i] :
            Entered(commits'[d][i][k])
      <4>1. \A d \in Clients : \A i \in 1 .. Len(commits[d]) : \A k \in DOMAIN commits[d][i] :
              Entered(commits[d][i][k])
        BY DEF SyncInv, ShapeInv
      <4>2. \A i \in 1 .. Len(commits'[c]) :
              i \in 1 .. Len(commits[c]) \/ i = Len(commits[c]) + 1
        BY <2>5, <2>6
      <4>3. \A i \in 1 .. Len(commits'[c]) : \A k \in DOMAIN commits'[c][i] :
              Entered(commits'[c][i][k])
        BY <2>2, <2>5, <2>6, <4>1, <4>2
      <4> QED BY <2>6, <4>1, <4>3
    <3>2. \A d \in Clients : call'[d] # Idle => commits'[d] # <<>>
      <4>1. Append(commits[c], body) # <<>>
        BY <2>5
      <4> QED BY <1>1, <2>6, <4>1 DEF SyncInv, ShapeInv
    <3> QED BY <1>1, <3>1, <3>2 DEF SyncInv, ShapeInv, Entered
  <2>12. RevisionInv'
    BY <1>1 DEF SyncInv, RevisionInv
  <2>13. ReadInv' /\ DeletedInv'
    BY <1>1 DEF SyncInv, ReadInv, DeletedInv, Gone, Coming
  <2>14. StrayInv'
    <3> SUFFICES ASSUME NEW d \in Clients, NEW s \in strays, Live(s, d),
                        NEW k \in DOMAIN s.body \ overtaken[d]
                 PROVE  k \in dirty'[d] \/ Holds(Queue(d), k)'
      BY <1>1 DEF StrayInv, Live
    <3>1. k \in dirty[d] \/ Holds(Queue(d), k)
      BY DEF SyncInv, StrayInv
    <3>2. CASE d = c
      BY <2>8, <3>1, <3>2
    <3>3. CASE d # c
      BY <1>1, <2>7, <3>1, <3>3 DEF Holds
    <3> QED BY <3>2, <3>3
  <2>15. ViewInv'
    <3> SUFFICES ASSUME NEW d \in Clients, NEW k \in Keys,
                        k \notin dirty'[d] \cup overtaken[d] \cup revived
                 PROVE  Shown(d, k)'
      BY <1>1 DEF ViewInv
    <3>1. CASE d # c
      BY <1>1, <2>7, <3>1 DEF SyncInv, ViewInv, Shown, Coming
    <3>2. CASE d = c /\ k \in dirty[c]
      BY <1>1, <2>8, <3>2 DEF Shown
    <3>3. CASE d = c /\ k \notin dirty[c]
      <4>1. Shown(c, k)
        BY <3>3 DEF SyncInv, ViewInv
      <4>2. Coming(c, k)' <=> Coming(c, k)
        BY <1>1 DEF Coming
      <4>3. Holds(Queue(c), k)' => EndsWith(Queue(c), k, view[c][k])'
        <5>1. Holds(Queue(c), k)' => EndsWith(Queue(c), k, view[c][k])
          BY <2>8, <3>3, <4>1 DEF Shown
        <5>2. PICK v : v = view[c][k]
          OBVIOUS
        <5>3. EndsWith(Queue(c), k, v) => EndsWith(Queue(c), k, v)'
          BY <2>8, <3>3
        <5> QED BY <1>1, <5>1, <5>2, <5>3
      <4>4. ~Holds(Queue(c), k)' => view[c][k] = db[k] \/ Coming(c, k) \/ Told(batch[c].change, k)
        BY <2>8, <3>3, <4>1 DEF Shown
      <4> QED BY <1>1, <3>3, <4>2, <4>3, <4>4 DEF Shown
    <3> QED BY <3>1, <3>2, <3>3
  <2>16. OrderInv'
    <3> SUFFICES ASSUME NEW d \in Clients, NEW k \in Keys \ overtaken[d] PROVE Ordered(d, k)'
      BY <1>1 DEF OrderInv
    <3>1. Ordered(d, k)
      BY DEF SyncInv, OrderInv
    <3>2. \A v, w : NotAfter(d, v, w)' <=> NotAfter(d, v, w)
      BY <1>1 DEF NotAfter, Own
    <3>3. CASE d # c
      BY <1>1, <2>7, <3>1, <3>2, <3>3
         DEF Ordered, QueueSorted, QueueBehind, StraysBehind, Behind, Live
    <3>4. CASE d = c
      <4>1. \A i \in 1 .. Len(Queue(c)') : k \in DOMAIN Queue(c)'[i] =>
              \/ i \in 1 .. Len(Queue(c)) /\ k \in DOMAIN Queue(c)[i] /\ Queue(c)'[i] = Queue(c)[i]
              \/ i = Len(Queue(c)) + 1 /\ Queue(c)'[i][k] = view[c][k]
        BY <2>2, <2>9
      <4>2. QueueSorted(c, k)'
        <5> SUFFICES ASSUME NEW i \in 1 .. Len(Queue(c)'), NEW j \in 1 .. Len(Queue(c)'), i < j,
                            k \in DOMAIN Queue(c)'[i], k \in DOMAIN Queue(c)'[j]
                     PROVE  NotAfter(c, Queue(c)'[i][k], Queue(c)'[j][k])
          BY <3>2, <3>4 DEF QueueSorted, NotAfter, Own
        <5>1. i \in 1 .. Len(Queue(c)) /\ k \in DOMAIN Queue(c)[i] /\ Queue(c)'[i] = Queue(c)[i]
          BY <2>9, <4>1
        <5>2. CASE j \in 1 .. Len(Queue(c)) /\ k \in DOMAIN Queue(c)[j] /\ Queue(c)'[j] = Queue(c)[j]
          BY <3>1, <3>4, <5>1, <5>2 DEF Ordered, QueueSorted
        <5>3. CASE Queue(c)'[j][k] = view[c][k]
          BY <3>1, <3>4, <5>1, <5>3 DEF Ordered, QueueBehind
        <5> QED BY <4>1, <5>2, <5>3
      <4>3. QueueBehind(c, k)'
        <5>1. NotAfter(c, view[c][k], view[c][k])
          BY CellFacts DEF SyncInv, TypeInv, NotAfter
        <5>2. ASSUME NEW i \in 1 .. Len(Queue(c)'), k \in DOMAIN Queue(c)'[i]
              PROVE  NotAfter(c, Queue(c)'[i][k], view[c][k])
          BY <3>1, <3>4, <4>1, <5>1, <5>2 DEF Ordered, QueueBehind
        <5> QED BY <1>1, <5>2 DEF QueueBehind, NotAfter, Own
      <4>4. \A v : Behind(c, k, v) => Behind(c, k, v)'
        <5> SUFFICES ASSUME NEW v, Behind(c, k, v) PROVE Behind(c, k, v)'
          OBVIOUS
        <5>1. ASSUME NEW i \in 1 .. Len(Queue(c)'), k \in DOMAIN Queue(c)'[i]
              PROVE  NotAfter(c, v, Queue(c)'[i][k])
          BY <4>1, <5>1 DEF Behind
        <5>2. NotAfter(c, v, view[c][k])
          BY DEF Behind
        <5> QED BY <1>1, <5>1, <5>2 DEF Behind, NotAfter, Own
      <4>5. StraysBehind(c, k)'
        BY <1>1, <3>1, <3>2, <3>4, <4>4 DEF Ordered, StraysBehind, Live
      <4>6. (writer[k] = c => Behind(c, k, db[k]))'
        BY <1>1, <3>1, <3>4, <4>4 DEF Ordered
      <4> QED BY <3>4, <4>2, <4>3, <4>5, <4>6 DEF Ordered
    <3> QED BY <3>3, <3>4
  <2> QED BY <2>10, <2>11, <2>12, <2>13, <2>14, <2>15, <2>16 DEF SyncInv
<1> QED BY <1>2, <1>3

-----------------------------------------------------------------------------
(* Events and batches.                                                       *)

\* A step that moves an announcement towards the store, or repeats it.
LEMMA QueueMoves ==
  ASSUME SyncInv, TypeInv', ShapeInv', RevisionInv', DeletedInv', ReadInv',
         UNCHANGED <<view, dirty, commits, call, strays, db, current, writer, revived, by,
                     overtaken>>,
         \A c \in Clients : \A k \in Keys :
           Coming(c, k) \/ Told(batch[c].change, k) => Coming(c, k)' \/ Told(batch'[c].change, k)
  PROVE  SyncInv'
<1>1. \A c \in Clients : Queue(c)' = Queue(c)
  BY DEF Queue
<1>2. StrayInv'
  BY <1>1 DEF SyncInv, StrayInv, Live
<1>3. ViewInv'
  BY <1>1 DEF SyncInv, ViewInv, Shown
<1>4. OrderInv'
  BY <1>1, OrderSame DEF SyncInv
<1> QED BY <1>2, <1>3, <1>4 DEF SyncInv

\* Merged changes.
LEMMA MergeFacts ==
  ASSUME NEW a \in Changes, NEW b \in Changes
  PROVE  /\ MergeDatabaseChanges(a, b) \in Changes
         /\ \A k : Told(MergeDatabaseChanges(a, b), k) <=> Told(a, k) \/ Told(b, k)
         /\ MergeDatabaseChanges(a, b).dels = a.dels \cup b.dels
  BY DEF MergeDatabaseChanges, Change, Changes, Told

LEMMA GapStep ==
  ASSUME SyncInv, NEW c \in Clients, Gap(c) PROVE SyncInv'
<1> PICK e : e = [from |-> Nobody, revision |-> 0, change |-> Change({}, {}, TRUE)]
  OBVIOUS
<1>1. /\ e \in Events /\ e.from = Nobody /\ e.revision = 0 /\ e.change.all /\ e.change.dels = {}
  BY DEF Events, Change, Changes
<1>2. /\ channel' \in [Clients -> Seq(Events)] /\ channel'[c] = <<e>>
      /\ \A d \in Clients : d # c => channel'[d] = channel[d]
  <2>1. channel' = [channel EXCEPT ![c] = <<e>>]
    BY DEF Gap
  <2>2. <<e>> \in Seq(Events)
    BY <1>1
  <2> QED BY <2>1, <2>2 DEF SyncInv, TypeInv
<1>3. UNCHANGED <<storeVars, commitVars, tableVars, strays, queueVars, edits, deletes, by, ghostVars>>
  BY DEF Gap
<1> USE DEF storeVars, commitVars, tableVars, queueVars, ghostVars
<1>4. 1 \in 1 .. Len(channel'[c]) /\ \A i \in 1 .. Len(channel'[c]) : channel'[c][i] = e
  <2>1. Len(<<e>>) = 1 /\ <<e>>[1] = e
    OBVIOUS
  <2>2. Len(channel'[c]) = 1 /\ channel'[c][1] = e
    BY <1>2, <2>1
  <2> QED BY <2>2
<1>5. \A d \in Clients : \A k : Coming(d, k) => Coming(d, k)'
  <2>1. \A k : Foreign(c, channel'[c][1], k)
    BY <1>1, <1>4, NobodyAssumption DEF Foreign, Told
  <2>2. \A k : Coming(c, k)'
    BY <1>4, <2>1 DEF Coming
  <2> QED BY <1>2, <1>3, <2>2 DEF Coming
<1>6. TypeInv'
  BY <1>2, <1>3 DEF SyncInv, TypeInv
<1>7. ShapeInv'
  BY <1>3 DEF SyncInv, ShapeInv, Entered
<1>8. RevisionInv'
  <2>1. e.revision <= current
    BY <1>1 DEF SyncInv, TypeInv
  <2>2. \A d \in Clients : \A i \in 1 .. Len(channel'[d]) : channel'[d][i].revision <= current
    BY <1>2, <1>4, <2>1 DEF SyncInv, RevisionInv
  <2> QED BY <1>3, <2>2 DEF SyncInv, RevisionInv
<1>9. ReadInv'
  BY <1>3, <1>5 DEF SyncInv, ReadInv
<1>10. DeletedInv'
  <2>1. \A d \in Clients : \A i \in 1 .. Len(channel'[d]) : \A k \in channel'[d][i].change.dels :
          Gone(k)
    <3> SUFFICES ASSUME NEW d \in Clients, NEW i \in 1 .. Len(channel'[d]),
                        NEW k \in channel'[d][i].change.dels
                 PROVE  Gone(k)
      OBVIOUS
    <3>1. d # c
      BY <1>1, <1>4
    <3> QED BY <1>2, <3>1 DEF SyncInv, DeletedInv
  <2> QED BY <1>3, <2>1 DEF SyncInv, DeletedInv, Gone
<1> QED BY <1>3, <1>5, <1>6, <1>7, <1>8, <1>9, <1>10, QueueMoves

LEMMA DispatchEventStep ==
  ASSUME SyncInv, NEW c \in Clients, DispatchEvent(c) PROVE SyncInv'
<1>1. /\ channel[c] # <<>> /\ channel[c] \in Seq(Events)
      /\ UNCHANGED <<storeVars, commits, call, tableVars, strays, batch, counterVars, ghostVars>>
  BY DEF DispatchEvent, SyncInv, TypeInv
<1> USE DEF storeVars, tableVars, counterVars, ghostVars
<1>2. PICK e : e = Head(channel[c])
  OBVIOUS
<1>3. /\ Tail(channel[c]) \in Seq(Events) /\ Len(channel[c]) \in Nat \ {0}
      /\ Len(Tail(channel[c])) = Len(channel[c]) - 1
      /\ \A i \in 1 .. Len(Tail(channel[c])) : /\ Tail(channel[c])[i] = channel[c][i + 1]
                                               /\ i + 1 \in 1 .. Len(channel[c])
      /\ e = channel[c][1] /\ e \in Events /\ 1 \in 1 .. Len(channel[c])
  BY <1>1, <1>2, TailFacts
<1>4. /\ channel' \in [Clients -> Seq(Events)] /\ channel'[c] = Tail(channel[c])
      /\ \A d \in Clients : d # c => channel'[d] = channel[d]
  BY <1>3 DEF DispatchEvent, SyncInv, TypeInv
<1>5. /\ e.revision \in Nat /\ e.revision <= current /\ e.change \in Changes
      /\ \A k \in e.change.dels : Gone(k)
  BY <1>3 DEF SyncInv, RevisionInv, DeletedInv, Events
<1>6. /\ revision' \in [Clients -> Nat] /\ \A d \in Clients : revision'[d] <= current
  <2>1. revision' = [revision EXCEPT ![c] = Larger(@, e.revision)]
    BY <1>2 DEF DispatchEvent
  <2> QED BY <1>5, <2>1 DEF Larger, SyncInv, TypeInv, RevisionInv
<1>7. /\ pending' \in [Clients -> Changes]
      /\ \A d \in Clients : d # c => pending'[d] = pending[d]
      /\ \A k : Told(pending'[c], k) <=> Told(pending[c], k) \/ Foreign(c, e, k)
      /\ pending'[c].dels \subseteq pending[c].dels \cup e.change.dels
  <2>1. pending[c] \in Changes
    BY DEF SyncInv, TypeInv
  <2>2. CASE e.from = c
    BY <1>2, <2>2 DEF DispatchEvent, Foreign, SyncInv, TypeInv
  <2>3. CASE e.from # c
    <3>1. PICK m : m = MergeDatabaseChanges(pending[c], e.change)
      OBVIOUS
    <3>2. /\ m \in Changes /\ \A k : Told(m, k) <=> Told(pending[c], k) \/ Told(e.change, k)
          /\ m.dels = pending[c].dels \cup e.change.dels
      BY <1>5, <2>1, <3>1, MergeFacts
    <3>3. pending' = [pending EXCEPT ![c] = m]
      BY <1>2, <2>3, <3>1 DEF DispatchEvent
    <3>4. pending' \in [Clients -> Changes] /\ pending'[c] = m
          /\ \A d \in Clients : d # c => pending'[d] = pending[d]
      BY <3>2, <3>3 DEF SyncInv, TypeInv
    <3> QED BY <2>3, <3>2, <3>4 DEF Foreign
  <2> QED BY <2>2, <2>3
<1>8. \A d \in Clients : \A k : Coming(d, k) => Coming(d, k)'
  <2> SUFFICES ASSUME NEW k, Coming(c, k) PROVE Coming(c, k)'
    BY <1>4, <1>7 DEF Coming
  <2>1. CASE Told(pending[c], k)
    BY <1>7, <2>1 DEF Coming
  <2>2. ASSUME NEW i \in 1 .. Len(channel[c]), Foreign(c, channel[c][i], k) PROVE Coming(c, k)'
    <3>1. CASE i = 1
      BY <1>3, <1>7, <2>2, <3>1 DEF Coming
    <3>2. CASE i # 1
      <4>1. i - 1 \in 1 .. Len(Tail(channel[c])) /\ (i - 1) + 1 = i
        BY <1>3, <3>2
      <4>2. Foreign(c, channel'[c][i - 1], k) /\ i - 1 \in 1 .. Len(channel'[c])
        BY <1>3, <1>4, <2>2, <4>1
      <4> QED BY <4>2 DEF Coming
    <3> QED BY <3>1, <3>2
  <2> QED BY <2>1, <2>2 DEF Coming
<1>9. TypeInv'
  BY <1>1, <1>4, <1>6, <1>7 DEF SyncInv, TypeInv
<1>10. ShapeInv'
  BY <1>1 DEF SyncInv, ShapeInv, Entered
<1>11. RevisionInv'
  <2>1. \A d \in Clients : \A i \in 1 .. Len(channel'[d]) : channel'[d][i].revision <= current
    <3>1. \A i \in 1 .. Len(channel'[c]) : /\ i + 1 \in 1 .. Len(channel[c])
                                             /\ channel'[c][i] = channel[c][i + 1]
      BY <1>3, <1>4
    <3> QED BY <1>4, <3>1 DEF SyncInv, RevisionInv
  <2> QED BY <1>1, <1>6, <2>1 DEF SyncInv, RevisionInv
<1>12. ReadInv'
  BY <1>1, <1>8 DEF SyncInv, ReadInv
<1>13. DeletedInv'
  <2>1. \A d \in Clients : \A i \in 1 .. Len(channel'[d]) : \A k \in channel'[d][i].change.dels :
          Gone(k)
    <3>1. \A i \in 1 .. Len(channel'[c]) : /\ i + 1 \in 1 .. Len(channel[c])
                                             /\ channel'[c][i] = channel[c][i + 1]
      BY <1>3, <1>4
    <3> SUFFICES ASSUME NEW d \in Clients, NEW i \in 1 .. Len(channel'[d]),
                        NEW k \in channel'[d][i].change.dels
                 PROVE  Gone(k)
      OBVIOUS
    <3>2. \E j \in 1 .. Len(channel[d]) : channel'[d][i] = channel[d][j]
      BY <1>4, <3>1
    <3> QED BY <3>2 DEF SyncInv, DeletedInv
  <2>2. \A d \in Clients : \A k \in pending'[d].dels \cup batch[d].change.dels : Gone(k)
    BY <1>5, <1>7 DEF SyncInv, DeletedInv
  <2> QED BY <1>1, <2>1, <2>2 DEF DeletedInv, Gone
<1> QED BY <1>1, <1>8, <1>9, <1>10, <1>11, <1>12, <1>13, QueueMoves

LEMMA DrainStep ==
  ASSUME SyncInv, NEW c \in Clients, Drain(c) PROVE SyncInv'
<1> PICK b : b = [busy |-> TRUE, change |-> pending[c], read |-> <<>>]
  OBVIOUS
<1>1. /\ ~batch[c].busy /\ batch' = [batch EXCEPT ![c] = b]
      /\ pending' = [pending EXCEPT ![c] = NoChange] /\ raced' = [raced EXCEPT ![c] = {}]
      /\ UNCHANGED <<storeVars, commitVars, serverVars, counterVars, overtaken>>
  BY DEF Drain
<1>2. b \in Batches /\ b.busy /\ b.change = pending[c] /\ DOMAIN b.read = {}
  <2>1. pending[c] \in Changes
    BY DEF SyncInv, TypeInv
  <2>2. <<>> \in Bodies /\ DOMAIN <<>> = {}
    BY DEF Bodies
  <2> QED BY <2>1, <2>2 DEF Batches
<1>3. /\ batch' \in [Clients -> Batches] /\ batch'[c] = b
      /\ pending' \in [Clients -> Changes] /\ pending'[c] = NoChange
      /\ raced' \in [Clients -> SUBSET Keys]
      /\ \A d \in Clients : d # c => /\ batch'[d] = batch[d] /\ pending'[d] = pending[d]
                                     /\ raced'[d] = raced[d]
  BY <1>1, <1>2, NothingFacts DEF SyncInv, TypeInv
<1> USE DEF storeVars, commitVars, serverVars, tableVars, counterVars
<1>4. \A k : ~Told(batch[c].change, k)
  BY <1>1, NothingFacts DEF SyncInv, ShapeInv
<1>5. \A d \in Clients : \A k :
        Coming(d, k) \/ Told(batch[d].change, k) => Coming(d, k)' \/ Told(batch'[d].change, k)
  BY <1>1, <1>2, <1>3, <1>4 DEF Coming
<1>6. \A d \in Clients : d # c => \A k : Coming(d, k) => Coming(d, k)'
  BY <1>1, <1>3 DEF Coming
<1>7. TypeInv'
  BY <1>1, <1>3 DEF SyncInv, TypeInv
<1>8. ShapeInv'
  BY <1>1, <1>2, <1>3 DEF SyncInv, ShapeInv, Entered
<1>9. RevisionInv'
  BY <1>1 DEF SyncInv, RevisionInv
<1>10. ReadInv'
  BY <1>1, <1>2, <1>3, <1>6 DEF SyncInv, ReadInv
<1>11. DeletedInv'
  BY <1>1, <1>2, <1>3, NothingFacts DEF SyncInv, DeletedInv, Gone
<1> QED BY <1>1, <1>5, <1>7, <1>8, <1>9, <1>10, <1>11, QueueMoves

\* The reads of a batch.
LEMMA BatchReads ==
  ASSUME SyncInv, NEW c \in Clients, NEW read \in Bodies, batch[c].busy,
         batch' = [batch EXCEPT ![c].read = read],
         \A k \in DOMAIN read : \/ read[k] = db[k]
                                \/ k \in DOMAIN batch[c].read /\ read[k] = batch[c].read[k],
         revision' \in [Clients -> Nat], \A d \in Clients : revision'[d] <= current,
         UNCHANGED <<storeVars, commits, call, serverVars, pending, counterVars, ghostVars>>
  PROVE  SyncInv'
<1> DEFINE b == [batch[c] EXCEPT !.read = read]
<1>1. b \in Batches /\ b.read = read /\ b.change = batch[c].change /\ b.busy = batch[c].busy
  BY DEF SyncInv, TypeInv, Batches
<1>2. batch' = [batch EXCEPT ![c] = b]
  OBVIOUS
<1> HIDE DEF b
<1>3. /\ batch' \in [Clients -> Batches] /\ batch'[c] = b
      /\ \A d \in Clients : d # c => batch'[d] = batch[d]
  <2>1. batch \in [Clients -> Batches] /\ b \in Batches
    BY <1>1 DEF SyncInv, TypeInv
  <2> QED BY <1>2, <2>1
<1> USE DEF storeVars, serverVars, tableVars, counterVars, ghostVars
<1>4. \A d \in Clients : batch'[d].change = batch[d].change /\ batch'[d].busy = batch[d].busy
  BY <1>1, <1>3
<1>5. \A d \in Clients : \A k : Coming(d, k)' <=> Coming(d, k)
  BY DEF Coming
<1>6. \A k \in DOMAIN read : k \in Keys
  BY BodyFacts
<1>7. TypeInv'
  BY <1>3 DEF SyncInv, TypeInv
<1>8. ShapeInv'
  <2>1. \A k \in DOMAIN batch'[c].read : Entered(batch'[c].read[k])
    BY <1>1, <1>3, <1>6 DEF SyncInv, ShapeInv
  <2> QED BY <1>3, <1>4, <2>1 DEF SyncInv, ShapeInv, Entered
<1>9. RevisionInv'
  BY DEF SyncInv, RevisionInv
<1>10. ReadInv'
  BY <1>1, <1>3, <1>5 DEF SyncInv, ReadInv
<1>11. DeletedInv'
  BY <1>4 DEF SyncInv, DeletedInv, Gone
<1> QED BY <1>4, <1>5, <1>7, <1>8, <1>9, <1>10, <1>11, QueueMoves

LEMMA ReadAllStep ==
  ASSUME SyncInv, NEW c \in Clients, ReadAll(c) PROVE SyncInv'
<1>1. db \in Bodies
  BY BodyFacts DEF SyncInv, TypeInv
<1>2. revision' \in [Clients -> Nat] /\ \A d \in Clients : revision'[d] <= current
  BY DEF ReadAll, SyncInv, TypeInv, RevisionInv
<1> QED BY <1>1, <1>2, BatchReads DEF ReadAll

LEMMA ReadKeyStep ==
  ASSUME SyncInv, NEW c \in Clients, NEW k \in Keys, ReadKey(c, k) PROVE SyncInv'
<1> PICK old : old = batch[c].read
  OBVIOUS
<1> PICK read : read = [j \in DOMAIN old \cup {k} |-> IF j = k THEN db[k] ELSE old[j]]
  OBVIOUS
<1>1. batch' = [batch EXCEPT ![c].read = read]
  BY DEF ReadKey
<1>2. read \in Bodies
  <2>1. DOMAIN old \cup {k} \in SUBSET Keys /\ \A j \in DOMAIN old : old[j] \in Cells
    BY EventFacts, InvFacts, BodyFacts
  <2>2. read \in [DOMAIN old \cup {k} -> Cells]
    BY <2>1 DEF SyncInv, TypeInv
  <2> QED BY <2>1, <2>2, BodyFacts
<1>3. revision' \in [Clients -> Nat] /\ \A d \in Clients : revision'[d] <= current
  BY DEF ReadKey, commitVars, SyncInv, TypeInv, RevisionInv
<1>4. \A j \in DOMAIN read : read[j] = db[j] \/ (j \in DOMAIN old /\ read[j] = old[j])
  OBVIOUS
<1> QED BY <1>1, <1>2, <1>3, <1>4, BatchReads DEF ReadKey, commitVars

\* A batch is applied: what it announces replaces what the store shows, except
\* under a dirty key, and it may be merged back.
LEMMA Hydrated ==
  ASSUME SyncInv, NEW c \in Clients, batch[c].busy, AllRead(batch[c]), Hydrate(c),
         batch' = [batch EXCEPT ![c] = NoBatch], pending' \in [Clients -> Changes],
         \A d \in Clients : \A k : Told(pending[d], k) => Told(pending'[d], k),
         \A d \in Clients : pending'[d].dels \subseteq pending[d].dels \cup batch[d].change.dels,
         UNCHANGED <<commitVars, serverVars, edits, deletes, by, raced>>
  PROVE  SyncInv'
<1> USE DEF commitVars, serverVars, tableVars
<1> PICK now : now = Hydratable(c)
  OBVIOUS
<1> PICK b : b = batch[c]
  OBVIOUS
<1>1. /\ b.change \in Changes /\ b.read \in Bodies /\ b.change.ups \subseteq Keys
      /\ b.change.dels \subseteq Keys /\ DOMAIN b.read \subseteq Keys
      /\ \A k \in DOMAIN b.read : b.read[k] \in Cells /\ Entered(b.read[k])
  <2>1. b.change \in Changes /\ b.read \in Bodies
    BY EventFacts, InvFacts
  <2> QED BY <2>1, BodyFacts DEF Changes, SyncInv, ShapeInv
<1>2. /\ now \subseteq Keys
      /\ \A k \in Keys : Told(b.change, k) => k \in now \/ k \in dirty[c]
      /\ \A k \in now : \/ ~b.change.all /\ k \in b.change.dels /\ Announced(b, k) = Absent
                        \/ k \in DOMAIN b.read /\ Announced(b, k) = b.read[k]
  BY <1>1 DEF Hydratable, Affected, Announced, AllRead, Told
<1>3. \A k \in now : Announced(b, k) \in Cells /\ Entered(Announced(b, k))
  BY <1>1, <1>2, CellFacts DEF Entered
<1>4. /\ view' \in [Clients -> [Keys -> Cells]]
      /\ \A k \in Keys : view'[c][k] = IF k \in now THEN Announced(b, k) ELSE view[c][k]
      /\ \A d \in Clients : d # c => view'[d] = view[d]
  BY <1>2, <1>3 DEF Hydrate, SyncInv, TypeInv
<1>5. /\ dirty' \in [Clients -> SUBSET Keys] /\ dirty'[c] = dirty[c] \ now
      /\ \A d \in Clients : d # c => dirty'[d] = dirty[d]
  BY DEF Hydrate, SyncInv, TypeInv
<1>6. /\ overtaken' \in [Clients -> SUBSET Keys]
      /\ \A k \in Keys : k \notin overtaken'[c] =>
           IF k \in now THEN k \notin Unconfirmed(c) \cup raced[c] ELSE k \notin overtaken[c]
      /\ \A d \in Clients : d # c => overtaken'[d] = overtaken[d]
  BY <1>2 DEF Hydrate, SyncInv, TypeInv
<1>7. /\ batch' \in [Clients -> Batches] /\ batch'[c] = NoBatch
      /\ \A d \in Clients : d # c => batch'[d] = batch[d]
  BY NothingFacts DEF SyncInv, TypeInv
<1>8. \A d \in Clients : \A k : Coming(d, k) => Coming(d, k)'
  BY DEF Coming
<1>9. \A d \in Clients : Queue(d)' = Queue(d)
  BY DEF Queue
<1>10. TypeInv'
  BY <1>4, <1>5, <1>6, <1>7 DEF SyncInv, TypeInv
<1>11. ShapeInv'
  <2>1. \A d \in Clients : \A k \in Keys : Entered(view'[d][k])
    BY <1>3, <1>4 DEF SyncInv, ShapeInv
  <2>2. \A d \in Clients : /\ ~batch'[d].busy => batch'[d] = NoBatch
                           /\ \A k \in DOMAIN batch'[d].read : Entered(batch'[d].read[k])
    BY <1>7, NothingFacts DEF SyncInv, ShapeInv
  <2> QED BY <2>1, <2>2 DEF SyncInv, ShapeInv, Entered
<1>12. RevisionInv'
  BY DEF SyncInv, RevisionInv
<1>13. ReadInv'
  BY <1>7, <1>8, NothingFacts DEF SyncInv, ReadInv
<1>14. DeletedInv'
  BY <1>7, NothingFacts DEF SyncInv, DeletedInv, Gone
<1>15. StrayInv'
  <2> SUFFICES ASSUME NEW d \in Clients, NEW s \in strays, Live(s, d),
                      NEW k \in DOMAIN s.body \ overtaken'[d]
               PROVE  k \in dirty'[d] \/ Holds(Queue(d), k)
    BY <1>9 DEF StrayInv, Live, Holds
  <2>1. CASE d # c
    BY <1>5, <1>6, <2>1 DEF SyncInv, StrayInv
  <2>2. CASE d = c
    <3>1. k \in Keys /\ k \in Unconfirmed(c)
      BY <2>2, UnconfirmedFacts, InvFacts, BodyFacts DEF Live, SyncInv, TypeInv, Strays
    <3>2. k \notin now /\ k \notin overtaken[c]
      BY <1>6, <2>2, <3>1
    <3> QED BY <1>5, <2>2, <3>2 DEF SyncInv, StrayInv
  <2> QED BY <2>1, <2>2
<1>16. ViewInv'
  <2> SUFFICES ASSUME NEW d \in Clients, NEW k \in Keys,
                      k \notin dirty'[d] \cup overtaken'[d] \cup revived
               PROVE  Shown(d, k)'
    BY DEF ViewInv
  <2>1. CASE d # c
    BY <1>4, <1>5, <1>6, <1>7, <1>8, <1>9, <2>1 DEF SyncInv, ViewInv, Shown
  <2>2. CASE d = c /\ k \in now
    <3>1. k \notin Unconfirmed(c) /\ k \notin raced[c]
      BY <1>6, <2>2
    <3>2. ~Holds(Queue(c), k)'
      BY <1>9, <3>1, UnconfirmedFacts, InvFacts DEF Holds
    <3>3. view'[c][k] = db[k] \/ Coming(c, k)'
      <4>1. CASE k \in b.change.dels /\ Announced(b, k) = Absent
        BY <1>4, <2>2, <4>1 DEF SyncInv, DeletedInv, Gone
      <4>2. CASE k \in DOMAIN b.read /\ Announced(b, k) = b.read[k]
        BY <1>4, <1>8, <2>2, <3>1, <4>2 DEF SyncInv, ReadInv
      <4> QED BY <1>2, <2>2, <4>1, <4>2
    <3> QED BY <2>2, <3>2, <3>3 DEF Shown
  <2>3. CASE d = c /\ k \notin now
    <3>1. k \notin dirty[c] /\ k \notin overtaken[c] /\ ~Told(b.change, k)
      BY <1>2, <1>5, <1>6, <2>3
    <3>2. Shown(c, k) /\ view'[c][k] = view[c][k]
      BY <1>4, <2>3, <3>1 DEF SyncInv, ViewInv
    <3> QED BY <1>8, <1>9, <2>3, <3>1, <3>2 DEF Shown, Holds, EndsWith
  <2> QED BY <2>1, <2>2, <2>3
<1>17. OrderInv'
  <2> SUFFICES ASSUME NEW d \in Clients, NEW k \in Keys \ overtaken'[d] PROVE Ordered(d, k)'
    BY DEF OrderInv
  <2>1. CASE d # c \/ k \notin now
    <3>1. view'[d][k] = view[d][k] /\ k \notin overtaken[d]
      BY <1>4, <1>6, <2>1
    <3>2. Ordered(d, k)
      BY <3>1 DEF SyncInv, OrderInv
    <3>3. \A v : Behind(d, k, v)' <=> Behind(d, k, v)
      BY <1>9, <3>1 DEF Behind, NotAfter, Own
    <3>4. QueueSorted(d, k)' /\ QueueBehind(d, k)'
      BY <1>9, <3>1, <3>2 DEF Ordered, QueueSorted, QueueBehind, NotAfter, Own
    <3>5. StraysBehind(d, k)'
      BY <3>2, <3>3 DEF Ordered, StraysBehind, Live, NotAfter, Own
    <3>6. (writer[k] = d => Behind(d, k, db[k]))'
      BY <3>2, <3>3 DEF Ordered
    <3> QED BY <3>4, <3>5, <3>6 DEF Ordered
  <2>2. CASE d = c /\ k \in now
    <3>1. k \notin Unconfirmed(c) /\ k \notin raced[c]
      BY <1>6, <2>2
    <3>2. ~Holds(Queue(c), k) /\ \A s \in strays : s.from = c => k \notin DOMAIN s.body
      BY <3>1, UnconfirmedFacts, InvFacts
    <3>3. \A i \in 1 .. Len(Queue(c)) : k \notin DOMAIN Queue(c)[i]
      BY <3>2 DEF Holds
    <3>4. QueueSorted(c, k)' /\ QueueBehind(c, k)'
      BY <1>9, <3>3 DEF QueueSorted, QueueBehind
    <3>5. StraysBehind(c, k)'
      BY <3>2 DEF StraysBehind, Live
    <3>6. writer[k] = c => NotAfter(c, db[k], view'[c][k])
      <4>1. CASE Announced(b, k) = Absent
        BY <1>4, <2>2, <4>1 DEF NotAfter, Own
      <4>2. CASE k \in DOMAIN b.read /\ Announced(b, k) = b.read[k]
        <5>1. writer[k] = c => view'[c][k] = db[k]
          BY <1>4, <2>2, <3>1, <4>2 DEF SyncInv, ReadInv
        <5>2. db[k] \in Int
          BY CellFacts DEF SyncInv, TypeInv
        <5> QED BY <5>1, <5>2 DEF NotAfter
      <4> QED BY <1>2, <2>2, <4>1, <4>2
    <3>7. (writer[k] = c => Behind(c, k, db[k]))'
      BY <1>9, <3>3, <3>6 DEF Behind, NotAfter, Own
    <3> QED BY <2>2, <3>4, <3>5, <3>7 DEF Ordered
  <2> QED BY <2>1, <2>2
<1> QED BY <1>10, <1>11, <1>12, <1>13, <1>14, <1>15, <1>16, <1>17 DEF SyncInv

LEMMA ApplyBatchStep ==
  ASSUME SyncInv, NEW c \in Clients, ApplyBatch(c) PROVE SyncInv'
<1>1. pending' = pending /\ pending \in [Clients -> Changes]
  BY DEF ApplyBatch, SyncInv, TypeInv
<1> QED BY <1>1, Hydrated DEF ApplyBatch, counterVars

LEMMA BatchFailsStep ==
  ASSUME SyncInv, NEW c \in Clients, BatchFails(c) PROVE SyncInv'
<1> PICK m : m = MergeDatabaseChanges(batch[c].change, pending[c])
  OBVIOUS
<1>1. /\ m \in Changes /\ \A k : Told(m, k) <=> Told(batch[c].change, k) \/ Told(pending[c], k)
      /\ m.dels = batch[c].change.dels \cup pending[c].dels
  <2>1. batch[c].change \in Changes /\ pending[c] \in Changes
    BY EventFacts, InvFacts
  <2> QED BY <2>1, MergeFacts
<1>2. /\ pending' = [pending EXCEPT ![c] = m] /\ batch' = [batch EXCEPT ![c] = NoBatch]
      /\ batch[c].busy /\ UNCHANGED <<armed, commitVars, serverVars, edits, deletes, by, raced>>
  BY DEF BatchFails
<1>3. /\ pending' \in [Clients -> Changes] /\ pending'[c] = m
      /\ \A d \in Clients : d # c => pending'[d] = pending[d]
      /\ batch' \in [Clients -> Batches] /\ batch'[c] = NoBatch
      /\ \A d \in Clients : d # c => batch'[d] = batch[d]
  BY <1>1, <1>2, NothingFacts DEF SyncInv, TypeInv
<1>4. /\ \A d \in Clients : \A k : Told(pending[d], k) => Told(pending'[d], k)
      /\ \A d \in Clients : pending'[d].dels \subseteq pending[d].dels \cup batch[d].change.dels
  BY <1>1, <1>3
<1>5. CASE UNCHANGED <<view, dirty, overtaken>>
  <2> USE DEF commitVars, serverVars, tableVars
  <2>1. \A d \in Clients : \A k :
          Coming(d, k) \/ Told(batch[d].change, k) => Coming(d, k)' \/ Told(batch'[d].change, k)
    BY <1>1, <1>2, <1>3, <1>4 DEF Coming
  <2>2. \A d \in Clients : \A k : Coming(d, k) => Coming(d, k)'
    BY <1>2, <1>4 DEF Coming
  <2>3. TypeInv'
    BY <1>2, <1>3, <1>5 DEF SyncInv, TypeInv
  <2>4. ShapeInv'
    <3>1. \A d \in Clients : /\ ~batch'[d].busy => batch'[d] = NoBatch
                             /\ \A k \in DOMAIN batch'[d].read : Entered(batch'[d].read[k])
      BY <1>3, NothingFacts DEF SyncInv, ShapeInv
    <3> QED BY <1>2, <1>5, <3>1 DEF SyncInv, ShapeInv, Entered
  <2>5. RevisionInv'
    BY <1>2 DEF SyncInv, RevisionInv
  <2>6. ReadInv'
    BY <1>2, <1>3, <2>2, NothingFacts DEF SyncInv, ReadInv
  <2>7. DeletedInv'
    BY <1>2, <1>3, <1>4, NothingFacts DEF SyncInv, DeletedInv, Gone
  <2> QED BY <1>2, <1>5, <2>1, <2>3, <2>4, <2>5, <2>6, <2>7, QueueMoves
<1>6. CASE AllRead(batch[c]) /\ Hydrate(c)
  BY <1>2, <1>3, <1>4, <1>6, Hydrated
<1> QED BY <1>5, <1>6 DEF BatchFails

-----------------------------------------------------------------------------
(* The initial state, and every step.                                        *)

LEMMA InitInv == ASSUME Init PROVE SyncInv
<1>1. 0 \in Cells /\ 0 \in Values
  BY BoundsAssumption DEF Cells, Values
<1>2. TypeInv
  <2>1. <<>> \in Seq(Bodies) /\ <<>> \in Seq(Events)
    OBVIOUS
  <2> QED BY <1>1, <2>1, NothingFacts DEF Init, TypeInv
<1>3. /\ \A c \in Clients : /\ call[c] = Idle /\ commits[c] = <<>> /\ channel[c] = <<>>
                            /\ batch[c] = NoBatch /\ pending[c] = NoChange
                            /\ revision[c] = 0 /\ \A k \in Keys : view[c][k] = 0
      /\ strays = {} /\ edits = 0 /\ current = 0
      /\ \A k \in Keys : db[k] = 0 /\ writer[k] = Nobody
  BY DEF Init
<1>4. \A c \in Clients : Queue(c) = <<>> /\ \A k : ~Holds(Queue(c), k)
  BY <1>3, NothingFacts DEF Queue, Holds
<1>5. ShapeInv
  BY <1>3, NothingFacts DEF ShapeInv, Entered
<1>6. RevisionInv
  BY <1>3, NothingFacts DEF RevisionInv
<1>7. ReadInv /\ DeletedInv /\ StrayInv
  BY <1>3, NothingFacts DEF ReadInv, DeletedInv, StrayInv
<1>8. ViewInv
  BY <1>3, <1>4 DEF ViewInv, Shown
<1>9. OrderInv
  BY <1>3, <1>4, NobodyAssumption
     DEF OrderInv, Ordered, QueueSorted, QueueBehind, StraysBehind
<1> QED BY <1>2, <1>5, <1>6, <1>7, <1>8, <1>9 DEF SyncInv

LEMMA NoStep == ASSUME SyncInv, UNCHANGED vars PROVE SyncInv'
<1> USE DEF vars, storeVars, commitVars, serverVars, tableVars, queueVars, counterVars, ghostVars
<1>1. TypeInv' /\ RevisionInv'
  BY DEF SyncInv, TypeInv, RevisionInv
<1>2. ShapeInv'
  BY DEF SyncInv, ShapeInv, Entered
<1>3. \A c \in Clients : Queue(c)' = Queue(c)
  BY DEF Queue
<1> QED BY <1>1, <1>2, <1>3, CallMoves

LEMMA InvStep == ASSUME SyncInv, [Next]_vars PROVE SyncInv'
<1>1. CASE UNCHANGED vars
  BY <1>1, NoStep
<1>2. ASSUME NEW c \in Clients, NEW k \in Keys, Set(c, k) \/ Delete(c, k) PROVE SyncInv'
  BY <1>2, SetStep, DeleteStep
<1>3. ASSUME NEW c \in Clients, PageHides(c) \/ CommitLost(c) \/ Gap(c) \/ BatchFails(c)
      PROVE  SyncInv'
  BY <1>3, FlushStep, CommitLostStep, GapStep, BatchFailsStep DEF PageHides
<1>4. ASSUME NEW c \in Clients, Step(c) PROVE SyncInv'
  BY <1>4, FlushStep, StartCommitStep, CommitConfirmedStep, CommitRetriedStep, CommitRefusedStep,
     ServeStep, DispatchEventStep, DrainStep, ReadAllStep, ReadKeyStep, ApplyBatchStep
     DEF Step, DebounceFires
<1>5. ASSUME NEW s \in strays, ServeStray(s) PROVE SyncInv'
  BY <1>5, ServeStrayStep
<1> QED BY <1>1, <1>2, <1>3, <1>4, <1>5 DEF Next

\* The inductive invariant of the clients, their connections and the server.
THEOREM SyncInvariant == Spec => []SyncInv
<1>1. Init => SyncInv
  BY InitInv
<1>2. SyncInv /\ [Next]_vars => SyncInv'
  BY InvStep
<1> QED BY <1>1, <1>2, PTL DEF Spec

-----------------------------------------------------------------------------
(* What the synchronisation promises.                                        *)

(* A client that has nothing to send, to receive or to apply shows the         *)
(* database, whatever was lost, refused, retried or resynchronised on the way. *)
THEOREM ConvergedAtRest == Spec => []Converged
<1>1. SyncInv => Converged
  <2> SUFFICES ASSUME SyncInv, NEW c \in Clients, Quiet(c),
                      NEW k \in Keys \ (overtaken[c] \cup revived)
               PROVE  view[c][k] = db[k]
    BY DEF Converged
  <2>1. /\ commits[c] = <<>> /\ channel[c] = <<>> /\ pending[c] = NoChange /\ ~batch[c].busy
        /\ dirty[c] = {}
    BY DEF Quiet, AtRest
  <2>2. Shown(c, k) /\ call[c] = Idle /\ batch[c] = NoBatch
    BY <2>1 DEF SyncInv, ViewInv, ShapeInv
  <2>3. ~Holds(Queue(c), k) /\ ~Coming(c, k) /\ ~Told(batch[c].change, k)
    BY <2>1, <2>2, NothingFacts DEF Queue, Holds, Coming
  <2> QED BY <2>2, <2>3 DEF Shown
<1> QED BY <1>1, SyncInvariant, PTL

(* A commit, in time or late, never puts an older value of its client over a    *)
(* newer one of the same client.                                               *)
THEOREM OwnOrderKept == Spec => OwnOrder
<1>1. SyncInv /\ [Next]_vars =>
        [\A c \in Clients, k \in Keys :
           /\ Commits(c)
           /\ k \notin overtaken[c] /\ writer[k] = c
           /\ {db[k], db'[k]} \subseteq Values
           /\ by[db[k]] = c /\ by[db'[k]] = c
           => db'[k] >= db[k]]_vars
  <2> SUFFICES ASSUME SyncInv, NEW c \in Clients, NEW k \in Keys, Commits(c),
                      k \notin overtaken[c], writer[k] = c, db[k] \in Values, db'[k] \in Values,
                      by[db[k]] = c, by[db'[k]] = c
               PROVE  db'[k] >= db[k]
    OBVIOUS
  <2>1. Own(c, db[k]) /\ Own(c, db'[k]) /\ db[k] \in Int /\ db'[k] \in Int
    <3>1. db[k] # Absent /\ db'[k] # Absent
      BY CellFacts
    <3>2. \A v \in Values : v \in Int
      BY BoundsAssumption DEF Values
    <3> QED BY <3>1, <3>2 DEF Own
  <2>2. Ordered(c, k)
    BY DEF SyncInv, OrderInv
  <2>3. CASE db' = db
    BY <2>1, <2>3
  <2>4. ASSUME NEW body, Write(c, body), k \in DOMAIN body => NotAfter(c, db[k], body[k])
        PROVE  db'[k] >= db[k]
    <3>1. db'[k] = IF k \in DOMAIN body THEN body[k] ELSE db[k]
      BY <2>4 DEF Write
    <3> QED BY <2>1, <2>4, <3>1 DEF NotAfter
  <2>5. CASE Serve(c)
    <3>1. CASE Accepts(call[c].base)
      <4>1. /\ Write(c, Head(commits[c])) /\ commits[c] # <<>> /\ Queue(c) = commits[c]
            /\ commits[c] \in Seq(Bodies)
        BY <2>5, <3>1, NothingFacts DEF Serve, Queue, SyncInv, ShapeInv, TypeInv
      <4>2. Head(commits[c]) = Queue(c)[1] /\ 1 \in 1 .. Len(Queue(c))
        BY <4>1, TailFacts
      <4>3. k \in DOMAIN Queue(c)[1] => NotAfter(c, db[k], Queue(c)[1][k])
        BY <2>2, <4>2 DEF Ordered, Behind
      <4> QED BY <2>4, <4>1, <4>2, <4>3
    <3>2. CASE ~Accepts(call[c].base)
      BY <2>3, <2>5, <3>2 DEF Serve, tableVars
    <3> QED BY <3>1, <3>2
  <2>6. ASSUME NEW s \in strays, s.from = c, ServeStray(s) PROVE db'[k] >= db[k]
    <3>1. CASE Accepts(s.base)
      <4>1. Write(c, s.body) /\ Live(s, c)
        BY <2>6, <3>1 DEF ServeStray, Accepts, Live
      <4>2. k \in DOMAIN s.body => NotAfter(c, db[k], s.body[k])
        BY <2>2, <4>1 DEF Ordered, StraysBehind
      <4> QED BY <2>4, <4>1, <4>2
    <3>2. CASE ~Accepts(s.base)
      BY <2>3, <2>6, <3>2 DEF ServeStray, tableVars
    <3> QED BY <3>1, <3>2
  <2> QED BY <2>5, <2>6 DEF Commits
<1> QED BY <1>1, SyncInvariant, PTL DEF Spec, OwnOrder
=============================================================================
