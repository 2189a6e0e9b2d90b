------------------------- MODULE MessageStoreProofs -------------------------
(***************************************************************************)
(* Proofs about MessageStore, for any set of messages, any number of        *)
(* attempts, writes and failures.                                          *)
(***************************************************************************)
EXTENDS MessageStore, Integers, TLAPS

-----------------------------------------------------------------------------
(* Facts about sequences.                                                    *)

\* An element put behind a sequence.
LEMMA AppendFacts ==
  ASSUME NEW S, NEW s \in Seq(S), NEW e \in S
  PROVE  /\ Append(s, e) \in Seq(S) /\ Len(Append(s, e)) = Len(s) + 1
         /\ \A i \in 1 .. Len(s) : Append(s, e)[i] = s[i]
         /\ Append(s, e)[Len(s) + 1] = e
  OBVIOUS

\* What is left of a sequence without its head.
LEMMA TailFacts ==
  ASSUME NEW S, NEW s \in Seq(S), s # <<>>
  PROVE  /\ Tail(s) \in Seq(S) /\ Len(Tail(s)) = Len(s) - 1 /\ Len(s) \in Nat \ {0}
         /\ \A i \in 1 .. Len(Tail(s)) : Tail(s)[i] = s[i + 1]
         /\ Head(s) = s[1] /\ s[1] \in S
  OBVIOUS

\* An element put behind a sequence leaves its head.
LEMMA AppendHead ==
  ASSUME NEW S, NEW s \in Seq(S), NEW e \in S
  PROVE  Append(s, e) # <<>> /\ (s # <<>> => Head(Append(s, e)) = Head(s))
<1>1. Append(s, e) \in Seq(S) /\ Len(Append(s, e)) = Len(s) + 1 /\ Len(s) \in Nat
  OBVIOUS
<1>2. Append(s, e) # <<>>
  BY <1>1
<1>3. ASSUME s # <<>> PROVE Head(Append(s, e)) = Head(s)
  <2>1. 1 \in 1 .. Len(s)
    BY <1>3
  <2>2. Append(s, e)[1] = s[1]
    BY <2>1
  <2>3. Head(s) = s[1]
    BY <1>3, TailFacts
  <2>4. Head(Append(s, e)) = Append(s, e)[1]
    BY <1>1, <1>2, TailFacts
  <2> QED BY <2>2, <2>3, <2>4
<1> QED BY <1>2, <1>3

-----------------------------------------------------------------------------
(* What a queue holds: the ids of its commits, the rows they write and those *)
(* of them they delete.                                                     *)

Entry(c)   == <<c.id, Rows(c), c.deletes>>
Entries(s) == {Entry(s[i]) : i \in DOMAIN s}

LEMMA CommitFacts ==
  ASSUME NEW c \in Commit
  PROVE  /\ c.id \in Nat /\ Rows(c) \subseteq Messages /\ c.attempts \in Nat
         /\ Counted(c) \in Commit /\ Entry(Counted(c)) = Entry(c)
         /\ [c EXCEPT !.attempts = 0] \in Commit
         /\ Entry([c EXCEPT !.attempts = 0]) = Entry(c)
         /\ Counted(c).id = c.id /\ [c EXCEPT !.attempts = 0].id = c.id
<1>1. /\ c.id \in Nat /\ c.puts \subseteq Messages /\ c.deletes \subseteq Messages
      /\ c.attempts \in Nat
  BY DEF Commit
<1>2. ASSUME NEW n \in Nat
      PROVE  /\ [c EXCEPT !.attempts = n] \in Commit
             /\ Entry([c EXCEPT !.attempts = n]) = Entry(c)
             /\ [c EXCEPT !.attempts = n].id = c.id
  BY <1>1 DEF Commit, Entry, Rows
<1>3. Counted(c) = [c EXCEPT !.attempts = c.attempts + 1]
  BY DEF Counted
<1>4. c.attempts + 1 \in Nat /\ 0 \in Nat
  BY <1>1
<1> QED BY <1>1, <1>2, <1>3, <1>4 DEF Rows

LEMMA EntriesAppend ==
  ASSUME NEW s \in Seq(Commit), NEW e \in Commit
  PROVE  Entries(Append(s, e)) = Entries(s) \cup {Entry(e)}
<1>1. /\ Len(Append(s, e)) = Len(s) + 1 /\ Append(s, e) \in Seq(Commit)
      /\ \A i \in 1 .. Len(s) : Append(s, e)[i] = s[i]
      /\ Append(s, e)[Len(s) + 1] = e
  BY AppendFacts
<1>2. /\ DOMAIN s = 1 .. Len(s) /\ DOMAIN Append(s, e) = 1 .. Len(s) + 1 /\ Len(s) \in Nat
  BY <1>1
<1>3. \A i \in 1 .. Len(s) + 1 : i \in 1 .. Len(s) \/ i = Len(s) + 1
  BY <1>2
<1>4. Len(s) + 1 \in 1 .. Len(s) + 1 /\ \A i \in 1 .. Len(s) : i \in 1 .. Len(s) + 1
  BY <1>2
<1> HIDE DEF Commit
<1> QED BY <1>1, <1>2, <1>3, <1>4 DEF Entries

LEMMA EntriesTail ==
  ASSUME NEW s \in Seq(Commit), s # <<>>
  PROVE  Entries(s) = Entries(Tail(s)) \cup {Entry(Head(s))}
<1>1. /\ Tail(s) \in Seq(Commit) /\ Len(Tail(s)) = Len(s) - 1 /\ Len(s) \in Nat \ {0}
      /\ \A i \in 1 .. Len(Tail(s)) : Tail(s)[i] = s[i + 1]
      /\ Head(s) = s[1]
  BY TailFacts
<1>2. /\ DOMAIN s = 1 .. Len(s) /\ DOMAIN Tail(s) = 1 .. Len(s) - 1
  BY <1>1
<1>3. \A i \in 1 .. Len(s) : i = 1 \/ (i - 1 \in 1 .. Len(s) - 1 /\ (i - 1) + 1 = i)
  BY <1>1
<1>4. 1 \in 1 .. Len(s) /\ \A i \in 1 .. Len(s) - 1 : i + 1 \in 1 .. Len(s)
  BY <1>1
<1>5. \A i \in 1 .. Len(s) - 1 : Tail(s)[i] = s[i + 1]
  BY <1>1
<1>6. ASSUME NEW x \in Entries(s) PROVE x \in Entries(Tail(s)) \cup {Entry(s[1])}
  <2>1. PICK i \in 1 .. Len(s) : x = Entry(s[i])
    BY <1>2 DEF Entries
  <2>2. CASE i = 1
    BY <2>1, <2>2
  <2>3. CASE i # 1
    <3>1. i - 1 \in 1 .. Len(s) - 1 /\ Tail(s)[i - 1] = s[i]
      BY <1>3, <1>5, <2>3
    <3> QED BY <1>2, <2>1, <3>1 DEF Entries
  <2> QED BY <2>2, <2>3
<1>7. ASSUME NEW x \in Entries(Tail(s)) PROVE x \in Entries(s)
  BY <1>2, <1>4, <1>5 DEF Entries
<1>8. Entry(s[1]) \in Entries(s)
  BY <1>2, <1>4 DEF Entries
<1> QED BY <1>1, <1>6, <1>7, <1>8

\* A failed attempt is counted on the commit at the head.
LEMMA CountedHead ==
  ASSUME NEW s \in Seq(Commit), s # <<>>
  PROVE  LET t == [s EXCEPT ![1] = Counted(@)]
         IN /\ t \in Seq(Commit) /\ Len(t) = Len(s) /\ DOMAIN t = DOMAIN s
            /\ Entries(t) = Entries(s)
            /\ \A i \in DOMAIN s : t[i].id = s[i].id
<1> DEFINE t == [s EXCEPT ![1] = Counted(@)]
<1>1. /\ Len(s) \in Nat \ {0} /\ DOMAIN s = 1 .. Len(s) /\ 1 \in 1 .. Len(s)
      /\ \A i \in 1 .. Len(s) : s[i] \in Commit
  OBVIOUS
<1>2. /\ Counted(s[1]) \in Commit /\ Counted(s[1]).id = s[1].id
      /\ Entry(Counted(s[1])) = Entry(s[1])
  BY <1>1, CommitFacts
<1>3. t \in Seq(Commit) /\ Len(t) = Len(s) /\ DOMAIN t = DOMAIN s
  BY <1>1, <1>2
<1>4. \A i \in 1 .. Len(s) : t[i] = IF i = 1 THEN Counted(s[1]) ELSE s[i]
  BY <1>1
<1> HIDE DEF t
<1>5. \A i \in 1 .. Len(s) : t[i].id = s[i].id /\ Entry(t[i]) = Entry(s[i])
  BY <1>2, <1>4
<1>6. Entries(t) = Entries(s)
  BY <1>1, <1>3, <1>5 DEF Entries
<1> QED BY <1>1, <1>3, <1>5, <1>6 DEF t

LEMMA IdsOf ==
  ASSUME NEW s
  PROVE  /\ Ids(s) = {e[1] : e \in Entries(s)}
         /\ Entries(<<>>) = {} /\ Ids(<<>>) = {}
<1>1. \A c : Entry(c)[1] = c.id
  BY DEF Entry
<1>2. Ids(s) = {e[1] : e \in Entries(s)}
  BY <1>1 DEF Ids, Entries
<1>3. DOMAIN <<>> = {}
  OBVIOUS
<1> QED BY <1>2, <1>3 DEF Ids, Entries

\* The ids of a queue that grows by a commit, or loses its head.
LEMMA IdsChange ==
  ASSUME NEW s \in Seq(Commit), NEW e \in Commit
  PROVE  /\ Ids(Append(s, e)) = Ids(s) \cup {e.id}
         /\ s # <<>> => Ids(s) = Ids(Tail(s)) \cup {Head(s).id}
         /\ s # <<>> => Ids([s EXCEPT ![1] = Counted(@)]) = Ids(s)
<1>1. \A c : Entry(c)[1] = c.id
  BY DEF Entry
<1>2. Ids(Append(s, e)) = Ids(s) \cup {e.id}
  BY <1>1, IdsOf, EntriesAppend
<1>3. ASSUME s # <<>> PROVE Ids(s) = Ids(Tail(s)) \cup {Head(s).id}
  BY <1>1, <1>3, IdsOf, EntriesTail
<1>4. ASSUME s # <<>> PROVE Ids([s EXCEPT ![1] = Counted(@)]) = Ids(s)
  BY <1>4, IdsOf, CountedHead
<1> QED BY <1>2, <1>3, <1>4

-----------------------------------------------------------------------------
(* Types.                                                                   *)

QueueTypes ==
  /\ pending \in Seq(Commit) /\ dropped \in Seq(Commit)
  /\ retries \in Seq(Commit) /\ tasks \in Seq(Task) /\ draining \in BOOLEAN
  /\ draining => tasks # <<>> /\ Head(tasks).kind = "drain"
  /\ ~draining => retries = <<>>
ViewTypes ==
  /\ local \in Content /\ fully \in BOOLEAN /\ announced \in BOOLEAN
  /\ refresh \in Refresh \cup {None} /\ full \in FullLoad \cup {None}
  /\ blurred \subseteq Messages
RowTypes ==
  /\ db \in Content /\ refused \subseteq Refusable /\ writes \in Nat /\ troubles \in Nat
  /\ stored \subseteq Nat /\ stashed \subseteq Nat /\ confirmed \subseteq Nat
  /\ newest \in [Messages -> Nat] /\ author \in [Messages -> Nat]

LEMMA Parts == TypeOK <=> QueueTypes /\ ViewTypes /\ RowTypes
  BY DEF TypeOK, QueueTypes, ViewTypes, RowTypes

LEMMA PartsNext == QueueTypes' /\ ViewTypes' /\ RowTypes' => TypeOK'
  BY DEF TypeOK, QueueTypes, ViewTypes, RowTypes

LEMMA TypedTasks == TypeOK => tasks \in Seq(Task)
  BY DEF TypeOK

\* The content and the authors a commit leaves.
LEMMA RowFacts ==
  ASSUME NEW f \in Content, NEW c \in Commit, NEW S, NEW n \in Nat
  PROVE  Apply(c, f) \in Content /\ Mark(f, S, n) \in [Messages -> Nat]
<1>1. c.id \in Nat
  BY CommitFacts
<1> QED BY <1>1 DEF Apply, Mark, Content, Absent

LEMMA PageFacts ==
  ASSUME NEW f \in Content
  PROVE  Page(f) \in Content
BY DEF Page, Content, Absent

\* A new array leaves a full load under way with the one it captured.
LEMMA DetachTypes ==
  ASSUME ViewTypes, Detach
  PROVE  full' \in FullLoad \cup {None}
<1>1. full # None => full \in FullLoad
  BY DEF ViewTypes
<1> QED BY <1>1 DEF Detach, ViewTypes, FullLoad

NewCommit(puts, deletes) ==
  [id |-> writes + 1, puts |-> puts, deletes |-> deletes, attempts |-> 0]

LEMMA PersistTypes ==
  ASSUME TypeOK, NEW puts \in SUBSET Messages, NEW deletes \in SUBSET Messages,
         Persist(puts, deletes)
  PROVE  /\ QueueTypes' /\ RowTypes' /\ local' \in Content /\ fully' = fully
         /\ announced' = announced /\ refresh' = refresh
<1> DEFINE c == NewCommit(puts, deletes)
<1>1. /\ pending' = Append(pending, c) /\ tasks' = Append(tasks, Drain(c.id))
      /\ local' = Apply(c, local) /\ newest' = Mark(newest, Rows(c), c.id)
      /\ writes' = writes + 1 /\ c.id = writes + 1
      /\ UNCHANGED <<db, dropped, draining, retries, fully, announced, refresh,
                     refused, troubles, stored, stashed, confirmed, author>>
  BY DEF Persist, NewCommit, NextWrite
<1>2. c \in Commit
  BY DEF NewCommit, Commit, TypeOK
<1> HIDE DEF c
<1>3. Drain(c.id) \in Task
  BY <1>2, CommitFacts DEF Drain, Task
<1>4. QueueTypes'
  <2>1. pending' \in Seq(Commit) /\ tasks' \in Seq(Task)
    BY <1>1, <1>2, <1>3 DEF TypeOK
  <2>2. tasks # <<>> => tasks' # <<>> /\ Head(tasks') = Head(tasks)
    BY <1>1, <1>3, TypedTasks, AppendHead
  <2> QED BY <1>1, <2>1, <2>2 DEF TypeOK, QueueTypes
<1>5. local' \in Content
  BY <1>1, <1>2, RowFacts DEF TypeOK
<1>6. newest' \in [Messages -> Nat]
  BY <1>1, <1>2, CommitFacts DEF TypeOK, Mark
<1> QED BY <1>1, <1>4, <1>5, <1>6 DEF TypeOK, RowTypes

LEMMA AttemptTypes ==
  ASSUME TypeOK, NEW c \in Commit, NEW reported \in BOOLEAN, NEW applied \in BOOLEAN,
         Attempt(c, reported, applied), UNCHANGED confirmed,
         stashed' \subseteq Nat
  PROVE  RowTypes'
<1>1. c.id \in Nat
  BY CommitFacts
<1>2. db' \in Content
  <2>1. Apply(c, db) \in Content /\ db \in Content
    BY RowFacts DEF TypeOK
  <2> QED BY <2>1 DEF Attempt
<1>3. author' \in [Messages -> Nat]
  <2>1. Mark(author, Rows(c), c.id) \in [Messages -> Nat] /\ author \in [Messages -> Nat]
    BY <1>1 DEF TypeOK, Mark
  <2> QED BY <2>1 DEF Attempt
<1>4. stored' \subseteq Nat
  BY <1>1 DEF Attempt, TypeOK
<1>5. troubles' \in Nat
  BY DEF Attempt, Trouble, TypeOK
<1> QED BY <1>2, <1>3, <1>4, <1>5 DEF Attempt, TypeOK, RowTypes

\* The tasks behind the one that ends.
LEMMA TaskFacts ==
  ASSUME TypeOK, tasks # <<>>
  PROVE  Tail(tasks) \in Seq(Task) /\ Head(tasks) \in Task
<1>1. tasks \in Seq(Task)
  BY DEF TypeOK
<1> QED BY <1>1, TailFacts

LEMMA HeadFacts ==
  ASSUME NEW s \in Seq(Commit), s # <<>>
  PROVE  Tail(s) \in Seq(Commit) /\ Head(s) \in Commit
BY TailFacts

LEMMA QueueStep ==
  ASSUME TypeOK, NEW reported \in BOOLEAN, NEW applied \in BOOLEAN,
         \/ Flush \/ PassBarrier \/ StartDrain \/ EndDrain
         \/ RetryStashed(reported, applied) \/ CommitHead(reported, applied)
  PROVE  TypeOK'
<1>1. Barrier \in Task /\ Drain(0) \in Task
  BY DEF Barrier, Drain, Task
<1>2. UNCHANGED views => ViewTypes'
  BY Parts DEF ViewTypes, views
<1>3. UNCHANGED <<db, counters, stored, stashed, newest, author>> /\ confirmed' \subseteq Nat
      => RowTypes'
  BY Parts DEF RowTypes, counters
<1>4. CASE Flush
  <2>1. tasks' \in Seq(Task) /\ tasks' # <<>> /\ (tasks # <<>> => Head(tasks') = Head(tasks))
    BY <1>1, <1>4, TypedTasks, AppendFacts, AppendHead DEF Flush
  <2>2. QueueTypes'
    BY <1>4, <2>1 DEF Flush, QueueTypes, TypeOK
  <2>3. confirmed' \subseteq Nat /\ UNCHANGED <<stored, stashed, newest, author>>
    BY <1>4 DEF Flush, history, TypeOK
  <2> QED BY <1>2, <1>3, <1>4, <2>2, <2>3, PartsNext DEF Flush
<1>5. CASE PassBarrier
  <2>1. tasks' \in Seq(Task) /\ ~draining
    BY <1>1, <1>5, TaskFacts DEF PassBarrier, TypeOK
  <2>2. QueueTypes'
    BY <1>5, <2>1 DEF PassBarrier, QueueTypes, TypeOK
  <2>3. confirmed' \subseteq Nat /\ UNCHANGED <<stored, stashed, newest, author>>
    BY <1>5 DEF PassBarrier, history, TypeOK
  <2> QED BY <1>2, <1>3, <1>5, <2>2, <2>3, PartsNext DEF PassBarrier
<1>6. CASE StartDrain
  <2>1. QueueTypes'
    <3>1. <<>> \in Seq(Commit)
      OBVIOUS
    <3> QED BY <1>6, <3>1 DEF StartDrain, QueueTypes, TypeOK
  <2>2. confirmed' \subseteq Nat /\ UNCHANGED <<stored, stashed, newest, author>>
    BY <1>6 DEF StartDrain, history, TypeOK
  <2> QED BY <1>2, <1>3, <1>6, <2>1, <2>2, PartsNext DEF StartDrain
<1>7. CASE EndDrain
  <2>1. QueueTypes'
    BY <1>7, TaskFacts DEF EndDrain, QueueTypes, TypeOK
  <2>2. confirmed' \subseteq Nat
    BY <1>7, TaskFacts DEF EndDrain, TypeOK, Task
  <2> QED BY <1>2, <1>3, <1>7, <2>1, <2>2, PartsNext DEF EndDrain
<1>8. CASE RetryStashed(reported, applied)
  <2>1. Head(retries) \in Commit /\ Tail(retries) \in Seq(Commit)
    BY <1>8, HeadFacts DEF RetryStashed, TypeOK
  <2>2. dropped' \in Seq(Commit)
    BY <1>8, <2>1 DEF RetryStashed, TypeOK
  <2>3. QueueTypes'
    BY <1>8, <2>1, <2>2 DEF RetryStashed, QueueTypes, TypeOK
  <2>4. RowTypes'
    BY <1>8, <2>1, AttemptTypes DEF RetryStashed, TypeOK
  <2> QED BY <1>2, <1>8, <2>3, <2>4, PartsNext DEF RetryStashed
<1>9. CASE CommitHead(reported, applied)
  <2> DEFINE c == Head(pending)
  <2>1. c \in Commit /\ Tail(pending) \in Seq(Commit) /\ c.id \in Nat
        /\ [c EXCEPT !.attempts = 0] \in Commit /\ tasks # <<>>
    BY <1>9, HeadFacts, CommitFacts DEF CommitHead, TypeOK
  <2>2. [pending EXCEPT ![1] = Counted(@)] \in Seq(Commit)
    BY <1>9, CountedHead DEF CommitHead, TypeOK
  <2>3. HeadStored \/ HeadFails \/ HeadStashed
    BY <1>9 DEF CommitHead
  <2>4. /\ draining /\ retries = <<>> /\ UNCHANGED <<retries, views, confirmed>>
        /\ Attempt(c, reported, applied)
    BY <1>9 DEF CommitHead
  <2>5. QueueTypes' /\ stashed' \subseteq Nat
    <3>1. CASE HeadStored
      BY <2>1, <2>4, <3>1 DEF HeadStored, QueueTypes, TypeOK
    <3>2. CASE HeadFails
      BY <2>1, <2>2, <2>4, <3>2, TaskFacts DEF HeadFails, QueueTypes, TypeOK
    <3>3. CASE HeadStashed
      <4>1. dropped' \in Seq(Commit)
        BY <2>1, <3>3 DEF HeadStashed, TypeOK
      <4> QED BY <2>1, <2>4, <3>3, <4>1 DEF HeadStashed, QueueTypes, TypeOK
    <3> QED BY <2>3, <3>1, <3>2, <3>3
  <2>6. RowTypes'
    BY <2>1, <2>4, <2>5, AttemptTypes
  <2> QED BY <1>2, <2>4, <2>5, <2>6, PartsNext
<1> QED BY <1>4, <1>5, <1>6, <1>7, <1>8, <1>9

\* Local writes.
LEMMA WriteStep ==
  ASSUME TypeOK, NEW S \in SUBSET Messages, WriteMessages(S) \/ DeleteMessages(S)
  PROVE  TypeOK'
<1>1. ViewTypes /\ {} \in SUBSET Messages
  BY Parts
<1>2. CASE WriteMessages(S)
  <2>1. Persist(S, {}) /\ full' = full
    BY <1>2 DEF WriteMessages
  <2>2. /\ QueueTypes' /\ RowTypes' /\ local' \in Content /\ fully' = fully
        /\ announced' = announced /\ refresh' = refresh
    BY <1>1, <2>1, PersistTypes
  <2>3. blurred' \subseteq Messages
    BY <1>1, <1>2 DEF WriteMessages, Overlapping, ViewTypes
  <2>4. ViewTypes'
    BY <1>1, <2>1, <2>2, <2>3 DEF ViewTypes
  <2> QED BY <2>2, <2>4, PartsNext
<1>3. CASE DeleteMessages(S)
  <2>1. Persist({}, S) /\ Detach
    BY <1>3 DEF DeleteMessages
  <2>2. /\ QueueTypes' /\ RowTypes' /\ local' \in Content /\ fully' = fully
        /\ announced' = announced /\ refresh' = refresh
    BY <1>1, <2>1, PersistTypes
  <2>3. full' \in FullLoad \cup {None} /\ blurred' \subseteq Messages
    BY <1>1, <1>3, <2>1, DetachTypes DEF DeleteMessages, Overlapping, LeftBehind, ViewTypes
  <2>4. ViewTypes'
    BY <1>1, <2>2, <2>3 DEF ViewTypes
  <2> QED BY <2>2, <2>4, PartsNext
<1> QED BY <1>2, <1>3

\* The rows a queue touches are rows of the chat.
LEMMA TouchedFacts ==
  ASSUME NEW s \in Seq(Commit)
  PROVE  Touched(s) \subseteq Messages
<1>1. \A i \in DOMAIN s : s[i] \in Commit
  OBVIOUS
<1>2. \A i \in DOMAIN s : Rows(s[i]) \subseteq Messages
  BY <1>1, CommitFacts
<1> QED BY <1>2 DEF Touched

LEMMA UnsavedFacts == TypeOK => Unsaved \subseteq Messages
<1>1. ASSUME TypeOK PROVE Unsaved \subseteq Messages
  <2>1. pending \in Seq(Commit) /\ dropped \in Seq(Commit) /\ retries \in Seq(Commit)
    BY <1>1 DEF TypeOK
  <2> QED BY <2>1, TouchedFacts DEF Unsaved
<1> QED BY <1>1

\* Other clients and re-reads.
LEMMA ReadStep ==
  ASSUME TypeOK,
         \/ ReadForRefresh \/ ApplyRefresh \/ StartFullLoad \/ ReadFull \/ ApplyFull
         \/ Compact
  PROVE  TypeOK'
<1>1. /\ ViewTypes /\ QueueTypes /\ RowTypes /\ db \in Content /\ local \in Content
      /\ Unsaved \subseteq Messages
  BY Parts, UnsavedFacts DEF ViewTypes, RowTypes
<1>2. UNCHANGED persistence => QueueTypes'
  BY <1>1 DEF QueueTypes, persistence
<1>3. UNCHANGED <<db, counters, history>> => RowTypes'
  BY <1>1 DEF RowTypes, counters, history
<1>4. refresh # None => refresh \in Refresh
  BY <1>1 DEF ViewTypes
<1>5. full # None => full \in FullLoad /\ full.base \in Content /\ full.rows \in Content
  BY <1>1 DEF ViewTypes, FullLoad
<1>6. full # None => Current \in Content
  BY <1>1, <1>5 DEF Current
<1>7. CASE ReadForRefresh
  <2>1. Page(db) \in Content
    BY <1>1, PageFacts
  <2>2. [phase |-> "read", fully |-> fully, rows |-> Page(db)] \in Refresh
    BY <1>1, <2>1 DEF Refresh, ViewTypes
  <2>3. ViewTypes'
    BY <1>1, <1>7, <2>2 DEF ReadForRefresh, ViewTypes
  <2> QED BY <1>2, <1>3, <1>7, <2>3, PartsNext DEF ReadForRefresh
<1>8. CASE ApplyRefresh
  <2>1. full' \in FullLoad \cup {None} /\ blurred' \subseteq Messages
    BY <1>1, <1>8, DetachTypes DEF ApplyRefresh, LeftBehind, ViewTypes
  <2>2. ViewTypes'
    BY <1>1, <1>4, <1>8, <2>1 DEF ApplyRefresh, ViewTypes, Refresh
  <2> QED BY <1>2, <1>3, <1>8, <2>2, PartsNext DEF ApplyRefresh
<1>9. CASE StartFullLoad
  <2>1. full' \in FullLoad
    BY <1>1, <1>9 DEF StartFullLoad, FullLoad
  <2>2. ViewTypes'
    BY <1>1, <1>9, <2>1 DEF StartFullLoad, ViewTypes
  <2>3. RowTypes'
    BY <1>1, <1>9 DEF StartFullLoad, RowTypes, Trouble, history
  <2> QED BY <1>2, <1>9, <2>2, <2>3, PartsNext DEF StartFullLoad
<1>10. CASE ReadFull
  <2>1. full' \in FullLoad
    BY <1>1, <1>5, <1>10 DEF ReadFull, FullLoad
  <2>2. ViewTypes'
    BY <1>1, <1>10, <2>1 DEF ReadFull, ViewTypes
  <2> QED BY <1>2, <1>3, <1>10, <2>2, PartsNext DEF ReadFull
<1>11. CASE ApplyFull
  <2>1. MergeLoadedMessages(full.rows, Current) \in Content
    BY <1>5, <1>6, <1>11 DEF ApplyFull, MergeLoadedMessages, Content
  <2>2. ViewTypes'
    BY <1>1, <1>11, <2>1 DEF ApplyFull, ViewTypes
  <2> QED BY <1>2, <1>3, <1>11, <2>2, PartsNext DEF ApplyFull
<1>12. CASE Compact
  <2>1. full' \in FullLoad \cup {None} /\ blurred' \subseteq Messages
    BY <1>1, <1>12, DetachTypes DEF Compact, ViewTypes
  <2>2. local' \in Content
    BY <1>1, <1>12 DEF Compact, Content, Absent
  <2>3. ViewTypes'
    BY <1>1, <1>12, <2>1, <2>2 DEF Compact, ViewTypes
  <2> QED BY <1>2, <1>3, <1>12, <2>3, PartsNext DEF Compact
<1> QED BY <1>7, <1>8, <1>9, <1>10, <1>11, <1>12

LEMMA RemoteStep ==
  ASSUME TypeOK, NEW m \in Messages, NEW deletes \in BOOLEAN, RemoteWrite(m, deletes)
  PROVE  TypeOK'
<1>1. ViewTypes /\ QueueTypes /\ RowTypes
  BY Parts
<1>2. writes' = writes + 1 /\ writes' \in Nat /\ troubles' \in Nat
  BY <1>1 DEF RemoteWrite, NextWrite, Trouble, RowTypes
<1>3. ViewTypes'
  BY <1>1 DEF RemoteWrite, ViewTypes
<1>4. QueueTypes'
  BY <1>1 DEF RemoteWrite, QueueTypes, persistence
<1>5. db' \in Content
  BY <1>1, <1>2 DEF RemoteWrite, RowTypes, Content, Absent
<1>6. author' \in [Messages -> Nat]
  BY <1>1, <1>2 DEF RemoteWrite, RowTypes
<1>7. RowTypes'
  BY <1>1, <1>2, <1>5, <1>6 DEF RemoteWrite, RowTypes
<1> QED BY <1>3, <1>4, <1>7, PartsNext

LEMMA InitTypes == Init => TypeOK
<1>1. ASSUME Init PROVE TypeOK
  <2>1. db \in Content
    BY <1>1 DEF Init, Content, Absent
  <2>2. local \in Content
    BY <1>1, <2>1, PageFacts DEF Init
  <2>3. QueueTypes
    <3>1. <<>> \in Seq(Commit) /\ <<>> \in Seq(Task)
      OBVIOUS
    <3> QED BY <1>1, <3>1 DEF Init, QueueTypes
  <2>4. ViewTypes
    BY <1>1, <2>2 DEF Init, ViewTypes
  <2>5. RowTypes
    BY <1>1, <2>1 DEF Init, RowTypes
  <2> QED BY <2>3, <2>4, <2>5, Parts
<1> QED BY <1>1

LEMMA StutterTypes == TypeOK /\ UNCHANGED vars => TypeOK'
<1>1. ASSUME TypeOK, UNCHANGED vars PROVE TypeOK'
  <2>1. /\ UNCHANGED <<db, pending, dropped, tasks, draining, retries>>
        /\ UNCHANGED <<local, fully, announced, refresh, full, blurred>>
        /\ UNCHANGED <<refused, writes, troubles>>
        /\ UNCHANGED <<stored, stashed, confirmed, newest, author>>
    BY <1>1 DEF vars, persistence, views, counters, history
  <2> QED BY <1>1, <2>1 DEF TypeOK
<1> QED BY <1>1

\* The state of the store stays well formed, whatever fails: the drain that
\* runs is the head of the chain, and commits taken out of the stash are in
\* the hands of that drain.
THEOREM TypeCorrect == Spec => []TypeOK
<1>1. ASSUME TypeOK, Next PROVE TypeOK'
  <2>1. CASE \E S \in SUBSET Messages \ {{}} : WriteMessages(S) \/ DeleteMessages(S)
    BY <1>1, <2>1, WriteStep
  <2>2. CASE Flush \/ PassBarrier \/ StartDrain \/ EndDrain
    <3>1. TRUE \in BOOLEAN
      OBVIOUS
    <3> QED BY <1>1, <2>2, <3>1, QueueStep
  <2>3. CASE \E reported, applied \in BOOLEAN :
                RetryStashed(reported, applied) \/ CommitHead(reported, applied)
    BY <1>1, <2>3, QueueStep
  <2>4. CASE \E m \in Messages, deletes \in BOOLEAN : RemoteWrite(m, deletes)
    BY <1>1, <2>4, RemoteStep
  <2>5. CASE \/ ReadForRefresh \/ ApplyRefresh \/ StartFullLoad \/ ReadFull \/ ApplyFull
             \/ Compact
    BY <1>1, <2>5, ReadStep
  <2> QED BY <1>1, <2>1, <2>2, <2>3, <2>4, <2>5 DEF Next
<1>2. TypeOK /\ [Next]_vars => TypeOK'
  BY <1>1, StutterTypes
<1> QED BY <1>2, InitTypes, PTL DEF Spec

-----------------------------------------------------------------------------
(* Nothing is lost.  What a commit brings is stored or held by one of the   *)
(* three queues, and no step takes it away; once the pending queue is empty *)
(* what is held is what was reported, stashed or taken out of the stash.    *)

Held    == stored \cup Waiting
Secured == stored \cup Ids(dropped) \cup Ids(retries)
Grows   == Held \subseteq Held' /\ Secured \subseteq Secured'

Answers(t) == {t[i].answers : i \in DOMAIN t}

LEMMA AnswersChange ==
  ASSUME NEW t \in Seq(Task), NEW e \in Task
  PROVE  /\ Answers(Append(t, e)) = Answers(t) \cup {e.answers}
         /\ t # <<>> => Answers(Tail(t)) \subseteq Answers(t) /\ Head(t).answers \in Answers(t)
<1>1. Answers(Append(t, e)) = Answers(t) \cup {e.answers}
  <2>1. /\ Len(Append(t, e)) = Len(t) + 1 /\ Append(t, e) \in Seq(Task)
        /\ \A i \in 1 .. Len(t) : Append(t, e)[i] = t[i]
        /\ Append(t, e)[Len(t) + 1] = e
    BY AppendFacts
  <2>2. DOMAIN t = 1 .. Len(t) /\ DOMAIN Append(t, e) = 1 .. Len(t) + 1 /\ Len(t) \in Nat
    BY <2>1
  <2>3. \A i \in 1 .. Len(t) + 1 : i \in 1 .. Len(t) \/ i = Len(t) + 1
    BY <2>2
  <2>4. Len(t) + 1 \in 1 .. Len(t) + 1 /\ \A i \in 1 .. Len(t) : i \in 1 .. Len(t) + 1
    BY <2>2
  <2> HIDE DEF Task
  <2> QED BY <2>1, <2>2, <2>3, <2>4 DEF Answers
<1>2. ASSUME t # <<>>
      PROVE  Answers(Tail(t)) \subseteq Answers(t) /\ Head(t).answers \in Answers(t)
  <2>1. /\ Tail(t) \in Seq(Task) /\ Len(Tail(t)) = Len(t) - 1 /\ Len(t) \in Nat \ {0}
        /\ \A i \in 1 .. Len(Tail(t)) : Tail(t)[i] = t[i + 1]
        /\ Head(t) = t[1]
    BY <1>2, TailFacts
  <2>2. DOMAIN t = 1 .. Len(t) /\ DOMAIN Tail(t) = 1 .. Len(t) - 1
    BY <2>1
  <2>3. 1 \in 1 .. Len(t) /\ \A i \in 1 .. Len(t) - 1 : i + 1 \in 1 .. Len(t)
    BY <2>1
  <2>4. \A i \in 1 .. Len(t) - 1 : Tail(t)[i] = t[i + 1]
    BY <2>1
  <2> QED BY <2>1, <2>2, <2>3, <2>4 DEF Answers
<1> QED BY <1>1, <1>2

\* An attempt only adds to what is stored.
LEMMA AttemptHolds ==
  ASSUME NEW c, NEW reported \in BOOLEAN, NEW applied \in BOOLEAN,
         Attempt(c, reported, applied)
  PROVE  /\ stored \subseteq stored' /\ (reported => c.id \in stored')
         /\ newest' = newest /\ writes' = writes
BY DEF Attempt

LEMMA QueueHolds ==
  ASSUME TypeOK, NEW reported \in BOOLEAN, NEW applied \in BOOLEAN,
         \/ Flush \/ PassBarrier \/ StartDrain \/ EndDrain
         \/ RetryStashed(reported, applied) \/ CommitHead(reported, applied)
  PROVE  Grows /\ newest' = newest
<1>1. /\ pending \in Seq(Commit) /\ dropped \in Seq(Commit) /\ retries \in Seq(Commit)
      /\ (~draining => retries = <<>>)
  BY DEF TypeOK
<1>2. CASE Flush \/ PassBarrier \/ EndDrain
  BY <1>2 DEF Flush, PassBarrier, EndDrain, history, Grows, Held, Secured, Waiting
<1>3. CASE StartDrain
  <2>1. Ids(retries) = {} /\ Ids(retries') = Ids(dropped) /\ pending' = pending
        /\ stored' = stored /\ newest' = newest
    BY <1>1, <1>3, IdsOf DEF StartDrain, history
  <2> QED BY <2>1 DEF Grows, Held, Secured, Waiting
<1>4. CASE RetryStashed(reported, applied)
  <2> DEFINE c == Head(retries)
  <2>1. c \in Commit /\ retries # <<>>
    BY <1>1, <1>4, HeadFacts DEF RetryStashed
  <2>2. Ids(retries) = Ids(Tail(retries)) \cup {c.id}
    BY <1>1, <2>1, IdsChange
  <2>3. Ids(Append(dropped, c)) = Ids(dropped) \cup {c.id}
    BY <1>1, <2>1, IdsChange
  <2>4. /\ retries' = Tail(retries) /\ pending' = pending
        /\ dropped' = (IF reported THEN dropped ELSE Append(dropped, c))
        /\ Attempt(c, reported, applied)
    BY <1>4 DEF RetryStashed
  <2>5. /\ stored \subseteq stored' /\ (reported => c.id \in stored') /\ newest' = newest
    BY <2>4, AttemptHolds
  <2> HIDE DEF c
  <2>6. Ids(dropped) \subseteq Ids(dropped') /\ (c.id \in stored' \/ c.id \in Ids(dropped'))
    BY <2>3, <2>4, <2>5
  <2>7. Ids(retries') = Ids(Tail(retries)) /\ Ids(pending') = Ids(pending)
    BY <2>4
  <2> QED BY <2>2, <2>5, <2>6, <2>7 DEF Grows, Held, Secured, Waiting
<1>5. CASE CommitHead(reported, applied)
  <2> DEFINE c == Head(pending)
  <2>1. c \in Commit /\ pending # <<>>
    BY <1>1, <1>5, HeadFacts DEF CommitHead
  <2>2. Ids(pending) = Ids(Tail(pending)) \cup {c.id}
    BY <1>1, <2>1, IdsChange
  <2> DEFINE d == [c EXCEPT !.attempts = 0]
  <2>3. d \in Commit /\ d.id = c.id
    BY <2>1, CommitFacts
  <2>4. Ids(Append(dropped, d)) = Ids(dropped) \cup {c.id}
    <3> HIDE DEF d, c
    <3>1. dropped \in Seq(Commit) /\ d \in Commit
      BY <1>1, <2>3
    <3>2. Ids(Append(dropped, d)) = Ids(dropped) \cup {d.id}
      BY <3>1, IdsChange, Zenon
    <3> QED BY <2>3, <3>2
  <2>5. Ids([pending EXCEPT ![1] = Counted(@)]) = Ids(pending)
    BY <1>1, <2>1, IdsChange
  <2>6. /\ retries' = retries /\ Attempt(c, reported, applied)
        /\ \/ reported /\ HeadStored
           \/ HeadFails \/ HeadStashed
    BY <1>5 DEF CommitHead
  <2>7. /\ stored \subseteq stored' /\ (reported => c.id \in stored') /\ newest' = newest
    BY <2>6, AttemptHolds
  <2>8. CASE reported /\ HeadStored
    <3>1. pending' = Tail(pending) /\ dropped' = dropped
      BY <2>8 DEF HeadStored
    <3> HIDE DEF c
    <3> QED BY <2>2, <2>6, <2>7, <2>8, <3>1 DEF Grows, Held, Secured, Waiting
  <2>9. CASE HeadFails
    <3>1. Ids(pending') = Ids(pending) /\ dropped' = dropped
      BY <2>5, <2>9 DEF HeadFails
    <3> HIDE DEF c
    <3> QED BY <2>6, <2>7, <3>1 DEF Grows, Held, Secured, Waiting
  <2>10. CASE HeadStashed
    <3>1. pending' = Tail(pending) /\ Ids(dropped') = Ids(dropped) \cup {c.id}
      BY <2>4, <2>10 DEF HeadStashed
    <3> HIDE DEF c
    <3> QED BY <2>2, <2>6, <2>7, <3>1 DEF Grows, Held, Secured, Waiting
  <2> QED BY <2>6, <2>7, <2>8, <2>9, <2>10
<1> QED BY <1>2, <1>3, <1>4, <1>5

\* Every task that answers a persist call answers for a commit that is held.
AnswersHeld == Answers(tasks) \subseteq Held \cup {0}

NewestHeld == \A m \in Messages : newest[m] \in Held \cup {1}
ConfirmedSecured == confirmed \subseteq Secured

LostInv == AnswersHeld /\ NewestHeld /\ ConfirmedSecured

LEMMA PersistHolds ==
  ASSUME TypeOK, LostInv, NEW puts \in SUBSET Messages, NEW deletes \in SUBSET Messages,
         Persist(puts, deletes)
  PROVE  LostInv'
<1> DEFINE c == NewCommit(puts, deletes)
<1>1. /\ pending' = Append(pending, c) /\ tasks' = Append(tasks, Drain(c.id))
      /\ newest' = Mark(newest, Rows(c), c.id)
      /\ dropped' = dropped /\ retries' = retries /\ stored' = stored /\ confirmed' = confirmed
  BY DEF Persist, NewCommit, NextWrite
<1>2. c \in Commit /\ pending \in Seq(Commit) /\ tasks \in Seq(Task)
  BY DEF NewCommit, Commit, TypeOK
<1> HIDE DEF c
<1>3. Drain(c.id) \in Task /\ Drain(c.id).answers = c.id
  BY <1>2, CommitFacts DEF Drain, Task
<1>4. Ids(pending') = Ids(pending) \cup {c.id}
  BY <1>1, <1>2, IdsChange
<1>5. Held' = Held \cup {c.id} /\ Secured' = Secured
  BY <1>1, <1>4 DEF Held, Secured, Waiting
<1>6. Answers(tasks') = Answers(tasks) \cup {c.id}
  BY <1>1, <1>2, <1>3, AnswersChange
<1>7. \A m \in Messages : newest'[m] = newest[m] \/ newest'[m] = c.id
  BY <1>1 DEF Mark
<1> QED BY <1>1, <1>5, <1>6, <1>7 DEF LostInv, AnswersHeld, NewestHeld, ConfirmedSecured

\* A step that leaves the queues and the history of the writes alone.
LEMMA ElseHolds ==
  ASSUME LostInv, UNCHANGED <<tasks, pending, dropped, retries, stored, confirmed, newest>>
  PROVE  LostInv'
BY DEF LostInv, AnswersHeld, NewestHeld, ConfirmedSecured, Held, Secured, Waiting

LEMMA DrainHolds ==
  ASSUME TypeOK, LostInv, NEW reported \in BOOLEAN, NEW applied \in BOOLEAN,
         \/ Flush \/ PassBarrier \/ StartDrain \/ EndDrain
         \/ RetryStashed(reported, applied) \/ CommitHead(reported, applied)
  PROVE  LostInv'
<1>1. Grows /\ newest' = newest
  BY QueueHolds
<1>2. /\ tasks \in Seq(Task) /\ Barrier \in Task /\ Drain(0) \in Task
      /\ Barrier.answers = 0 /\ Drain(0).answers = 0
      /\ (draining => tasks # <<>>)
  BY DEF TypeOK, Barrier, Drain, Task
<1>3. Answers(Append(tasks, Barrier)) = Answers(tasks) \cup {0}
  BY <1>2, AnswersChange
<1>4. ASSUME tasks # <<>>
      PROVE  /\ Answers(Tail(tasks)) \subseteq Answers(tasks)
             /\ Head(tasks).answers \in Answers(tasks)
             /\ Answers(Append(Tail(tasks), Drain(0))) \subseteq Answers(tasks) \cup {0}
  <2>1. Tail(tasks) \in Seq(Task)
    BY <1>2, <1>4, TailFacts
  <2>2. Answers(Append(Tail(tasks), Drain(0))) = Answers(Tail(tasks)) \cup {0}
    <3>1. Answers(Append(Tail(tasks), Drain(0))) = Answers(Tail(tasks)) \cup {Drain(0).answers}
      BY <1>2, <2>1, AnswersChange, Zenon
    <3> QED BY <1>2, <3>1
  <2>3. Answers(Tail(tasks)) \subseteq Answers(tasks) /\ Head(tasks).answers \in Answers(tasks)
    <3>1. tasks \in Seq(Task) /\ Barrier \in Task /\ tasks # <<>>
      BY <1>2, <1>4
    <3> QED BY <3>1, AnswersChange
  <2> QED BY <2>2, <2>3
<1>5. Answers(tasks') \subseteq Answers(tasks) \cup {0}
  BY <1>2, <1>3, <1>4 DEF Flush, PassBarrier, StartDrain, EndDrain, RetryStashed, CommitHead,
     HeadStored, HeadFails, HeadStashed
<1>6. \/ confirmed' = confirmed
      \/ confirmed' = confirmed \cup ({Head(tasks).answers} \ {0}) /\ tasks # <<>>
         /\ pending = <<>>
  BY <1>2 DEF Flush, PassBarrier, StartDrain, EndDrain, RetryStashed, CommitHead, history
<1>7. pending = <<>> => Held = Secured
  BY IdsOf DEF Held, Secured, Waiting
<1>8. confirmed' \subseteq Secured
  BY <1>4, <1>6, <1>7 DEF LostInv, AnswersHeld, ConfirmedSecured
<1>9. AnswersHeld' /\ ConfirmedSecured'
  BY <1>1, <1>5, <1>8 DEF LostInv, AnswersHeld, ConfirmedSecured, Grows
<1>10. NewestHeld'
  BY <1>1 DEF LostInv, NewestHeld, Grows
<1> QED BY <1>9, <1>10 DEF LostInv

LEMMA NextHolds == TypeOK /\ LostInv /\ [Next]_vars => LostInv'
<1>1. ASSUME TypeOK, LostInv, NEW S \in SUBSET Messages, WriteMessages(S) \/ DeleteMessages(S)
      PROVE  LostInv'
  <2>1. {} \in SUBSET Messages
    OBVIOUS
  <2> QED BY <1>1, <2>1, PersistHolds DEF WriteMessages, DeleteMessages
<1>2. ASSUME TypeOK, LostInv, Flush \/ PassBarrier \/ StartDrain \/ EndDrain
      PROVE  LostInv'
  <2>1. TRUE \in BOOLEAN
    OBVIOUS
  <2> QED BY <1>2, <2>1, DrainHolds
<1>3. ASSUME TypeOK, LostInv, NEW reported \in BOOLEAN, NEW applied \in BOOLEAN,
             RetryStashed(reported, applied) \/ CommitHead(reported, applied)
      PROVE  LostInv'
  BY <1>3, DrainHolds
<1>4. ASSUME LostInv, \/ \E m \in Messages, deletes \in BOOLEAN : RemoteWrite(m, deletes)
                     \/ ReadForRefresh \/ ApplyRefresh \/ StartFullLoad \/ ReadFull
                     \/ ApplyFull \/ Compact \/ UNCHANGED vars
      PROVE  LostInv'
  <2>1. UNCHANGED <<tasks, pending, dropped, retries, stored, confirmed, newest>>
    BY <1>4 DEF RemoteWrite, ReadForRefresh, ApplyRefresh, StartFullLoad, ReadFull, ApplyFull,
       Compact, vars, persistence, history
  <2> QED BY <1>4, <2>1, ElseHolds
<1> QED BY <1>1, <1>2, <1>3, <1>4 DEF Next

LEMMA InitHolds == Init => LostInv
BY IdsOf DEF Init, LostInv, AnswersHeld, NewestHeld, ConfirmedSecured, Answers

LEMMA LostParts == LostInv <=> AnswersHeld /\ NothingLost
BY DEF LostInv, NewestHeld, ConfirmedSecured, NothingLost, Held, Secured

\* No failed attempt, stash or retry loses a commit: the latest write of every
\* message is stored or still held for another attempt, and so is every write
\* whose caller was told that it succeeded.
THEOREM NothingIsLost == Spec => []NothingLost
<1>1. LostInv => NothingLost
  BY LostParts
<1> QED BY <1>1, TypeCorrect, InitHolds, NextHolds, PTL DEF Spec

-----------------------------------------------------------------------------
(* The order of the commits.  What waits in the pending queue is ordered by *)
(* age and is younger than anything that has left it, so the head of the    *)
(* queue can only replace what an older commit wrote.  The stash is the     *)
(* exception, and what it brings back is remembered in stashed.             *)

Queue == Entries(pending)
Stash == Entries(dropped) \cup Entries(retries)

\* The ids of entries and the messages they write.
Numbers(E) == {e[1] : e \in E}
Written(E) == UNION {e[2] : e \in E}

Sorted(s) == \A i, j \in DOMAIN s : i < j => s[i].id < s[j].id

NumberInv ==
  /\ writes >= 1 /\ Sorted(pending)
  /\ \A e \in Queue \cup Stash : e[1] \in 2 .. writes
  /\ \A m \in Messages : newest[m] \in 1 .. writes /\ author[m] \in 1 .. writes
  /\ stored \cup stashed \subseteq 2 .. writes
StashInv ==
  /\ Numbers(Stash) \subseteq stashed
  /\ Numbers(Queue) \cap stashed = {}
NewestInv ==
  \A m \in Messages :
    /\ \A e \in Queue \cup Stash : e[1] = newest[m] => m \in e[2]
    /\ \A e \in Queue : m \in e[2] => e[1] <= newest[m] /\ newest[m] \in Numbers(Queue)
AuthorInv ==
  \A m \in Messages :
    /\ author[m] \in Numbers(Queue) => author[m] \in stored
    /\ author[m] \in stored \ stashed =>
         author[m] = newest[m] \/ newest[m] \in Numbers(Queue \cup Stash)

OrderInv == NumberInv /\ StashInv /\ NewestInv /\ AuthorInv

LEMMA EntryFacts ==
  ASSUME NEW s \in Seq(Commit), NEW e \in Entries(s)
  PROVE  e[1] \in Nat /\ e[2] \subseteq Messages /\ e[3] \subseteq e[2]
<1>1. PICK i \in DOMAIN s : e = Entry(s[i])
  BY DEF Entries
<1>2. s[i] \in Commit
  BY <1>1
<1>3. s[i].id \in Nat /\ Rows(s[i]) \subseteq Messages
  BY <1>2, CommitFacts
<1> QED BY <1>1, <1>3 DEF Entry, Rows

LEMMA SortedAppend ==
  ASSUME NEW s \in Seq(Commit), NEW c \in Commit, Sorted(s),
         \A e \in Entries(s) : e[1] < c.id
  PROVE  Sorted(Append(s, c))
<1>1. /\ Len(Append(s, c)) = Len(s) + 1 /\ Append(s, c) \in Seq(Commit)
      /\ \A i \in 1 .. Len(s) : Append(s, c)[i] = s[i]
      /\ Append(s, c)[Len(s) + 1] = c
  BY AppendFacts
<1>2. DOMAIN s = 1 .. Len(s) /\ DOMAIN Append(s, c) = 1 .. Len(s) + 1 /\ Len(s) \in Nat
  BY <1>1
<1>3. \A i \in DOMAIN s : s[i].id < c.id
  <2>1. \A i \in DOMAIN s : Entry(s[i]) \in Entries(s) /\ Entry(s[i])[1] = s[i].id
    BY DEF Entries, Entry
  <2> QED BY <2>1
<1> HIDE DEF Commit
<1>4. ASSUME NEW i \in 1 .. Len(s) + 1, NEW j \in 1 .. Len(s) + 1, i < j
      PROVE  Append(s, c)[i].id < Append(s, c)[j].id
  <2>1. i \in 1 .. Len(s) /\ (j \in 1 .. Len(s) \/ j = Len(s) + 1)
    BY <1>2, <1>4
  <2> QED BY <1>1, <1>2, <1>3, <1>4, <2>1 DEF Sorted
<1> QED BY <1>2, <1>4 DEF Sorted

LEMMA SortedTail ==
  ASSUME NEW s \in Seq(Commit), s # <<>>, Sorted(s)
  PROVE  Sorted(Tail(s)) /\ \A e \in Entries(Tail(s)) : Head(s).id < e[1]
<1>1. /\ Tail(s) \in Seq(Commit) /\ Len(Tail(s)) = Len(s) - 1 /\ Len(s) \in Nat \ {0}
      /\ \A i \in 1 .. Len(Tail(s)) : Tail(s)[i] = s[i + 1]
      /\ Head(s) = s[1]
  BY TailFacts
<1>2. DOMAIN s = 1 .. Len(s) /\ DOMAIN Tail(s) = 1 .. Len(s) - 1
  BY <1>1
<1>3. \A i \in 1 .. Len(s) - 1 : i + 1 \in 1 .. Len(s) /\ 1 < i + 1
  BY <1>1
<1>4. 1 \in 1 .. Len(s) /\ \A i \in 1 .. Len(s) - 1 : Tail(s)[i] = s[i + 1]
  BY <1>1
<1>5. \A i \in 1 .. Len(s) - 1 : Head(s).id < Tail(s)[i].id
  BY <1>1, <1>2, <1>3, <1>4 DEF Sorted
<1>6. \A i, j \in 1 .. Len(s) - 1 : i < j => Tail(s)[i].id < Tail(s)[j].id
  <2>1. \A i, j \in 1 .. Len(s) - 1 : i < j => i + 1 < j + 1
    BY <1>1
  <2> QED BY <1>2, <1>3, <1>4, <2>1 DEF Sorted
<1> QED BY <1>2, <1>5, <1>6 DEF Sorted, Entries, Entry

LEMMA SortedCounted ==
  ASSUME NEW s \in Seq(Commit), s # <<>>, Sorted(s)
  PROVE  Sorted([s EXCEPT ![1] = Counted(@)])
<1> DEFINE t == [s EXCEPT ![1] = Counted(@)]
<1>1. DOMAIN t = DOMAIN s /\ \A i \in DOMAIN s : t[i].id = s[i].id
  BY CountedHead
<1> HIDE DEF t
<1> QED BY <1>1 DEF Sorted, t

-----------------------------------------------------------------------------
(* What the steps do to the entries of the queue and of the stash.          *)

\* A local write puts a commit behind the queue that is younger than all.
LEMMA PersistOrder ==
  ASSUME TypeOK, NumberInv, NEW puts \in SUBSET Messages, NEW deletes \in SUBSET Messages,
         Persist(puts, deletes)
  PROVE  /\ Queue' = Queue \cup {<<writes + 1, puts \cup deletes, deletes>>}
         /\ Stash' = Stash /\ Sorted(pending')
         /\ writes' = writes + 1 /\ newest' = Mark(newest, puts \cup deletes, writes + 1)
         /\ local' = [m \in Messages |-> IF m \in deletes THEN Absent
                                         ELSE IF m \in puts THEN writes + 1 ELSE local[m]]
         /\ UNCHANGED <<author, stored, stashed, db, fully, announced, refresh>>
<1> DEFINE c == NewCommit(puts, deletes)
<1>1. /\ pending' = Append(pending, c) /\ local' = Apply(c, local)
      /\ newest' = Mark(newest, Rows(c), c.id) /\ writes' = writes + 1
      /\ UNCHANGED <<author, stored, stashed, db, fully, announced, refresh, dropped, retries>>
  BY DEF Persist, NewCommit, NextWrite
<1>2. c \in Commit /\ pending \in Seq(Commit)
  BY DEF NewCommit, Commit, TypeOK
<1>3. c.id = writes + 1 /\ c.puts = puts /\ c.deletes = deletes
  BY DEF NewCommit
<1> HIDE DEF c
<1>4. Rows(c) = puts \cup deletes /\ Entry(c) = <<writes + 1, puts \cup deletes, deletes>>
  BY <1>3 DEF Entry, Rows
<1>5. Queue' = Queue \cup {Entry(c)}
  BY <1>1, <1>2, EntriesAppend DEF Queue
<1>6. \A e \in Entries(pending) : e[1] < c.id
  BY <1>3 DEF NumberInv, Queue, TypeOK
<1>7. Sorted(pending')
  BY <1>1, <1>2, <1>6, SortedAppend DEF NumberInv
<1>8. Stash' = Stash
  BY <1>1 DEF Stash
<1> QED BY <1>1, <1>3, <1>4, <1>5, <1>7, <1>8 DEF Apply

\* What an attempt does to the rows, given the entry of its commit.
Writes(e) ==
  /\ db' = [m \in Messages |-> IF m \in e[3] THEN Absent
                               ELSE IF m \in e[2] THEN e[1] ELSE db[m]]
  /\ author' = Mark(author, e[2], e[1])
  /\ stored' = stored \cup {e[1]}

LEMMA AttemptOrder ==
  ASSUME NEW c, NEW reported \in BOOLEAN, NEW applied \in BOOLEAN,
         Attempt(c, reported, applied)
  PROVE  /\ Writes(Entry(c)) \/ (~reported /\ UNCHANGED <<db, author, stored>>)
         /\ UNCHANGED <<writes, newest>>
<1>1. Entry(c)[1] = c.id /\ Entry(c)[2] = Rows(c) /\ Entry(c)[3] = c.deletes
  BY DEF Entry
<1>2. Apply(c, db) = [m \in Messages |-> IF m \in Entry(c)[3] THEN Absent
                        ELSE IF m \in Entry(c)[2] THEN Entry(c)[1] ELSE db[m]]
  BY <1>1 DEF Apply, Rows
<1> QED BY <1>1, <1>2 DEF Attempt, Writes

\* A retry of a stashed commit.
LEMMA RetryOrder ==
  ASSUME TypeOK, NEW reported \in BOOLEAN, NEW applied \in BOOLEAN,
         RetryStashed(reported, applied)
  PROVE  /\ Queue' = Queue /\ pending' = pending
         /\ \E e \in Stash :
              \/ Writes(e) /\ Stash' \subseteq Stash /\ Stash \subseteq Stash' \cup {e}
              \/ UNCHANGED <<db, author, stored>> /\ Stash' = Stash
         /\ UNCHANGED <<writes, newest, stashed, views>>
<1> DEFINE c == Head(retries)
<1>1. c \in Commit /\ retries # <<>> /\ retries \in Seq(Commit) /\ dropped \in Seq(Commit)
  BY HeadFacts DEF RetryStashed, TypeOK
<1>2. Entries(retries) = Entries(Tail(retries)) \cup {Entry(c)}
  BY <1>1, EntriesTail
<1>3. Entries(Append(dropped, c)) = Entries(dropped) \cup {Entry(c)}
  BY <1>1, EntriesAppend
<1>4. /\ retries' = Tail(retries) /\ pending' = pending
      /\ dropped' = (IF reported THEN dropped ELSE Append(dropped, c))
      /\ Attempt(c, reported, applied) /\ UNCHANGED <<stashed, views>>
  BY DEF RetryStashed
<1>5. /\ Writes(Entry(c)) \/ (~reported /\ UNCHANGED <<db, author, stored>>)
      /\ UNCHANGED <<writes, newest>>
  BY <1>4, AttemptOrder
<1> HIDE DEF c
<1>6. Stash' \subseteq Stash /\ Stash \subseteq Stash' \cup {Entry(c)} /\ (~reported => Stash' = Stash)
  <2>1. Entries(retries') = Entries(Tail(retries))
    BY <1>4
  <2>2. Entries(dropped') = IF reported THEN Entries(dropped) ELSE Entries(dropped) \cup {Entry(c)}
    BY <1>3, <1>4
  <2> QED BY <1>2, <2>1, <2>2 DEF Stash
<1>7. Entry(c) \in Stash
  BY <1>2 DEF Stash
<1>8. Queue' = Queue
  BY <1>4 DEF Queue
<1>9. CASE Writes(Entry(c))
  BY <1>4, <1>5, <1>6, <1>7, <1>8, <1>9
<1>10. CASE ~reported /\ UNCHANGED <<db, author, stored>>
  BY <1>4, <1>5, <1>6, <1>7, <1>8, <1>10
<1> QED BY <1>5, <1>9, <1>10

\* A commit of the head, which is older than what waits behind it.
LEMMA HeadOrder ==
  ASSUME TypeOK, NumberInv, NEW reported \in BOOLEAN, NEW applied \in BOOLEAN,
         CommitHead(reported, applied)
  PROVE  \E e \in Queue :
           /\ Writes(e) \/ UNCHANGED <<db, author, stored>>
           /\ Sorted(pending') /\ UNCHANGED <<writes, newest, views>>
           /\ \/ /\ Writes(e) /\ Queue = Queue' \cup {e} /\ \A x \in Queue' : e[1] < x[1]
                 /\ Stash' = Stash /\ stashed' = stashed
              \/ Queue' = Queue /\ Stash' = Stash /\ stashed' = stashed
              \/ /\ Queue = Queue' \cup {e} /\ \A x \in Queue' : e[1] < x[1]
                 /\ Stash' = Stash \cup {e} /\ stashed' = stashed \cup {e[1]}
<1> DEFINE c == Head(pending)
           d == [c EXCEPT !.attempts = 0]
           t == [pending EXCEPT ![1] = Counted(@)]
<1>1. /\ c \in Commit /\ pending # <<>> /\ pending \in Seq(Commit) /\ dropped \in Seq(Commit)
  BY HeadFacts DEF CommitHead, TypeOK
<1>2. Entries(pending) = Entries(Tail(pending)) \cup {Entry(c)}
  BY <1>1, EntriesTail
<1>3. /\ Sorted(Tail(pending)) /\ \A e \in Entries(Tail(pending)) : c.id < e[1]
  BY <1>1, SortedTail DEF NumberInv
<1>4. d \in Commit /\ Entry(d) = Entry(c)
  BY <1>1, CommitFacts
<1>5. Entries(t) = Entries(pending) /\ Sorted(t)
  BY <1>1, CountedHead, SortedCounted DEF NumberInv
<1>6. /\ retries' = retries /\ Attempt(c, reported, applied) /\ UNCHANGED views
      /\ \/ reported /\ HeadStored
         \/ ~reported /\ HeadFails
         \/ ~reported /\ HeadStashed
  BY DEF CommitHead
<1>7. /\ Writes(Entry(c)) \/ (~reported /\ UNCHANGED <<db, author, stored>>)
      /\ UNCHANGED <<writes, newest>>
  BY <1>6, AttemptOrder
<1>8. HeadStored => pending' = Tail(pending) /\ dropped' = dropped /\ stashed' = stashed
  BY DEF HeadStored
<1>9. HeadFails => pending' = t /\ dropped' = dropped /\ stashed' = stashed
  BY DEF HeadFails
<1>10. HeadStashed => /\ pending' = Tail(pending) /\ dropped' = Append(dropped, d)
                      /\ stashed' = stashed \cup {c.id}
  BY DEF HeadStashed
<1>11. Entry(c)[1] = c.id /\ Entry(c) \in Queue
  BY <1>2 DEF Entry, Queue
<1> HIDE DEF c, d, t
<1>12. Entries(Append(dropped, d)) = Entries(dropped) \cup {Entry(c)}
  BY <1>1, <1>4, EntriesAppend, Zenon
<1>13. CASE reported /\ HeadStored
  <2>1. Queue = Queue' \cup {Entry(c)} /\ (\A x \in Queue' : c.id < x[1]) /\ Sorted(pending')
    BY <1>2, <1>3, <1>8, <1>13 DEF Queue
  <2>2. Stash' = Stash
    BY <1>6, <1>8, <1>13 DEF Stash
  <2> QED BY <1>6, <1>7, <1>8, <1>11, <1>13, <2>1, <2>2
<1>14. CASE ~reported /\ HeadFails
  <2>1. Queue = Queue' /\ Sorted(pending')
    BY <1>5, <1>9, <1>14 DEF Queue
  <2>2. Stash' = Stash
    BY <1>6, <1>9, <1>14 DEF Stash
  <2> QED BY <1>6, <1>7, <1>9, <1>11, <1>14, <2>1, <2>2
<1>15. CASE ~reported /\ HeadStashed
  <2>1. Queue = Queue' \cup {Entry(c)} /\ (\A x \in Queue' : c.id < x[1]) /\ Sorted(pending')
    BY <1>2, <1>3, <1>10, <1>15 DEF Queue
  <2>2. Stash' = Stash \cup {Entry(c)}
    BY <1>6, <1>10, <1>12, <1>15 DEF Stash
  <2> QED BY <1>6, <1>7, <1>10, <1>11, <1>15, <2>1, <2>2
<1> QED BY <1>6, <1>13, <1>14, <1>15

\* A drain takes the stash with it; the other steps leave both alone.
LEMMA StartOrder ==
  ASSUME TypeOK, StartDrain
  PROVE  /\ Stash' = Stash /\ Queue' = Queue /\ pending' = pending
         /\ UNCHANGED <<db, writes, newest, author, stored, stashed, views>>
<1>1. retries = <<>> /\ retries' = dropped /\ dropped' = <<>> /\ pending' = pending
      /\ UNCHANGED <<db, writes, newest, author, stored, stashed, views>>
  BY DEF StartDrain, TypeOK, counters, history
<1>2. Stash' = Stash
  BY <1>1, IdsOf DEF Stash
<1> QED BY <1>1, <1>2 DEF Queue

-----------------------------------------------------------------------------
(* OrderInv is inductive.                                                   *)

LEMMA EntryTypes ==
  ASSUME TypeOK
  PROVE  \A e \in Queue \cup Stash : e[1] \in Nat /\ e[2] \subseteq Messages /\ e[3] \subseteq e[2]
<1>1. pending \in Seq(Commit) /\ dropped \in Seq(Commit) /\ retries \in Seq(Commit)
  BY DEF TypeOK
<1> QED BY <1>1, EntryFacts DEF Queue, Stash

LEMMA InitOrder == Init => OrderInv
<1>1. ASSUME Init PROVE OrderInv
  <2>1. Queue = {} /\ Stash = {}
    BY <1>1, IdsOf DEF Init, Queue, Stash
  <2>2. Numbers(Queue) = {} /\ Numbers(Stash) = {} /\ Numbers(Queue \cup Stash) = {}
    BY <2>1 DEF Numbers
  <2>3. Sorted(pending)
    BY <1>1 DEF Init, Sorted
  <2> QED BY <1>1, <2>1, <2>2, <2>3 DEF Init, OrderInv, NumberInv, StashInv, NewestInv, AuthorInv
<1> QED BY <1>1

\* A step that leaves the commits and what they have written alone.
LEMMA ElseOrder ==
  ASSUME OrderInv, UNCHANGED <<pending, Queue, Stash, writes, newest, author, stored, stashed>>
  PROVE  OrderInv'
BY DEF OrderInv, NumberInv, StashInv, NewestInv, AuthorInv

LEMMA PersistKeepsOrder ==
  ASSUME TypeOK, OrderInv, NEW puts \in SUBSET Messages, NEW deletes \in SUBSET Messages,
         Persist(puts, deletes)
  PROVE  OrderInv'
<1> DEFINE n == writes + 1
           S == puts \cup deletes
           new == <<n, S, deletes>>
<1>1. /\ Queue' = Queue \cup {new} /\ Stash' = Stash /\ Sorted(pending')
      /\ writes' = n /\ newest' = Mark(newest, S, n)
      /\ UNCHANGED <<author, stored, stashed>>
  BY PersistOrder DEF OrderInv
<1>2. writes \in Nat /\ newest \in [Messages -> Nat] /\ author \in [Messages -> Nat]
  BY DEF TypeOK
<1>3. new[1] = n /\ new[2] = S /\ S \subseteq Messages
  OBVIOUS
<1>4. \A m \in Messages : newest'[m] = IF m \in S THEN n ELSE newest[m]
  BY <1>1 DEF Mark
<1>5. \A e \in Queue \cup Stash : e[1] \in 2 .. writes /\ e[1] # n
  BY <1>2 DEF OrderInv, NumberInv
<1>6. n \notin stashed /\ \A m \in Messages : author[m] # n /\ newest[m] # n
  BY <1>2 DEF OrderInv, NumberInv
<1> HIDE DEF n, new, S
<1>7. Numbers(Queue') = Numbers(Queue) \cup {n}
  BY <1>1, <1>3 DEF Numbers
<1>8. NumberInv'
  <2>1. writes >= 1 /\ n = writes + 1
    BY <1>2 DEF n, OrderInv, NumberInv
  <2> QED BY <1>1, <1>2, <1>3, <1>4, <1>5, <2>1 DEF OrderInv, NumberInv
<1>9. StashInv'
  BY <1>1, <1>6, <1>7 DEF OrderInv, StashInv
<1>10. NewestInv'
  <2>1. ASSUME NEW m \in Messages, NEW e \in Queue' \cup Stash', e[1] = newest'[m]
        PROVE  m \in e[2]
    BY <1>1, <1>3, <1>4, <1>5, <1>6, <2>1 DEF OrderInv, NewestInv
  <2>2. ASSUME NEW m \in Messages, NEW e \in Queue', m \in e[2]
        PROVE  e[1] <= newest'[m] /\ newest'[m] \in Numbers(Queue')
    <3>1. CASE m \in S
      <4>1. newest'[m] = n /\ n \in Numbers(Queue')
        BY <1>4, <1>7, <3>1
      <4>2. e[1] \in 2 .. writes \/ e[1] = n
        BY <1>1, <1>3, <1>5
      <4>3. e[1] <= n
        BY <1>2, <4>2 DEF n
      <4> QED BY <4>1, <4>3
    <3>2. CASE m \notin S
      BY <1>1, <1>3, <1>4, <1>7, <2>2, <3>2 DEF OrderInv, NewestInv
    <3> QED BY <3>1, <3>2
  <2> QED BY <2>1, <2>2 DEF NewestInv
<1>11. AuthorInv'
  BY <1>1, <1>3, <1>4, <1>6, <1>7 DEF OrderInv, AuthorInv, Numbers
<1> QED BY <1>8, <1>9, <1>10, <1>11 DEF OrderInv

\* A commit out of the stash, which is known as one that was stashed.
LEMMA RetryKeepsOrder ==
  ASSUME TypeOK, OrderInv, NEW reported \in BOOLEAN, NEW applied \in BOOLEAN,
         RetryStashed(reported, applied)
  PROVE  OrderInv'
<1>1. PICK e \in Stash :
        \/ Writes(e) /\ Stash' \subseteq Stash /\ Stash \subseteq Stash' \cup {e}
        \/ UNCHANGED <<db, author, stored>> /\ Stash' = Stash
  BY RetryOrder
<1>2. Queue' = Queue /\ pending' = pending /\ UNCHANGED <<writes, newest, stashed>>
  BY RetryOrder
<1>3. CASE UNCHANGED <<db, author, stored>> /\ Stash' = Stash
  BY <1>2, <1>3, ElseOrder
<1>4. CASE Writes(e) /\ Stash' \subseteq Stash /\ Stash \subseteq Stash' \cup {e}
  <2>1. /\ \A m \in Messages : author'[m] = IF m \in e[2] THEN e[1] ELSE author[m]
        /\ stored' = stored \cup {e[1]}
    BY <1>4 DEF Writes, Mark
  <2>2. e[1] \in stashed /\ e[1] \in 2 .. writes /\ e[1] \notin Numbers(Queue)
    BY DEF OrderInv, StashInv, NumberInv, Numbers
  <2>3. writes \in Nat
    BY DEF TypeOK
  <2>4. NumberInv'
    BY <1>2, <1>4, <2>1, <2>2, <2>3 DEF OrderInv, NumberInv
  <2>5. StashInv'
    BY <1>2, <1>4 DEF OrderInv, StashInv, Numbers
  <2>6. NewestInv'
    BY <1>2, <1>4 DEF OrderInv, NewestInv
  <2>7. \A m \in Messages :
          newest[m] \in Numbers(Queue \cup Stash) =>
            newest[m] \in Numbers(Queue \cup Stash') \/ newest[m] = e[1]
    BY <1>4 DEF Numbers
  <2>8. \A m \in Messages : newest[m] = e[1] => m \in e[2]
    BY DEF OrderInv, NewestInv
  <2>9. AuthorInv'
    BY <1>2, <2>1, <2>2, <2>7, <2>8 DEF OrderInv, AuthorInv
  <2> QED BY <2>4, <2>5, <2>6, <2>9 DEF OrderInv
<1> QED BY <1>1, <1>3, <1>4

\* The head of the queue.  Nothing older waits, so a newer write of the same
\* message still does.
LEMMA HeadKeepsOrder ==
  ASSUME TypeOK, OrderInv, NEW reported \in BOOLEAN, NEW applied \in BOOLEAN,
         CommitHead(reported, applied)
  PROVE  OrderInv'
<1>1. PICK e \in Queue :
        /\ Writes(e) \/ UNCHANGED <<db, author, stored>>
        /\ Sorted(pending') /\ UNCHANGED <<writes, newest, views>>
        /\ \/ /\ Writes(e) /\ Queue = Queue' \cup {e} /\ \A x \in Queue' : e[1] < x[1]
              /\ Stash' = Stash /\ stashed' = stashed
           \/ Queue' = Queue /\ Stash' = Stash /\ stashed' = stashed
           \/ /\ Queue = Queue' \cup {e} /\ \A x \in Queue' : e[1] < x[1]
              /\ Stash' = Stash \cup {e} /\ stashed' = stashed \cup {e[1]}
  BY HeadOrder DEF OrderInv
<1>2. /\ writes \in Nat /\ e[1] \in 2 .. writes /\ e[1] \in Nat
      /\ \A m \in Messages : newest[m] \in Nat
      /\ \A x \in Queue : x[1] \in Nat
  BY EntryTypes DEF OrderInv, NumberInv, TypeOK
<1>3. /\ \A m \in Messages : author'[m] = author[m] \/ (author'[m] = e[1] /\ m \in e[2])
      /\ \A m \in Messages : author'[m] = e[1] => e[1] \in stored'
      /\ stored \subseteq stored' /\ stored' \subseteq stored \cup {e[1]}
      /\ \A m \in Messages : Writes(e) /\ m \in e[2] => author'[m] = e[1]
  <2>1. CASE Writes(e)
    BY <2>1 DEF Writes, Mark
  <2>2. CASE UNCHANGED <<db, author, stored>> /\ ~Writes(e)
    <3>1. \A m \in Messages : author[m] = e[1] => e[1] \in stored
      BY DEF OrderInv, AuthorInv, Numbers
    <3> QED BY <2>2, <3>1
  <2> QED BY <1>1, <2>1, <2>2
<1>4. /\ writes' = writes /\ newest' = newest /\ Sorted(pending')
      /\ stashed \subseteq stashed' /\ stashed' \subseteq stashed \cup {e[1]}
      /\ Queue' \subseteq Queue /\ Queue \subseteq Queue' \cup {e}
      /\ Stash' \subseteq Stash \cup {e} /\ Stash \subseteq Stash'
  BY <1>1
<1>5. NumberInv'
  BY <1>2, <1>3, <1>4 DEF OrderInv, NumberInv
<1>6. StashInv'
  <2>1. CASE stashed' = stashed /\ Stash' = Stash
    BY <1>4, <2>1 DEF OrderInv, StashInv, Numbers
  <2>2. CASE /\ \A x \in Queue' : e[1] < x[1]
             /\ Stash' = Stash \cup {e} /\ stashed' = stashed \cup {e[1]}
    <3>1. e[1] \notin Numbers(Queue')
      BY <1>2, <2>2 DEF Numbers
    <3> QED BY <1>4, <2>2, <3>1 DEF OrderInv, StashInv, Numbers
  <2> QED BY <1>1, <2>1, <2>2
\* A message whose newest write waits still has it in the queue, unless
\* that is the one at the head.
<1>7. ASSUME NEW m \in Messages, newest[m] \in Numbers(Queue)
      PROVE  newest[m] \in Numbers(Queue') \/ newest[m] = e[1]
  BY <1>4, <1>7 DEF Numbers
<1>8. NewestInv'
  <2>1. ASSUME NEW m \in Messages, NEW x \in Queue' \cup Stash', x[1] = newest'[m]
        PROVE  m \in x[2]
    BY <1>4, <2>1 DEF OrderInv, NewestInv
  <2>2. ASSUME NEW m \in Messages, NEW x \in Queue', m \in x[2]
        PROVE  x[1] <= newest'[m] /\ newest'[m] \in Numbers(Queue')
    <3>1. x[1] <= newest[m] /\ newest[m] \in Numbers(Queue) /\ x \in Queue
      BY <1>4, <2>2 DEF OrderInv, NewestInv
    <3>2. CASE Queue' = Queue
      BY <1>4, <3>1, <3>2
    <3>3. CASE e[1] < x[1]
      BY <1>2, <1>4, <1>7, <3>1, <3>3
    <3> QED BY <1>1, <3>2, <3>3
  <2> QED BY <2>1, <2>2 DEF NewestInv
<1>9. AuthorInv'
  <2>1. ASSUME NEW m \in Messages, author'[m] \in Numbers(Queue')
        PROVE  author'[m] \in stored'
    <3>1. Numbers(Queue') \subseteq Numbers(Queue)
      BY <1>4 DEF Numbers
    <3> QED BY <1>3, <2>1, <3>1 DEF OrderInv, AuthorInv
  <2>2. ASSUME NEW m \in Messages, author'[m] \in stored' \ stashed'
        PROVE  author'[m] = newest'[m] \/ newest'[m] \in Numbers(Queue' \cup Stash')
    <3>1. CASE author'[m] = e[1] /\ m \in e[2]
      <4>1. newest[m] \in Numbers(Queue)
        BY <3>1 DEF OrderInv, NewestInv
      <4>2. newest[m] \in Numbers(Queue') \/ newest[m] = e[1]
        BY <1>7, <4>1
      <4> QED BY <1>4, <3>1, <4>2 DEF Numbers
    <3>2. CASE author'[m] = author[m] /\ ~(Writes(e) /\ m \in e[2])
      <4>1. author[m] \in stored
        <5>1. author[m] = e[1] => author[m] \in Numbers(Queue)
          BY DEF Numbers
        <5> QED BY <1>3, <2>2, <3>2, <5>1 DEF OrderInv, AuthorInv
      <4>2. author[m] = newest[m] \/ newest[m] \in Numbers(Queue \cup Stash)
        BY <1>4, <2>2, <3>2, <4>1 DEF OrderInv, AuthorInv
      <4>3. newest[m] = e[1] => m \in e[2]
        BY DEF OrderInv, NewestInv
      <4>4. Writes(e) \/ e \in Queue' \cup Stash'
        BY <1>1
      <4>5. newest[m] \in Numbers(Queue \cup Stash) /\ ~(newest[m] = e[1] /\ Writes(e))
            => newest[m] \in Numbers(Queue' \cup Stash')
        BY <1>4, <4>4 DEF Numbers
      <4> QED BY <1>4, <3>2, <4>2, <4>3, <4>5
    <3> QED BY <1>3, <3>1, <3>2
  <2> QED BY <2>1, <2>2 DEF AuthorInv
<1> QED BY <1>5, <1>6, <1>8, <1>9 DEF OrderInv

\* Another client's write has an id of its own.
LEMMA RemoteKeepsOrder ==
  ASSUME TypeOK, OrderInv, NEW m \in Messages, NEW deletes \in BOOLEAN, RemoteWrite(m, deletes)
  PROVE  OrderInv'
<1>1. /\ writes' = writes + 1 /\ writes \in Nat
      /\ author' = [author EXCEPT ![m] = writes + 1] /\ author \in [Messages -> Nat]
      /\ UNCHANGED <<pending, dropped, retries, stored, stashed, newest>>
  BY DEF RemoteWrite, NextWrite, persistence, TypeOK
<1>2. Queue' = Queue /\ Stash' = Stash
  BY <1>1 DEF Queue, Stash
<1>3. /\ writes + 1 \notin stored
      /\ writes + 1 \notin Numbers(Queue)
  BY <1>1 DEF OrderInv, NumberInv, Numbers
<1>4. NumberInv'
  BY <1>1, <1>2 DEF OrderInv, NumberInv
<1>5. StashInv' /\ NewestInv'
  BY <1>1, <1>2 DEF OrderInv, StashInv, NewestInv
<1>6. \A k \in Messages : author'[k] = author[k] \/ author'[k] = writes + 1
  BY <1>1
<1>7. AuthorInv'
  BY <1>1, <1>2, <1>3, <1>6 DEF OrderInv, AuthorInv
<1> QED BY <1>4, <1>5, <1>7 DEF OrderInv

LEMMA OrderStep == TypeOK /\ OrderInv /\ [Next]_vars => OrderInv'
<1>1. ASSUME TypeOK, OrderInv, NEW S \in SUBSET Messages, WriteMessages(S) \/ DeleteMessages(S)
      PROVE  OrderInv'
  <2>1. {} \in SUBSET Messages
    OBVIOUS
  <2> QED BY <1>1, <2>1, PersistKeepsOrder DEF WriteMessages, DeleteMessages
<1>2. ASSUME TypeOK, OrderInv, NEW reported \in BOOLEAN, NEW applied \in BOOLEAN,
             RetryStashed(reported, applied) \/ CommitHead(reported, applied)
      PROVE  OrderInv'
  BY <1>2, RetryKeepsOrder, HeadKeepsOrder
<1>3. ASSUME TypeOK, OrderInv, \E m \in Messages, deletes \in BOOLEAN : RemoteWrite(m, deletes)
      PROVE  OrderInv'
  BY <1>3, RemoteKeepsOrder
<1>4. ASSUME TypeOK, OrderInv, StartDrain
      PROVE  OrderInv'
  BY <1>4, StartOrder, ElseOrder
<1>5. ASSUME OrderInv, \/ Flush \/ PassBarrier \/ EndDrain
                      \/ ReadForRefresh \/ ApplyRefresh \/ StartFullLoad \/ ReadFull
                      \/ ApplyFull \/ Compact \/ UNCHANGED vars
      PROVE  OrderInv'
  <2>1. UNCHANGED <<pending, dropped, retries, writes, newest, author, stored, stashed>>
    BY <1>5 DEF Flush, PassBarrier, EndDrain, ReadForRefresh, ApplyRefresh, StartFullLoad,
       ReadFull, ApplyFull, Compact, vars, persistence, counters, history
  <2>2. Queue' = Queue /\ Stash' = Stash
    BY <2>1 DEF Queue, Stash
  <2> QED BY <1>5, <2>1, <2>2, ElseOrder
<1> QED BY <1>1, <1>2, <1>3, <1>4, <1>5 DEF Next

LEMMA OrderInvariant == Spec => [](TypeOK /\ OrderInv)
BY TypeCorrect, InitOrder, OrderStep, PTL DEF Spec

\* Once nothing is held back, what the page wrote last of a message is what
\* the database got last from it: failed attempts and lost answers never put
\* an older commit over a newer one, unless the older one was in the stash.
THEOREM NewestWins == Spec => []NewestStands
<1>1. TypeOK /\ OrderInv => NewestStands
  <2>1. ASSUME TypeOK, OrderInv, AtRest, NEW m \in Messages, author[m] \in stored \ stashed
        PROVE  author[m] = newest[m]
    <3>1. pending = <<>> /\ dropped = <<>> /\ retries = <<>>
      BY <2>1 DEF AtRest, hasUnsavedWrites, hasPendingWrites
    <3>2. Queue \cup Stash = {}
      BY <3>1, IdsOf DEF Queue, Stash
    <3>3. newest[m] \notin Numbers(Queue \cup Stash)
      BY <3>2 DEF Numbers
    <3> QED BY <2>1, <3>3 DEF OrderInv, AuthorInv
  <2> QED BY <2>1 DEF NewestStands
<1> QED BY <1>1, OrderInvariant, PTL

-----------------------------------------------------------------------------
(* What the chat shows.  A message no re-read overlapped with a write shows *)
(* its newest write while that waits in the queue, and otherwise what the   *)
(* database has, unless it is paged out or another client's write has still *)
(* to be fetched.                                                           *)

PagedOut(m) == m \in Older /\ ~fully /\ local[m] = Absent

\* What an entry makes of the messages it writes.
Result(e, m) == IF m \in e[3] THEN Absent ELSE e[1]

ResidentInv ==
  \A m \in Messages \ blurred : \A e \in Queue :
    e[1] = newest[m] => local[m] = Result(e, m) \/ PagedOut(m)
RefreshInv ==
  refresh # None =>
    /\ Unsaved \subseteq blurred
    /\ ~announced => \A m \in Messages \ blurred :
         \/ refresh.rows[m] = db[m]
         \/ m \in Older /\ ~refresh.fully /\ refresh.rows[m] = Absent
FullInv ==
  full # None =>
    /\ fully => Messages \subseteq blurred
    /\ full.detached => \A m \in Messages \ blurred : full.base[m] = local[m]
    /\ full.phase = "read" => \A m \in Messages \ blurred :
         local[m] = Absent =>
           m \notin Unsaved /\ (~announced /\ refresh = None => full.rows[m] = db[m])
ShownInv ==
  ~announced /\ refresh = None =>
    \A m \in Messages \ blurred :
      m \notin Unsaved /\ author[m] \notin stashed => local[m] = db[m] \/ PagedOut(m)

ViewInv == ResidentInv /\ RefreshInv /\ FullInv /\ ShownInv

LEMMA TouchedWritten ==
  ASSUME NEW s
  PROVE  Touched(s) = Written(Entries(s))
<1>1. \A i \in DOMAIN s : Entry(s[i])[2] = Rows(s[i])
  BY DEF Entry
<1> QED BY <1>1 DEF Touched, Written, Entries

LEMMA UnsavedWritten == Unsaved = Written(Queue \cup Stash)
<1>1. /\ Touched(pending) = Written(Queue) /\ Touched(dropped) = Written(Entries(dropped))
      /\ Touched(retries) = Written(Entries(retries))
  BY TouchedWritten DEF Queue
<1> QED BY <1>1 DEF Unsaved, Stash, Written

LEMMA UnsavedWrittenNext == Unsaved' = Written(Queue' \cup Stash')
<1>1. /\ Touched(pending') = Written(Queue') /\ Touched(dropped') = Written(Entries(dropped'))
      /\ Touched(retries') = Written(Entries(retries'))
  BY TouchedWritten DEF Queue
<1> QED BY <1>1 DEF Unsaved, Stash, Written

LEMMA InitView == Init => ViewInv
<1>1. ASSUME Init PROVE ViewInv
  <2>1. Queue = {}
    BY <1>1, IdsOf DEF Init, Queue
  <2>2. \A m \in Messages : local[m] = db[m] \/ PagedOut(m)
    BY <1>1 DEF Init, Page, PagedOut, Content
  <2> QED BY <1>1, <2>1, <2>2 DEF Init, ViewInv, ResidentInv, RefreshInv, FullInv, ShownInv
<1> QED BY <1>1

\* A local write.  What it does to a full load and to the messages a re-read
\* overlapped is stated by the operations.
LEMMA PersistKeepsView ==
  ASSUME TypeOK, OrderInv, ViewInv,
         NEW puts \in SUBSET Messages, NEW deletes \in SUBSET Messages,
         Persist(puts, deletes), blurred \subseteq blurred',
         refresh # None => puts \cup deletes \subseteq blurred'
  PROVE  /\ ResidentInv' /\ RefreshInv' /\ ShownInv'
         /\ \A m \in Messages :
              /\ m \notin puts \cup deletes => local'[m] = local[m]
              /\ m \in puts \ deletes => local'[m] # Absent
         /\ Unsaved' = Unsaved \cup puts \cup deletes
<1> DEFINE n == writes + 1
           S == puts \cup deletes
           new == <<n, S, deletes>>
<1>1. /\ Queue' = Queue \cup {new} /\ Stash' = Stash
      /\ newest' = Mark(newest, S, n)
      /\ local' = [m \in Messages |-> IF m \in deletes THEN Absent
                                      ELSE IF m \in puts THEN n ELSE local[m]]
      /\ UNCHANGED <<author, stored, stashed, db, fully, announced, refresh>>
  BY PersistOrder DEF OrderInv
<1>2. new[1] = n /\ new[2] = S /\ new[3] = deletes /\ n # Absent
  BY DEF TypeOK, Absent
<1>3. \A m \in Messages : newest'[m] = IF m \in S THEN n ELSE newest[m]
  BY <1>1 DEF Mark
<1>4. /\ \A e \in Queue : e[1] # n
      /\ \A m \in Messages : newest[m] # n
  BY DEF OrderInv, NumberInv, TypeOK
<1>5. \A m \in Messages : m \notin S => local'[m] = local[m]
  BY <1>1
<1>6. \A m \in S : local'[m] = Result(new, m)
  BY <1>1, <1>2 DEF Result
<1>7. Unsaved' = Unsaved \cup S
  <2>1. Written(Queue' \cup Stash') = Written(Queue \cup Stash) \cup S
    BY <1>1, <1>2 DEF Written
  <2> QED BY <2>1, UnsavedWritten, UnsavedWrittenNext
<1>8. \A m \in puts \ deletes : local'[m] # Absent
  BY <1>1, <1>2
<1> HIDE DEF n, S, new
<1>9. ResidentInv'
  <2>1. ASSUME NEW m \in Messages \ blurred', NEW e \in Queue', e[1] = newest'[m]
        PROVE  local'[m] = Result(e, m) \/ PagedOut(m)'
    <3>1. CASE m \in S
      BY <1>1, <1>2, <1>3, <1>4, <1>6, <2>1, <3>1
    <3>2. CASE m \notin S
      <4>1. e \in Queue /\ e[1] = newest[m]
        BY <1>1, <1>2, <1>3, <1>4, <2>1, <3>2
      <4> QED BY <1>1, <1>5, <3>2, <4>1 DEF ViewInv, ResidentInv, PagedOut
    <3> QED BY <3>1, <3>2
  <2> QED BY <2>1 DEF ResidentInv, Result
<1>10. RefreshInv'
  BY <1>1, <1>7 DEF ViewInv, RefreshInv, S
<1>11. ShownInv'
  BY <1>1, <1>5, <1>7 DEF ViewInv, ShownInv, PagedOut
<1> QED BY <1>5, <1>7, <1>8, <1>9, <1>10, <1>11 DEF S

LEMMA WriteKeepsView ==
  ASSUME TypeOK, OrderInv, ViewInv, NEW S \in SUBSET Messages, WriteMessages(S)
  PROVE  ViewInv'
<1>1. /\ Persist(S, {}) /\ full' = full
      /\ blurred' = blurred \cup Overlapping(S)
                            \cup (IF full # None /\ full.detached THEN S ELSE {})
  BY DEF WriteMessages
<1>2. blurred \subseteq blurred' /\ (refresh # None => S \cup {} \subseteq blurred')
  BY <1>1 DEF Overlapping
<1>3. /\ ResidentInv' /\ RefreshInv' /\ ShownInv'
      /\ \A m \in Messages : (m \notin S => local'[m] = local[m])
                             /\ (m \in S => local'[m] # Absent)
      /\ Unsaved' = Unsaved \cup S
  BY <1>1, <1>2, PersistKeepsView
<1>4. UNCHANGED <<fully, db, announced, refresh>>
  BY <1>1 DEF Persist
<1>5. FullInv'
  BY <1>1, <1>3, <1>4 DEF ViewInv, FullInv
<1> QED BY <1>3, <1>5 DEF ViewInv

LEMMA DeleteKeepsView ==
  ASSUME TypeOK, OrderInv, ViewInv, NEW S \in SUBSET Messages, DeleteMessages(S)
  PROVE  ViewInv'
<1>1. /\ Persist({}, S) /\ Detach
      /\ blurred' = blurred \cup Overlapping(S) \cup LeftBehind(S)
  BY DEF DeleteMessages
<1>2. blurred \subseteq blurred' /\ (refresh # None => {} \cup S \subseteq blurred')
  BY <1>1 DEF Overlapping
<1>3. /\ ResidentInv' /\ RefreshInv' /\ ShownInv'
      /\ \A m \in Messages : m \notin S => local'[m] = local[m]
      /\ Unsaved' = Unsaved \cup S
  BY <1>1, <1>2, PersistKeepsView
<1>4. UNCHANGED <<fully, db, announced, refresh>>
  BY <1>1 DEF Persist
<1>5. ASSUME full # None
      PROVE  /\ full' # None => /\ full'.phase = full.phase /\ full'.rows = full.rows
                                /\ \A m \in Messages \ blurred : full'.base[m] = local[m]
             /\ S \subseteq blurred'
  BY <1>1, <1>5 DEF Detach, LeftBehind, ViewInv, FullInv, TypeOK, FullLoad
<1>6. full = None => full' = None
  BY <1>1 DEF Detach
<1>7. FullInv'
  BY <1>2, <1>3, <1>4, <1>5, <1>6 DEF ViewInv, FullInv
<1> QED BY <1>3, <1>7 DEF ViewInv

\* A step of the chain: rows change only where a write was held back.
LEMMA ChainKeepsView ==
  ASSUME ViewInv, UNCHANGED <<views, newest>>, Queue' \subseteq Queue, Unsaved' \subseteq Unsaved,
         stashed \subseteq stashed',
         \A m \in Messages \ Unsaved : db'[m] = db[m] /\ author'[m] = author[m],
         \A m \in Unsaved \ Unsaved' :
            author'[m] \in stashed' \/ m \in blurred \/ local[m] = db'[m] \/ PagedOut(m)
  PROVE  ViewInv'
<1>1. UNCHANGED <<local, fully, announced, refresh, full, blurred>>
  BY DEF views
<1>2. ResidentInv'
  BY <1>1 DEF ViewInv, ResidentInv, PagedOut
<1>3. RefreshInv'
  BY <1>1 DEF ViewInv, RefreshInv
<1>4. FullInv'
  BY <1>1 DEF ViewInv, FullInv
<1>5. ShownInv'
  BY <1>1 DEF ViewInv, ShownInv, PagedOut
<1> QED BY <1>2, <1>3, <1>4, <1>5 DEF ViewInv

LEMMA RetryKeepsView ==
  ASSUME TypeOK, OrderInv, ViewInv, NEW reported \in BOOLEAN, NEW applied \in BOOLEAN,
         RetryStashed(reported, applied)
  PROVE  ViewInv'
<1>1. PICK e \in Stash :
        \/ Writes(e) /\ Stash' \subseteq Stash /\ Stash \subseteq Stash' \cup {e}
        \/ UNCHANGED <<db, author, stored>> /\ Stash' = Stash
  BY RetryOrder
<1>2. Queue' = Queue /\ UNCHANGED <<newest, stashed, views>>
  BY RetryOrder
<1>3. e[1] \in stashed /\ e[2] \subseteq Unsaved /\ e[2] \subseteq Messages /\ e[3] \subseteq e[2]
  BY EntryTypes, UnsavedWritten DEF OrderInv, StashInv, Numbers, Written
<1>4. Unsaved' \subseteq Unsaved /\ Unsaved \subseteq Unsaved' \cup e[2]
  <2>1. Stash' \subseteq Stash /\ Stash \subseteq Stash' \cup {e}
    BY <1>1
  <2>2. /\ Written(Queue' \cup Stash') \subseteq Written(Queue \cup Stash)
        /\ Written(Queue \cup Stash) \subseteq Written(Queue' \cup Stash') \cup e[2]
    BY <1>2, <2>1 DEF Written
  <2> QED BY <2>2, UnsavedWritten, UnsavedWrittenNext
<1>5. CASE Writes(e)
  <2>1. \A m \in Messages \ Unsaved : db'[m] = db[m] /\ author'[m] = author[m]
    BY <1>3, <1>5 DEF Writes, Mark, TypeOK, Content
  <2>2. \A m \in e[2] : author'[m] = e[1]
    BY <1>3, <1>5 DEF Writes, Mark
  <2> QED BY <1>2, <1>3, <1>4, <2>1, <2>2, ChainKeepsView
<1>6. CASE UNCHANGED <<db, author, stored>> /\ Stash' = Stash
  <2>1. Unsaved' = Unsaved
    BY <1>2, <1>6, UnsavedWritten, UnsavedWrittenNext
  <2> QED BY <1>2, <1>6, <2>1, ChainKeepsView
<1> QED BY <1>1, <1>5, <1>6

\* The head leaves the queue with its write in the database: if nothing newer
\* waits for a message it touched, that write is the newest and is shown.
LEMMA HeadKeepsView ==
  ASSUME TypeOK, OrderInv, ViewInv, NEW reported \in BOOLEAN, NEW applied \in BOOLEAN,
         CommitHead(reported, applied)
  PROVE  ViewInv'
<1>1. PICK e \in Queue :
        /\ Writes(e) \/ UNCHANGED <<db, author, stored>>
        /\ Sorted(pending') /\ UNCHANGED <<writes, newest, views>>
        /\ \/ /\ Writes(e) /\ Queue = Queue' \cup {e} /\ \A x \in Queue' : e[1] < x[1]
              /\ Stash' = Stash /\ stashed' = stashed
           \/ Queue' = Queue /\ Stash' = Stash /\ stashed' = stashed
           \/ /\ Queue = Queue' \cup {e} /\ \A x \in Queue' : e[1] < x[1]
              /\ Stash' = Stash \cup {e} /\ stashed' = stashed \cup {e[1]}
  BY HeadOrder DEF OrderInv
<1>2. e[2] \subseteq Unsaved /\ e[2] \subseteq Messages /\ e[3] \subseteq e[2]
  BY EntryTypes, UnsavedWritten DEF Written
<1>3. Queue' \subseteq Queue /\ stashed \subseteq stashed' /\ UNCHANGED <<newest, views>>
  BY <1>1
<1>4. \A m \in Messages \ Unsaved : db'[m] = db[m] /\ author'[m] = author[m]
  BY <1>1, <1>2 DEF Writes, Mark, TypeOK, Content
<1>5. CASE /\ Writes(e) /\ Queue = Queue' \cup {e} /\ \A x \in Queue' : e[1] < x[1]
           /\ Stash' = Stash
  <2>1. Unsaved' \subseteq Unsaved /\ Unsaved \subseteq Unsaved' \cup e[2]
    <3>1. /\ Written(Queue' \cup Stash') \subseteq Written(Queue \cup Stash)
          /\ Written(Queue \cup Stash) \subseteq Written(Queue' \cup Stash') \cup e[2]
      BY <1>5 DEF Written
    <3> QED BY <3>1, UnsavedWritten, UnsavedWrittenNext
  <2>2. ASSUME NEW m \in Unsaved \ Unsaved', m \notin blurred
        PROVE  local[m] = db'[m] \/ PagedOut(m)
    <3>1. m \in e[2] /\ m \in Messages
      BY <1>2, <2>1
    <3>2. PICK x \in Queue : x[1] = newest[m]
      BY <3>1 DEF OrderInv, NewestInv, Numbers
    <3>3. m \in x[2]
      BY <3>1, <3>2 DEF OrderInv, NewestInv
    <3>4. x \notin Queue'
      BY <3>3, <2>2, UnsavedWrittenNext DEF Written
    <3>5. x = e
      BY <1>5, <3>4
    <3>6. local[m] = Result(e, m) \/ PagedOut(m)
      BY <2>2, <3>1, <3>2, <3>5 DEF ViewInv, ResidentInv
    <3>7. db'[m] = Result(e, m)
      BY <1>5, <3>1 DEF Writes, Result
    <3> QED BY <3>6, <3>7
  <2> QED BY <1>3, <1>4, <2>1, <2>2, ChainKeepsView
<1>6. CASE Queue' \cup Stash' = Queue \cup Stash
  <2>1. Unsaved' = Unsaved
    BY <1>6, UnsavedWritten, UnsavedWrittenNext
  <2> QED BY <1>3, <1>4, <2>1, ChainKeepsView
<1> QED BY <1>1, <1>5, <1>6

LEMMA OtherChainKeepsView ==
  ASSUME TypeOK, ViewInv, Flush \/ PassBarrier \/ StartDrain \/ EndDrain
  PROVE  ViewInv'
<1>1. /\ Queue' = Queue /\ Stash' = Stash
      /\ UNCHANGED <<db, newest, author, stashed, views>>
  <2>1. CASE StartDrain
    BY <2>1, StartOrder
  <2>2. CASE Flush \/ PassBarrier \/ EndDrain
    <3>1. UNCHANGED <<pending, dropped, retries, db, newest, author, stashed, views>>
      BY <2>2 DEF Flush, PassBarrier, EndDrain, history
    <3> QED BY <3>1 DEF Queue, Stash
  <2> QED BY <2>1, <2>2
<1>2. Unsaved' = Unsaved
  BY <1>1, UnsavedWritten, UnsavedWrittenNext
<1> QED BY <1>1, <1>2, ChainKeepsView

\* Steps that leave the queues and the rows alone.
LEMMA SameUnsaved ==
  ASSUME UNCHANGED <<pending, dropped, retries>>
  PROVE  Queue' = Queue /\ Stash' = Stash /\ Unsaved' = Unsaved
BY DEF Queue, Stash, Unsaved

\* What waits in the queue for a message is not known to be stored.
LEMMA QueuedUnsaved ==
  ASSUME TypeOK, OrderInv, NEW m \in Messages, NEW e \in Queue, e[1] = newest[m]
  PROVE  m \in Unsaved
BY UnsavedWritten DEF OrderInv, NewestInv, Written

LEMMA RemoteKeepsView ==
  ASSUME TypeOK, ViewInv, NEW k \in Messages, NEW deletes \in BOOLEAN, RemoteWrite(k, deletes)
  PROVE  ViewInv'
<1>1. /\ announced' /\ UNCHANGED <<pending, dropped, retries>>
      /\ UNCHANGED <<local, fully, refresh, full, blurred, newest>>
  BY DEF RemoteWrite, persistence
<1>2. Queue' = Queue /\ Unsaved' = Unsaved
  BY <1>1, SameUnsaved
<1> QED BY <1>1, <1>2
    DEF ViewInv, ResidentInv, PagedOut, RefreshInv, FullInv, ShownInv

LEMMA ReadForRefreshKeepsView ==
  ASSUME TypeOK, ViewInv, ReadForRefresh
  PROVE  ViewInv'
<1>1. /\ refresh' = [phase |-> "read", fully |-> fully, rows |-> Page(db)]
      /\ blurred' = blurred \cup Unsaved
      /\ UNCHANGED <<pending, dropped, retries, local, fully, db, full, newest>>
  BY DEF ReadForRefresh, persistence, history
<1>2. Queue' = Queue /\ Unsaved' = Unsaved
  BY <1>1, SameUnsaved
<1>3. refresh' # None
  BY <1>1 DEF None
<1>4. refresh'.fully = fully /\ refresh'.rows = Page(db)
  BY <1>1
<1>5. ResidentInv'
  BY <1>1, <1>2 DEF ViewInv, ResidentInv, PagedOut
<1>6. RefreshInv'
  BY <1>1, <1>2, <1>4 DEF RefreshInv, Page
<1>7. FullInv'
  BY <1>1, <1>2, <1>3 DEF ViewInv, FullInv
<1>8. ShownInv'
  BY <1>3 DEF ShownInv
<1> QED BY <1>5, <1>6, <1>7, <1>8 DEF ViewInv

LEMMA ApplyRefreshKeepsView ==
  ASSUME TypeOK, OrderInv, ViewInv, ApplyRefresh
  PROVE  ViewInv'
<1>1. /\ refresh # None /\ refresh' = None
      /\ local' = refresh.rows /\ fully' = refresh.fully
      /\ blurred' = blurred \cup LeftBehind(Messages) /\ Detach
      /\ UNCHANGED <<pending, dropped, retries, db, announced, newest, author, stashed>>
  BY DEF ApplyRefresh, persistence, history
<1>2. Queue' = Queue /\ Unsaved' = Unsaved
  BY <1>1, SameUnsaved
<1>3. Unsaved \subseteq blurred'
  BY <1>1 DEF ViewInv, RefreshInv
<1>4. ResidentInv'
  BY <1>1, <1>2, <1>3, QueuedUnsaved DEF ResidentInv
<1>5. RefreshInv'
  BY <1>1 DEF RefreshInv
<1>6. FullInv'
  BY <1>1 DEF FullInv, Detach, LeftBehind
<1>7. ShownInv'
  BY <1>1 DEF ViewInv, RefreshInv, ShownInv, PagedOut
<1> QED BY <1>4, <1>5, <1>6, <1>7 DEF ViewInv

LEMMA StartFullLoadKeepsView ==
  ASSUME TypeOK, ViewInv, StartFullLoad
  PROVE  ViewInv'
<1>1. /\ ~fully /\ full' = [phase |-> "asked", base |-> local, detached |-> FALSE, rows |-> db]
      /\ UNCHANGED <<pending, dropped, retries, local, fully, db, announced, refresh, blurred,
                     newest, author, stashed>>
  BY DEF StartFullLoad, persistence, history
<1>2. Queue' = Queue /\ Unsaved' = Unsaved
  BY <1>1, SameUnsaved
<1>3. full'.phase = "asked" /\ full'.detached = FALSE
  BY <1>1
<1>4. FullInv'
  BY <1>1, <1>3 DEF FullInv
<1> QED BY <1>1, <1>2, <1>4 DEF ViewInv, ResidentInv, PagedOut, RefreshInv, ShownInv

\* The array a full load merges with shows what is resident.
LEMMA CurrentShown ==
  ASSUME TypeOK, ViewInv, full # None, NEW m \in Messages \ blurred
  PROVE  Current[m] = local[m]
BY DEF ViewInv, FullInv, Current

LEMMA ReadFullKeepsView ==
  ASSUME TypeOK, ViewInv, ReadFull
  PROVE  ViewInv'
<1>1. /\ full # None /\ full' = [full EXCEPT !.phase = "read", !.rows = db]
      /\ blurred' = blurred \cup {m \in Unsaved : Current[m] = Absent}
      /\ UNCHANGED <<pending, dropped, retries, local, fully, db, announced, refresh, newest,
                     author, stashed>>
  BY DEF ReadFull, persistence, history
<1>2. Queue' = Queue /\ Unsaved' = Unsaved
  BY <1>1, SameUnsaved
<1>3. /\ full'.base = full.base /\ full'.detached = full.detached /\ full'.rows = db
  BY <1>1 DEF TypeOK, FullLoad
<1>4. \A m \in Messages \ blurred' : local[m] = Absent => m \notin Unsaved
  BY <1>1, CurrentShown
<1>5. FullInv'
  BY <1>1, <1>2, <1>3, <1>4 DEF ViewInv, FullInv
<1> QED BY <1>1, <1>2, <1>5 DEF ViewInv, ResidentInv, PagedOut, RefreshInv, ShownInv

LEMMA ApplyFullKeepsView ==
  ASSUME TypeOK, OrderInv, ViewInv, ApplyFull
  PROVE  ViewInv'
<1>1. /\ full # None /\ full.phase = "read" /\ full' = None /\ fully' = TRUE
      /\ local' = MergeLoadedMessages(full.rows, Current)
      /\ UNCHANGED <<pending, dropped, retries, db, announced, refresh, blurred, newest,
                     author, stashed>>
  BY DEF ApplyFull, persistence, history
<1>2. Queue' = Queue /\ Unsaved' = Unsaved
  BY <1>1, SameUnsaved
<1>3. \A m \in Messages \ blurred :
        local'[m] = IF local[m] # Absent THEN local[m] ELSE full.rows[m]
  BY <1>1, CurrentShown DEF MergeLoadedMessages
<1>4. \A m \in Messages \ blurred :
        local[m] = Absent =>
          m \notin Unsaved /\ (~announced /\ refresh = None => full.rows[m] = db[m])
  BY <1>1 DEF ViewInv, FullInv
<1>5. ResidentInv'
  <2>1. ASSUME NEW m \in Messages \ blurred, NEW e \in Queue, e[1] = newest[m]
        PROVE  local'[m] = Result(e, m)
    <3>1. local[m] # Absent
      BY <1>4, <2>1, QueuedUnsaved
    <3> QED BY <1>3, <2>1, <3>1 DEF ViewInv, ResidentInv, PagedOut
  <2> QED BY <1>1, <1>2, <2>1 DEF ResidentInv
<1>6. RefreshInv' /\ FullInv'
  BY <1>1, <1>2 DEF ViewInv, RefreshInv, FullInv
<1>7. ShownInv'
  BY <1>1, <1>2, <1>3, <1>4 DEF ViewInv, ShownInv, PagedOut
<1> QED BY <1>5, <1>6, <1>7 DEF ViewInv

LEMMA CompactKeepsView ==
  ASSUME TypeOK, ViewInv, Compact
  PROVE  ViewInv'
<1>1. /\ fully /\ fully' = FALSE /\ Detach
      /\ local' = [m \in Messages |-> IF m \in Older THEN Absent ELSE local[m]]
      /\ UNCHANGED <<pending, dropped, retries, db, announced, refresh, blurred, newest, author,
                     stashed>>
  BY DEF Compact, persistence, history
<1>2. Queue' = Queue /\ Unsaved' = Unsaved
  BY <1>1, SameUnsaved
<1>3. \A m \in Messages : local'[m] = local[m] \/ PagedOut(m)'
  BY <1>1 DEF PagedOut
<1>4. \A m \in Messages : ~PagedOut(m)
  BY <1>1 DEF PagedOut
<1>5. ResidentInv'
  BY <1>1, <1>2, <1>3, <1>4 DEF ViewInv, ResidentInv, Result
<1>6. RefreshInv'
  BY <1>1, <1>2 DEF ViewInv, RefreshInv
<1>7. FullInv'
  BY <1>1 DEF ViewInv, FullInv, Detach
<1>8. ShownInv'
  BY <1>1, <1>2, <1>3, <1>4 DEF ViewInv, ShownInv
<1> QED BY <1>5, <1>6, <1>7, <1>8 DEF ViewInv

LEMMA StutterView == ViewInv /\ UNCHANGED vars => ViewInv'
<1>1. ASSUME ViewInv, UNCHANGED vars PROVE ViewInv'
  <2>1. UNCHANGED <<pending, dropped, retries, local, fully, db, announced, refresh, full,
                    blurred, newest, author, stashed>>
    BY <1>1 DEF vars, persistence, views, history
  <2> QED BY <1>1, <2>1, SameUnsaved
      DEF ViewInv, ResidentInv, PagedOut, RefreshInv, FullInv, ShownInv
<1> QED BY <1>1

LEMMA ViewStep == TypeOK /\ OrderInv /\ ViewInv /\ [Next]_vars => ViewInv'
<1>1. ASSUME TypeOK, OrderInv, ViewInv, NEW S \in SUBSET Messages,
             WriteMessages(S) \/ DeleteMessages(S)
      PROVE  ViewInv'
  BY <1>1, WriteKeepsView, DeleteKeepsView
<1>2. ASSUME TypeOK, OrderInv, ViewInv, NEW reported \in BOOLEAN, NEW applied \in BOOLEAN,
             RetryStashed(reported, applied) \/ CommitHead(reported, applied)
      PROVE  ViewInv'
  BY <1>2, RetryKeepsView, HeadKeepsView
<1>3. ASSUME TypeOK, ViewInv, \E m \in Messages, deletes \in BOOLEAN : RemoteWrite(m, deletes)
      PROVE  ViewInv'
  BY <1>3, RemoteKeepsView
<1>4. ASSUME TypeOK, OrderInv, ViewInv,
             \/ ReadForRefresh \/ ApplyRefresh \/ StartFullLoad \/ ReadFull \/ ApplyFull
             \/ Compact
      PROVE  ViewInv'
  BY <1>4, ReadForRefreshKeepsView, ApplyRefreshKeepsView, StartFullLoadKeepsView,
     ReadFullKeepsView, ApplyFullKeepsView, CompactKeepsView
<1> QED BY <1>1, <1>2, <1>3, <1>4, OtherChainKeepsView, StutterView DEF Next

LEMMA ViewInvariant == Spec => []ViewInv
BY TypeCorrect, OrderInvariant, InitView, ViewStep, PTL DEF Spec

\* Once nothing is held back and every re-read has been applied, the chat shows
\* what the database has, for any interleaving of local writes, drains, writes
\* of other clients and re-reads.  Exempt are messages a stashed commit
\* replaced and those a re-read overlapped with a write of this page.
THEOREM ViewShowsRows == Spec => []ViewMatches
<1>1. ViewInv => ViewMatches
  <2>1. ASSUME ViewInv, AtRest, ~announced, refresh = None, full = None,
               NEW m \in Messages \ blurred, author[m] \notin stashed
        PROVE  local[m] = Page(db)[m] \/ local[m] = db[m]
    <3>1. pending = <<>> /\ dropped = <<>> /\ retries = <<>>
      BY <2>1 DEF AtRest, hasUnsavedWrites, hasPendingWrites
    <3>2. Queue \cup Stash = {}
      BY <3>1, IdsOf DEF Queue, Stash
    <3>3. m \notin Unsaved
      BY <3>2, UnsavedWritten DEF Written
    <3>4. local[m] = db[m] \/ PagedOut(m)
      BY <2>1, <3>3 DEF ViewInv, ShownInv
    <3> QED BY <3>4 DEF PagedOut, Page
  <2> QED BY <2>1 DEF ViewMatches
<1> QED BY <1>1, ViewInvariant, PTL
=============================================================================
