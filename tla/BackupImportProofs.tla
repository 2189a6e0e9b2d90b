-------------------------- MODULE BackupImportProofs --------------------------
(* Proofs about BackupImport, for files of any number of chunks, any number   *)
(* of attempts, sessions and failures.                                        *)
EXTENDS BackupImport, Integers, TLAPS

-----------------------------------------------------------------------------
(* Facts about sequences.                                                    *)

\* An element put behind a sequence.
LEMMA AppendFacts ==
  ASSUME NEW S, NEW s \in Seq(S), NEW e \in S
  PROVE  /\ Append(s, e) \in Seq(S) /\ Len(Append(s, e)) = Len(s) + 1
         /\ \A i \in 1 .. Len(s) : Append(s, e)[i] = s[i]
         /\ Append(s, e)[Len(s) + 1] = e
  OBVIOUS

\* What is left of a sequence without its head.
LEMMA TailFacts ==
  ASSUME NEW S, NEW s \in Seq(S), s # <<>>
  PROVE  /\ Tail(s) \in Seq(S) /\ Len(Tail(s)) = Len(s) - 1 /\ Len(s) \in Nat \ {0}
         /\ \A i \in 1 .. Len(Tail(s)) : Tail(s)[i] = s[i + 1]
         /\ Head(s) = s[1] /\ s[1] \in S
  OBVIOUS

\* The shortest sequences.
LEMMA SingletonFacts ==
  ASSUME NEW S, NEW e \in S
  PROVE  <<>> \in Seq(S) /\ <<e>> \in Seq(S)
  OBVIOUS

\* Two sequences, one behind the other.
LEMMA ConcatFacts ==
  ASSUME NEW S, NEW a \in Seq(S), NEW b \in Seq(S)
  PROVE  a \o b \in Seq(S) /\ \A i \in 1 .. Len(a \o b) : (a \o b)[i] \in S
<1>1. a \o b \in Seq(S)
  OBVIOUS
<1> QED BY <1>1

-----------------------------------------------------------------------------
(* Types.                                                                     *)

Sessions  == 1 .. MaxSessions
Receiving == {"pending", "uploading"}
Statuses  == {"pending", "uploading", "restoring", "complete", "error", "gone"}
Phases    == {"none", "opening", "open", "aborting", "aborted", "completing", "failing",
              "committed", "failed"}
Results   == {"ok", "refused", "failed"}

Requests(kinds) == [kind : kinds, n : Nat, a : Nat]
ChunkRequest    == Requests({"chunk"})
FinalizeRequest == Requests({"finalize"})
CancelRequest   == Requests({"cancel"})
WireRequest     == ChunkRequest \cup FinalizeRequest \cup CancelRequest

ClientState == [phase : {"upload", "finalize", "failed", "ended", "done"}, n : Nat, a : Nat]
Session == [phase : Phases, consumed : Seq(Nat), waiters : Seq(ChunkRequest), torn : BOOLEAN]
AppendTask == [op : {"append"}, req : ChunkRequest, s : Sessions]
SealTask   == [op : {"seal"}, req : FinalizeRequest, s : {None}]
CleanTask  == [op : {"clean"}, req : CancelRequest \cup {Expiry, Finalized}, s : {None}]
LockTask   == AppendTask \cup SealTask \cup CleanTask
Stages     == {"parser", "rows"}
FailedCall == [s : Sessions, end : {"error"}, req : ChunkRequest,
               result : {"refused", "failed"}, stage : Stages]
GoneCall   == [s : Sessions, end : {"gone"}, req : CancelRequest \cup {Expiry},
               result : {"ok"}, stage : Stages]

WireTypes ==
  client \in ClientState /\ net \subseteq WireRequest
SlotTypes ==
  /\ job \in Statuses /\ timer \in BOOLEAN /\ other \in BOOLEAN
  /\ active \in Sessions \cup {None} /\ scratch \in Sessions \cup {None}
  /\ intact \subseteq Sessions
SessTypes ==
  sess \in [Sessions -> Session]
UploadTypes ==
  /\ up \in [known : BOOLEAN, received : Nat, sealed : BOOLEAN]
  /\ lock \in Seq(LockTask)
  /\ fin \in [phase : {"none", "queued", "restoring", "cleaning"},
              sharers : SUBSET FinalizeRequest, result : Results]
CallTypes ==
  /\ aborts \subseteq FailedCall \cup GoneCall
  /\ cancel \in [phase : {"none", "queued", "opening", "waiting", "done"},
                 s : Sessions \cup {None}]
  /\ cancel.phase \in {"opening", "waiting"} =>
        cancel.s \in Sessions /\ sess[cancel.s].phase # "none"
CountTypes ==
  /\ faults \in Nat /\ late \in BOOLEAN /\ stranded \in BOOLEAN
  /\ unanswered \subseteq Sessions

Types == WireTypes /\ SlotTypes /\ SessTypes /\ UploadTypes /\ CallTypes /\ CountTypes

LEMMA SentTypes ==
  ASSUME NEW c \in ClientState
  PROVE  Sent(c) \subseteq WireRequest
BY DEF ClientState, Sent, Request, WireRequest, ChunkRequest, FinalizeRequest, CancelRequest,
   Requests

LEMMA AnswerTypes ==
  ASSUME WireTypes, NEW rest \in SUBSET WireRequest, NEW rs,
         NEW result \in Results \cup {"ended"}, AnswerFrom(rest, rs, result)
  PROVE  WireTypes'
<1>1. Told(result) \in ClientState
  <2>1. Failed \in ClientState
    BY DEF Failed, ClientState
  <2>2. Retried \in ClientState
    BY <2>1 DEF Retried, WireTypes, ClientState
  <2> QED BY <2>1, <2>2 DEF Told, Advanced, WireTypes, ClientState, Results
<1>2. client' \in ClientState
  BY <1>1 DEF AnswerFrom, WireTypes
<1>3. Sent(client') \subseteq WireRequest
  BY <1>2, SentTypes
<1>4. net' \subseteq WireRequest
  BY <1>3 DEF AnswerFrom
<1> QED BY <1>2, <1>4 DEF WireTypes

LEMMA InitTypes == Init => Types
<1>1. ASSUME Init PROVE Types
  <2>1. WireTypes
    <3>1. client \in ClientState
      BY <1>1 DEF Init, ClientState
    <3> QED BY <1>1, <3>1, SentTypes DEF Init, WireTypes
  <2>2. SessTypes
    <3>1. <<>> \in Seq(Nat) /\ <<>> \in Seq(ChunkRequest)
      BY SingletonFacts
    <3>2. NoSession \in Session
      BY <3>1 DEF NoSession, Session, Phases
    <3> QED BY <1>1, <3>2 DEF Init, SessTypes, Sessions
  <2>3. <<>> \in Seq(LockTask)
    OBVIOUS
  <2> QED BY <1>1, <2>1, <2>2, <2>3
      DEF Init, Types, SlotTypes, UploadTypes, CallTypes, CountTypes, Statuses, NoUpload,
          NoFin, Deleting, None, Results
<1> QED BY <1>1

-----------------------------------------------------------------------------
(* What the pieces of a step do to the types.                                 *)

Began(s) == sess[s].phase # "none"

\* A session that has begun stays so.
SessionStep == SessTypes' /\ \A q \in Sessions : Began(q) => Began(q)'

LEMMA SessionTypes ==
  ASSUME SessTypes, NEW s \in Sessions, NEW v \in Session, v.phase # "none",
         sess' = [sess EXCEPT ![s] = v]
  PROVE  SessionStep
BY DEF SessTypes, SessionStep, Began

LEMMA PhaseTypes ==
  ASSUME SessTypes, NEW s \in Sessions, NEW p \in Phases \ {"none"},
         sess' = [sess EXCEPT ![s].phase = p]
  PROVE  SessionStep
<1>1. sess[s] \in Session
  BY DEF SessTypes
<1>2. [sess[s] EXCEPT !.phase = p] \in Session
  BY <1>1 DEF Session
<1>3. [sess[s] EXCEPT !.phase = p].phase # "none"
  BY <1>1 DEF Session
<1>4. sess' = [sess EXCEPT ![s] = [sess[s] EXCEPT !.phase = p]]
  OBVIOUS
<1> QED BY <1>2, <1>3, <1>4, SessionTypes

LEMMA SameSessions ==
  ASSUME SessTypes, UNCHANGED sess
  PROVE  SessionStep
BY DEF SessTypes, SessionStep, Began

LEMMA HeadTypes ==
  ASSUME UploadTypes, lock # <<>>
  PROVE  /\ Tail(lock) \in Seq(LockTask) /\ Head(lock) \in LockTask
         /\ Head(lock).op = "append" => Head(lock) \in AppendTask
         /\ Head(lock).op = "seal" => Head(lock) \in SealTask
         /\ Head(lock).op = "clean" => Head(lock) \in CleanTask
<1>1. lock \in Seq(LockTask)
  BY DEF UploadTypes
<1>2. Tail(lock) \in Seq(LockTask) /\ Head(lock) \in LockTask
  BY <1>1, TailFacts
<1> QED BY <1>2 DEF LockTask, AppendTask, SealTask, CleanTask

LEMMA QueueTypes ==
  ASSUME UploadTypes, NEW t \in LockTask
  PROVE  Append(lock, t) \in Seq(LockTask)
BY AppendFacts DEF UploadTypes

LEMMA TaskTypes ==
  /\ \A r \in ChunkRequest, s \in Sessions : Task("append", r, s) \in AppendTask
  /\ \A r \in FinalizeRequest : Task("seal", r, None) \in SealTask
  /\ \A r \in CancelRequest \cup {Expiry, Finalized} : Clean(r) \in CleanTask
BY DEF Task, Clean, AppendTask, SealTask, CleanTask

LEMMA RequestTypes ==
  ASSUME NEW r \in WireRequest
  PROVE  /\ r.kind = "chunk" => r \in ChunkRequest
         /\ r.kind = "finalize" => r \in FinalizeRequest
         /\ r.kind = "cancel" => r \in CancelRequest
BY DEF WireRequest, ChunkRequest, FinalizeRequest, CancelRequest, Requests

\* What a chunk that fails, a DELETE and an expiry do to the session.
Ending(end, r, result) ==
  \/ end = "error" /\ r \in ChunkRequest /\ result \in {"refused", "failed"}
  \/ end = "gone" /\ r \in CancelRequest \cup {Expiry} /\ result = "ok"

LEMMA OutcomeTypes ==
  ASSUME Types, NEW end, NEW r, NEW result, Ending(end, r, result), Outcome(end, r, result)
  PROVE  /\ WireTypes' /\ job' \in Statuses
         /\ cancel' \in [phase : {"none", "queued", "opening", "waiting", "done"},
                         s : Sessions \cup {None}]
         /\ cancel' = cancel \/ cancel'.phase = "done"
<1>1. WireTypes'
  <2>1. result \in Results
    BY DEF Ending, Results
  <2>2. AnswerFrom(net, {r}, result)
    BY DEF Outcome, Answer
  <2>3. WireTypes
    BY DEF Types
  <2> QED BY <2>1, <2>2, <2>3, AnswerTypes DEF WireTypes
<1>2. job' \in Statuses
  BY DEF Types, SlotTypes, Statuses, Outcome, Settled
<1>3. /\ cancel' \in [phase : {"none", "queued", "opening", "waiting", "done"},
                      s : Sessions \cup {None}]
      /\ cancel' = cancel \/ cancel'.phase = "done"
  BY DEF Types, CallTypes, Outcome, Deleting
<1> QED BY <1>1, <1>2, <1>3

LEMMA AbortTypes ==
  ASSUME Types, NEW end, NEW r, NEW result, Ending(end, r, result),
         AbortActive(end, r, result)
  PROVE  /\ WireTypes' /\ job' \in Statuses /\ timer' \in BOOLEAN /\ active' = None
         /\ scratch' \in Sessions \cup {None} /\ SessionStep /\ CallTypes'
<1>1. CASE active = None
  <2>1. Outcome(end, r, result) /\ UNCHANGED <<aborts, sess>> /\ active' = None
    BY <1>1 DEF AbortActive
  <2>2. SessionStep
    BY <2>1, SameSessions DEF Types
  <2>3. CallTypes'
    BY <2>1, OutcomeTypes DEF Types, CallTypes
  <2>4. scratch' \in Sessions \cup {None}
    BY <1>1 DEF AbortActive, Types, SlotTypes
  <2> QED BY <2>1, <2>2, <2>3, <2>4, OutcomeTypes DEF AbortActive
<1>2. CASE active # None
  <2> DEFINE call == [s |-> active, end |-> end, req |-> r, result |-> result,
                      stage |-> IF sess[active].phase \in FinishedParser THEN "rows"
                                ELSE "parser"]
             p == IF sess[active].phase = "open" THEN "aborting" ELSE sess[active].phase
  <2>1. active \in Sessions /\ sess[active] \in Session /\ sess[active].phase \in Phases
    BY <1>2 DEF Types, SlotTypes, SessTypes, Session
  <2>2. /\ aborts' = aborts \cup {call} /\ timer' = FALSE /\ active' = None
        /\ sess' = [sess EXCEPT ![active].phase = IF @ = "open" THEN "aborting" ELSE @]
        /\ UNCHANGED <<wire, job, cancel, scratch>>
    BY <1>2 DEF AbortActive
  <2>3. call \in FailedCall \cup GoneCall
    BY <2>1 DEF FailedCall, GoneCall, Ending, Stages
  <2>4. SessionStep
    <3>1. sess' = [sess EXCEPT ![active] = [sess[active] EXCEPT !.phase = p]]
      BY <2>2
    <3>2. CASE sess[active].phase = "none"
      <4>1. [sess[active] EXCEPT !.phase = p] = sess[active]
        BY <3>2, <2>1 DEF Session
      <4>2. sess' = sess
        BY <3>1, <4>1, <2>1 DEF Types, SessTypes
      <4> QED BY <4>2, SameSessions DEF Types
    <3>3. CASE sess[active].phase # "none"
      <4>1. p \in Phases \ {"none"}
        BY <3>3, <2>1 DEF Phases
      <4> QED BY <3>1, <4>1, <2>1, PhaseTypes DEF Types
    <3> QED BY <3>2, <3>3
  <2>5. CallTypes'
    <3>1. aborts' \subseteq FailedCall \cup GoneCall
      BY <2>2, <2>3 DEF Types, CallTypes
    <3> QED BY <2>2, <2>4, <3>1 DEF Types, CallTypes, SessionStep, Began
  <2> QED BY <2>2, <2>4, <2>5 DEF Types, WireTypes, SlotTypes, wire
<1> QED BY <1>1, <1>2

-----------------------------------------------------------------------------
(* Every step keeps the types.                                                *)

\* What is left of the types when the sessions, the wire and the calls are seen to.
LEMMA TypesOf ==
  ASSUME WireTypes', SlotTypes', SessTypes', UploadTypes', CallTypes', CountTypes'
  PROVE  Types'
BY DEF Types

LEMMA ArriveTypes ==
  ASSUME Types, NEW r \in net, Arrive(r)
  PROVE  Types'
<1> DEFINE left == net \ {r}
<1>1. r \in WireRequest /\ left \in SUBSET WireRequest /\ WireTypes /\ SessTypes /\ UploadTypes
  BY DEF Types, WireTypes
<1>2. net' = left /\ UNCHANGED client => WireTypes'
  BY <1>1 DEF WireTypes
<1>3. \A result \in Results \cup {"ended"} : AnswerFrom(left, {r}, result) => WireTypes'
  BY <1>1, AnswerTypes
<1> HIDE DEF left
<1>4. /\ UNCHANGED up /\ UNCHANGED lock /\ UNCHANGED fin => UploadTypes'
      /\ UNCHANGED <<aborts, cancel>> /\ SessionStep => CallTypes'
      /\ UNCHANGED history => CountTypes'
      /\ UNCHANGED sess => SessionStep
  BY <1>1, SameSessions DEF Types, UploadTypes, CallTypes, CountTypes, SessionStep, Began, history
<1>5. CASE RefuseChunk(r)
  <2>1. WireTypes'
    BY <1>3, <1>5 DEF RefuseChunk, Results, left
  <2> QED BY <1>4, <1>5, <2>1, TypesOf
          DEF RefuseChunk, Types, SlotTypes, sessions, SessionStep
<1>6. CASE SlotTaken(r)
  <2>1. WireTypes'
    BY <1>3, <1>6 DEF SlotTaken, Results, left
  <2> QED BY <1>4, <1>6, <2>1, TypesOf
          DEF SlotTaken, BeginChunk, Types, SlotTypes, Statuses, SessionStep, history
<1>7. CASE OpenSession(r)
  <2>1. PICK s \in Sessions :
           /\ active' = s
           /\ sess' = [sess EXCEPT ![s] = [NoSession EXCEPT !.phase = "opening",
                                              !.waiters = <<r>>, !.torn = aborts # {}]]
    BY <1>7 DEF OpenSession, Sessions
  <2>2. r \in ChunkRequest
    BY <1>1, <1>7, RequestTypes DEF OpenSession, BeginChunk, Arrives
  <2>3. <<r>> \in Seq(ChunkRequest) /\ <<>> \in Seq(Nat)
    BY <2>2, SingletonFacts
  <2> DEFINE v == [NoSession EXCEPT !.phase = "opening", !.waiters = <<r>>,
                                    !.torn = aborts # {}]
  <2>4. NoSession \in [phase : Phases, consumed : Seq(Nat), waiters : {<<>>},
                       torn : BOOLEAN]
    BY <2>3 DEF NoSession, Phases
  <2>5. v \in Session /\ v.phase # "none"
    BY <2>3, <2>4 DEF Session, Phases
  <2>6. sess' = [sess EXCEPT ![s] = v]
    BY <2>1
  <2>7. SessionStep
    BY <1>1, <2>5, <2>6, SessionTypes
  <2> QED BY <1>2, <1>4, <1>7, <2>1, <2>7, TypesOf
          DEF OpenSession, BeginChunk, Types, SlotTypes, Statuses, SessionStep, history, left
<1>8. CASE JoinSession(r)
  <2>1. r \in ChunkRequest
    BY <1>1, <1>8, RequestTypes DEF JoinSession, BeginChunk, Arrives
  <2>2. active \in Sessions /\ sess[active] \in Session
    BY <1>8 DEF JoinSession, Types, SlotTypes, SessTypes
  <2>3. SessionStep /\ UploadTypes'
    <3>1. CASE sess[active].phase = "opening"
      <4> DEFINE v == [sess[active] EXCEPT !.waiters = Append(@, r)]
      <4>1. Append(sess[active].waiters, r) \in Seq(ChunkRequest)
        BY <2>1, <2>2, AppendFacts DEF Session
      <4>2. v \in Session /\ v.phase # "none"
        BY <2>2, <3>1, <4>1 DEF Session
      <4>3. sess' = [sess EXCEPT ![active] = v] /\ UNCHANGED lock
        BY <1>8, <3>1 DEF JoinSession
      <4>4. UNCHANGED <<up, fin>>
        BY <1>8 DEF JoinSession, BeginChunk
      <4> HIDE DEF v
      <4> QED BY <1>1, <1>4, <2>2, <4>2, <4>3, <4>4, SessionTypes
    <3>2. CASE sess[active].phase # "opening"
      <4>1. UNCHANGED <<sess, up, fin>> /\ lock' = Append(lock, Task("append", r, active))
        BY <1>8, <3>2 DEF JoinSession, BeginChunk
      <4>2. Task("append", r, active) \in LockTask
        BY <2>1, <2>2, TaskTypes DEF LockTask
      <4> QED BY <1>1, <1>4, <4>1, <4>2, QueueTypes DEF UploadTypes
    <3> QED BY <3>1, <3>2
  <2> QED BY <1>2, <1>4, <1>8, <2>3, TypesOf
          DEF JoinSession, BeginChunk, Types, SlotTypes, Statuses, SessionStep, history, left
<1>9. CASE ShareFinalize(r)
  <2>1. r \in FinalizeRequest
    BY <1>1, <1>9, RequestTypes DEF ShareFinalize, Arrives
  <2>2. UploadTypes'
    BY <1>1, <1>9, <2>1 DEF ShareFinalize, UploadTypes
  <2> QED BY <1>2, <1>4, <1>9, <2>2, TypesOf
          DEF ShareFinalize, Types, SlotTypes, SessionStep, sessions, left
<1>10. CASE StartFinalize(r)
  <2>1. r \in FinalizeRequest
    BY <1>1, <1>10, RequestTypes DEF StartFinalize, Arrives
  <2>2. Task("seal", r, None) \in LockTask
    BY <2>1, TaskTypes DEF LockTask
  <2>3. UploadTypes'
    <3>1. lock' \in Seq(LockTask)
      BY <1>1, <1>10, <2>2, QueueTypes DEF StartFinalize
    <3> QED BY <1>1, <1>10, <2>1, <3>1 DEF StartFinalize, UploadTypes, Results
  <2> QED BY <1>2, <1>4, <1>10, <2>3, TypesOf
          DEF StartFinalize, Types, SlotTypes, SessionStep, sessions, left
<1>11. CASE LateFinalize(r)
  <2>1. WireTypes'
    BY <1>2, <1>3, <1>11 DEF LateFinalize, Results, left
  <2>2. CountTypes'
    BY <1>11 DEF LateFinalize, Types, CountTypes
  <2> QED BY <1>4, <1>11, <2>1, <2>2, TypesOf
          DEF LateFinalize, Types, SlotTypes, SessionStep, sessions
<1>12. CASE ArriveCancel(r)
  <2>1. Clean(r) \in LockTask
    BY <1>1, <1>12, RequestTypes, TaskTypes DEF ArriveCancel, Arrives, LockTask
  <2>2. UploadTypes'
    BY <1>1, <1>12, <2>1, QueueTypes DEF ArriveCancel, UploadTypes
  <2>3. CallTypes'
    BY <1>12 DEF ArriveCancel, Types, CallTypes, Deleting, sessions
  <2> QED BY <1>2, <1>4, <1>12, <2>2, <2>3, TypesOf
          DEF ArriveCancel, Types, SlotTypes, SessionStep, sessions, left
<1> QED BY <1>5, <1>6, <1>7, <1>8, <1>9, <1>10, <1>11, <1>12 DEF Arrive

LEMMA OpenTypes ==
  ASSUME Types, NEW s \in Sessions, Opened(s) \/ OpenFails(s)
  PROVE  Types'
<1>1. sess[s] \in Session /\ SessTypes /\ WireTypes /\ UploadTypes
  BY DEF Types, SessTypes
<1>2. \A i \in DOMAIN sess[s].waiters : sess[s].waiters[i] \in ChunkRequest
  BY <1>1 DEF Session
<1>3. <<>> \in Seq(ChunkRequest)
  OBVIOUS
<1>4. \A p \in Phases : [sess[s] EXCEPT !.phase = p, !.waiters = <<>>] \in Session
  BY <1>1, <1>3 DEF Session
<1>5. ASSUME NEW p \in Phases \ {"none"},
             sess' = [sess EXCEPT ![s].phase = p, ![s].waiters = <<>>]
      PROVE  SessionStep
  <2> DEFINE v == [sess[s] EXCEPT !.phase = p, !.waiters = <<>>]
  <2>1. sess' = [sess EXCEPT ![s] = v]
    BY <1>1, <1>5 DEF SessTypes
  <2>2. v \in Session
    BY <1>4
  <2>3. v.phase # "none"
    BY <1>1 DEF Session
  <2> HIDE DEF v
  <2> QED BY <1>1, <2>1, <2>2, <2>3, SessionTypes
<1>6. CASE Opened(s)
  <2>1. SessionStep
    <3>1. "open" \in Phases \ {"none"} /\ "aborting" \in Phases \ {"none"}
      BY DEF Phases
    <3> DEFINE p == IF \E t \in aborts : t.s = s THEN "aborting" ELSE "open"
    <3>2. sess' = [sess EXCEPT ![s].phase = p, ![s].waiters = <<>>]
      BY <1>6 DEF Opened
    <3>3. p \in Phases \ {"none"}
      BY <3>1
    <3> HIDE DEF p
    <3> QED BY <1>5, <3>2, <3>3
  <2>2. lock' \in Seq(LockTask)
    <3> DEFINE tasks == [i \in DOMAIN sess[s].waiters |-> Task("append", sess[s].waiters[i], s)]
    <3>1. \A i \in DOMAIN sess[s].waiters : Task("append", sess[s].waiters[i], s) \in LockTask
      BY <1>2, TaskTypes DEF LockTask
    <3>2. tasks \in Seq(LockTask)
      <4>1. Len(sess[s].waiters) \in Nat /\ DOMAIN sess[s].waiters = 1 .. Len(sess[s].waiters)
        BY <1>1 DEF Session
      <4> QED BY <3>1, <4>1
    <3>3. lock' = lock \o tasks
      BY <1>6 DEF Opened
    <3> HIDE DEF tasks
    <3> QED BY <1>1, <3>2, <3>3, ConcatFacts DEF UploadTypes
  <2>3. UploadTypes'
    BY <1>1, <1>6, <2>2 DEF Opened, UploadTypes
  <2>4. WireTypes' /\ SlotTypes' /\ CountTypes'
    BY <1>6 DEF Opened, Types, WireTypes, SlotTypes, CountTypes, wire, history
  <2>5. CallTypes'
    BY <1>6, <2>1 DEF Opened, Types, CallTypes, SessionStep, Began
  <2> QED BY <2>1, <2>3, <2>4, <2>5, TypesOf DEF SessionStep
<1>7. CASE OpenFails(s)
  <2>1. SessionStep
    <3>1. "aborted" \in Phases \ {"none"}
      BY DEF Phases
    <3> QED BY <1>5, <1>7, <3>1 DEF OpenFails
  <2>2. WireTypes'
    <3>1. AnswerFrom(net, WaitingFor(s), IF scratch # None THEN "refused" ELSE "failed")
      BY <1>7 DEF OpenFails, Answer
    <3>2. net \in SUBSET WireRequest
      BY <1>1 DEF WireTypes
    <3> QED BY <1>1, <3>1, <3>2, AnswerTypes DEF Results
  <2>3. UploadTypes'
    BY <1>1, <1>7 DEF OpenFails, UploadTypes
  <2>4. SlotTypes'
    BY <1>7 DEF OpenFails, Types, SlotTypes, Statuses
  <2>5. CallTypes'
    BY <1>7, <2>1 DEF OpenFails, Types, CallTypes, SessionStep, Began
  <2>6. CountTypes'
    BY <1>7 DEF OpenFails, Types, CountTypes, FaultUnless, Fault
  <2> QED BY <2>1, <2>2, <2>3, <2>4, <2>5, <2>6, TypesOf DEF SessionStep
<1> QED BY <1>6, <1>7

LEMMA FaultTypes ==
  ASSUME CountTypes, NEW fine, FaultUnless(fine)
  PROVE  faults' \in Nat
BY DEF CountTypes, FaultUnless, Fault

LEMMA UploadStepTypes ==
  ASSUME Types, Upload
  PROVE  Types'
<1>1. SessTypes /\ WireTypes /\ UploadTypes /\ CountTypes /\ net \in SUBSET WireRequest
  BY DEF Types, WireTypes
<1>2. \A rs, result : result \in Results /\ Answer(rs, result) => WireTypes'
  BY <1>1, AnswerTypes DEF Answer
<1>3. /\ UNCHANGED sess => SessionStep
      /\ UNCHANGED <<aborts, cancel>> /\ SessionStep => CallTypes'
      /\ UNCHANGED history => CountTypes'
  BY <1>1, SameSessions DEF Types, CallTypes, CountTypes, SessionStep, Began, history
<1>4. lock # <<>> => /\ Tail(lock) \in Seq(LockTask)
                     /\ Head(lock).op = "append" => Head(lock) \in AppendTask
                     /\ Head(lock).op = "seal" => Head(lock) \in SealTask
                     /\ Head(lock).op = "clean" => Head(lock) \in CleanTask
  BY <1>1, HeadTypes
<1>5. HoldsChunk => /\ Head(lock).req \in ChunkRequest /\ Head(lock).s \in Sessions
                    /\ lock' \in Seq(LockTask)
                    /\ UNCHANGED <<other, intact, fin, stranded, unanswered>>
                    /\ late' \in BOOLEAN
  BY <1>1, <1>4 DEF HoldsChunk, Holds, Release, AppendTask, CountTypes
<1>6. \A r : \A result \in {"ok", "refused"} :
         AnswerAppend(r, result) => WireTypes' /\ timer' \in BOOLEAN
  BY <1>2 DEF AnswerAppend, Results
<1>7. CASE AppendRefused
  <2>1. WireTypes' /\ timer' \in BOOLEAN
    BY <1>6, <1>7 DEF AppendRefused
  <2>2. UploadTypes'
    BY <1>1, <1>5, <1>7 DEF AppendRefused, UploadTypes
  <2>3. CountTypes'
    BY <1>1, <1>5, <1>7 DEF AppendRefused, CountTypes
  <2> QED BY <1>3, <1>5, <1>7, <2>1, <2>2, <2>3, TypesOf
          DEF AppendRefused, Types, SlotTypes, SessionStep
<1>8. CASE AppendRepeated
  <2>1. WireTypes' /\ timer' \in BOOLEAN
    BY <1>6, <1>8 DEF AppendRepeated
  <2>2. UploadTypes'
    BY <1>1, <1>5, <1>8 DEF AppendRepeated, UploadTypes
  <2>3. CountTypes'
    BY <1>1, <1>5, <1>8 DEF AppendRepeated, CountTypes
  <2> QED BY <1>3, <1>5, <1>8, <2>1, <2>2, <2>3, TypesOf
          DEF AppendRepeated, Types, SlotTypes, SessionStep
<1>9. CASE AppendConsumed
  <2> DEFINE r == Head(lock).req
             s == Head(lock).s
  <2>1. WireTypes' /\ timer' \in BOOLEAN
    BY <1>6, <1>9 DEF AppendConsumed
  <2>2. UploadTypes'
    <3> DEFINE n == IF job = "gone" THEN up.received ELSE up.received + 1
    <3>1. up \in [known : BOOLEAN, received : Nat, sealed : BOOLEAN] /\ n \in Nat
      BY <1>1 DEF UploadTypes
    <3>2. up' = [up EXCEPT !.known = TRUE, !.received = n]
      BY <1>9, <3>1 DEF AppendConsumed
    <3> HIDE DEF n
    <3>3. up' \in [known : BOOLEAN, received : Nat, sealed : BOOLEAN]
      BY <3>1, <3>2
    <3>4. lock' \in Seq(LockTask) /\ UNCHANGED fin
      BY <1>5, <1>9 DEF AppendConsumed
    <3> QED BY <1>1, <3>3, <3>4 DEF UploadTypes
  <2>3. CountTypes'
    BY <1>1, <1>5, <1>9 DEF AppendConsumed, CountTypes
  <2>4. SessionStep
    <3> DEFINE v == [sess[s] EXCEPT !.consumed = Append(@, r.n)]
    <3>1. r.n \in Nat /\ s \in Sessions /\ sess[s] \in Session /\ sess[s].phase = "open"
      BY <1>1, <1>5, <1>9 DEF AppendConsumed, ChunkRequest, Requests, SessTypes
    <3>2. sess' = [sess EXCEPT ![s] = v]
      BY <1>9 DEF AppendConsumed
    <3> HIDE DEF r, s
    <3>3. Append(sess[s].consumed, r.n) \in Seq(Nat)
      BY <3>1, AppendFacts DEF Session
    <3>4. v \in Session /\ v.phase # "none"
      BY <3>1, <3>3 DEF Session
    <3> HIDE DEF v
    <3> QED BY <1>1, <3>1, <3>2, <3>4, SessionTypes
  <2> QED BY <1>3, <1>5, <1>9, <2>1, <2>2, <2>3, <2>4, TypesOf
          DEF AppendConsumed, Types, SlotTypes, SessionStep
<1>10. CASE AppendFails
  <2> DEFINE r == Head(lock).req
  <2>1. PICK result \in {"refused", "failed"} : AbortActive("error", r, result)
    BY <1>10 DEF AppendFails
  <2>2. Ending("error", r, result)
    BY <1>5, <1>10 DEF AppendFails, Ending
  <2>3. /\ WireTypes' /\ job' \in Statuses /\ timer' \in BOOLEAN /\ active' = None
        /\ scratch' \in Sessions \cup {None} /\ SessionStep /\ CallTypes'
    BY <2>1, <2>2, AbortTypes
  <2>4. UploadTypes'
    BY <1>1, <1>5, <1>10 DEF AppendFails, UploadTypes
  <2>5. CountTypes'
    BY <1>1, <1>5, <1>10, FaultTypes DEF AppendFails, CountTypes
  <2> QED BY <1>5, <1>10, <2>3, <2>4, <2>5, TypesOf
          DEF AppendFails, Types, SlotTypes, SessionStep
<1>11. CASE SealRefused
  <2>1. WireTypes'
    BY <1>2, <1>11 DEF SealRefused, Results
  <2>2. UploadTypes'
    BY <1>1, <1>4, <1>11 DEF SealRefused, UploadTypes, Holds, Release, NoFin, Results
  <2> QED BY <1>3, <1>11, <2>1, <2>2, TypesOf
          DEF SealRefused, Types, SlotTypes, SessionStep, sessions
<1>12. CASE SealTooLate
  <2>1. WireTypes'
    BY <1>2, <1>12 DEF SealTooLate, Results
  <2>2. UploadTypes'
    BY <1>1, <1>4, <1>12 DEF SealTooLate, UploadTypes, Holds, Release, NoFin, Results
  <2>3. CountTypes'
    BY <1>1, <1>12 DEF SealTooLate, CountTypes
  <2> QED BY <1>3, <1>12, <2>1, <2>2, <2>3, TypesOf
          DEF SealTooLate, Types, SlotTypes, SessionStep, sessions
<1>13. CASE SealWithout
  <2>1. WireTypes'
    BY <1>1, <1>13 DEF SealWithout, WireTypes, wire
  <2>2. lock' \in Seq(LockTask)
    <3>1. Tail(lock) \in Seq(LockTask)
      BY <1>4, <1>13 DEF SealWithout, Holds
    <3>2. Clean(Finalized) \in LockTask
      BY TaskTypes DEF LockTask
    <3> QED BY <1>13, <3>1, <3>2, AppendFacts DEF SealWithout
  <2>3. UploadTypes'
    BY <1>1, <1>13, <2>2 DEF SealWithout, UploadTypes, Results
  <2> QED BY <1>3, <1>13, <2>1, <2>3, TypesOf
          DEF SealWithout, Types, SlotTypes, SessionStep, sessions, Statuses
<1>14. CASE Seal
  <2>1. WireTypes'
    BY <1>1, <1>14 DEF Seal, WireTypes, wire
  <2>2. UploadTypes'
    BY <1>1, <1>4, <1>14 DEF Seal, UploadTypes, Holds, Release
  <2>3. CountTypes'
    BY <1>1, <1>14, FaultTypes DEF Seal, CountTypes
  <2>4. SessionStep
    <3>1. PICK accepted \in BOOLEAN :
             sess' = [sess EXCEPT ![active].phase = IF accepted THEN "completing"
                                                    ELSE "failing"]
      BY <1>14 DEF Seal
    <3> DEFINE p == IF accepted THEN "completing" ELSE "failing"
    <3>2. p \in Phases \ {"none"} /\ active \in Sessions
      BY <1>14 DEF Phases, Seal, Types, SlotTypes
    <3>3. sess' = [sess EXCEPT ![active].phase = p]
      BY <3>1
    <3> HIDE DEF p
    <3> QED BY <1>1, <3>2, <3>3, PhaseTypes
  <2> QED BY <1>3, <1>14, <2>1, <2>2, <2>3, <2>4, TypesOf
          DEF Seal, Types, SlotTypes, SessionStep, Statuses
<1>15. CASE FinishFinalize
  <2>1. WireTypes'
    BY <1>1, <1>2, <1>15 DEF FinishFinalize, UploadTypes
  <2>2. UploadTypes'
    BY <1>1, <1>4, <1>15 DEF FinishFinalize, UploadTypes, Holds, Release, NoFin, NoUpload,
       Results
  <2> QED BY <1>3, <1>15, <2>1, <2>2, TypesOf
          DEF FinishFinalize, Types, SlotTypes, SessionStep, sessions
<1>16. CASE CleanCancelled
  <2>1. UploadTypes'
    BY <1>1, <1>4, <1>16 DEF CleanCancelled, UploadTypes, Holds, Release, NoUpload
  <2>2. Head(lock).req \in CancelRequest
    BY <1>4, <1>16 DEF CleanCancelled, Holds, CleanTask, Expiry, Finalized, Request,
       CancelRequest
  <2>3. CASE AbortActive("gone", Head(lock).req, "ok")
    <3>1. Ending("gone", Head(lock).req, "ok")
      BY <2>2 DEF Ending
    <3> QED BY <1>3, <1>16, <2>1, <2>3, <3>1, AbortTypes, TypesOf
            DEF CleanCancelled, Types, SlotTypes, SessionStep
  <2>4. CASE ~AbortActive("gone", Head(lock).req, "ok")
    <3>1. /\ active \in Sessions /\ Began(active)
          /\ \E phase \in {"opening", "waiting"} : cancel' = Deleting(phase, active)
          /\ UNCHANGED <<wire, job, timer, active, sess, scratch, aborts>>
      BY <1>16, <2>4 DEF CleanCancelled, Cancel, Opening, Finalizing, Types, SlotTypes, Began
    <3>2. CallTypes'
      BY <3>1 DEF Types, CallTypes, Deleting, Began
    <3> QED BY <1>3, <1>16, <2>1, <3>1, <3>2, TypesOf
            DEF CleanCancelled, Types, SlotTypes, SessionStep, WireTypes, wire
  <2> QED BY <2>3, <2>4
<1>17. CASE CleanExpired
  <2>1. UploadTypes'
    BY <1>1, <1>4, <1>17 DEF CleanExpired, UploadTypes, Holds, Release, NoUpload
  <2>2. Ending("gone", Expiry, "ok")
    BY DEF Ending
  <2> QED BY <1>3, <1>17, <2>1, <2>2, AbortTypes, TypesOf
          DEF CleanExpired, Types, SlotTypes, SessionStep
<1> QED BY <1>7, <1>8, <1>9, <1>10, <1>11, <1>12, <1>13, <1>14, <1>15, <1>16, <1>17 DEF Upload

LEMMA OtherTypes ==
  ASSUME Types, GiveUp \/ Restore \/ Abort \/ EndCancel \/ TimerFires \/ OtherImport
  PROVE  Types'
<1>1. SessTypes /\ WireTypes /\ UploadTypes /\ CountTypes
  BY DEF Types
<1>2. /\ UNCHANGED sess => SessionStep
      /\ UNCHANGED <<aborts, cancel>> /\ SessionStep => CallTypes'
      /\ UNCHANGED history => CountTypes'
      /\ UNCHANGED wire => WireTypes'
      /\ UNCHANGED <<up, lock, fin>> => UploadTypes'
  BY <1>1, SameSessions
     DEF Types, WireTypes, UploadTypes, CallTypes, CountTypes, SessionStep, Began, history, wire
<1>3. CASE GiveUp
  <2>1. client' \in ClientState
    BY <1>1, <1>3 DEF GiveUp, Failed, Retried, WireTypes, ClientState
  <2>2. Sent(client') \subseteq WireRequest
    BY <2>1, SentTypes
  <2>3. WireTypes'
    BY <1>1, <1>3, <2>1, <2>2 DEF GiveUp, WireTypes
  <2> QED BY <1>2, <1>3, <2>3, TypesOf
          DEF GiveUp, Types, SlotTypes, SessionStep, sessions
<1>4. CASE Restore
  <2>1. PICK s \in Sessions : RestoreCommits(s) \/ RestoreFails(s)
    BY <1>4 DEF Restore, Sessions
  <2>2. PICK phase \in {"committed", "failed"}, result \in Results : EndRestore(s, phase, result)
    BY <2>1 DEF RestoreCommits, RestoreFails, Results
  <2>3. /\ job' \in Statuses /\ intact' \subseteq Sessions /\ faults' \in Nat
        /\ unanswered' \subseteq Sessions
    BY <1>1, <2>1, FaultTypes
       DEF RestoreCommits, RestoreFails, AnswerLost, FaultUnless, Settled, Statuses, Types,
           SlotTypes, CountTypes
  <2>4. SessionStep
    BY <1>1, <2>2, PhaseTypes DEF EndRestore, Phases
  <2>5. UploadTypes'
    <3>1. Clean(Finalized) \in LockTask
      BY TaskTypes DEF LockTask
    <3> QED BY <1>1, <2>2, <3>1, QueueTypes DEF EndRestore, UploadTypes
  <2>6. CountTypes'
    BY <1>1, <2>2, <2>3 DEF EndRestore, CountTypes
  <2> QED BY <1>2, <2>2, <2>3, <2>4, <2>5, <2>6, TypesOf
          DEF EndRestore, Types, SlotTypes, SessionStep
<1>5. CASE Abort
  <2>1. PICK t \in aborts : AbortParser(t) \/ AbortRows(t)
    BY <1>5 DEF Abort
  <2>2. t \in FailedCall \cup GoneCall /\ t.s \in Sessions /\ sess[t.s].phase \in Phases
    BY <1>1, <2>1 DEF Types, CallTypes, FailedCall, GoneCall, SessTypes, Session
  <2>3. CASE AbortParser(t)
    <3>1. [t EXCEPT !.stage = "rows"] \in FailedCall \cup GoneCall
      BY <2>2 DEF FailedCall, GoneCall, Stages
    <3>2. CallTypes'
      BY <2>3, <3>1 DEF AbortParser, Types, CallTypes
    <3> QED BY <1>2, <2>3, <3>2, TypesOf
            DEF AbortParser, Types, SlotTypes, SessionStep
  <2>4. CASE AbortRows(t)
    <3>1. Ending(t.end, t.req, t.result)
      BY <2>2 DEF Ending, FailedCall, GoneCall
    <3>2. /\ WireTypes' /\ job' \in Statuses
          /\ cancel' \in [phase : {"none", "queued", "opening", "waiting", "done"},
                          s : Sessions \cup {None}]
          /\ cancel' = cancel \/ cancel'.phase = "done"
      BY <2>4, <3>1, OutcomeTypes DEF AbortRows
    <3>3. SessionStep
      <4> DEFINE p == IF sess[t.s].phase = "aborting" THEN "aborted" ELSE sess[t.s].phase
      <4>1. sess' = [sess EXCEPT ![t.s].phase = p]
        BY <2>4 DEF AbortRows
      <4>2. CASE sess[t.s].phase = "none"
        <5>1. sess' = sess
          BY <1>1, <2>2, <4>1, <4>2 DEF SessTypes, Session
        <5> QED BY <1>2, <5>1
      <4>3. CASE sess[t.s].phase # "none"
        <5>1. p \in Phases \ {"none"}
          BY <2>2, <4>3 DEF Phases
        <5> HIDE DEF p
        <5> QED BY <1>1, <2>2, <4>1, <5>1, PhaseTypes
      <4> QED BY <4>2, <4>3
    <3>4. CallTypes'
      BY <2>4, <3>2, <3>3 DEF AbortRows, Types, CallTypes, SessionStep, Began
    <3> QED BY <1>2, <2>4, <3>2, <3>3, <3>4, TypesOf
            DEF AbortRows, Types, SlotTypes, SessionStep
  <2> QED BY <2>1, <2>3, <2>4
<1>6. CASE CancelOpened
  <2>1. CASE Finalizing(cancel.s)
    <3>1. cancel' = Deleting("waiting", cancel.s) /\ Began(cancel.s) /\ cancel.s \in Sessions
      BY <1>6, <2>1
         DEF CancelOpened, CancelResumes, Cancel, Finalizing, Began, Types, CallTypes
    <3>2. CallTypes'
      BY <1>6, <2>1, <3>1 DEF CancelOpened, Cancel, Types, CallTypes, Deleting, Began
    <3> QED BY <1>2, <1>6, <2>1, <3>2, TypesOf
            DEF CancelOpened, Cancel, Types, SlotTypes, SessionStep
  <2>2. CASE ~Finalizing(cancel.s)
    <3>1. Request("cancel", 0, 1) \in CancelRequest
      BY DEF Request, CancelRequest, Requests
    <3>2. Ending("gone", Request("cancel", 0, 1), "ok")
      BY <3>1 DEF Ending
    <3> QED BY <1>2, <1>6, <2>2, <3>2, AbortTypes, TypesOf
            DEF CancelOpened, Cancel, Types, SlotTypes, SessionStep
  <2> QED BY <2>1, <2>2
<1>7. CASE CancelSettled
  <2>1. CallTypes'
    BY <1>7 DEF CancelSettled, Types, CallTypes, Deleting, sessions
  <2> QED BY <1>2, <1>7, <2>1, TypesOf
          DEF CancelSettled, Types, SlotTypes, SessionStep, sessions, Statuses
<1>8. CASE TimerFires
  <2>1. Clean(Expiry) \in LockTask
    BY TaskTypes DEF LockTask
  <2>2. UploadTypes'
    BY <1>1, <1>8, <2>1, QueueTypes DEF TimerFires, UploadTypes
  <2> QED BY <1>2, <1>8, <2>2, TypesOf
          DEF TimerFires, Types, SlotTypes, SessionStep, sessions
<1>9. CASE OtherImport
  BY <1>2, <1>9, TypesOf DEF OtherImport, Types, SlotTypes, SessionStep, sessions
<1> QED BY <1>3, <1>4, <1>5, <1>6, <1>7, <1>8, <1>9 DEF EndCancel

\* The steps, by what takes them.
LEMMA NextSteps ==
  ASSUME Next
  PROVE  \/ \E r \in net : Arrive(r)
         \/ \E s \in Sessions : Opened(s) \/ OpenFails(s)
         \/ Upload
         \/ GiveUp \/ Restore \/ Abort \/ EndCancel \/ TimerFires \/ OtherImport
BY DEF Next, EndCancel, Open, Sessions

LEMMA StepTypes ==
  ASSUME Types, [Next]_vars
  PROVE  Types'
<1>1. CASE Next
  BY <1>1, NextSteps, ArriveTypes, OpenTypes, UploadStepTypes, OtherTypes
<1>2. CASE UNCHANGED vars
  BY <1>2 DEF vars, wire, sessions, history, Types, WireTypes, SlotTypes, SessTypes,
     UploadTypes, CallTypes, CountTypes
<1> QED BY <1>1, <1>2

\* Every variable keeps its type, however large the file and however often the
\* client tries.
THEOREM ImportTypes == Spec => []Types
<1>1. Types /\ [Next]_vars => Types'
  BY StepTypes
<1> QED BY InitTypes, <1>1, PTL DEF Spec

-----------------------------------------------------------------------------
(* What a step does to the sessions.                                          *)

\* Session q is the same but for the chunks that wait for it.
Same(q) == /\ sess'[q].phase = sess[q].phase
           /\ sess'[q].consumed = sess[q].consumed
           /\ sess'[q].torn = sess[q].torn

\* Session s turns to phase p.
Turns(s, p) == /\ sess'[s].phase = p
               /\ sess'[s].consumed = sess[s].consumed
               /\ sess'[s].torn = sess[s].torn
               /\ \A q \in Sessions \ {s} : Same(q)

AllSame == \A q \in Sessions : Same(q)

LEMMA TurnFacts ==
  ASSUME SessTypes, NEW s \in Sessions, NEW p,
         \/ sess' = [sess EXCEPT ![s].phase = p]
         \/ sess' = [sess EXCEPT ![s].phase = p, ![s].waiters = <<>>]
  PROVE  Turns(s, p)
<1>1. sess \in [Sessions -> Session] /\ sess[s] \in Session
  BY DEF SessTypes
<1> QED BY <1>1 DEF Turns, Same, Session

LEMMA SameFacts ==
  /\ UNCHANGED sess => AllSame
  /\ UNCHANGED sessions => AllSame
BY DEF AllSame, Same, sessions

LEMMA JoinSame ==
  ASSUME SessTypes, SlotTypes, NEW r, JoinSession(r)
  PROVE  AllSame
<1>1. active \in Sessions /\ sess[active] \in Session /\ sess \in [Sessions -> Session]
  BY DEF JoinSession, SlotTypes, SessTypes
<1>2. CASE sess[active].phase = "opening"
  <2> DEFINE v == [sess[active] EXCEPT !.waiters = Append(@, r)]
  <2>1. sess' = [sess EXCEPT ![active] = v]
    BY <1>2 DEF JoinSession
  <2>2. v.phase = sess[active].phase /\ v.consumed = sess[active].consumed
        /\ v.torn = sess[active].torn
    BY <1>1 DEF Session
  <2> HIDE DEF v
  <2> QED BY <1>1, <2>1, <2>2 DEF AllSame, Same
<1>3. CASE sess[active].phase # "opening"
  BY <1>3, SameFacts DEF JoinSession
<1> QED BY <1>2, <1>3

\* What abortActive does: the slot is free; with a session in it, that session
\* is being aborted; without one, the job is over.
LEMMA AbortEffect ==
  ASSUME Types, NEW end, NEW r, NEW result, Ending(end, r, result),
         AbortActive(end, r, result)
  PROVE  /\ active' = None /\ timer' = FALSE
         /\ active = None => AllSame /\ UNCHANGED aborts /\ job' \notin Receiving
         /\ active # None =>
              /\ UNCHANGED <<job, client, cancel>> /\ aborts \subseteq aborts'
              /\ \E c \in aborts' :
                   c.s = active /\ (c.stage = "rows" => sess[active].phase \in FinishedParser)
              /\ Turns(active, IF sess[active].phase = "open" THEN "aborting"
                               ELSE sess[active].phase)
<1>1. CASE active = None
  BY <1>1, SameFacts DEF AbortActive, Outcome, Ending, Settled, Receiving
<1>2. CASE active # None
  <2>1. active \in Sessions /\ SessTypes
    BY <1>2 DEF Types, SlotTypes
  <2>2. Turns(active, IF sess[active].phase = "open" THEN "aborting" ELSE sess[active].phase)
    <3> DEFINE p == IF sess[active].phase = "open" THEN "aborting" ELSE sess[active].phase
    <3>1. sess' = [sess EXCEPT ![active].phase = p]
      BY <1>2 DEF AbortActive
    <3> HIDE DEF p
    <3>2. Turns(active, p)
      BY <2>1, <3>1, TurnFacts
    <3> QED BY <3>2 DEF p
  <2> DEFINE c == [s |-> active, end |-> end, req |-> r, result |-> result,
                   stage |-> IF sess[active].phase \in FinishedParser THEN "rows"
                             ELSE "parser"]
  <2>3. aborts' = aborts \cup {c}
    BY <1>2 DEF AbortActive
  <2>4. c.s = active /\ (c.stage = "rows" => sess[active].phase \in FinishedParser)
    OBVIOUS
  <2> HIDE DEF c
  <2>5. aborts \subseteq aborts' /\ c \in aborts'
    BY <2>3
  <2>6. UNCHANGED <<job, client, cancel>> /\ active' = None /\ timer' = FALSE
    BY <1>2 DEF AbortActive, wire
  <2> QED BY <1>2, <2>2, <2>4, <2>5, <2>6
<1> QED BY <1>1, <1>2

-----------------------------------------------------------------------------
(* The lock of the upload: who waits for it agrees with the finalization.     *)

\* A finalization waits for the lock once before the restore and once behind it.
Queue(l, phase) ==
  /\ \A i \in 1 .. Len(l) :
       /\ l[i].op = "seal" => phase = "queued"
       /\ l[i].req = Finalized => phase = "cleaning"
  /\ \A i, j \in 1 .. Len(l) : i # j =>
       /\ ~(l[i].op = "seal" /\ l[j].op = "seal")
       /\ ~(l[i].req = Finalized /\ l[j].req = Finalized)

LEMMA QueueBehind ==
  ASSUME NEW l \in Seq(LockTask), NEW t \in LockTask, NEW p, Queue(l, p),
         t.op # "seal", t.req # Finalized
  PROVE  Queue(Append(l, t), p)
<1>1. /\ Append(l, t) \in Seq(LockTask) /\ Len(Append(l, t)) = Len(l) + 1 /\ Len(l) \in Nat
      /\ \A i \in 1 .. Len(l) : Append(l, t)[i] = l[i]
      /\ Append(l, t)[Len(l) + 1] = t
  BY AppendFacts
<1> DEFINE m == Append(l, t)
<1> HIDE DEF m
<1> QED BY <1>1 DEF Queue, m

LEMMA QueueSeal ==
  ASSUME NEW l \in Seq(LockTask), NEW t \in LockTask, Queue(l, "none"), t.op = "seal",
         t.req # Finalized
  PROVE  Queue(Append(l, t), "queued")
<1>1. /\ Append(l, t) \in Seq(LockTask) /\ Len(Append(l, t)) = Len(l) + 1 /\ Len(l) \in Nat
      /\ \A i \in 1 .. Len(l) : Append(l, t)[i] = l[i]
      /\ Append(l, t)[Len(l) + 1] = t
  BY AppendFacts
<1> DEFINE m == Append(l, t)
<1> HIDE DEF m
<1> QED BY <1>1 DEF Queue, m

LEMMA QueueFinalized ==
  ASSUME NEW l \in Seq(LockTask), NEW p \in {"none", "restoring"}, Queue(l, p)
  PROVE  Queue(Append(l, Clean(Finalized)), "cleaning")
<1> DEFINE t == Clean(Finalized)
<1>1. t \in LockTask /\ t.op # "seal" /\ t.req = Finalized
  BY TaskTypes DEF LockTask, Clean, Task
<1>2. /\ Append(l, t) \in Seq(LockTask) /\ Len(Append(l, t)) = Len(l) + 1 /\ Len(l) \in Nat
      /\ \A i \in 1 .. Len(l) : Append(l, t)[i] = l[i]
      /\ Append(l, t)[Len(l) + 1] = t
  BY <1>1, AppendFacts
<1> DEFINE m == Append(l, t)
<1> HIDE DEF m, t
<1> QED BY <1>1, <1>2 DEF Queue, m, t

LEMMA QueueTail ==
  ASSUME NEW l \in Seq(LockTask), l # <<>>, NEW p, Queue(l, p)
  PROVE  /\ Queue(Tail(l), p)
         /\ Head(l).op = "seal" => p = "queued" /\ \A q : Queue(Tail(l), q)
         /\ Head(l).req = Finalized => p = "cleaning" /\ \A q : Queue(Tail(l), q)
<1>1. /\ Tail(l) \in Seq(LockTask) /\ Len(Tail(l)) = Len(l) - 1 /\ Len(l) \in Nat \ {0}
      /\ \A i \in 1 .. Len(Tail(l)) : Tail(l)[i] = l[i + 1]
      /\ Head(l) = l[1]
  BY TailFacts
<1> DEFINE m == Tail(l)
<1> HIDE DEF m
<1>2. /\ \A i \in 1 .. Len(m) : i + 1 \in 1 .. Len(l) /\ m[i] = l[i + 1] /\ i + 1 # 1
      /\ \A i, j \in 1 .. Len(m) : i # j => i + 1 # j + 1
  BY <1>1 DEF m
<1>3. 1 \in 1 .. Len(l)
  BY <1>1
<1>4. Queue(m, p)
  <2>1. ASSUME NEW i \in 1 .. Len(m)
        PROVE  /\ m[i].op = "seal" => p = "queued"
               /\ m[i].req = Finalized => p = "cleaning"
    BY <1>2 DEF Queue
  <2>2. ASSUME NEW i \in 1 .. Len(m), NEW j \in 1 .. Len(m), i # j
        PROVE  /\ ~(m[i].op = "seal" /\ m[j].op = "seal")
               /\ ~(m[i].req = Finalized /\ m[j].req = Finalized)
    BY <1>2, <2>2 DEF Queue
  <2> QED BY <2>1, <2>2 DEF Queue
<1>5. ASSUME l[1].op = "seal" PROVE p = "queued" /\ \A q : Queue(m, q)
  <2>1. p = "queued"
    BY <1>3, <1>5 DEF Queue
  <2>2. \A i \in 1 .. Len(m) : m[i].op # "seal" /\ m[i].req # Finalized
    BY <1>2, <1>3, <1>5, <2>1 DEF Queue
  <2> QED BY <2>1, <2>2 DEF Queue
<1>6. ASSUME l[1].req = Finalized PROVE p = "cleaning" /\ \A q : Queue(m, q)
  <2>1. p = "cleaning"
    BY <1>3, <1>6 DEF Queue
  <2>2. \A i \in 1 .. Len(m) : m[i].op # "seal" /\ m[i].req # Finalized
    BY <1>2, <1>3, <1>6, <2>1 DEF Queue
  <2> QED BY <2>1, <2>2 DEF Queue
<1> QED BY <1>1, <1>4, <1>5, <1>6 DEF m

\* The chunks that waited for a session come behind the others.
LEMMA QueueChunks ==
  ASSUME NEW l \in Seq(LockTask), NEW b \in Seq(AppendTask), NEW p, Queue(l, p)
  PROVE  Queue(l \o b, p)
<1>1. Len(l) \in Nat /\ Len(b) \in Nat /\ Len(l \o b) = Len(l) + Len(b)
  OBVIOUS
<1>2. \A i \in 1 .. Len(l) : (l \o b)[i] = l[i]
  OBVIOUS
<1>3. \A i \in 1 .. Len(b) : b[i].op # "seal" /\ b[i].req # Finalized
  <2> TAKE i \in 1 .. Len(b)
  <2>1. b[i] \in AppendTask
    OBVIOUS
  <2>2. b[i].op = "append" /\ b[i].req.kind = "chunk"
    BY <2>1 DEF AppendTask, ChunkRequest, Requests
  <2>3. Finalized.kind = "finalized"
    BY DEF Finalized, Request
  <2> QED BY <2>2, <2>3
<1>4. \A i \in 1 .. Len(l) + Len(b) : i \notin 1 .. Len(l) =>
         (l \o b)[i].op # "seal" /\ (l \o b)[i].req # Finalized
  <2> TAKE i \in 1 .. Len(l) + Len(b)
  <2> HAVE i \notin 1 .. Len(l)
  <2>1. i - Len(l) \in 1 .. Len(b) /\ (l \o b)[i] = b[i - Len(l)]
    BY <1>1
  <2> QED BY <1>3, <2>1
<1> DEFINE m == l \o b
<1> HIDE DEF m
<1> QED BY <1>1, <1>2, <1>4 DEF Queue, m

-----------------------------------------------------------------------------
(* The finalization: it is alone, and it begins with the job leaving the      *)
(* states in which chunks are received.                                       *)

FinalizingNow(s) == sess[s].phase \in {"completing", "failing"}

LockInv ==
  /\ Queue(lock, fin.phase)
  /\ fin.phase \in {"restoring", "cleaning"} => job \notin Receiving
  /\ \A s \in Sessions : FinalizingNow(s) => fin.phase = "restoring"
  /\ \A s, q \in Sessions : FinalizingNow(s) /\ FinalizingNow(q) => s = q

\* A step that leaves the finalization and the sessions alone, and puts a task
\* of another kind behind the others, or none.
LEMMA LockStays ==
  ASSUME LockInv, UploadTypes, UNCHANGED fin.phase, job' \in Receiving => job \in Receiving,
         \A s \in Sessions : FinalizingNow(s)' => FinalizingNow(s),
         \/ UNCHANGED lock
         \/ \E t \in LockTask : /\ t.op # "seal" /\ t.req # Finalized
                                /\ lock' = Append(lock, t)
         \/ lock # <<>> /\ lock' = Tail(lock)
  PROVE  LockInv'
<1>1. Queue(lock, fin.phase)'
  <2>1. lock \in Seq(LockTask) /\ Queue(lock, fin.phase)
    BY DEF LockInv, UploadTypes
  <2>2. Queue(lock', fin.phase)
    <3>1. CASE UNCHANGED lock
      BY <2>1, <3>1
    <3>2. CASE \E t \in LockTask : /\ t.op # "seal" /\ t.req # Finalized
                                   /\ lock' = Append(lock, t)
      BY <2>1, <3>2, QueueBehind
    <3>3. CASE lock # <<>> /\ lock' = Tail(lock)
      BY <2>1, <3>3, QueueTail
    <3> QED BY <3>1, <3>2, <3>3
  <2> QED BY <2>2
<1> QED BY <1>1 DEF LockInv

\* A call of abortActive leaves the lock to its caller.
LEMMA LockAborts ==
  ASSUME Types, LockInv, NEW end, NEW r, NEW result, Ending(end, r, result),
         AbortActive(end, r, result), UNCHANGED fin,
         \/ UNCHANGED lock
         \/ lock # <<>> /\ lock' = Tail(lock)
  PROVE  LockInv'
<1>1. job' \in Receiving => job \in Receiving
  BY AbortEffect
<1>2. \A s \in Sessions : FinalizingNow(s)' => FinalizingNow(s)
  <2>1. active \in Sessions \cup {None}
    BY DEF Types, SlotTypes
  <2> QED BY <2>1, AbortEffect DEF FinalizingNow, AllSame, Same, Turns
<1>3. UploadTypes
  BY DEF Types
<1> QED BY <1>1, <1>2, <1>3, LockStays

LEMMA LockStep ==
  ASSUME Types, LockInv, Next
  PROVE  LockInv'
<1>1. SessTypes /\ SlotTypes /\ UploadTypes /\ WireTypes
  BY DEF Types
<1>2. ASSUME UNCHANGED fin, AllSame, job' \in Receiving => job \in Receiving,
             \/ UNCHANGED lock
             \/ \E t \in LockTask : /\ t.op # "seal" /\ t.req # Finalized
                                    /\ lock' = Append(lock, t)
             \/ lock # <<>> /\ lock' = Tail(lock)
      PROVE  LockInv'
  <2>1. \A s \in Sessions : FinalizingNow(s)' => FinalizingNow(s)
    BY <1>2 DEF FinalizingNow, AllSame, Same
  <2> QED BY <1>1, <1>2, <2>1, LockStays
<1>3. /\ \A r \in ChunkRequest, s \in Sessions :
           LET t == Task("append", r, s)
           IN  t \in LockTask /\ t.op # "seal" /\ t.req # Finalized
      /\ \A r \in CancelRequest \cup {Expiry} :
           Clean(r) \in LockTask /\ Clean(r).op # "seal" /\ Clean(r).req # Finalized
  <2>1. Finalized.kind = "finalized" /\ Expiry.kind = "expiry"
    BY DEF Finalized, Expiry, Request
  <2>2. /\ \A r \in ChunkRequest : r.kind = "chunk"
        /\ \A r \in CancelRequest : r.kind = "cancel"
    BY DEF ChunkRequest, CancelRequest, Requests
  <2> QED BY <2>1, <2>2, TaskTypes DEF LockTask, Task, Clean
<1>4. lock # <<>> => /\ lock \in Seq(LockTask) /\ Tail(lock) \in Seq(LockTask)
                     /\ Head(lock).op = "append" => Head(lock) \in AppendTask
                     /\ Head(lock).op = "seal" => Head(lock) \in SealTask
                     /\ Head(lock).op = "clean" => Head(lock) \in CleanTask
                     /\ Queue(Tail(lock), fin.phase)
                     /\ Head(lock).op = "seal" =>
                          fin.phase = "queued" /\ \A q : Queue(Tail(lock), q)
                     /\ Head(lock).req = Finalized =>
                          fin.phase = "cleaning" /\ \A q : Queue(Tail(lock), q)
  BY <1>1, HeadTypes, QueueTail DEF LockInv, UploadTypes
<1>5. fin.phase # "restoring" => \A s \in Sessions : ~FinalizingNow(s)
  BY DEF LockInv
<1>6. ASSUME NEW r \in net, Arrive(r) PROVE LockInv'
  <2>1. r \in WireRequest
    BY <1>1 DEF WireTypes
  <2>2. CASE RefuseChunk(r) \/ SlotTaken(r) \/ OpenSession(r) \/ ShareFinalize(r)
             \/ LateFinalize(r)
    <3>1. /\ UNCHANGED <<fin.phase, lock>> /\ (job' \in Receiving => job \in Receiving)
          /\ \A s \in Sessions : FinalizingNow(s)' => FinalizingNow(s)
      <4>1. CASE OpenSession(r)
        <5>1. PICK s \in Sessions :
                 sess' = [sess EXCEPT ![s] = [NoSession EXCEPT !.phase = "opening",
                                                 !.waiters = <<r>>, !.torn = aborts # {}]]
          BY <4>1 DEF OpenSession, Sessions
        <5> QED BY <1>1, <4>1, <5>1
                DEF OpenSession, BeginChunk, SessTypes, FinalizingNow, NoSession, Receiving
      <4>2. CASE ~OpenSession(r)
        BY <2>2, <4>2, <1>1
           DEF RefuseChunk, SlotTaken, ShareFinalize, LateFinalize, BeginChunk, sessions,
               FinalizingNow, Receiving, UploadTypes
      <4> QED BY <4>1, <4>2
    <3> QED BY <1>1, <3>1, LockStays
  <2>3. CASE JoinSession(r)
    <3>1. r \in ChunkRequest /\ active \in Sessions /\ UNCHANGED fin
          /\ (job' \in Receiving => job \in Receiving)
      BY <1>1, <2>1, <2>3, RequestTypes
         DEF JoinSession, BeginChunk, Arrives, SlotTypes, Receiving
    <3>2. UNCHANGED lock \/ lock' = Append(lock, Task("append", r, active))
      BY <2>3 DEF JoinSession
    <3> QED BY <1>1, <1>2, <1>3, <2>3, <3>1, <3>2, JoinSame
  <2>4. CASE ArriveCancel(r)
    <3>1. r \in CancelRequest /\ UNCHANGED <<fin, job, sessions>>
          /\ lock' = Append(lock, Clean(r))
      BY <2>1, <2>4, RequestTypes DEF ArriveCancel, Arrives
    <3> QED BY <1>2, <1>3, <3>1, SameFacts
  <2>5. CASE StartFinalize(r)
    <3>1. r \in FinalizeRequest
      BY <2>1, <2>5, RequestTypes DEF StartFinalize, Arrives
    <3>2. Task("seal", r, None) \in LockTask /\ Task("seal", r, None).op = "seal"
          /\ Task("seal", r, None).req # Finalized
      BY <3>1, TaskTypes DEF LockTask, Task, FinalizeRequest, Requests, Finalized, Request
    <3>3. /\ fin.phase = "none" /\ fin'.phase = "queued" /\ UNCHANGED <<job, sess>>
          /\ lock' = Append(lock, Task("seal", r, None))
      BY <2>5 DEF StartFinalize, sessions
    <3>4. Queue(lock', "queued")
      BY <1>1, <3>2, <3>3, QueueSeal DEF LockInv, UploadTypes
    <3>5. Queue(lock, fin.phase)'
      BY <3>3, <3>4
    <3> QED BY <1>5, <3>3, <3>5 DEF LockInv, FinalizingNow
  <2> QED BY <1>6, <2>2, <2>3, <2>4, <2>5 DEF Arrive
<1>7. ASSUME NEW s \in Sessions, Opened(s) \/ OpenFails(s) PROVE LockInv'
  <2>1. PICK p \in {"open", "aborting", "aborted"} : Turns(s, p)
    BY <1>1, <1>7, TurnFacts DEF Opened, OpenFails
  <2>2. \A q \in Sessions : FinalizingNow(q)' => FinalizingNow(q)
    BY <2>1 DEF Turns, Same, FinalizingNow
  <2>3. UNCHANGED fin /\ (job' \in Receiving => job \in Receiving)
    BY <1>7 DEF Opened, OpenFails, Receiving
  <2>4. CASE OpenFails(s)
    <3>1. UNCHANGED lock
      BY <2>4 DEF OpenFails
    <3> QED BY <1>1, <2>2, <2>3, <3>1, LockStays
  <2>5. CASE Opened(s)
    <3> DEFINE b == [i \in DOMAIN sess[s].waiters |-> Task("append", sess[s].waiters[i], s)]
    <3>1. sess[s].waiters \in Seq(ChunkRequest)
      BY <1>1 DEF SessTypes, Session
    <3>2. b \in Seq(AppendTask)
      <4>1. \A i \in 1 .. Len(sess[s].waiters) :
               Task("append", sess[s].waiters[i], s) \in AppendTask
        BY <3>1, TaskTypes
      <4> QED BY <3>1, <4>1
    <3>3. lock' = lock \o b
      BY <2>5 DEF Opened
    <3> HIDE DEF b
    <3>4. Queue(lock', fin.phase)
      BY <1>1, <3>2, <3>3, QueueChunks DEF LockInv, UploadTypes
    <3> QED BY <2>2, <2>3, <3>4 DEF LockInv
  <2> QED BY <1>7, <2>4, <2>5
<1>8. ASSUME Upload PROVE LockInv'
  <2>1. CASE AppendRefused \/ AppendRepeated
    BY <1>2, <2>1, SameFacts
       DEF AppendRefused, AppendRepeated, HoldsChunk, Holds, Release
  <2>2. CASE AppendConsumed
    <3> DEFINE s == Head(lock).s
    <3>1. s \in Sessions
      BY <1>4, <2>2 DEF AppendConsumed, HoldsChunk, Holds, AppendTask
    <3>2. \A q \in Sessions : FinalizingNow(q)' => FinalizingNow(q)
      BY <1>1, <2>2, <3>1 DEF AppendConsumed, FinalizingNow, SessTypes, Session
    <3>3. UNCHANGED <<fin, job>> /\ lock # <<>> /\ lock' = Tail(lock)
      BY <2>2 DEF AppendConsumed, HoldsChunk, Holds, Release
    <3> QED BY <1>1, <3>2, <3>3, LockStays
  <2>3. CASE AppendFails
    <3>1. PICK result \in {"refused", "failed"} : AbortActive("error", Head(lock).req, result)
      BY <2>3 DEF AppendFails
    <3>2. Ending("error", Head(lock).req, result)
      BY <1>4, <2>3 DEF AppendFails, HoldsChunk, Holds, AppendTask, Ending
    <3>3. UNCHANGED fin /\ lock # <<>> /\ lock' = Tail(lock)
      BY <2>3 DEF AppendFails, HoldsChunk, Holds, Release
    <3> QED BY <3>1, <3>2, <3>3, LockAborts
  <2>4. CASE SealRefused \/ SealTooLate
    <3>1. /\ lock # <<>> /\ Head(lock).op = "seal" /\ lock' = Tail(lock)
          /\ fin'.phase = "none" /\ UNCHANGED sess
      BY <2>4 DEF SealRefused, SealTooLate, Holds, Release, NoFin, sessions
    <3>2. Queue(lock, fin.phase)'
      BY <1>4, <3>1
    <3> QED BY <1>4, <1>5, <3>1, <3>2 DEF LockInv, FinalizingNow
  <2>5. CASE SealWithout
    <3>1. /\ lock # <<>> /\ Head(lock).op = "seal"
          /\ lock' = Append(Tail(lock), Clean(Finalized))
          /\ fin'.phase = "cleaning" /\ UNCHANGED sess /\ job' = "restoring"
      BY <1>1, <2>5 DEF SealWithout, Holds, sessions, UploadTypes
    <3>2. Queue(lock', "cleaning")
      <4>1. Queue(Tail(lock), "none") /\ Tail(lock) \in Seq(LockTask)
        BY <1>4, <3>1
      <4> QED BY <3>1, <4>1, QueueFinalized
    <3>3. Queue(lock, fin.phase)'
      BY <3>1, <3>2
    <3> QED BY <1>4, <1>5, <3>1, <3>3 DEF LockInv, FinalizingNow, Receiving
  <2>6. CASE Seal
    <3>1. /\ lock # <<>> /\ Head(lock).op = "seal" /\ lock' = Tail(lock)
          /\ fin'.phase = "restoring" /\ job' = "restoring" /\ active \in Sessions
      BY <1>1, <2>6 DEF Seal, Holds, Release, UploadTypes, SlotTypes
    <3>2. PICK p \in {"completing", "failing"} : Turns(active, p)
      BY <1>1, <2>6, <3>1, TurnFacts DEF Seal
    <3>3. Queue(lock, fin.phase)'
      BY <1>4, <3>1
    <3>4. \A q \in Sessions : FinalizingNow(q)' => q = active
      BY <1>4, <1>5, <3>1, <3>2 DEF Turns, Same, FinalizingNow
    <3> QED BY <3>1, <3>3, <3>4 DEF LockInv, Receiving
  <2>7. CASE FinishFinalize
    <3>1. /\ lock # <<>> /\ Head(lock).req = Finalized /\ lock' = Tail(lock)
          /\ fin'.phase = "none" /\ UNCHANGED <<job, sess>>
      BY <2>7 DEF FinishFinalize, Holds, Release, NoFin, sessions
    <3>2. Queue(lock, fin.phase)'
      BY <1>4, <3>1
    <3> QED BY <1>4, <1>5, <3>1, <3>2 DEF LockInv, FinalizingNow
  <2>8. CASE CleanCancelled
    <3>1. UNCHANGED fin /\ lock # <<>> /\ lock' = Tail(lock) /\ Head(lock).op = "clean"
          /\ Head(lock).req.kind = "cancel"
      BY <2>8 DEF CleanCancelled, Holds, Release
    <3>2. Head(lock).req \in CancelRequest
      BY <1>4, <3>1 DEF CleanTask, Expiry, Finalized, Request, CancelRequest
    <3>3. CASE AbortActive("gone", Head(lock).req, "ok")
      BY <3>1, <3>2, <3>3, LockAborts DEF Ending
    <3>4. CASE ~AbortActive("gone", Head(lock).req, "ok")
      <4>1. UNCHANGED <<job, sess>>
        BY <2>8, <3>4 DEF CleanCancelled, Cancel
      <4> QED BY <1>2, <3>1, <4>1, SameFacts
    <3> QED BY <3>3, <3>4
  <2>9. CASE CleanExpired
    <3>1. UNCHANGED fin /\ lock # <<>> /\ lock' = Tail(lock)
          /\ AbortActive("gone", Expiry, "ok")
      BY <2>9 DEF CleanExpired, Holds, Release
    <3> QED BY <3>1, LockAborts DEF Ending
  <2> QED BY <1>8, <2>1, <2>2, <2>3, <2>4, <2>5, <2>6, <2>7, <2>8, <2>9 DEF Upload
<1>9. ASSUME Restore PROVE LockInv'
  <2>1. PICK s \in Sessions : RestoreCommits(s) \/ RestoreFails(s)
    BY <1>9 DEF Restore, Sessions
  <2>2. PICK p \in {"committed", "failed"}, result \in Results : EndRestore(s, p, result)
    BY <2>1 DEF RestoreCommits, RestoreFails, Results
  <2>3. FinalizingNow(s) /\ fin.phase = "restoring" /\ job' \notin Receiving
    BY <2>1 DEF RestoreCommits, RestoreFails, FinalizingNow, LockInv, Settled, Receiving
  <2>4. fin'.phase = "cleaning" /\ lock' = Append(lock, Clean(Finalized)) /\ Turns(s, p)
    BY <1>1, <2>2, TurnFacts DEF EndRestore, UploadTypes
  <2>5. Queue(lock', "cleaning")
    BY <1>1, <2>3, <2>4, QueueFinalized DEF LockInv, UploadTypes
  <2>6. Queue(lock, fin.phase)'
    BY <2>4, <2>5
  <2>7. \A q \in Sessions : ~FinalizingNow(q)'
    <3> TAKE q \in Sessions
    <3>1. CASE q = s
      BY <2>4, <3>1 DEF Turns, FinalizingNow
    <3>2. CASE q # s
      BY <2>3, <2>4, <3>2 DEF Turns, Same, FinalizingNow, LockInv
    <3> QED BY <3>1, <3>2
  <2> QED BY <2>3, <2>4, <2>6, <2>7 DEF LockInv
<1>10. ASSUME Abort PROVE LockInv'
  <2>1. PICK t \in aborts : AbortParser(t) \/ AbortRows(t)
    BY <1>10 DEF Abort
  <2>2. t.s \in Sessions
    BY DEF Types, CallTypes, FailedCall, GoneCall
  <2>3. CASE AbortParser(t)
    BY <1>2, <2>3, SameFacts DEF AbortParser
  <2>4. CASE AbortRows(t)
    <3>1. UNCHANGED <<fin, lock>> /\ job' \notin Receiving
      BY <2>4 DEF AbortRows, Outcome, Settled, Receiving
    <3>2. Turns(t.s, IF sess[t.s].phase = "aborting" THEN "aborted" ELSE sess[t.s].phase)
      <4> DEFINE p == IF sess[t.s].phase = "aborting" THEN "aborted" ELSE sess[t.s].phase
      <4>1. sess' = [sess EXCEPT ![t.s].phase = p]
        BY <2>4 DEF AbortRows
      <4> HIDE DEF p
      <4>2. Turns(t.s, p)
        BY <1>1, <2>2, <4>1, TurnFacts
      <4> QED BY <4>2 DEF p
    <3>3. \A q \in Sessions : FinalizingNow(q)' => FinalizingNow(q)
      BY <3>2 DEF Turns, Same, FinalizingNow
    <3> QED BY <1>1, <3>1, <3>3, LockStays
  <2> QED BY <2>1, <2>3, <2>4
<1>11. ASSUME GiveUp \/ EndCancel \/ TimerFires \/ OtherImport PROVE LockInv'
  <2>1. CASE GiveUp \/ OtherImport \/ CancelSettled
    BY <1>2, <2>1, SameFacts DEF GiveUp, OtherImport, CancelSettled, Receiving
  <2>2. CASE TimerFires
    <3>1. UNCHANGED <<fin, job, sessions>> /\ lock' = Append(lock, Clean(Expiry))
      BY <2>2 DEF TimerFires
    <3> QED BY <1>2, <1>3, <3>1, SameFacts
  <2>3. CASE CancelOpened
    <3>1. CASE Finalizing(cancel.s)
      BY <1>2, <2>3, <3>1, SameFacts DEF CancelOpened, Cancel
    <3>2. CASE ~Finalizing(cancel.s)
      <4> DEFINE r == Request("cancel", 0, 1)
      <4>1. AbortActive("gone", r, "ok") /\ UNCHANGED fin /\ UNCHANGED lock
        BY <2>3, <3>2 DEF CancelOpened, Cancel
      <4>2. Ending("gone", r, "ok")
        BY DEF Ending, Request, CancelRequest, Requests
      <4> HIDE DEF r
      <4> QED BY <4>1, <4>2, LockAborts
    <3> QED BY <3>1, <3>2
  <2> QED BY <1>11, <2>1, <2>2, <2>3 DEF EndCancel
<1> QED BY <1>6, <1>7, <1>8, <1>9, <1>10, <1>11, NextSteps

-----------------------------------------------------------------------------
(* The slot: a session that was opened while no other was being aborted has   *)
(* it to itself, and has consumed the file as far as it was received.         *)

Counted(n) == [i \in 1 .. n |-> i]

Sound(s) == Began(s) /\ ~sess[s].torn
Alone(s) == \A q \in Sessions \ {s} : ~Began(q)

\* While chunks are received, nothing is aborted and nobody has the slot, no
\* session was ever opened.
FreshInv ==
  job \in Receiving /\ aborts = {} /\ active = None =>
     up.received = 0 /\ \A s \in Sessions : ~Began(s)

PendingInv == job = "pending" => aborts = {} /\ active = None

SoundInv(s) ==
  Sound(s) =>
    /\ \A q \in Sessions : Sound(q) => q = s
    /\ active = s => aborts = {} /\ Alone(s)
    /\ sess[s].phase = "open" => active = s
    /\ sess[s].phase = "opening" =>
         active = s \/ \E t \in aborts : t.s = s /\ t.stage = "parser"
    /\ sess[s].phase \in {"opening", "open"} /\ active = s =>
         job = "uploading" /\ sess[s].consumed = Counted(up.received)
    /\ sess[s].phase = "opening" /\ active = s => up.received = 0
    /\ FinalizingNow(s) => Alone(s) /\ active \in {s, None}
    /\ sess[s].phase \in {"completing", "committed"} => sess[s].consumed = File

SlotInv ==
  /\ FreshInv
  /\ PendingInv
  /\ \A s \in Sessions : SoundInv(s)
  /\ \A s \in Sessions : (active = s => Began(s)) /\ (~Began(s) => ~sess[s].torn)

\* Sessions that keep their phase, or turn from one phase to another, are as
\* sound as before.
LEMMA SoundSame ==
  ASSUME \/ AllSame
         \/ \E s \in Sessions, p \in Phases :
              Turns(s, p) /\ (p = "none" <=> sess[s].phase = "none")
  PROVE  \A q \in Sessions : /\ Began(q)' <=> Began(q)
                             /\ Sound(q)' <=> Sound(q)
                             /\ Alone(q)' <=> Alone(q)
                             /\ sess'[q].torn = sess[q].torn
                             /\ sess'[q].consumed = sess[q].consumed
<1>1. \A q \in Sessions : /\ sess'[q].phase = "none" <=> sess[q].phase = "none"
                          /\ sess'[q].torn = sess[q].torn
                          /\ sess'[q].consumed = sess[q].consumed
  BY DEF AllSame, Same, Turns
<1> QED BY <1>1 DEF Began, Sound, Alone

\* A step that touches neither the slot nor the sessions, and what was received
\* only if no session is about to go on from there.
LEMMA SlotIdle ==
  ASSUME SlotInv, UNCHANGED <<active, aborts>>, AllSame,
         job' = "pending" => job = "pending",
         active = None /\ job' \in Receiving =>
            job \in Receiving /\ up'.received = up.received,
         \A s \in Sessions :
            active = s /\ Sound(s) /\ sess[s].phase \in {"opening", "open"} =>
               up'.received = up.received /\ (job = "uploading" => job' = "uploading")
  PROVE  SlotInv'
<1>1. \A q \in Sessions : /\ Began(q)' <=> Began(q)
                          /\ Sound(q)' <=> Sound(q)
                          /\ Alone(q)' <=> Alone(q)
                          /\ sess'[q].torn = sess[q].torn
                          /\ sess'[q].consumed = sess[q].consumed
                          /\ sess'[q].phase = sess[q].phase
  BY SoundSame DEF AllSame, Same
<1>2. FreshInv'
  BY <1>1 DEF SlotInv, FreshInv
<1>3. PendingInv'
  BY DEF SlotInv, PendingInv
<1>4. \A s \in Sessions : SoundInv(s)'
  <2> TAKE s \in Sessions
  <2>1. SoundInv(s)
    BY DEF SlotInv
  <2>2. up'.received = up.received => Counted(up.received)' = Counted(up.received)
    BY DEF Counted
  <2> QED BY <1>1, <2>1, <2>2 DEF SoundInv, FinalizingNow, File
<1> QED BY <1>1, <1>2, <1>3, <1>4 DEF SlotInv

LEMMA SlotStays ==
  ASSUME SlotInv, UNCHANGED <<active, aborts>>, up'.received = up.received, AllSame,
         job' = job \/ (job \in Receiving /\ job' = "uploading")
  PROVE  SlotInv'
BY SlotIdle DEF Receiving

\* A call of abortActive.
LEMMA SlotAborts ==
  ASSUME Types, SlotInv, NEW end, NEW r, NEW result, Ending(end, r, result),
         AbortActive(end, r, result)
  PROVE  SlotInv'
<1>1. active \in Sessions \cup {None} /\ None \notin Sessions
  BY DEF Types, SlotTypes, Sessions, None
<1>2. /\ active' = None
      /\ active = None => AllSame /\ UNCHANGED aborts /\ job' \notin Receiving
      /\ active # None =>
           /\ UNCHANGED job /\ aborts \subseteq aborts'
           /\ \E c \in aborts' :
                c.s = active /\ (c.stage = "rows" => sess[active].phase \in FinishedParser)
           /\ Turns(active, IF sess[active].phase = "open" THEN "aborting"
                            ELSE sess[active].phase)
  BY AbortEffect
<1>3. \A q \in Sessions : /\ Began(q)' <=> Began(q)
                          /\ Sound(q)' <=> Sound(q)
                          /\ Alone(q)' <=> Alone(q)
                          /\ sess'[q].torn = sess[q].torn
                          /\ sess'[q].consumed = sess[q].consumed
  <2>1. CASE active = None
    BY <1>2, <2>1, SoundSame
  <2>2. CASE active # None
    <3> DEFINE p == IF sess[active].phase = "open" THEN "aborting" ELSE sess[active].phase
    <3>1. p \in Phases /\ (p = "none" <=> sess[active].phase = "none")
      BY <1>1, <2>2 DEF Types, SessTypes, Session, Phases
    <3>2. Turns(active, p)
      BY <1>2, <2>2
    <3> HIDE DEF p
    <3> QED BY <1>1, <2>2, <3>1, <3>2, SoundSame
  <2> QED BY <2>1, <2>2
<1>4. FreshInv'
  BY <1>2 DEF FreshInv
<1>5. PendingInv'
  BY <1>2 DEF SlotInv, PendingInv, Receiving
<1>6. \A s \in Sessions : SoundInv(s)'
  <2> TAKE s \in Sessions
  <2> SUFFICES ASSUME Sound(s)'
               PROVE  /\ \A q \in Sessions : Sound(q)' => q = s
                      /\ sess'[s].phase # "open"
                      /\ sess'[s].phase = "opening" =>
                           \E t \in aborts' : t.s = s /\ t.stage = "parser"
                      /\ FinalizingNow(s)' => Alone(s)'
                      /\ sess'[s].phase \in {"completing", "committed"} =>
                           sess'[s].consumed = File
    BY <1>1, <1>2 DEF SoundInv, File
  <2>1. SoundInv(s) /\ Sound(s)
    BY <1>3 DEF SlotInv
  <2>2. \A q \in Sessions : Sound(q)' => q = s
    BY <1>3, <2>1 DEF SoundInv
  <2>3. CASE active = s
    <3>1. sess'[s].phase = IF sess[s].phase = "open" THEN "aborting" ELSE sess[s].phase
      BY <1>1, <1>2, <2>3 DEF Turns
    <3>2. sess'[s].phase = "opening" => \E t \in aborts' : t.s = s /\ t.stage = "parser"
      <4> HAVE sess'[s].phase = "opening"
      <4>1. PICK c \in aborts' : c.s = s /\ (c.stage = "rows" => sess[s].phase \in FinishedParser)
        BY <1>1, <1>2, <2>3
      <4>2. c.stage \in {"parser", "rows"}
        <5>1. aborts' \subseteq FailedCall \cup GoneCall
          BY AbortTypes DEF CallTypes
        <5> QED BY <4>1, <5>1 DEF FailedCall, GoneCall, Stages
      <4> QED BY <3>1, <4>1, <4>2 DEF FinishedParser
    <3> QED BY <1>3, <2>1, <2>2, <3>1, <3>2 DEF SoundInv, FinalizingNow
  <2>4. CASE active # s
    <3>1. sess'[s].phase = sess[s].phase /\ aborts \subseteq aborts'
      BY <1>1, <1>2, <2>4 DEF AllSame, Same, Turns
    <3> QED BY <1>3, <2>1, <2>2, <2>4, <3>1 DEF SoundInv, FinalizingNow
  <2> QED BY <2>3, <2>4
<1> QED BY <1>1, <1>2, <1>3, <1>4, <1>5, <1>6 DEF SlotInv

\* A session is opened: the first one, or one beside others that are aborted.
LEMMA SlotOpens ==
  ASSUME Types, LockInv, SlotInv, NEW r, OpenSession(r)
  PROVE  SlotInv'
<1>1. active = None /\ None \notin Sessions /\ sess \in [Sessions -> Session]
  BY DEF OpenSession, Sessions, None, Types, SessTypes
<1> DEFINE fresh == [NoSession EXCEPT !.phase = "opening", !.waiters = <<r>>,
                                      !.torn = aborts # {}]
<1>2. PICK s \in Sessions : /\ sess[s].phase = "none" /\ active' = s
                            /\ sess' = [sess EXCEPT ![s] = fresh]
  BY DEF OpenSession, Sessions
<1>3. /\ fresh.phase = "opening" /\ fresh.consumed = <<>>
      /\ fresh.torn = (aborts # {})
  BY DEF NoSession
<1> HIDE DEF fresh
<1>4. job \in Receiving /\ job' = "uploading" /\ UNCHANGED <<aborts, up>>
  BY DEF OpenSession, BeginChunk, Receiving
<1>5. /\ sess'[s].phase = "opening" /\ sess'[s].consumed = <<>>
      /\ sess'[s].torn = (aborts # {})
      /\ \A q \in Sessions \ {s} : sess'[q] = sess[q]
  BY <1>1, <1>2, <1>3
<1>6. SoundInv(s)'
  <2> SUFFICES ASSUME Sound(s)' PROVE SoundInv(s)'
    BY DEF SoundInv
  <2>1. aborts = {}
    BY <1>5 DEF Sound
  <2>2. up.received = 0 /\ \A q \in Sessions : ~Began(q)
    BY <1>1, <1>4, <2>1 DEF SlotInv, FreshInv
  <2>3. Counted(up.received)' = <<>>
    BY <1>4, <2>2 DEF Counted
  <2>4. Alone(s)' /\ \A q \in Sessions : Sound(q)' => q = s
    BY <1>5, <2>2 DEF Alone, Began, Sound
  <2> QED BY <1>2, <1>4, <1>5, <2>1, <2>2, <2>3, <2>4 DEF SoundInv, FinalizingNow
<1>7. ASSUME NEW q \in Sessions \ {s} PROVE SoundInv(q)'
  <2> SUFFICES ASSUME Sound(q)' PROVE SoundInv(q)'
    BY DEF SoundInv
  <2>1. Sound(q) /\ SoundInv(q) /\ Began(q)
    BY <1>5 DEF Sound, Began, SlotInv
  <2>2. aborts # {}
    BY <1>1, <1>4, <2>1 DEF SlotInv, FreshInv
  <2>3. ~Sound(s)'
    BY <1>5, <2>2 DEF Sound
  <2>4. sess[q].phase # "open" /\ ~FinalizingNow(q)
    BY <1>1, <1>4, <2>1 DEF SoundInv, LockInv
  <2>5. \A w \in Sessions : Sound(w)' => w = q
    BY <1>5, <2>1, <2>3 DEF SoundInv, Sound, Began
  <2> QED BY <1>1, <1>2, <1>4, <1>5, <2>1, <2>4, <2>5 DEF SoundInv, FinalizingNow, File
<1>8. FreshInv' /\ PendingInv'
  BY <1>1, <1>2, <1>4 DEF FreshInv, PendingInv
<1>9. \A q \in Sessions : (active' = q => Began(q)') /\ (~Began(q)' => ~sess'[q].torn)
  BY <1>2, <1>5 DEF Began, SlotInv
<1> QED BY <1>6, <1>7, <1>8, <1>9 DEF SlotInv

\* A session comes up, or does not: then whoever has the slot loses it.
LEMMA SlotOpenEnds ==
  ASSUME Types, LockInv, SlotInv, NEW s \in Sessions, Opened(s) \/ OpenFails(s)
  PROVE  SlotInv'
<1>1. sess[s].phase = "opening" /\ SessTypes /\ None \notin Sessions
  BY DEF Opened, OpenFails, Types, Sessions, None
<1>2. PICK p \in {"open", "aborting", "aborted"} :
         /\ Turns(s, p)
         /\ Opened(s) => p = IF \E t \in aborts : t.s = s THEN "aborting" ELSE "open"
         /\ OpenFails(s) => p = "aborted"
  <2>1. CASE Opened(s)
    <3> DEFINE p == IF \E t \in aborts : t.s = s THEN "aborting" ELSE "open"
    <3>1. sess' = [sess EXCEPT ![s].phase = p, ![s].waiters = <<>>]
      BY <2>1 DEF Opened
    <3> HIDE DEF p
    <3>2. Turns(s, p)
      BY <1>1, <3>1, TurnFacts
    <3>3. ~OpenFails(s)
      <4>1. scratch = None /\ scratch' = s
        BY <2>1 DEF Opened
      <4> QED BY <1>1, <4>1 DEF OpenFails
    <3> QED BY <3>2, <3>3 DEF p
  <2>2. CASE OpenFails(s) /\ ~Opened(s)
    <3>1. Turns(s, "aborted")
      BY <1>1, <2>2, TurnFacts DEF OpenFails
    <3> QED BY <2>2, <3>1
  <2> QED BY <2>1, <2>2
<1>3. \A q \in Sessions : /\ Began(q)' <=> Began(q)
                          /\ Sound(q)' <=> Sound(q)
                          /\ Alone(q)' <=> Alone(q)
                          /\ sess'[q].torn = sess[q].torn
                          /\ sess'[q].consumed = sess[q].consumed
  <2>1. p \in Phases /\ (p = "none" <=> sess[s].phase = "none")
    BY <1>1 DEF Phases
  <2> QED BY <1>2, <2>1, SoundSame
<1>4. UNCHANGED <<aborts, up>> /\ sess'[s].phase = p
      /\ \A q \in Sessions \ {s} : sess'[q].phase = sess[q].phase
  BY <1>2 DEF Opened, OpenFails, Turns, Same
<1>5. CASE Opened(s)
  <2>1. UNCHANGED <<job, active>>
    BY <1>5 DEF Opened
  <2>2. FreshInv' /\ PendingInv'
    BY <1>3, <1>4, <2>1 DEF SlotInv, FreshInv, PendingInv
  <2>3. ASSUME NEW q \in Sessions PROVE SoundInv(q)'
    <3>1. SoundInv(q) /\ Counted(up.received)' = Counted(up.received)
      BY <1>4 DEF SlotInv, Counted
    <3>2. CASE q = s
      BY <1>1, <1>2, <1>3, <1>4, <1>5, <2>1, <3>1, <3>2 DEF SoundInv, FinalizingNow
    <3>3. CASE q # s
      BY <1>3, <1>4, <2>1, <3>1, <3>3 DEF SoundInv, FinalizingNow, File
    <3> QED BY <3>2, <3>3
  <2> QED BY <1>3, <2>1, <2>2, <2>3 DEF SlotInv
<1>6. CASE OpenFails(s)
  <2>1. active' = None /\ job' \notin Receiving
    BY <1>6 DEF OpenFails, Receiving
  <2>2. FreshInv' /\ PendingInv'
    BY <2>1 DEF FreshInv, PendingInv, Receiving
  <2>3. ASSUME NEW q \in Sessions PROVE SoundInv(q)'
    <3>1. SoundInv(q)
      BY DEF SlotInv
    <3>2. CASE q = s
      BY <1>1, <1>2, <1>3, <1>4, <1>6, <2>1, <3>1, <3>2 DEF SoundInv, FinalizingNow
    <3>3. CASE q # s
      <4>1. Began(s)
        BY <1>1 DEF Began
      <4>2. Sound(q) => active # q /\ sess[q].phase # "open"
        BY <3>1, <3>3, <4>1 DEF SoundInv, Alone
      <4> QED BY <1>1, <1>3, <1>4, <2>1, <3>1, <3>3, <4>2 DEF SoundInv, FinalizingNow, File
    <3> QED BY <3>2, <3>3
  <2> QED BY <1>1, <1>3, <2>1, <2>2, <2>3 DEF SlotInv
<1> QED BY <1>5, <1>6

LEMMA CountedNext ==
  ASSUME NEW n \in Nat
  PROVE  Append(Counted(n), n + 1) = Counted(n + 1)
<1>1. Counted(n) \in Seq(Nat) /\ Len(Counted(n)) = n /\ Counted(n + 1) \in Seq(Nat)
      /\ Len(Counted(n + 1)) = n + 1
  BY DEF Counted
<1>2. /\ Append(Counted(n), n + 1) \in Seq(Nat) /\ Len(Append(Counted(n), n + 1)) = n + 1
      /\ \A i \in 1 .. n : Append(Counted(n), n + 1)[i] = Counted(n)[i]
      /\ Append(Counted(n), n + 1)[n + 1] = n + 1
  BY <1>1, AppendFacts
<1>3. \A i \in 1 .. n + 1 : Append(Counted(n), n + 1)[i] = Counted(n + 1)[i]
  BY <1>2 DEF Counted
<1> DEFINE a == Append(Counted(n), n + 1)
           b == Counted(n + 1)
<1>4. a \in Seq(Nat) /\ b \in Seq(Nat) /\ Len(a) = Len(b) /\ \A i \in 1 .. Len(a) : a[i] = b[i]
  BY <1>1, <1>2, <1>3
<1> HIDE DEF a, b
<1>5. a = b
  <2>1. a = [i \in 1 .. Len(a) |-> a[i]] /\ b = [i \in 1 .. Len(b) |-> b[i]]
    BY <1>4
  <2> QED BY <1>4, <2>1
<1> QED BY <1>5 DEF a, b

\* A chunk is parsed: by the session that has the slot, and it is the next one.
LEMMA SlotConsumes ==
  ASSUME Types, SlotInv, AppendConsumed
  PROVE  SlotInv'
<1> DEFINE r == Head(lock).req
           s == Head(lock).s
<1>1. s \in Sessions /\ SessTypes /\ None \notin Sessions
  BY HeadTypes DEF Types, AppendConsumed, HoldsChunk, Holds, AppendTask, Sessions, None
<1>2. /\ sess[s].phase = "open" /\ r.n = up.received + 1 /\ up.received \in Nat
      /\ sess' = [sess EXCEPT ![s].consumed = Append(@, r.n)]
      /\ up'.received = IF job = "gone" THEN up.received ELSE up.received + 1
      /\ UNCHANGED <<job, active, aborts>>
  BY DEF AppendConsumed, NextChunk, Types, UploadTypes
<1> HIDE DEF r, s
<1>3. /\ \A q \in Sessions : sess'[q].phase = sess[q].phase /\ sess'[q].torn = sess[q].torn
      /\ \A q \in Sessions \ {s} : sess'[q].consumed = sess[q].consumed
      /\ sess'[s].consumed = Append(sess[s].consumed, up.received + 1)
  <2>1. sess[s] \in Session /\ sess \in [Sessions -> Session]
    BY <1>1 DEF SessTypes
  <2> QED BY <1>1, <1>2, <2>1 DEF Session
<1>4. \A q \in Sessions : /\ Began(q)' <=> Began(q)
                          /\ Sound(q)' <=> Sound(q)
                          /\ Alone(q)' <=> Alone(q)
  BY <1>3 DEF Began, Sound, Alone
<1>5. Began(s)
  BY <1>2 DEF Began
<1>6. FreshInv' /\ PendingInv'
  BY <1>1, <1>2, <1>4, <1>5 DEF SlotInv, FreshInv, PendingInv
<1>7. ASSUME NEW q \in Sessions PROVE SoundInv(q)'
  <2>1. SoundInv(q)
    BY DEF SlotInv
  <2>2. CASE q = s
    <3>1. Sound(s) => /\ active = s /\ job = "uploading"
                      /\ sess[s].consumed = Counted(up.received)
      BY <1>2, <2>1, <2>2 DEF SoundInv
    <3>2. Sound(s) => sess'[s].consumed = Counted(up.received)'
      <4> HAVE Sound(s)
      <4>1. sess'[s].consumed = Counted(up.received + 1)
        BY <1>2, <1>3, <3>1, CountedNext
      <4>2. up'.received = up.received + 1
        BY <1>2, <3>1
      <4>3. Counted(up.received)' = Counted(up.received + 1)
        BY <4>2 DEF Counted
      <4> QED BY <4>1, <4>3
    <3> QED BY <1>2, <1>3, <1>4, <2>1, <2>2, <3>1, <3>2 DEF SoundInv, FinalizingNow
  <2>3. CASE q # s
    <3>1. Sound(q) => active # q
      BY <1>5, <1>1, <2>1, <2>3 DEF SoundInv, Alone
    <3> QED BY <1>2, <1>3, <1>4, <2>1, <2>3, <3>1 DEF SoundInv, FinalizingNow, File
  <2> QED BY <2>2, <2>3
<1>8. \A q \in Sessions : (active' = q => Began(q)') /\ (~Began(q)' => ~sess'[q].torn)
  BY <1>2, <1>3, <1>4 DEF SlotInv
<1> QED BY <1>6, <1>7, <1>8 DEF SlotInv

\* A finalization takes the session that has the slot: all chunks are there.
LEMMA SlotSeals ==
  ASSUME Types, SlotInv, Seal
  PROVE  SlotInv'
<1>1. /\ active \in Sessions /\ SessTypes /\ job' = "restoring"
      /\ up.received = Chunks /\ UNCHANGED <<active, aborts>> /\ job = "uploading"
  BY DEF Seal, Whole, Types, SlotTypes
<1>2. PICK p \in {"completing", "failing"} :
         Turns(active, p) /\ (p = "completing" => sess[active].phase = "open")
  <2>1. PICK accepted \in BOOLEAN :
           /\ accepted => sess[active].phase = "open"
           /\ sess' = [sess EXCEPT ![active].phase = IF accepted THEN "completing"
                                                     ELSE "failing"]
    BY DEF Seal
  <2>2. CASE accepted
    BY <1>1, <2>1, <2>2, TurnFacts
  <2>3. CASE ~accepted
    BY <1>1, <2>1, <2>3, TurnFacts
  <2> QED BY <2>2, <2>3
<1>3. FreshInv' /\ PendingInv'
  BY <1>1 DEF FreshInv, PendingInv, Receiving
<1>4. \A q \in Sessions : /\ sess'[q].torn = sess[q].torn
                          /\ sess'[q].consumed = sess[q].consumed
                          /\ q # active => sess'[q].phase = sess[q].phase
                          /\ Began(q) => Began(q)'
                          /\ q # active => (Began(q)' <=> Began(q))
  BY <1>2 DEF Turns, Same, Began
<1>5. sess'[active].phase = p /\ sess[active].torn = sess'[active].torn
  BY <1>1, <1>2 DEF Turns
<1>6. Began(active) /\ Began(active)'
  BY <1>1, <1>2, <1>5 DEF SlotInv, Began
<1>7. \A q \in Sessions : (Sound(q)' <=> Sound(q)) /\ (Alone(q)' <=> Alone(q))
  BY <1>4, <1>6 DEF Sound, Alone
<1>8. ASSUME NEW q \in Sessions PROVE SoundInv(q)'
  <2>1. SoundInv(q)
    BY DEF SlotInv
  <2>2. CASE q = active
    <3>1. p = "completing" /\ Sound(q) => sess[q].consumed = File
      BY <1>1, <1>2, <2>1, <2>2 DEF SoundInv, Counted, File
    <3> QED BY <1>1, <1>2, <1>4, <1>5, <1>7, <2>1, <2>2, <3>1 DEF SoundInv, FinalizingNow
  <2>3. CASE q # active
    BY <1>1, <1>4, <1>7, <2>1, <2>3 DEF SoundInv, FinalizingNow, File
  <2> QED BY <2>2, <2>3
<1>9. \A q \in Sessions : (active' = q => Began(q)') /\ (~Began(q)' => ~sess'[q].torn)
  BY <1>1, <1>4, <1>6 DEF SlotInv
<1> QED BY <1>3, <1>8, <1>9 DEF SlotInv

\* A restore ends, and with it the use of the slot.
LEMMA SlotRestores ==
  ASSUME Types, LockInv, SlotInv, NEW s \in Sessions, RestoreCommits(s) \/ RestoreFails(s)
  PROVE  SlotInv'
<1>1. SessTypes /\ None \notin Sessions /\ FinalizingNow(s)
  BY DEF Types, Sessions, None, RestoreCommits, RestoreFails, FinalizingNow
<1>2. PICK p \in {"committed", "failed"}, result \in Results :
         EndRestore(s, p, result) /\ (p = "committed" => sess[s].phase = "completing")
  BY DEF RestoreCommits, RestoreFails, Results
<1>3. Turns(s, p) /\ active' = None /\ UNCHANGED <<up, aborts>>
  BY <1>1, <1>2, TurnFacts DEF EndRestore
<1>4. job' \notin Receiving
  BY DEF RestoreCommits, RestoreFails, Settled, Receiving
<1>5. \A q \in Sessions : /\ Began(q)' <=> Began(q)
                          /\ Sound(q)' <=> Sound(q)
                          /\ Alone(q)' <=> Alone(q)
                          /\ sess'[q].torn = sess[q].torn
                          /\ sess'[q].consumed = sess[q].consumed
  <2>1. p \in Phases /\ (p = "none" <=> sess[s].phase = "none")
    BY <1>1 DEF Phases, FinalizingNow
  <2> QED BY <1>3, <2>1, SoundSame
<1>6. sess'[s].phase = p /\ \A q \in Sessions \ {s} : sess'[q].phase = sess[q].phase
  BY <1>3 DEF Turns, Same
<1>7. ASSUME NEW q \in Sessions PROVE SoundInv(q)'
  <2>1. SoundInv(q)
    BY DEF SlotInv
  <2>2. CASE q = s
    BY <1>1, <1>2, <1>3, <1>5, <1>6, <2>1, <2>2 DEF SoundInv, FinalizingNow, File
  <2>3. CASE q # s
    <3>1. Sound(q) => active # q /\ sess[q].phase # "open"
      BY <1>1, <2>1, <2>3 DEF SoundInv, Alone, Began, FinalizingNow
    <3> QED BY <1>1, <1>3, <1>5, <1>6, <2>1, <2>3, <3>1 DEF SoundInv, FinalizingNow, File
  <2> QED BY <2>2, <2>3
<1> QED BY <1>1, <1>3, <1>4, <1>5, <1>7 DEF SlotInv, FreshInv, PendingInv, Receiving

\* A session is aborted, first its parser, then its records.
LEMMA SlotAborted ==
  ASSUME Types, SlotInv, NEW t \in aborts, AbortParser(t) \/ AbortRows(t)
  PROVE  SlotInv'
<1>1. t.s \in Sessions /\ SessTypes /\ t.stage \in {"parser", "rows"}
  BY DEF Types, CallTypes, FailedCall, GoneCall, Stages
<1>2. \A q \in Sessions : Sound(q) => active # q
  BY DEF SlotInv, SoundInv
<1>3. CASE AbortParser(t)
  <2> DEFINE c == [t EXCEPT !.stage = "rows"]
  <2>1. /\ t.stage = "parser" /\ sess[t.s].phase # "opening" /\ UNCHANGED <<job, active, sess, up>>
        /\ aborts' = (aborts \ {t}) \cup {c}
    BY <1>3 DEF AbortParser
  <2> HIDE DEF c
  <2>2. FreshInv' /\ PendingInv'
    BY <2>1 DEF SlotInv, FreshInv, PendingInv
  <2>3. ASSUME NEW q \in Sessions PROVE SoundInv(q)'
    <3>1. SoundInv(q) /\ UNCHANGED <<Sound(q), Alone(q), \A w \in Sessions : Sound(w) => w = q>>
      BY <2>1 DEF SlotInv, Sound, Alone, Began
    <3>2. Sound(q) /\ sess[q].phase = "opening" =>
             \E d \in aborts' : d.s = q /\ d.stage = "parser"
      BY <1>2, <2>1, <3>1 DEF SoundInv
    <3> QED BY <1>2, <2>1, <3>1, <3>2 DEF SoundInv, FinalizingNow, File
  <2> QED BY <2>1, <2>2, <2>3 DEF SlotInv, Began
<1>4. CASE AbortRows(t)
  <2>1. t.stage = "rows" /\ UNCHANGED <<active, up>> /\ aborts' = aborts \ {t} /\ job' \notin Receiving
    BY <1>4 DEF AbortRows, Outcome, Settled, Receiving
  <2> DEFINE p == IF sess[t.s].phase = "aborting" THEN "aborted" ELSE sess[t.s].phase
  <2>2. Turns(t.s, p)
    <3>1. sess' = [sess EXCEPT ![t.s].phase = p]
      BY <1>4 DEF AbortRows
    <3> HIDE DEF p
    <3> QED BY <1>1, <3>1, TurnFacts
  <2>3. p \in Phases /\ (p = "none" <=> sess[t.s].phase = "none")
    BY <1>1 DEF SessTypes, Session, Phases
  <2>4. \A q \in Sessions :
           sess'[q].phase = sess[q].phase \/ sess'[q].phase = "aborted"
    BY <1>1, <2>2 DEF Turns, Same
  <2> HIDE DEF p
  <2>5. \A q \in Sessions : /\ Began(q)' <=> Began(q)
                            /\ Sound(q)' <=> Sound(q)
                            /\ Alone(q)' <=> Alone(q)
                            /\ sess'[q].torn = sess[q].torn
                            /\ sess'[q].consumed = sess[q].consumed
    BY <1>1, <2>2, <2>3, SoundSame
  <2>6. ASSUME NEW q \in Sessions PROVE SoundInv(q)'
    <3>1. SoundInv(q)
      BY DEF SlotInv
    <3>2. Sound(q) /\ sess[q].phase = "opening" =>
             \E d \in aborts' : d.s = q /\ d.stage = "parser"
      BY <1>2, <2>1, <3>1 DEF SoundInv
    <3> QED BY <1>2, <2>1, <2>4, <2>5, <3>1, <3>2 DEF SoundInv, FinalizingNow, File
  <2> QED BY <2>1, <2>5, <2>6 DEF SlotInv, FreshInv, PendingInv, Receiving
<1> QED BY <1>3, <1>4

LEMMA SlotStep ==
  ASSUME Types, LockInv, SlotInv, Next
  PROVE  SlotInv'
<1>1. SessTypes /\ SlotTypes /\ UploadTypes /\ None \notin Sessions
  BY DEF Types, Sessions, None
<1>2. ASSUME NEW r \in net, Arrive(r) PROVE SlotInv'
  <2>1. CASE OpenSession(r)
    BY <2>1, SlotOpens
  <2>2. CASE JoinSession(r)
    <3>1. UNCHANGED <<active, aborts, up>> /\ job \in Receiving /\ job' = "uploading"
      BY <2>2 DEF JoinSession, BeginChunk, Receiving
    <3> QED BY <1>1, <2>2, <3>1, JoinSame, SlotStays
  <2>3. CASE ~OpenSession(r) /\ ~JoinSession(r)
    <3>1. /\ UNCHANGED <<active, aborts, up, sess>>
          /\ job' = job \/ (job \in Receiving /\ job' = "uploading")
      BY <1>2, <2>3
         DEF Arrive, RefuseChunk, SlotTaken, ShareFinalize, StartFinalize, LateFinalize,
             ArriveCancel, BeginChunk, sessions, Receiving
    <3> QED BY <3>1, SameFacts, SlotStays
  <2> QED BY <2>1, <2>2, <2>3
<1>3. ASSUME Upload PROVE SlotInv'
  <2>1. CASE AppendRefused \/ AppendRepeated \/ SealRefused \/ SealTooLate
    <3>1. UNCHANGED <<active, aborts, sess, job>> /\ up'.received = up.received
      BY <1>1, <2>1
         DEF AppendRefused, AppendRepeated, SealRefused, SealTooLate, sessions, UploadTypes
    <3> QED BY <3>1, SameFacts, SlotStays
  <2>2. CASE AppendConsumed
    BY <2>2, SlotConsumes
  <2>3. CASE AppendFails
    <3>1. PICK result \in {"refused", "failed"} : AbortActive("error", Head(lock).req, result)
      BY <2>3 DEF AppendFails
    <3>2. Ending("error", Head(lock).req, result)
      BY <1>1, <2>3, HeadTypes DEF AppendFails, HoldsChunk, Holds, AppendTask, Ending
    <3> QED BY <3>1, <3>2, SlotAborts
  <2>4. CASE SealWithout
    <3>1. UNCHANGED <<active, aborts, sess>> /\ active = None /\ job' = "restoring"
      BY <2>4 DEF SealWithout, sessions
    <3> QED BY <1>1, <3>1, SameFacts, SlotIdle DEF Receiving
  <2>5. CASE Seal
    BY <2>5, SlotSeals
  <2>6. CASE FinishFinalize
    <3>1. UNCHANGED <<active, aborts, sess, job>> /\ Head(lock).req = Finalized /\ lock # <<>>
      BY <2>6 DEF FinishFinalize, Holds, sessions
    <3>2. job \notin Receiving
      BY <1>1, <3>1, QueueTail DEF LockInv, UploadTypes
    <3>3. \A s \in Sessions : active = s /\ Sound(s) => sess[s].phase \notin {"opening", "open"}
      BY <3>2 DEF SlotInv, SoundInv, Receiving
    <3> QED BY <3>1, <3>2, <3>3, SameFacts, SlotIdle
  <2>7. CASE CleanCancelled
    <3>1. CASE AbortActive("gone", Head(lock).req, "ok")
      <4>1. Head(lock).req \in CancelRequest
        BY <1>1, <2>7, HeadTypes
           DEF CleanCancelled, Holds, CleanTask, Expiry, Finalized, Request, CancelRequest
      <4> QED BY <3>1, <4>1, SlotAborts DEF Ending
    <3>2. CASE ~AbortActive("gone", Head(lock).req, "ok")
      <4>1. /\ UNCHANGED <<active, aborts, sess, job>> /\ up'.received = 0
            /\ active # None /\ (sess[active].phase = "opening" \/ FinalizingNow(active))
        BY <2>7, <3>2
           DEF CleanCancelled, Cancel, Opening, Finalizing, NoUpload, FinalizingNow
      <4>2. \A s \in Sessions :
              active = s /\ Sound(s) /\ sess[s].phase \in {"opening", "open"} =>
                 up'.received = up.received
        BY <4>1 DEF SlotInv, SoundInv, FinalizingNow
      <4> QED BY <4>1, <4>2, SameFacts, SlotIdle
    <3> QED BY <3>1, <3>2
  <2>8. CASE CleanExpired
    <3>1. AbortActive("gone", Expiry, "ok")
      BY <2>8 DEF CleanExpired
    <3> QED BY <3>1, SlotAborts DEF Ending
  <2> QED BY <1>3, <2>1, <2>2, <2>3, <2>4, <2>5, <2>6, <2>7, <2>8 DEF Upload
<1>4. ASSUME GiveUp \/ EndCancel \/ TimerFires \/ OtherImport PROVE SlotInv'
  <2>1. CASE GiveUp \/ TimerFires \/ OtherImport
    <3>1. UNCHANGED <<active, aborts, up, sess, job>>
      BY <2>1 DEF GiveUp, TimerFires, OtherImport, sessions
    <3> QED BY <3>1, SameFacts, SlotStays
  <2>2. CASE CancelSettled
    <3>1. UNCHANGED <<active, aborts, up, sess>> /\ job \notin Receiving /\ job' = "gone"
      BY <2>2 DEF CancelSettled, sessions, Receiving
    <3>2. \A s \in Sessions : active = s /\ Sound(s) => sess[s].phase \notin {"opening", "open"}
      BY <3>1 DEF SlotInv, SoundInv, Receiving
    <3> QED BY <3>1, <3>2, SameFacts, SlotIdle DEF Receiving
  <2>3. CASE CancelOpened
    <3>1. CASE Finalizing(cancel.s)
      <4>1. UNCHANGED <<active, aborts, up, sess, job>>
        BY <2>3, <3>1 DEF CancelOpened, Cancel
      <4> QED BY <4>1, SameFacts, SlotStays
    <3>2. CASE ~Finalizing(cancel.s)
      <4> DEFINE r == Request("cancel", 0, 1)
      <4>1. AbortActive("gone", r, "ok")
        BY <2>3, <3>2 DEF CancelOpened, Cancel
      <4>2. Ending("gone", r, "ok")
        BY DEF Ending, Request, CancelRequest, Requests
      <4> HIDE DEF r
      <4> QED BY <4>1, <4>2, SlotAborts
    <3> QED BY <3>1, <3>2
  <2> QED BY <1>4, <2>1, <2>2, <2>3 DEF EndCancel
<1>5. ASSUME Restore PROVE SlotInv'
  BY <1>5, SlotRestores DEF Restore, Sessions
<1>6. ASSUME Abort PROVE SlotInv'
  BY <1>6, SlotAborted DEF Abort
<1> QED BY <1>2, <1>3, <1>4, <1>5, <1>6, NextSteps, SlotOpenEnds

-----------------------------------------------------------------------------
(* The restore: the idle timer is off from the arrival of the finalize that   *)
(* finds the whole file, unless a chunk is handled beside it, and no expiry   *)
(* waits for the lock behind it.                                              *)

NoExpiry(l) == \A i \in 1 .. Len(l) : l[i].req # Expiry

NoExpiryBehindSeal(l) ==
  \A i, j \in 1 .. Len(l) : i < j /\ l[i].op = "seal" => l[j].req # Expiry

QuietInv ==
  (\E s \in Sessions : Sound(s) /\ active = s) /\ ~late =>
    /\ fin.phase = "queued" /\ up.received = Chunks => ~timer /\ NoExpiryBehindSeal(lock)
    /\ fin.phase = "restoring" => ~timer /\ NoExpiry(lock)

\* What is being applied is in the slot, with its records.
AppliedInv ==
  \A s \in Sessions :
    Sound(s) /\ sess[s].phase = "completing" /\ ~late =>
      active = s /\ s \in intact /\ job = "restoring"

LEMMA ExpiryBehind ==
  ASSUME NEW l \in Seq(LockTask), NEW t \in LockTask, t.req # Expiry
  PROVE  /\ NoExpiry(l) => NoExpiry(Append(l, t))
         /\ NoExpiryBehindSeal(l) => NoExpiryBehindSeal(Append(l, t))
<1>1. /\ Append(l, t) \in Seq(LockTask) /\ Len(Append(l, t)) = Len(l) + 1 /\ Len(l) \in Nat
      /\ \A i \in 1 .. Len(l) : Append(l, t)[i] = l[i]
      /\ Append(l, t)[Len(l) + 1] = t
  BY AppendFacts
<1> DEFINE m == Append(l, t)
<1> HIDE DEF m
<1> QED BY <1>1 DEF NoExpiry, NoExpiryBehindSeal, m

LEMMA ExpiryTail ==
  ASSUME NEW l \in Seq(LockTask), l # <<>>
  PROVE  /\ NoExpiry(l) => NoExpiry(Tail(l)) /\ Head(l).req # Expiry
         /\ NoExpiryBehindSeal(l) => NoExpiryBehindSeal(Tail(l))
         /\ NoExpiryBehindSeal(l) /\ Head(l).op = "seal" => NoExpiry(Tail(l))
<1>1. /\ Tail(l) \in Seq(LockTask) /\ Len(Tail(l)) = Len(l) - 1 /\ Len(l) \in Nat \ {0}
      /\ \A i \in 1 .. Len(Tail(l)) : Tail(l)[i] = l[i + 1]
      /\ Head(l) = l[1]
  BY TailFacts
<1> DEFINE m == Tail(l)
<1> HIDE DEF m
<1>2. /\ \A i \in 1 .. Len(m) : i + 1 \in 1 .. Len(l) /\ m[i] = l[i + 1] /\ 1 < i + 1
      /\ \A i, j \in 1 .. Len(m) : i < j => i + 1 < j + 1
      /\ 1 \in 1 .. Len(l)
  BY <1>1 DEF m
<1> QED BY <1>1, <1>2 DEF NoExpiry, NoExpiryBehindSeal, m

LEMMA ExpiryChunks ==
  ASSUME NEW l \in Seq(LockTask), NEW b \in Seq(AppendTask)
  PROVE  /\ NoExpiry(l) => NoExpiry(l \o b)
         /\ NoExpiryBehindSeal(l) => NoExpiryBehindSeal(l \o b)
<1>1. Len(l) \in Nat /\ Len(b) \in Nat /\ Len(l \o b) = Len(l) + Len(b)
  OBVIOUS
<1>2. \A i \in 1 .. Len(l) : (l \o b)[i] = l[i]
  OBVIOUS
<1>3. \A i \in 1 .. Len(l) + Len(b) : i \notin 1 .. Len(l) =>
         (l \o b)[i].op # "seal" /\ (l \o b)[i].req # Expiry
  <2> TAKE i \in 1 .. Len(l) + Len(b)
  <2> HAVE i \notin 1 .. Len(l)
  <2>1. i - Len(l) \in 1 .. Len(b) /\ (l \o b)[i] = b[i - Len(l)]
    BY <1>1
  <2>2. b[i - Len(l)] \in AppendTask
    BY <2>1
  <2>3. b[i - Len(l)].op = "append" /\ b[i - Len(l)].req.kind = "chunk"
    BY <2>2 DEF AppendTask, ChunkRequest, Requests
  <2>4. Expiry.kind = "expiry"
    BY DEF Expiry, Request
  <2> QED BY <2>1, <2>3, <2>4
<1> DEFINE m == l \o b
<1> HIDE DEF m
<1> QED BY <1>1, <1>2, <1>3 DEF NoExpiry, NoExpiryBehindSeal, m

\* A finalize that arrives has nothing behind it yet.
LEMMA ExpirySeal ==
  ASSUME NEW l \in Seq(LockTask), NEW t \in LockTask, Queue(l, "none")
  PROVE  NoExpiryBehindSeal(Append(l, t))
<1>1. /\ Append(l, t) \in Seq(LockTask) /\ Len(Append(l, t)) = Len(l) + 1 /\ Len(l) \in Nat
      /\ \A i \in 1 .. Len(l) : Append(l, t)[i] = l[i]
  BY AppendFacts
<1> DEFINE m == Append(l, t)
<1> HIDE DEF m
<1>2. \A i \in 1 .. Len(l) : m[i].op # "seal"
  BY <1>1 DEF Queue, m
<1> QED BY <1>1, <1>2 DEF NoExpiryBehindSeal, m

\* A step that does not arm the timer and does not put an expiry behind.
LEMMA QuietStays ==
  ASSUME QuietInv, UploadTypes, late => late', timer' => timer,
         \A s \in Sessions : Sound(s)' /\ active' = s => Sound(s) /\ active = s,
         fin'.phase = fin.phase, up'.received = Chunks => up.received = Chunks,
         \/ UNCHANGED lock
         \/ \E t \in LockTask : t.req # Expiry /\ lock' = Append(lock, t)
         \/ lock # <<>> /\ lock' = Tail(lock)
         \/ \E b \in Seq(AppendTask) : lock' = lock \o b
  PROVE  QuietInv'
<1>1. lock \in Seq(LockTask)
  BY DEF UploadTypes
<1>2. /\ NoExpiry(lock) => NoExpiry(lock')
      /\ NoExpiryBehindSeal(lock) => NoExpiryBehindSeal(lock')
  <2>1. CASE UNCHANGED lock
    BY <2>1
  <2>2. CASE \E t \in LockTask : t.req # Expiry /\ lock' = Append(lock, t)
    BY <1>1, <2>2, ExpiryBehind
  <2>3. CASE lock # <<>> /\ lock' = Tail(lock)
    BY <1>1, <2>3, ExpiryTail
  <2>4. CASE \E b \in Seq(AppendTask) : lock' = lock \o b
    BY <1>1, <2>4, ExpiryChunks
  <2> QED BY <2>1, <2>2, <2>3, <2>4
<1>3. (NoExpiry(lock))' = NoExpiry(lock') /\ (NoExpiryBehindSeal(lock))' = NoExpiryBehindSeal(lock')
  BY DEF NoExpiry, NoExpiryBehindSeal
<1> QED BY <1>2, <1>3 DEF QuietInv

LEMMA QuietOver ==
  ASSUME active' = None \/ late' \/ fin'.phase \notin {"queued", "restoring"}
  PROVE  QuietInv'
BY DEF QuietInv, Sessions, None

-----------------------------------------------------------------------------
(* How a session comes to its phase, over all steps.                          *)

\* A session is opened once, and torn or not for good; it is completing only
\* by a finalization, and committed only by the end of its restore.
Moves(s) ==
  /\ Began(s) => Began(s)' /\ sess'[s].torn = sess[s].torn
  /\ Began(s)' /\ ~Began(s) => active' = s /\ \E r \in net : OpenSession(r)
  /\ sess'[s].phase = "completing" => \/ sess[s].phase = "completing"
                                      \/ Seal /\ s = active
  /\ sess'[s].phase = "committed" => sess[s].phase = "committed" \/ RestoreCommits(s)

LEMMA SameMoves ==
  ASSUME AllSame
  PROVE  \A s \in Sessions : Moves(s)
BY DEF AllSame, Same, Moves, Began

LEMMA TurnMoves ==
  ASSUME NEW s \in Sessions, NEW p, Turns(s, p), p = "none" <=> sess[s].phase = "none",
         p \in {"completing", "committed"} => p = sess[s].phase
  PROVE  \A q \in Sessions : Moves(q)
<1> TAKE q \in Sessions
<1>1. CASE q = s
  BY <1>1 DEF Turns, Moves, Began
<1>2. CASE q # s
  BY <1>2 DEF Turns, Same, Moves, Began
<1> QED BY <1>1, <1>2

LEMMA AbortMoves ==
  ASSUME Types, NEW end, NEW r, NEW result, Ending(end, r, result),
         AbortActive(end, r, result)
  PROVE  \A s \in Sessions : Moves(s)
<1>1. CASE active = None
  BY <1>1, AbortEffect, SameMoves
<1>2. CASE active # None
  <2> DEFINE p == IF sess[active].phase = "open" THEN "aborting" ELSE sess[active].phase
  <2>1. active \in Sessions /\ Turns(active, p)
    BY <1>2, AbortEffect DEF Types, SlotTypes
  <2>2. /\ p = "none" <=> sess[active].phase = "none"
        /\ p \in {"completing", "committed"} => p = sess[active].phase
    OBVIOUS
  <2> HIDE DEF p
  <2> QED BY <2>1, <2>2, TurnMoves
<1> QED BY <1>1, <1>2

LEMMA PhaseMoves ==
  ASSUME Types, SlotInv, Next
  PROVE  \A s \in Sessions : Moves(s)
<1>1. SessTypes /\ SlotTypes /\ UploadTypes
  BY DEF Types
<1>2. ASSUME NEW r \in net, Arrive(r) PROVE \A s \in Sessions : Moves(s)
  <2>1. CASE OpenSession(r)
    <3> DEFINE fresh == [NoSession EXCEPT !.phase = "opening", !.waiters = <<r>>,
                                          !.torn = aborts # {}]
    <3>1. PICK s \in Sessions : /\ sess[s].phase = "none" /\ active' = s
                                /\ sess' = [sess EXCEPT ![s] = fresh]
      BY <2>1 DEF OpenSession, Sessions
    <3>2. fresh.phase = "opening"
      BY DEF NoSession
    <3> HIDE DEF fresh
    <3>3. sess'[s].phase = "opening" /\ \A q \in Sessions \ {s} : sess'[q] = sess[q]
      BY <1>1, <3>1, <3>2 DEF SessTypes
    <3> QED BY <2>1, <3>1, <3>3 DEF Moves, Began
  <2>2. CASE JoinSession(r)
    BY <1>1, <2>2, JoinSame, SameMoves
  <2>3. CASE ~OpenSession(r) /\ ~JoinSession(r)
    <3>1. UNCHANGED sess
      BY <1>2, <2>3
         DEF Arrive, RefuseChunk, SlotTaken, ShareFinalize, StartFinalize, LateFinalize,
             ArriveCancel, BeginChunk, sessions
    <3> QED BY <3>1, SameFacts, SameMoves
  <2> QED BY <2>1, <2>2, <2>3
<1>3. ASSUME NEW s \in Sessions, Opened(s) \/ OpenFails(s) PROVE \A q \in Sessions : Moves(q)
  <2>1. PICK p \in {"open", "aborting", "aborted"} : Turns(s, p)
    BY <1>1, <1>3, TurnFacts DEF Opened, OpenFails
  <2>2. sess[s].phase = "opening"
    BY <1>3 DEF Opened, OpenFails
  <2> QED BY <2>1, <2>2, TurnMoves
<1>4. ASSUME Upload PROVE \A s \in Sessions : Moves(s)
  <2>1. CASE AppendRefused \/ AppendRepeated \/ SealRefused \/ SealTooLate \/ SealWithout
             \/ FinishFinalize
    <3>1. UNCHANGED sess
      BY <2>1 DEF AppendRefused, AppendRepeated, SealRefused, SealTooLate, SealWithout,
         FinishFinalize, sessions
    <3> QED BY <3>1, SameFacts, SameMoves
  <2>2. CASE AppendConsumed
    <3> DEFINE s == Head(lock).s
    <3>1. s \in Sessions
      BY <1>1, <2>2, HeadTypes DEF AppendConsumed, HoldsChunk, Holds, AppendTask
    <3>2. \A q \in Sessions : sess'[q].phase = sess[q].phase /\ sess'[q].torn = sess[q].torn
      BY <1>1, <2>2, <3>1 DEF AppendConsumed, SessTypes, Session
    <3> QED BY <3>2 DEF Moves, Began
  <2>3. CASE AppendFails
    <3>1. PICK result \in {"refused", "failed"} : AbortActive("error", Head(lock).req, result)
      BY <2>3 DEF AppendFails
    <3>2. Ending("error", Head(lock).req, result)
      BY <1>1, <2>3, HeadTypes DEF AppendFails, HoldsChunk, Holds, AppendTask, Ending
    <3> QED BY <3>1, <3>2, AbortMoves
  <2>4. CASE Seal
    <3>1. active \in Sessions
      BY <1>1, <2>4 DEF Seal, SlotTypes
    <3>2. PICK p \in {"completing", "failing"} : Turns(active, p)
      BY <1>1, <2>4, <3>1, TurnFacts DEF Seal
    <3>3. Began(active)
      BY <3>1 DEF SlotInv
    <3> TAKE q \in Sessions
    <3>4. CASE q = active
      BY <2>4, <3>2, <3>3, <3>4 DEF Turns, Moves, Began
    <3>5. CASE q # active
      BY <3>2, <3>5 DEF Turns, Same, Moves, Began
    <3> QED BY <3>4, <3>5
  <2>5. CASE CleanCancelled
    <3>1. CASE AbortActive("gone", Head(lock).req, "ok")
      <4>1. Head(lock).req \in CancelRequest
        BY <1>1, <2>5, HeadTypes
           DEF CleanCancelled, Holds, CleanTask, Expiry, Finalized, Request, CancelRequest
      <4> QED BY <3>1, <4>1, AbortMoves DEF Ending
    <3>2. CASE ~AbortActive("gone", Head(lock).req, "ok")
      <4>1. UNCHANGED sess
        BY <2>5, <3>2 DEF CleanCancelled, Cancel
      <4> QED BY <4>1, SameFacts, SameMoves
    <3> QED BY <3>1, <3>2
  <2>6. CASE CleanExpired
    <3>1. AbortActive("gone", Expiry, "ok")
      BY <2>6 DEF CleanExpired
    <3> QED BY <3>1, AbortMoves DEF Ending
  <2> QED BY <1>4, <2>1, <2>2, <2>3, <2>4, <2>5, <2>6 DEF Upload
<1>5. ASSUME Restore PROVE \A s \in Sessions : Moves(s)
  <2>1. PICK s \in Sessions : RestoreCommits(s) \/ RestoreFails(s)
    BY <1>5 DEF Restore, Sessions
  <2>2. PICK p \in {"committed", "failed"} :
           Turns(s, p) /\ (p = "committed" => RestoreCommits(s))
    BY <1>1, <2>1, TurnFacts DEF RestoreCommits, RestoreFails, EndRestore
  <2>3. FinalizingNow(s)
    BY <2>1 DEF RestoreCommits, RestoreFails, FinalizingNow
  <2> TAKE q \in Sessions
  <2>4. CASE q = s
    BY <2>2, <2>3, <2>4 DEF Turns, Moves, Began, FinalizingNow
  <2>5. CASE q # s
    BY <2>2, <2>5 DEF Turns, Same, Moves, Began
  <2> QED BY <2>4, <2>5
<1>6. ASSUME Abort PROVE \A s \in Sessions : Moves(s)
  <2>1. PICK t \in aborts : AbortParser(t) \/ AbortRows(t)
    BY <1>6 DEF Abort
  <2>2. t.s \in Sessions
    BY DEF Types, CallTypes, FailedCall, GoneCall
  <2>3. CASE AbortParser(t)
    BY <2>3, SameFacts, SameMoves DEF AbortParser
  <2>4. CASE AbortRows(t)
    <3> DEFINE p == IF sess[t.s].phase = "aborting" THEN "aborted" ELSE sess[t.s].phase
    <3>1. sess' = [sess EXCEPT ![t.s].phase = p]
      BY <2>4 DEF AbortRows
    <3>2. /\ p = "none" <=> sess[t.s].phase = "none"
          /\ p \in {"completing", "committed"} => p = sess[t.s].phase
      OBVIOUS
    <3> HIDE DEF p
    <3>3. Turns(t.s, p)
      BY <1>1, <2>2, <3>1, TurnFacts
    <3> QED BY <2>2, <3>2, <3>3, TurnMoves
  <2> QED BY <2>1, <2>3, <2>4
<1>7. ASSUME GiveUp \/ EndCancel \/ TimerFires \/ OtherImport PROVE \A s \in Sessions : Moves(s)
  <2>1. CASE UNCHANGED sess
    BY <2>1, SameFacts, SameMoves
  <2>2. CASE ~UNCHANGED sess
    <3> DEFINE r == Request("cancel", 0, 1)
    <3>1. AbortActive("gone", r, "ok")
      BY <1>7, <2>2
         DEF GiveUp, EndCancel, TimerFires, OtherImport, CancelSettled, CancelOpened, Cancel,
             sessions
    <3>2. Ending("gone", r, "ok")
      BY DEF Ending, Request, CancelRequest, Requests
    <3> HIDE DEF r
    <3> QED BY <3>1, <3>2, AbortMoves
  <2> QED BY <2>1, <2>2
<1> QED BY <1>2, <1>3, <1>4, <1>5, <1>6, <1>7, NextSteps

LEMMA QuietStep ==
  ASSUME Types, LockInv, SlotInv, QuietInv, Next
  PROVE  QuietInv'
<1>1. SlotTypes /\ UploadTypes /\ WireTypes /\ CountTypes /\ None \notin Sessions
  BY DEF Types, Sessions, None
<1>2. \A s \in Sessions :
        Sound(s)' => Sound(s) \/ (active' = s /\ \E r \in net : OpenSession(r))
  BY PhaseMoves DEF Moves, Sound
<1>3. ASSUME active' = active, late => late', timer' => timer, fin'.phase = fin.phase,
             up'.received = up.received,
             \/ UNCHANGED lock
             \/ \E t \in LockTask : t.req # Expiry /\ lock' = Append(lock, t)
             \/ lock # <<>> /\ lock' = Tail(lock)
             \/ \E b \in Seq(AppendTask) : lock' = lock \o b
      PROVE  QuietInv'
  <2>1. \A s \in Sessions : Sound(s)' /\ active' = s => Sound(s) /\ active = s
    BY <1>1, <1>2, <1>3 DEF OpenSession
  <2> QED BY <1>1, <1>3, <2>1, QuietStays
<1>4. /\ \A r \in ChunkRequest, s \in Sessions :
           Task("append", r, s) \in LockTask /\ Task("append", r, s).req # Expiry
      /\ \A r \in CancelRequest : Clean(r) \in LockTask /\ Clean(r).req # Expiry
  <2>1. Expiry.kind = "expiry"
    BY DEF Expiry, Request
  <2>2. /\ \A r \in ChunkRequest : r.kind = "chunk"
        /\ \A r \in CancelRequest : r.kind = "cancel"
    BY DEF ChunkRequest, CancelRequest, Requests
  <2> QED BY <2>1, <2>2, TaskTypes DEF LockTask, Task, Clean
<1>5. ASSUME NEW r \in net, Arrive(r) PROVE QuietInv'
  <2>1. r \in WireRequest
    BY <1>1 DEF WireTypes
  <2>2. CASE RefuseChunk(r) \/ ShareFinalize(r) \/ LateFinalize(r)
    <3>1. /\ UNCHANGED <<active, up, lock, late>> /\ fin'.phase = fin.phase
          /\ timer' = FALSE \/ UNCHANGED timer
      <4>1. CASE RefuseChunk(r)
        BY <4>1 DEF RefuseChunk, sessions, history
      <4>2. CASE ShareFinalize(r)
        BY <1>1, <4>2 DEF ShareFinalize, sessions, history, UploadTypes
      <4>3. CASE LateFinalize(r)
        BY <4>3 DEF LateFinalize, sessions
      <4> QED BY <2>2, <4>1, <4>2, <4>3
    <3> QED BY <1>3, <3>1
  <2>3. CASE SlotTaken(r)
    BY <2>3, QuietOver DEF SlotTaken
  <2>4. CASE OpenSession(r)
    <3>1. job \in Receiving /\ active = None /\ UNCHANGED <<fin, up, late, aborts>>
      BY <2>4 DEF OpenSession, BeginChunk, Receiving, history
    <3>2. fin'.phase # "restoring"
      BY <3>1 DEF LockInv
    <3>3. ASSUME NEW s \in Sessions, Sound(s)', active' = s PROVE up'.received = 0
      <4> DEFINE fresh == [NoSession EXCEPT !.phase = "opening", !.waiters = <<r>>,
                                            !.torn = aborts # {}]
      <4>1. sess' = [sess EXCEPT ![s] = fresh]
        BY <2>4, <3>3 DEF OpenSession
      <4>2. fresh.torn = (aborts # {})
        BY DEF NoSession
      <4> HIDE DEF fresh
      <4>3. sess'[s].torn = (aborts # {})
        BY <4>1, <4>2 DEF Types, SessTypes
      <4>4. aborts = {}
        BY <3>3, <4>3 DEF Sound
      <4> QED BY <3>1, <4>4 DEF SlotInv, FreshInv
    <3>4. Chunks # 0
      BY BoundsAssumption
    <3> QED BY <3>2, <3>3, <3>4 DEF QuietInv
  <2>5. CASE JoinSession(r)
    <3>1. r \in ChunkRequest /\ active \in Sessions /\ UNCHANGED <<active, up, late, fin>>
          /\ timer' = FALSE
      BY <1>1, <2>1, <2>5, RequestTypes DEF JoinSession, BeginChunk, Arrives, SlotTypes, history
    <3>2. UNCHANGED lock \/ lock' = Append(lock, Task("append", r, active))
      BY <2>5 DEF JoinSession
    <3> QED BY <1>3, <1>4, <3>1, <3>2
  <2>6. CASE StartFinalize(r)
    <3>1. r \in FinalizeRequest
      BY <2>1, <2>6, RequestTypes DEF StartFinalize, Arrives
    <3>2. fin.phase = "none" /\ timer' = FALSE /\ fin'.phase = "queued"
          /\ lock' = Append(lock, Task("seal", r, None))
      BY <2>6 DEF StartFinalize
    <3>3. NoExpiryBehindSeal(lock')
      BY <1>1, <3>1, <3>2, TaskTypes, ExpirySeal DEF LockInv, UploadTypes, LockTask
    <3>4. NoExpiryBehindSeal(lock)'
      BY <3>3 DEF NoExpiryBehindSeal
    <3> QED BY <3>2, <3>4 DEF QuietInv
  <2>7. CASE ArriveCancel(r)
    <3>1. r \in CancelRequest /\ UNCHANGED <<active, up, late, fin>> /\ timer' = FALSE
          /\ lock' = Append(lock, Clean(r))
      BY <2>1, <2>7, RequestTypes DEF ArriveCancel, Arrives, sessions, history
    <3> QED BY <1>3, <1>4, <3>1
  <2> QED BY <1>5, <2>2, <2>3, <2>4, <2>5, <2>6, <2>7 DEF Arrive
<1>6. ASSUME NEW s \in Sessions, Opened(s) \/ OpenFails(s) PROVE QuietInv'
  <2>1. CASE OpenFails(s)
    BY <2>1, QuietOver DEF OpenFails
  <2>2. CASE Opened(s)
    <3> DEFINE b == [i \in DOMAIN sess[s].waiters |-> Task("append", sess[s].waiters[i], s)]
    <3>1. sess[s].waiters \in Seq(ChunkRequest)
      BY DEF Types, SessTypes, Session
    <3>2. b \in Seq(AppendTask)
      <4>1. \A i \in 1 .. Len(sess[s].waiters) :
               Task("append", sess[s].waiters[i], s) \in AppendTask
        BY <3>1, TaskTypes
      <4> QED BY <3>1, <4>1
    <3>3. lock' = lock \o b /\ UNCHANGED <<active, up, late, fin, timer>>
      BY <2>2 DEF Opened, history
    <3> HIDE DEF b
    <3> QED BY <1>3, <3>2, <3>3
  <2> QED BY <1>6, <2>1, <2>2
<1>7. ASSUME Upload PROVE QuietInv'
  <2>1. CASE AppendRefused \/ AppendRepeated \/ AppendConsumed \/ AppendFails
    <3>1. HoldsChunk
      BY <2>1 DEF AppendRefused, AppendRepeated, AppendConsumed, AppendFails
    <3>2. late' \/ fin'.phase = "none"
      BY <3>1 DEF HoldsChunk
    <3> QED BY <3>2, QuietOver
  <2>2. CASE SealRefused \/ SealTooLate \/ SealWithout \/ FinishFinalize
    <3>1. fin' = NoFin \/ fin' = [fin EXCEPT !.phase = "cleaning", !.result = "refused"]
      BY <2>2 DEF SealRefused, SealTooLate, SealWithout, FinishFinalize
    <3>2. NoFin.phase = "none"
      BY DEF NoFin
    <3>3. fin \in [phase : {"none", "queued", "restoring", "cleaning"},
                  sharers : SUBSET FinalizeRequest, result : Results]
      BY <1>1 DEF UploadTypes
    <3>4. [fin EXCEPT !.phase = "cleaning", !.result = "refused"].phase = "cleaning"
      BY <3>3
    <3>5. fin'.phase \in {"none", "cleaning"}
      BY <3>1, <3>2, <3>4
    <3> QED BY <3>5, QuietOver
  <2>3. CASE Seal
    <3>1. /\ lock \in Seq(LockTask) /\ lock # <<>> /\ Head(lock).op = "seal"
          /\ lock' = Tail(lock) /\ active \in Sessions /\ up.received = Chunks
          /\ fin'.phase = "restoring" /\ UNCHANGED <<timer, active, late>>
      BY <1>1, <2>3 DEF Seal, Holds, Release, Whole, UploadTypes, SlotTypes
    <3>2. fin.phase = "queued"
      BY <3>1, QueueTail DEF LockInv
    <3>3. \A s \in Sessions : Sound(s)' /\ active' = s => Sound(s) /\ active = s
      BY <1>1, <1>2, <3>1 DEF OpenSession
    <3>4. NoExpiryBehindSeal(lock) => NoExpiry(lock')
      BY <3>1, ExpiryTail
    <3>5. NoExpiry(lock)' = NoExpiry(lock')
      BY DEF NoExpiry
    <3> QED BY <3>1, <3>2, <3>3, <3>4, <3>5 DEF QuietInv
  <2>4. CASE CleanCancelled
    <3>1. CASE AbortActive("gone", Head(lock).req, "ok")
      BY <3>1, QuietOver DEF AbortActive
    <3>2. CASE ~AbortActive("gone", Head(lock).req, "ok")
      <4>1. /\ UNCHANGED <<active, timer, fin, late>> /\ up'.received = 0
            /\ lock # <<>> /\ lock' = Tail(lock)
        BY <2>4, <3>2 DEF CleanCancelled, Cancel, Holds, Release, NoUpload, history
      <4>2. up'.received = Chunks => up.received = Chunks
        BY <4>1, BoundsAssumption
      <4>3. \A s \in Sessions : Sound(s)' /\ active' = s => Sound(s) /\ active = s
        BY <1>1, <1>2, <4>1 DEF OpenSession
      <4> QED BY <1>1, <4>1, <4>2, <4>3, QuietStays
    <3> QED BY <3>1, <3>2
  <2>5. CASE CleanExpired
    BY <2>5, QuietOver DEF CleanExpired, AbortActive
  <2> QED BY <1>7, <2>1, <2>2, <2>3, <2>4, <2>5 DEF Upload
<1>8. ASSUME Restore PROVE QuietInv'
  <2>1. active' = None
    BY <1>8 DEF Restore, RestoreCommits, RestoreFails, EndRestore
  <2> QED BY <2>1, QuietOver
<1>9. ASSUME Abort PROVE QuietInv'
  <2>1. UNCHANGED <<active, timer, fin, late, up, lock>>
    BY <1>9 DEF Abort, AbortParser, AbortRows, history
  <2> QED BY <1>3, <2>1
<1>10. ASSUME GiveUp \/ EndCancel \/ OtherImport PROVE QuietInv'
  <2>1. CASE active' = None
    BY <2>1, QuietOver
  <2>2. CASE active' # None
    <3>1. UNCHANGED <<active, timer, fin, late, up, lock>>
      BY <1>10, <2>2
         DEF GiveUp, EndCancel, OtherImport, CancelOpened, CancelSettled, Cancel, AbortActive,
             sessions, history
    <3> QED BY <1>3, <3>1
  <2> QED BY <2>1, <2>2
<1>11. ASSUME TimerFires PROVE QuietInv'
  <2>1. timer /\ timer' = FALSE /\ UNCHANGED <<active, fin, late, up>>
    BY <1>11 DEF TimerFires, sessions, history
  <2>2. \A s \in Sessions : Sound(s)' /\ active' = s => Sound(s) /\ active = s
    BY <1>1, <1>2, <2>1 DEF OpenSession
  <2> QED BY <2>1, <2>2 DEF QuietInv
<1> QED BY <1>5, <1>6, <1>7, <1>8, <1>9, <1>10, <1>11, NextSteps

LEMMA LateStays ==
  ASSUME Types, Next, late
  PROVE  late'
BY NextSteps
   DEF Arrive, RefuseChunk, SlotTaken, OpenSession, JoinSession, ShareFinalize, StartFinalize,
       LateFinalize, ArriveCancel, BeginChunk, Opened, OpenFails, Upload, AppendRefused,
       AppendRepeated, AppendConsumed, AppendFails, HoldsChunk, SealRefused, SealTooLate,
       SealWithout, Seal, FinishFinalize, CleanCancelled, CleanExpired, GiveUp, Restore,
       RestoreCommits, RestoreFails, EndRestore, Abort, AbortParser, AbortRows, EndCancel,
       CancelOpened, CancelSettled, TimerFires, OtherImport, history

LEMMA AppliedStep ==
  ASSUME Types, LockInv, SlotInv, QuietInv, AppliedInv, Next
  PROVE  AppliedInv'
<1> SUFFICES ASSUME NEW s \in Sessions, Sound(s)', sess'[s].phase = "completing", ~late'
             PROVE  active' = s /\ s \in intact' /\ job' = "restoring"
  BY DEF AppliedInv
<1>1. SlotTypes /\ UploadTypes /\ CountTypes /\ SessTypes /\ None \notin Sessions
  BY DEF Types, Sessions, None
<1>2. CASE Seal /\ s = active
  <2>1. PICK accepted \in BOOLEAN :
           /\ accepted => active \in intact
           /\ sess' = [sess EXCEPT ![active].phase = IF accepted THEN "completing"
                                                     ELSE "failing"]
    BY <1>2 DEF Seal
  <2>2. accepted
    BY <1>1, <1>2, <2>1 DEF SessTypes, Session
  <2> QED BY <1>2, <2>1, <2>2 DEF Seal
<1>3. CASE ~(Seal /\ s = active)
  <2>1. sess[s].phase = "completing" /\ Sound(s)
    <3>1. Moves(s)
      BY PhaseMoves
    <3>2. sess[s].phase = "completing"
      BY <1>3, <3>1 DEF Moves
    <3> QED BY <3>1, <3>2 DEF Moves, Sound, Began
  <2>2. ~late
    <3>1. late => late'
      BY LateStays
    <3> QED BY <3>1
  <2>3. active = s /\ s \in intact /\ job = "restoring"
    BY <2>1, <2>2 DEF AppliedInv
  <2>4. fin.phase = "restoring" /\ NoExpiry(lock)
    BY <2>1, <2>2, <2>3 DEF LockInv, FinalizingNow, QuietInv
  <2>5. aborts = {} /\ \A q \in Sessions : Began(q) => q = s
    BY <2>1, <2>3 DEF SlotInv, SoundInv, Alone
  <2>6. ASSUME NEW r \in net, Arrive(r) PROVE UNCHANGED <<active, intact, job>>
    BY <1>1, <2>3, <2>6
       DEF Arrive, RefuseChunk, SlotTaken, OpenSession, JoinSession, ShareFinalize,
           StartFinalize, LateFinalize, ArriveCancel, BeginChunk, sessions
  <2>7. ASSUME NEW q \in Sessions, Opened(q) \/ OpenFails(q) PROVE FALSE
    BY <2>1, <2>5, <2>7 DEF Opened, OpenFails, Began
  <2>8. ASSUME Upload PROVE UNCHANGED <<active, intact, job>>
    <3>1. CASE AppendRefused \/ AppendRepeated \/ AppendConsumed \/ AppendFails
      <4>1. late'
        BY <2>4, <3>1
           DEF AppendRefused, AppendRepeated, AppendConsumed, AppendFails, HoldsChunk
      <4> QED BY <4>1
    <3>2. CASE SealRefused \/ SealTooLate \/ SealWithout \/ Seal
      <4>1. lock # <<>> /\ Head(lock).op = "seal"
        BY <3>2 DEF SealRefused, SealTooLate, SealWithout, Seal, Holds
      <4>2. fin.phase = "queued"
        BY <1>1, <4>1, QueueTail DEF LockInv, UploadTypes
      <4> QED BY <2>4, <4>2
    <3>3. CASE FinishFinalize
      BY <3>3 DEF FinishFinalize, sessions
    <3>4. CASE CleanCancelled
      BY <2>1, <2>3, <3>4, <1>1 DEF CleanCancelled, Cancel, Opening, Finalizing
    <3>5. CASE CleanExpired
      <4>1. lock # <<>> /\ Head(lock).req = Expiry
        BY <3>5 DEF CleanExpired, Holds
      <4>2. FALSE
        BY <1>1, <2>4, <4>1, ExpiryTail DEF UploadTypes
      <4> QED BY <4>2
    <3> QED BY <2>8, <3>1, <3>2, <3>3, <3>4, <3>5 DEF Upload
  <2>9. ~Restore
    <3> SUFFICES ASSUME NEW q \in Sessions, RestoreCommits(q) \/ RestoreFails(q)
                 PROVE  FALSE
      BY DEF Restore, Sessions
    <3>1. q = s
      BY <2>5 DEF RestoreCommits, RestoreFails, Began
    <3>2. sess'[s].phase \in {"committed", "failed"}
      BY <1>1, <3>1 DEF RestoreCommits, RestoreFails, EndRestore, SessTypes, Session
    <3> QED BY <3>2
  <2>10. ~Abort
    BY <2>5 DEF Abort
  <2>11. ASSUME GiveUp \/ EndCancel \/ TimerFires \/ OtherImport
         PROVE  UNCHANGED <<active, intact, job>>
    <3>1. CASE CancelOpened
      <4>1. cancel.s \in Sessions /\ Began(cancel.s)
        BY <3>1 DEF CancelOpened, CancelResumes, Types, CallTypes, Began
      <4>2. Finalizing(cancel.s)
        BY <1>1, <2>1, <2>5, <4>1 DEF Finalizing
      <4> QED BY <3>1, <4>2 DEF CancelOpened, Cancel
    <3>2. CASE ~CancelOpened
      BY <2>3, <2>11, <3>2 DEF GiveUp, EndCancel, TimerFires, OtherImport, CancelSettled, sessions
    <3> QED BY <3>1, <3>2
  <2> QED BY <2>3, <2>6, <2>7, <2>8, <2>9, <2>10, <2>11, NextSteps
<1> QED BY <1>2, <1>3

-----------------------------------------------------------------------------
(* What the client is told: a commit ends the job for good, and what is still *)
(* to be handled when it takes place is handled before the finalization ends. *)

\* Every chunk in the queue is handled while the finalization is under way.
Backed(l) ==
  \A i \in 1 .. Len(l) : l[i].op = "append" =>
     \E j \in 1 .. Len(l) : i < j /\ l[j].req = Finalized

\* A commit the server knows of.
Committed == \E s \in 1 .. MaxSessions : sess[s].phase = "committed"

TruthInv ==
  Orderly =>
    /\ Committed => job \in {"complete", "gone"} /\ aborts = {} /\ active = None /\ Backed(lock)
    /\ job = "complete" => Committed
    /\ client.phase = "done" => Committed
    /\ client.phase = "ended" => job \in {"error", "gone"} /\ ~Committed
    /\ fin.phase = "cleaning" /\ fin.result = "ok" => Committed

LEMMA BackedBehind ==
  ASSUME NEW l \in Seq(LockTask), NEW t \in LockTask,
         t.req = Finalized \/ (Backed(l) /\ t.op # "append"), t.op # "append"
  PROVE  Backed(Append(l, t))
<1>1. /\ Append(l, t) \in Seq(LockTask) /\ Len(Append(l, t)) = Len(l) + 1 /\ Len(l) \in Nat
      /\ \A i \in 1 .. Len(l) : Append(l, t)[i] = l[i]
      /\ Append(l, t)[Len(l) + 1] = t
  BY AppendFacts
<1> DEFINE m == Append(l, t)
<1> HIDE DEF m
<1>2. ASSUME NEW i \in 1 .. Len(m), m[i].op = "append"
      PROVE  \E j \in 1 .. Len(m) : i < j /\ m[j].req = Finalized
  <2>1. i \in 1 .. Len(l) /\ l[i].op = "append"
    BY <1>1, <1>2 DEF m
  <2>2. CASE t.req = Finalized
    <3>1. Len(l) + 1 \in 1 .. Len(m) /\ i < Len(l) + 1 /\ m[Len(l) + 1].req = Finalized
      BY <1>1, <2>1, <2>2 DEF m
    <3> QED BY <3>1
  <2>3. CASE Backed(l)
    <3>1. PICK j \in 1 .. Len(l) : i < j /\ l[j].req = Finalized
      BY <2>1, <2>3 DEF Backed
    <3>2. j \in 1 .. Len(m) /\ m[j].req = Finalized
      BY <1>1, <3>1 DEF m
    <3> QED BY <3>1, <3>2
  <2> QED BY <2>2, <2>3
<1> QED BY <1>2 DEF Backed, m

LEMMA BackedTail ==
  ASSUME NEW l \in Seq(LockTask), l # <<>>, Backed(l)
  PROVE  /\ Backed(Tail(l))
         /\ Head(l).op = "append" => \E j \in 1 .. Len(l) : l[j].req = Finalized
<1>1. /\ Tail(l) \in Seq(LockTask) /\ Len(Tail(l)) = Len(l) - 1 /\ Len(l) \in Nat \ {0}
      /\ \A i \in 1 .. Len(Tail(l)) : Tail(l)[i] = l[i + 1]
      /\ Head(l) = l[1]
  BY TailFacts
<1> DEFINE m == Tail(l)
<1> HIDE DEF m
<1>2. ASSUME NEW i \in 1 .. Len(m), m[i].op = "append"
      PROVE  \E j \in 1 .. Len(m) : i < j /\ m[j].req = Finalized
  <2>1. i + 1 \in 1 .. Len(l) /\ l[i + 1].op = "append"
    BY <1>1, <1>2 DEF m
  <2>2. PICK j \in 1 .. Len(l) : i + 1 < j /\ l[j].req = Finalized
    BY <2>1 DEF Backed
  <2>3. j - 1 \in 1 .. Len(m) /\ i < j - 1 /\ (j - 1) + 1 = j
    BY <1>1, <2>1, <2>2 DEF m
  <2>4. m[j - 1] = l[j]
    BY <1>1, <2>3 DEF m
  <2> QED BY <2>2, <2>3, <2>4
<1>3. 1 \in 1 .. Len(l)
  BY <1>1
<1> QED BY <1>1, <1>2, <1>3 DEF Backed, m

\* The client is done or given up by an answer alone.
LEMMA AnswerMoves ==
  ASSUME WireTypes, NEW rest, NEW rs, NEW result, AnswerFrom(rest, rs, result)
  PROVE  /\ client'.phase = "ended" => client.phase = "ended" \/ result = "ended"
         /\ client'.phase = "done" =>
              \/ client.phase = "done"
              \/ /\ result \notin {"refused", "failed", "ended"}
                 /\ \E r \in rs : r.kind = "finalize"
<1>1. client \in ClientState
  BY DEF WireTypes
<1>2. CASE client' = client
  BY <1>2
<1>3. CASE client' # client
  <2>1. client.phase \in {"upload", "finalize"} /\ Sent(client) \cap rs # {}
        /\ client' = Told(result)
    BY <1>3 DEF AnswerFrom
  <2>2. Failed.phase = "failed" /\ Retried.phase \in {"failed", client.phase}
    BY <1>1 DEF Failed, Retried, ClientState
  <2>3. client.phase = "finalize" => \E r \in rs : r.kind = "finalize"
    BY <2>1 DEF Sent, Request
  <2>4. CASE result \in {"refused", "failed"}
    <3>1. client' \in {Failed, Retried}
      BY <2>1, <2>4 DEF Told
    <3> QED BY <2>1, <2>2, <3>1
  <2>5. CASE result = "ended"
    <3>1. client'.phase = "ended"
      BY <2>1, <2>5 DEF Told
    <3> QED BY <2>5, <3>1
  <2>6. CASE result \notin {"refused", "failed", "ended"}
    <3>1. /\ client'.phase \in {"done", "finalize", "upload"}
          /\ client'.phase = "done" => client.phase = "finalize"
      BY <2>1, <2>6 DEF Told, Advanced
    <3> QED BY <2>3, <2>6, <3>1
  <2> QED BY <2>4, <2>5, <2>6
<1> QED BY <1>2, <1>3

\* What a step tells the client.
ClientMoves ==
  /\ client'.phase = "ended" =>
       \/ client.phase = "ended"
       \/ job = "error" /\ \E r \in net : LateFinalize(r)
  /\ client'.phase = "done" =>
       \/ client.phase = "done"
       \/ job = "complete" /\ \E r \in net : LateFinalize(r)
       \/ FinishFinalize /\ fin.result = "ok"

LEMMA ClientStep ==
  ASSUME Types, Next
  PROVE  ClientMoves
<1>1. WireTypes /\ UploadTypes
  BY DEF Types
<1>2. client'.phase \notin {"ended", "done"} \/ client' = client => ClientMoves
  BY DEF ClientMoves
<1>3. \A rest, rs : AnswerFrom(rest, rs, "refused") \/ AnswerFrom(rest, rs, "failed")
                       => ClientMoves
  BY <1>1, AnswerMoves DEF ClientMoves
<1>4. \A rest, r, result :
         r.kind # "finalize" /\ result # "ended" /\ AnswerFrom(rest, {r}, result) => ClientMoves
  BY <1>1, AnswerMoves DEF ClientMoves
<1>5. /\ \A r \in ChunkRequest : r.kind # "finalize"
      /\ \A r \in CancelRequest : r.kind # "finalize"
      /\ Expiry.kind # "finalize"
  BY DEF ChunkRequest, CancelRequest, Requests, Expiry, Request
<1>6. \A end, r, result : Ending(end, r, result) /\ AbortActive(end, r, result) => ClientMoves
  <2> SUFFICES ASSUME NEW end, NEW r, NEW result, Ending(end, r, result),
                      AbortActive(end, r, result)
               PROVE  ClientMoves
    OBVIOUS
  <2>1. client' = client \/ AnswerFrom(net, {r}, result)
    BY DEF AbortActive, Outcome, Answer, wire
  <2> QED BY <1>2, <1>4, <1>5, <2>1 DEF Ending
<1>7. ASSUME NEW r \in net, Arrive(r) PROVE ClientMoves
  <2>1. CASE LateFinalize(r)
    <3>1. client' = client \/ \E result \in {"refused", "ok", "ended"} :
             /\ AnswerFrom(net \ {r}, {r}, result)
             /\ result = "ok" => job = "complete"
             /\ result = "ended" => job = "error"
      BY <2>1 DEF LateFinalize
    <3> QED BY <1>1, <1>2, <2>1, <3>1, AnswerMoves DEF ClientMoves
  <2>2. CASE RefuseChunk(r)
    BY <1>3, <2>2 DEF RefuseChunk
  <2>3. CASE SlotTaken(r)
    BY <1>3, <2>3 DEF SlotTaken
  <2>4. CASE OpenSession(r) \/ JoinSession(r) \/ ShareFinalize(r) \/ StartFinalize(r)
             \/ ArriveCancel(r)
    BY <1>2, <2>4 DEF OpenSession, JoinSession, ShareFinalize, StartFinalize, ArriveCancel
  <2> QED BY <1>7, <2>1, <2>2, <2>3, <2>4 DEF Arrive
<1>8. ASSUME NEW s \in Sessions, Opened(s) \/ OpenFails(s) PROVE ClientMoves
  <2>1. CASE Opened(s)
    BY <1>2, <2>1 DEF Opened, wire
  <2>2. CASE OpenFails(s)
    BY <1>3, <2>2 DEF OpenFails, Answer
  <2> QED BY <1>8, <2>1, <2>2
<1>9. ASSUME Upload PROVE ClientMoves
  <2>1. HoldsChunk => Head(lock).req.kind # "finalize" /\ Head(lock).req \in ChunkRequest
    BY <1>1, <1>5, HeadTypes DEF HoldsChunk, Holds, AppendTask
  <2>2. CASE AppendRefused \/ AppendRepeated \/ AppendConsumed
    <3>1. \E result \in {"ok", "refused"} : AnswerFrom(net, {Head(lock).req}, result)
      BY <2>2 DEF AppendRefused, AppendRepeated, AppendConsumed, AnswerAppend, Answer
    <3>2. HoldsChunk
      BY <2>2 DEF AppendRefused, AppendRepeated, AppendConsumed
    <3> QED BY <1>4, <2>1, <3>1, <3>2
  <2>3. CASE AppendFails
    <3>1. PICK result \in {"refused", "failed"} : AbortActive("error", Head(lock).req, result)
      BY <2>3 DEF AppendFails
    <3>2. Ending("error", Head(lock).req, result)
      BY <2>1, <2>3 DEF AppendFails, Ending
    <3> QED BY <1>6, <3>1, <3>2
  <2>4. CASE SealRefused \/ SealTooLate
    BY <1>3, <2>4 DEF SealRefused, SealTooLate, Answer
  <2>5. CASE SealWithout \/ Seal
    BY <1>2, <2>5 DEF SealWithout, Seal, wire
  <2>6. CASE FinishFinalize
    <3>1. AnswerFrom(net, fin.sharers, fin.result) /\ fin.result \in Results
      BY <1>1, <2>6 DEF FinishFinalize, Answer, UploadTypes
    <3> QED BY <1>1, <2>6, <3>1, AnswerMoves DEF ClientMoves, Results
  <2>7. CASE CleanCancelled
    <3>1. CASE AbortActive("gone", Head(lock).req, "ok")
      <4>1. Head(lock).req \in CancelRequest
        BY <1>1, <2>7, HeadTypes
           DEF CleanCancelled, Holds, CleanTask, Expiry, Finalized, Request, CancelRequest
      <4> QED BY <1>6, <3>1, <4>1 DEF Ending
    <3>2. CASE ~AbortActive("gone", Head(lock).req, "ok")
      BY <1>2, <2>7, <3>2 DEF CleanCancelled, Cancel, wire
    <3> QED BY <3>1, <3>2
  <2>8. CASE CleanExpired
    BY <1>6, <2>8 DEF CleanExpired, Ending
  <2> QED BY <1>9, <2>2, <2>3, <2>4, <2>5, <2>6, <2>7, <2>8 DEF Upload
<1>10. ASSUME GiveUp \/ Restore \/ TimerFires \/ OtherImport \/ CancelSettled PROVE ClientMoves
  <2>1. CASE GiveUp
    BY <1>1, <1>2, <2>1 DEF GiveUp, Retried, Failed, WireTypes, ClientState
  <2>2. CASE ~GiveUp
    BY <1>2, <1>10, <2>2
       DEF Restore, RestoreCommits, RestoreFails, EndRestore, TimerFires, OtherImport,
           CancelSettled, wire
  <2> QED BY <2>1, <2>2
<1>11. ASSUME Abort PROVE ClientMoves
  <2>1. PICK t \in aborts : AbortParser(t) \/ AbortRows(t)
    BY <1>11 DEF Abort
  <2>2. Ending(t.end, t.req, t.result)
    BY DEF Types, CallTypes, FailedCall, GoneCall, Ending
  <2>3. client' = client \/ AnswerFrom(net, {t.req}, t.result)
    BY <2>1 DEF AbortParser, AbortRows, Outcome, Answer, wire
  <2> QED BY <1>2, <1>4, <1>5, <2>2, <2>3 DEF Ending
<1>12. ASSUME CancelOpened PROVE ClientMoves
  <2>1. CASE Finalizing(cancel.s)
    BY <1>2, <1>12, <2>1 DEF CancelOpened, Cancel, wire
  <2>2. CASE ~Finalizing(cancel.s)
    <3> DEFINE r == Request("cancel", 0, 1)
    <3>1. AbortActive("gone", r, "ok")
      BY <1>12, <2>2 DEF CancelOpened, Cancel
    <3>2. Ending("gone", r, "ok")
      BY DEF Ending, Request, CancelRequest, Requests
    <3> HIDE DEF r
    <3> QED BY <1>6, <3>1, <3>2
  <2> QED BY <2>1, <2>2
<1> QED BY <1>7, <1>8, <1>9, <1>10, <1>11, <1>12, NextSteps DEF EndCancel

\* What a step does to a job that has ended, and to the result of a finalization.
EndMoves ==
  /\ job' = "complete" => job = "complete" \/ \E s \in Sessions : RestoreCommits(s)
  /\ job \in {"error", "gone"} =>
       job' \in {"error", "gone"} \/ \E s \in Sessions : RestoreCommits(s)
  /\ fin'.phase = "cleaning" /\ fin'.result = "ok" =>
       \/ fin.phase = "cleaning" /\ fin.result = "ok"
       \/ \E s \in Sessions : RestoreCommits(s)

LEMMA EndStep ==
  ASSUME Types, Next
  PROVE  EndMoves
<1>1. UploadTypes /\ fin \in [phase : {"none", "queued", "restoring", "cleaning"},
                              sharers : SUBSET FinalizeRequest, result : Results]
  BY DEF Types, UploadTypes
<1>2. UNCHANGED job /\ fin'.phase # "cleaning" => EndMoves
  BY DEF EndMoves
<1>3. /\ UNCHANGED fin /\ UNCHANGED job => EndMoves
      /\ UNCHANGED fin /\ job \in {"pending", "uploading"} /\ job' # "complete" => EndMoves
      /\ UNCHANGED fin /\ job' \in {"error", "gone"} => EndMoves
  BY DEF EndMoves
<1>4. \A end, r, result :
        Ending(end, r, result) /\ AbortActive(end, r, result) /\ UNCHANGED fin => EndMoves
  <2> SUFFICES ASSUME NEW end, NEW r, NEW result, Ending(end, r, result),
                      AbortActive(end, r, result), UNCHANGED fin
               PROVE  EndMoves
    OBVIOUS
  <2>1. UNCHANGED job \/ job' \in {"error", "gone"}
    BY DEF AbortActive, Outcome, Settled
  <2> QED BY <1>3, <2>1
<1>5. ASSUME NEW r \in net, Arrive(r) PROVE EndMoves
  <2>1. CASE ShareFinalize(r) \/ StartFinalize(r)
    <3>1. UNCHANGED job
      BY <2>1 DEF ShareFinalize, StartFinalize
    <3>2. \/ fin'.phase = fin.phase /\ fin'.result = fin.result
          \/ fin'.phase = "queued"
      BY <1>1, <2>1 DEF ShareFinalize, StartFinalize
    <3> QED BY <3>1, <3>2 DEF EndMoves
  <2>2. CASE ~ShareFinalize(r) /\ ~StartFinalize(r)
    <3>1. UNCHANGED fin /\ (UNCHANGED job \/ (job \in {"pending", "uploading"}
                                                /\ job' = "uploading"))
      BY <1>5, <2>2
         DEF Arrive, RefuseChunk, SlotTaken, OpenSession, JoinSession, LateFinalize,
             ArriveCancel, BeginChunk
    <3> QED BY <1>3, <3>1
  <2> QED BY <2>1, <2>2
<1>6. ASSUME NEW s \in Sessions, Opened(s) \/ OpenFails(s) PROVE EndMoves
  <2>1. UNCHANGED fin /\ (UNCHANGED job \/ job' \in {"error", "gone"})
    BY <1>6 DEF Opened, OpenFails
  <2> QED BY <1>3, <2>1
<1>7. ASSUME Upload PROVE EndMoves
  <2>1. CASE AppendRefused \/ AppendRepeated \/ AppendConsumed
    BY <1>3, <2>1 DEF AppendRefused, AppendRepeated, AppendConsumed, HoldsChunk
  <2>2. CASE AppendFails
    <3>1. PICK result \in {"refused", "failed"} : AbortActive("error", Head(lock).req, result)
      BY <2>2 DEF AppendFails
    <3>2. Ending("error", Head(lock).req, result) /\ UNCHANGED fin
      BY <1>1, <2>2, HeadTypes DEF AppendFails, HoldsChunk, Holds, AppendTask, Ending
    <3> QED BY <1>4, <3>1, <3>2
  <2>3. CASE SealRefused \/ SealTooLate \/ FinishFinalize
    <3>1. UNCHANGED job /\ fin' = NoFin
      BY <2>3 DEF SealRefused, SealTooLate, FinishFinalize
    <3>2. NoFin.phase = "none"
      BY DEF NoFin
    <3> QED BY <1>2, <3>1, <3>2
  <2>4. CASE SealWithout
    <3>1. job = "uploading" /\ job' = "restoring"
          /\ fin' = [fin EXCEPT !.phase = "cleaning", !.result = "refused"]
      BY <2>4 DEF SealWithout
    <3>2. fin'.result = "refused"
      BY <1>1, <3>1
    <3> QED BY <3>1, <3>2 DEF EndMoves
  <2>5. CASE Seal
    <3>1. job = "uploading" /\ job' = "restoring" /\ fin' = [fin EXCEPT !.phase = "restoring"]
      BY <2>5 DEF Seal
    <3>2. fin'.phase = "restoring"
      BY <1>1, <3>1
    <3> QED BY <3>1, <3>2 DEF EndMoves
  <2>6. CASE CleanCancelled
    <3>1. CASE AbortActive("gone", Head(lock).req, "ok")
      <4>1. Head(lock).req \in CancelRequest /\ UNCHANGED fin
        BY <1>1, <2>6, HeadTypes
           DEF CleanCancelled, Holds, CleanTask, Expiry, Finalized, Request, CancelRequest
      <4> QED BY <1>4, <3>1, <4>1 DEF Ending
    <3>2. CASE ~AbortActive("gone", Head(lock).req, "ok")
      BY <1>3, <2>6, <3>2 DEF CleanCancelled, Cancel
    <3> QED BY <3>1, <3>2
  <2>7. CASE CleanExpired
    BY <1>4, <2>7 DEF CleanExpired, Ending
  <2> QED BY <1>7, <2>1, <2>2, <2>3, <2>4, <2>5, <2>6, <2>7 DEF Upload
<1>8. ASSUME Restore PROVE EndMoves
  <2>1. PICK s \in Sessions : RestoreCommits(s) \/ RestoreFails(s)
    BY <1>8 DEF Restore, Sessions
  <2>2. CASE RestoreCommits(s)
    BY <2>2 DEF EndMoves
  <2>3. CASE RestoreFails(s)
    <3>1. PICK result \in {"refused", "failed"} : EndRestore(s, "failed", result)
      BY <2>3 DEF RestoreFails
    <3>2. fin' = [fin EXCEPT !.phase = "cleaning", !.result = result]
      BY <3>1 DEF EndRestore
    <3>3. fin'.result = result
      BY <1>1, <3>2
    <3>4. job' \in {"error", "gone"}
      BY <2>3 DEF RestoreFails, Settled
    <3> QED BY <3>3, <3>4 DEF EndMoves
  <2> QED BY <2>1, <2>2, <2>3
<1>9. ASSUME GiveUp \/ TimerFires \/ OtherImport \/ CancelSettled \/ Abort PROVE EndMoves
  <2>1. UNCHANGED fin /\ (UNCHANGED job \/ job' \in {"error", "gone"})
    BY <1>9 DEF GiveUp, TimerFires, OtherImport, CancelSettled, Abort, AbortParser, AbortRows,
       Outcome, Settled
  <2> QED BY <1>3, <2>1
<1>10. ASSUME CancelOpened PROVE EndMoves
  <2>1. CASE Finalizing(cancel.s)
    BY <1>3, <1>10, <2>1 DEF CancelOpened, Cancel
  <2>2. CASE ~Finalizing(cancel.s)
    <3> DEFINE r == Request("cancel", 0, 1)
    <3>1. AbortActive("gone", r, "ok") /\ UNCHANGED fin
      BY <1>10, <2>2 DEF CancelOpened, Cancel
    <3>2. Ending("gone", r, "ok")
      BY DEF Ending, Request, CancelRequest, Requests
    <3> HIDE DEF r
    <3> QED BY <1>4, <3>1, <3>2
  <2> QED BY <2>1, <2>2
<1> QED BY <1>5, <1>6, <1>7, <1>8, <1>9, <1>10, NextSteps DEF EndCancel

\* Behind a commit the job has ended, nobody has the slot, and nothing that is
\* still on its way can undo it.
LEMMA CommittedStep ==
  ASSUME Types, LockInv, SlotInv, TruthInv, Next, Orderly, Orderly', Committed
  PROVE  /\ Committed' /\ job' \in {"complete", "gone"} /\ aborts' = {} /\ active' = None
         /\ Backed(lock')
<1>1. /\ job \in {"complete", "gone"} /\ aborts = {} /\ active = None /\ Backed(lock)
      /\ ~late /\ ~late'
  BY DEF TruthInv, Orderly
<1>2. PICK s \in Sessions : sess[s].phase = "committed"
  BY DEF Committed, Sessions
<1>3. \A q \in Sessions : Began(q) => q = s
  <2>1. \A q \in Sessions : Began(q) => Sound(q)
    BY DEF Sound, Orderly, Sessions
  <2> QED BY <1>2, <2>1 DEF SlotInv, SoundInv, Began
<1>4. SessTypes /\ UploadTypes /\ WireTypes /\ lock \in Seq(LockTask)
  BY DEF Types, UploadTypes
<1>5. ASSUME UNCHANGED <<job, aborts, active, lock, sess>> PROVE Committed' /\ Backed(lock')
  BY <1>1, <1>5 DEF Committed
<1>6. ASSUME UNCHANGED sess PROVE Committed'
  BY <1>2, <1>6 DEF Committed, Sessions
<1>7. \A end, r, result : Ending(end, r, result) /\ end = "gone" /\ AbortActive(end, r, result)
        => UNCHANGED sess /\ job' = "gone" /\ aborts' = {} /\ active' = None
  BY <1>1 DEF AbortActive, Outcome
<1>8. lock # <<>> => Backed(Tail(lock))
  BY <1>1, <1>4, BackedTail
<1>9. \A t \in LockTask : t.op # "append" => Backed(Append(lock, t))
  BY <1>1, <1>4, BackedBehind
<1> DEFINE Done == /\ Committed' /\ job' \in {"complete", "gone"} /\ aborts' = {}
                   /\ active' = None /\ Backed(lock')
<1>10. ASSUME UNCHANGED <<job, aborts, active, sess>>,
              UNCHANGED lock \/ Backed(lock')
       PROVE  Done
  <2>1. Backed(lock')
    BY <1>1, <1>10
  <2> QED BY <1>1, <1>6, <1>10, <2>1
<1>11. ASSUME NEW r \in net, Arrive(r) PROVE Done
  <2>1. ~SlotTaken(r) /\ ~OpenSession(r) /\ ~JoinSession(r) /\ ~StartFinalize(r)
    BY <1>1 DEF SlotTaken, OpenSession, JoinSession, StartFinalize, BeginChunk
  <2>2. CASE ArriveCancel(r)
    <3>1. r \in CancelRequest
      BY <1>4, <2>2, RequestTypes DEF ArriveCancel, Arrives, WireTypes
    <3>2. Clean(r) \in LockTask /\ Clean(r).op # "append"
      BY <3>1, TaskTypes DEF LockTask, Clean, Task
    <3> QED BY <1>9, <1>10, <2>2, <3>2 DEF ArriveCancel, sessions
  <2>3. CASE RefuseChunk(r) \/ ShareFinalize(r) \/ LateFinalize(r)
    BY <1>10, <2>3 DEF RefuseChunk, ShareFinalize, LateFinalize, sessions
  <2> QED BY <1>11, <2>1, <2>2, <2>3 DEF Arrive
<1>12. ASSUME NEW q \in Sessions, Opened(q) \/ OpenFails(q) PROVE FALSE
  BY <1>2, <1>3, <1>12 DEF Opened, OpenFails, Began
<1>13. ASSUME Upload PROVE Done
  <2>1. ~AppendRefused /\ ~AppendRepeated /\ ~AppendConsumed /\ ~AppendFails
    <3> SUFFICES ASSUME HoldsChunk PROVE FALSE
      BY DEF AppendRefused, AppendRepeated, AppendConsumed, AppendFails
    <3>1. lock # <<>> /\ Head(lock).op = "append" /\ fin.phase = "none"
      BY <1>1 DEF HoldsChunk, Holds
    <3>2. \E j \in 1 .. Len(lock) : lock[j].req = Finalized
      BY <1>1, <1>4, <3>1, BackedTail
    <3> QED BY <3>1, <3>2 DEF LockInv, Queue
  <2>2. ~SealWithout /\ ~Seal
    BY <1>1 DEF SealWithout, Seal
  <2>3. CASE SealRefused \/ SealTooLate \/ FinishFinalize
    <3>1. lock # <<>> /\ lock' = Tail(lock)
      BY <2>3 DEF SealRefused, SealTooLate, FinishFinalize, Holds, Release
    <3> QED BY <1>8, <1>10, <2>3, <3>1
            DEF SealRefused, SealTooLate, FinishFinalize, sessions
  <2>4. CASE CleanCancelled \/ CleanExpired
    <3>1. lock # <<>> /\ lock' = Tail(lock)
      BY <2>4 DEF CleanCancelled, CleanExpired, Holds, Release
    <3>2. \E r : Ending("gone", r, "ok") /\ AbortActive("gone", r, "ok")
      <4>1. CASE CleanExpired
        BY <4>1 DEF CleanExpired, Ending
      <4>2. CASE CleanCancelled
        <5>1. Head(lock).req \in CancelRequest
          BY <1>4, <4>2, HeadTypes
             DEF CleanCancelled, Holds, CleanTask, Expiry, Finalized, Request, CancelRequest
        <5>2. AbortActive("gone", Head(lock).req, "ok")
          BY <1>1, <4>2 DEF CleanCancelled, Cancel, Opening, Finalizing
        <5> QED BY <5>1, <5>2 DEF Ending
      <4> QED BY <2>4, <4>1, <4>2
    <3> QED BY <1>6, <1>7, <1>8, <3>1, <3>2
  <2> QED BY <1>13, <2>1, <2>2, <2>3, <2>4 DEF Upload
<1>14. ~Restore
  BY <1>2, <1>3 DEF Restore, RestoreCommits, RestoreFails, Began, Sessions
<1>15. ~Abort
  BY <1>1 DEF Abort
<1>16. ASSUME GiveUp \/ OtherImport PROVE Done
  BY <1>10, <1>16 DEF GiveUp, OtherImport, sessions
<1>17. ASSUME CancelSettled PROVE Done
  BY <1>1, <1>6, <1>17 DEF CancelSettled, sessions
<1>18. ASSUME TimerFires PROVE Done
  <2>1. Clean(Expiry) \in LockTask /\ Clean(Expiry).op # "append"
    BY TaskTypes DEF LockTask, Clean, Task
  <2> QED BY <1>9, <1>10, <1>18, <2>1 DEF TimerFires, sessions
<1>19. ASSUME CancelOpened PROVE Done
  <2>1. ~Finalizing(cancel.s)
    <3>1. cancel.s \in Sessions /\ Began(cancel.s)
      BY <1>19 DEF CancelOpened, CancelResumes, Types, CallTypes, Began
    <3> QED BY <1>2, <1>3, <3>1 DEF Finalizing
  <2> DEFINE r == Request("cancel", 0, 1)
  <2>2. AbortActive("gone", r, "ok") /\ UNCHANGED lock
    BY <1>19, <2>1 DEF CancelOpened, Cancel
  <2>3. Ending("gone", r, "ok")
    BY DEF Ending, Request, CancelRequest, Requests
  <2> HIDE DEF r
  <2> QED BY <1>1, <1>6, <1>7, <2>2, <2>3
<1> QED BY <1>11, <1>12, <1>13, <1>14, <1>15, <1>16, <1>17, <1>18, <1>19, NextSteps
        DEF EndCancel

LEMMA TruthStep ==
  ASSUME Types, LockInv, SlotInv, QuietInv, AppliedInv, TruthInv, Next
  PROVE  TruthInv'
<1> SUFFICES ASSUME Orderly' PROVE TruthInv'
  BY DEF TruthInv
<1>1. \A s \in Sessions : Moves(s)
  BY PhaseMoves
<1>2. Orderly
  <2>1. ~late
    BY LateStays DEF Orderly
  <2>2. \A s \in Sessions : ~sess[s].torn
    BY <1>1 DEF SlotInv, Moves, Orderly, Sessions
  <2> QED BY <2>1, <2>2 DEF Orderly, Sessions
<1>3. ClientMoves /\ EndMoves
  BY ClientStep, EndStep
<1>4. (Backed(lock))' = Backed(lock')
  BY DEF Backed
<1>5. FinishFinalize => fin.phase = "cleaning"
  BY QueueTail DEF FinishFinalize, Holds, LockInv, Types, UploadTypes
<1>6. ASSUME NEW s \in Sessions, RestoreCommits(s)
      PROVE  /\ Committed' /\ job' \in {"complete", "gone"} /\ aborts' = {} /\ active' = None
             /\ Backed(lock') /\ job = "restoring" /\ UNCHANGED client
  <2>1. Sound(s) /\ sess[s].phase = "completing"
    BY <1>2, <1>6 DEF RestoreCommits, Sound, Began, Orderly, Sessions
  <2>2. active = s /\ job = "restoring" /\ aborts = {}
    BY <1>2, <2>1 DEF AppliedInv, Orderly, SlotInv, SoundInv
  <2>3. sess'[s].phase = "committed"
    BY <1>6 DEF RestoreCommits, EndRestore, Types, SessTypes, Session
  <2>4. Backed(lock')
    <3>1. Clean(Finalized) \in LockTask /\ Clean(Finalized).op # "append"
          /\ Clean(Finalized).req = Finalized
      BY TaskTypes DEF LockTask, Clean, Task
    <3>2. lock' = Append(lock, Clean(Finalized)) /\ lock \in Seq(LockTask)
      BY <1>6 DEF RestoreCommits, EndRestore, Types, UploadTypes
    <3> DEFINE t == Clean(Finalized)
    <3> HIDE DEF t
    <3> QED BY <3>1, <3>2, BackedBehind DEF t
  <2>5. job' \in {"complete", "gone"} /\ aborts' = {} /\ active' = None /\ UNCHANGED client
    BY <1>6, <2>2 DEF RestoreCommits, EndRestore, Settled, wire
  <2> QED BY <2>2, <2>3, <2>4, <2>5 DEF Committed, Sessions
<1>7. CASE Committed
  <2>1. /\ Committed' /\ job' \in {"complete", "gone"} /\ aborts' = {} /\ active' = None
        /\ Backed(lock') /\ job \in {"complete", "gone"}
    BY <1>2, <1>7, CommittedStep DEF TruthInv
  <2>2. client'.phase # "ended"
    BY <1>2, <1>3, <1>7, <2>1 DEF TruthInv, ClientMoves
  <2> QED BY <1>4, <2>1, <2>2 DEF TruthInv
<1>8. CASE \E s \in Sessions : RestoreCommits(s)
  <2>1. /\ Committed' /\ job' \in {"complete", "gone"} /\ aborts' = {} /\ active' = None
        /\ Backed(lock') /\ job = "restoring" /\ UNCHANGED client
    BY <1>6, <1>8
  <2>2. client.phase # "ended"
    BY <1>2, <2>1 DEF TruthInv
  <2> QED BY <1>4, <2>1, <2>2 DEF TruthInv
<1>9. CASE ~Committed /\ ~\E s \in Sessions : RestoreCommits(s)
  <2>1. ~Committed'
    BY <1>1, <1>9 DEF Committed, Moves, Sessions
  <2>2. job' # "complete" /\ ~(fin'.phase = "cleaning" /\ fin'.result = "ok")
    BY <1>2, <1>3, <1>9 DEF EndMoves, TruthInv
  <2>3. client'.phase # "done"
    BY <1>2, <1>3, <1>5, <1>9 DEF ClientMoves, TruthInv
  <2>4. client'.phase = "ended" => job' \in {"error", "gone"}
    BY <1>2, <1>3, <1>9 DEF ClientMoves, EndMoves, TruthInv
  <2> QED BY <2>1, <2>2, <2>3, <2>4 DEF TruthInv
<1> QED BY <1>7, <1>8, <1>9

-----------------------------------------------------------------------------
(* A commit whose answer was lost leaves a failed session behind, which was   *)
(* completing before.                                                         *)

LostInv ==
  /\ active # None => sess[active].phase # "failed"
  /\ \A s \in unanswered :
       /\ sess[s].phase = "failed"
       /\ ~sess[s].torn => sess[s].consumed = File

\* A failed session stays as it is.
LEMMA FailedStays ==
  ASSUME Types, LostInv, Next, NEW s \in Sessions, sess[s].phase = "failed"
  PROVE  sess'[s] = sess[s]
<1>1. SessTypes /\ None \notin Sessions /\ sess \in [Sessions -> Session]
  BY DEF Types, SessTypes, Sessions, None
<1>2. \A end, r, result : AbortActive(end, r, result) => sess'[s] = sess[s]
  BY <1>1 DEF AbortActive, Session
<1>3. ASSUME NEW r \in net, Arrive(r) PROVE sess'[s] = sess[s]
  <2>1. CASE OpenSession(r) \/ JoinSession(r)
    BY <1>1, <2>1 DEF OpenSession, JoinSession
  <2>2. CASE ~OpenSession(r) /\ ~JoinSession(r)
    BY <1>3, <2>2 DEF Arrive, RefuseChunk, SlotTaken, ShareFinalize, StartFinalize, LateFinalize,
       ArriveCancel, sessions
  <2> QED BY <2>1, <2>2
<1>4. ASSUME NEW q \in Sessions, Opened(q) \/ OpenFails(q) PROVE sess'[s] = sess[s]
  BY <1>1, <1>4 DEF Opened, OpenFails
<1>5. ASSUME Upload PROVE sess'[s] = sess[s]
  <2>1. CASE AppendConsumed
    BY <1>1, <2>1 DEF AppendConsumed
  <2>2. CASE Seal
    BY <1>1, <2>2 DEF Seal, LostInv
  <2>3. CASE AppendFails \/ CleanCancelled \/ CleanExpired
    BY <1>2, <2>3 DEF AppendFails, CleanCancelled, CleanExpired, Cancel
  <2>4. CASE AppendRefused \/ AppendRepeated \/ SealRefused \/ SealTooLate \/ SealWithout
             \/ FinishFinalize
    BY <2>4 DEF AppendRefused, AppendRepeated, SealRefused, SealTooLate, SealWithout,
       FinishFinalize, sessions
  <2> QED BY <1>5, <2>1, <2>2, <2>3, <2>4 DEF Upload
<1>6. ASSUME Restore PROVE sess'[s] = sess[s]
  BY <1>1, <1>6 DEF Restore, RestoreCommits, RestoreFails, EndRestore
<1>7. ASSUME Abort PROVE sess'[s] = sess[s]
  <2>1. PICK t \in aborts : AbortParser(t) \/ AbortRows(t)
    BY <1>7 DEF Abort
  <2>2. CASE AbortParser(t)
    BY <2>2 DEF AbortParser
  <2>3. CASE AbortRows(t)
    BY <1>1, <2>3 DEF AbortRows, Session
  <2> QED BY <2>1, <2>2, <2>3
<1>8. ASSUME GiveUp \/ EndCancel \/ TimerFires \/ OtherImport PROVE sess'[s] = sess[s]
  BY <1>2, <1>8 DEF GiveUp, EndCancel, CancelOpened, CancelSettled, Cancel, TimerFires,
     OtherImport, sessions
<1> QED BY <1>3, <1>4, <1>5, <1>6, <1>7, <1>8, NextSteps

\* The session that holds the slot has not failed.
LEMMA ActiveStep ==
  ASSUME Types, LostInv, Next
  PROVE  active' # None => sess'[active'].phase # "failed"
<1> SUFFICES ASSUME active' # None PROVE sess'[active'].phase # "failed"
  OBVIOUS
<1>1. /\ sess \in [Sessions -> Session] /\ active \in Sessions \cup {None}
      /\ active # None => sess[active].phase # "failed"
  BY DEF Types, SessTypes, SlotTypes, LostInv
<1>2. UNCHANGED <<active, sess>> => sess'[active'].phase # "failed"
  BY <1>1
<1>3. \A end, r, result : ~AbortActive(end, r, result)
  BY DEF AbortActive
<1>4. ASSUME NEW r \in net, Arrive(r) PROVE sess'[active'].phase # "failed"
  <2>1. CASE OpenSession(r)
    <3>1. PICK s \in Sessions :
             /\ active' = s
             /\ sess' = [sess EXCEPT ![s] = [NoSession EXCEPT !.phase = "opening",
                                                !.waiters = <<r>>, !.torn = aborts # {}]]
      BY <2>1 DEF OpenSession, Sessions
    <3> QED BY <1>1, <3>1 DEF NoSession
  <2>2. CASE JoinSession(r)
    BY <1>1, <2>2 DEF JoinSession, Session
  <2>3. CASE ~OpenSession(r) /\ ~JoinSession(r)
    BY <1>2, <1>4, <2>3 DEF Arrive, RefuseChunk, SlotTaken, ShareFinalize, StartFinalize,
       LateFinalize, ArriveCancel, sessions
  <2> QED BY <2>1, <2>2, <2>3
<1>5. ASSUME NEW q \in Sessions, Opened(q) \/ OpenFails(q) PROVE sess'[active'].phase # "failed"
  <2>1. Opened(q) /\ UNCHANGED active
    BY <1>5 DEF Opened, OpenFails
  <2>2. PICK p \in {"aborting", "open"} :
           sess' = [sess EXCEPT ![q].phase = p, ![q].waiters = <<>>]
    BY <2>1 DEF Opened
  <2>3. CASE active = q
    <3>1. sess'[q] = [sess[q] EXCEPT !.phase = p, !.waiters = <<>>] /\ sess[q] \in Session
      BY <1>1, <2>2
    <3>2. sess'[q].phase = p
      BY <3>1 DEF Session
    <3> QED BY <2>1, <2>2, <2>3, <3>2
  <2>4. CASE active # q
    BY <1>1, <2>1, <2>2, <2>4
  <2> QED BY <2>3, <2>4
<1>6. ASSUME Upload PROVE sess'[active'].phase # "failed"
  <2>1. CASE AppendConsumed
    BY <1>1, <2>1 DEF AppendConsumed, Session
  <2>2. CASE Seal
    BY <1>1, <2>2 DEF Seal, Session
  <2>3. CASE AppendFails \/ CleanCancelled \/ CleanExpired
    BY <1>2, <1>3, <2>3 DEF AppendFails, CleanCancelled, CleanExpired, Cancel
  <2>4. CASE AppendRefused \/ AppendRepeated \/ SealRefused \/ SealTooLate \/ SealWithout
             \/ FinishFinalize
    BY <1>2, <2>4 DEF AppendRefused, AppendRepeated, SealRefused, SealTooLate, SealWithout,
       FinishFinalize, sessions
  <2> QED BY <1>6, <2>1, <2>2, <2>3, <2>4 DEF Upload
<1>7. ~Restore
  BY DEF Restore, RestoreCommits, RestoreFails, EndRestore
<1>8. ASSUME Abort PROVE sess'[active'].phase # "failed"
  <2>1. PICK t \in aborts : AbortParser(t) \/ AbortRows(t)
    BY <1>8 DEF Abort
  <2>2. CASE AbortParser(t)
    BY <1>2, <2>2 DEF AbortParser
  <2>3. CASE AbortRows(t)
    BY <1>1, <2>3 DEF AbortRows, Session
  <2> QED BY <2>1, <2>2, <2>3
<1>9. ASSUME GiveUp \/ EndCancel \/ TimerFires \/ OtherImport PROVE sess'[active'].phase # "failed"
  BY <1>2, <1>3, <1>9 DEF GiveUp, EndCancel, CancelOpened, CancelSettled, Cancel, TimerFires,
     OtherImport, sessions
<1> QED BY <1>4, <1>5, <1>6, <1>7, <1>8, <1>9, NextSteps

\* Only the end of a restore loses the answer to a commit.
LEMMA LostStays ==
  ASSUME Types, Next, ~Restore
  PROVE  UNCHANGED unanswered
BY NextSteps
   DEF Arrive, RefuseChunk, SlotTaken, OpenSession, JoinSession, ShareFinalize, StartFinalize,
       LateFinalize, ArriveCancel, BeginChunk, Opened, OpenFails, Upload, AppendRefused,
       AppendRepeated, AppendConsumed, AppendFails, HoldsChunk, SealRefused, SealTooLate,
       SealWithout, Seal, FinishFinalize, CleanCancelled, CleanExpired, GiveUp, Abort,
       AbortParser, AbortRows, EndCancel, CancelOpened, CancelSettled, TimerFires, OtherImport,
       history

LEMMA LostStep ==
  ASSUME Types, SlotInv, LostInv, Next
  PROVE  LostInv'
<1>1. /\ SessTypes /\ unanswered \subseteq Sessions
      /\ active' # None => sess'[active'].phase # "failed"
  BY ActiveStep DEF Types, CountTypes
<1>2. \A s \in unanswered : sess'[s] = sess[s]
  BY <1>1, FailedStays DEF LostInv
<1>3. CASE ~Restore
  BY <1>1, <1>2, <1>3, LostStays DEF LostInv
<1>4. CASE Restore
  <2>1. PICK s \in Sessions : RestoreCommits(s) \/ RestoreFails(s)
    BY <1>4 DEF Restore, Sessions
  <2>2. CASE UNCHANGED unanswered
    BY <1>1, <1>2, <2>2 DEF LostInv
  <2>3. CASE ~UNCHANGED unanswered
    <3>1. /\ RestoreFails(s) /\ sess[s].phase = "completing"
          /\ unanswered' = unanswered \cup {s}
      BY <2>1, <2>3 DEF RestoreCommits, RestoreFails, AnswerLost
    <3>2. ~sess[s].torn => sess[s].consumed = File
      BY <3>1 DEF SlotInv, SoundInv, Sound, Began
    <3>3. /\ sess'[s].phase = "failed" /\ sess'[s].torn = sess[s].torn
          /\ sess'[s].consumed = sess[s].consumed
      BY <1>1, <3>1 DEF RestoreFails, EndRestore, SessTypes, Session
    <3> QED BY <1>1, <1>2, <3>1, <3>2, <3>3 DEF LostInv
  <2> QED BY <2>2, <2>3
<1> QED BY <1>3, <1>4

-----------------------------------------------------------------------------
(* The theorems.                                                              *)

ImportInv ==
  Types /\ LockInv /\ SlotInv /\ QuietInv /\ AppliedInv /\ TruthInv /\ LostInv

LEMMA ImportInit == Init => ImportInv
<1> SUFFICES ASSUME Init PROVE ImportInv
  OBVIOUS
<1>1. Types
  BY InitTypes
<1>2. /\ lock = <<>> /\ fin = NoFin /\ job = "pending" /\ active = None /\ aborts = {}
      /\ up.received = 0 /\ client.phase = "upload"
      /\ \A s \in Sessions : sess[s].phase = "none" /\ sess[s].torn = FALSE
  BY DEF Init, Sessions, NoSession, NoUpload
<1>3. fin.phase = "none"
  BY <1>2 DEF NoFin
<1>4. LockInv
  BY <1>2, <1>3 DEF LockInv, Queue, FinalizingNow
<1>5. SlotInv
  BY <1>2 DEF SlotInv, FreshInv, PendingInv, SoundInv, Sound, Began, Sessions, None
<1>6. QuietInv /\ AppliedInv
  BY <1>2, <1>3 DEF QuietInv, AppliedInv
<1>7. TruthInv
  BY <1>2, <1>3 DEF TruthInv, Committed, Sessions
<1>8. LostInv
  BY DEF Init, LostInv
<1> QED BY <1>1, <1>4, <1>5, <1>6, <1>7, <1>8 DEF ImportInv

LEMMA ImportStutter == ImportInv /\ UNCHANGED vars => ImportInv'
<1> SUFFICES ASSUME ImportInv, UNCHANGED vars PROVE ImportInv'
  OBVIOUS
<1>1. UNCHANGED <<client, job, timer, active, sess, intact, up, lock, fin, aborts, late,
                unanswered>>
  BY DEF vars, wire, sessions, history
<1>2. Types'
  BY StepTypes DEF ImportInv
<1>3. LockInv'
  BY <1>1 DEF ImportInv, LockInv, Queue, FinalizingNow
<1>4. SlotInv'
  BY <1>1, SameFacts, SlotStays DEF ImportInv
<1>5. QuietInv' /\ AppliedInv'
  BY <1>1 DEF ImportInv, QuietInv, AppliedInv, Sound, Began, NoExpiry, NoExpiryBehindSeal
<1>6. TruthInv'
  BY <1>1 DEF ImportInv, TruthInv, Orderly, Committed, Backed
<1>7. LostInv'
  BY <1>1 DEF ImportInv, LostInv
<1> QED BY <1>2, <1>3, <1>4, <1>5, <1>6, <1>7 DEF ImportInv

LEMMA ImportStep == ImportInv /\ [Next]_vars => ImportInv'
<1>1. ASSUME ImportInv, Next PROVE ImportInv'
  <2>1. Types /\ LockInv /\ SlotInv /\ QuietInv /\ AppliedInv /\ TruthInv /\ LostInv
    BY <1>1 DEF ImportInv
  <2>2. Types'
    BY <1>1, <2>1, StepTypes
  <2> QED BY <1>1, <2>1, <2>2, LockStep, SlotStep, QuietStep, AppliedStep, TruthStep,
     LostStep DEF ImportInv
<1> QED BY <1>1, ImportStutter

LEMMA ImportSafe == Spec => []ImportInv
BY ImportInit, ImportStep, PTL DEF Spec

\* What is restored is the file the user chose, whole and in order, of any
\* number of chunks, however its requests were lost, repeated or overtaken.
THEOREM OnlyWholeFiles == Spec => []WholeFile
<1>1. ImportInv => WholeFile
  BY DEF ImportInv, SlotInv, SoundInv, Sound, Began, LostInv, WholeFile, Applied, Sessions
<1> QED BY ImportSafe, <1>1, PTL

\* Nothing takes the slot or the records of a restore while it is applied,
\* unless a chunk was handled beside it.
THEOREM RestoresAlone == Spec => []RestoreUndisturbed
<1>1. ImportInv => RestoreUndisturbed
  BY DEF ImportInv, AppliedInv, SlotInv, SoundInv, Sound, Began, RestoreUndisturbed, Sessions
<1> QED BY ImportSafe, <1>1, PTL

\* The client hears of a restore exactly if it took place, as does whoever asks
\* for the job; only a COMMIT whose answer was lost is reported as a failure.
THEOREM ClientsToldTruth == Spec => []ToldTruth
<1>1. ImportInv => ToldTruth
  BY DEF ImportInv, TruthInv, Committed, ToldTruth, Applied
<1> QED BY ImportSafe, <1>1, PTL
=============================================================================
