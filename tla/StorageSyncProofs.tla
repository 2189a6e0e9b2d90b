-------------------------- MODULE StorageSyncProofs --------------------------
(* Proofs about StorageSync: types, exclusion by the gate, that what a        *)
(* replacement has overwritten can be restored while the database is old, and *)
(* that a replacement is made wholly or not at all.                           *)
EXTENDS StorageSync, TLAPS

\* Attempts that work with a snapshot.
Working == {"applying", "committing", "undoing"}

\* Where an attempt stands says what the snapshot and the database are; workers
\* may outlive their attempt.
StageInv ==
    \A n \in Attempts :
        /\ fin[n] = "copying" => snapshot.state = "preparing"
        /\ db.content = "old" /\ (fin[n] \in Working \/ applying[n] # {} \/ undoing[n] # {})
           => snapshot.state = "prepared"
        /\ fin[n] \in {"promoting", "finishing"} => db.content = "new"

\* While the database is the old one, a finished snapshot holds none of the
\* new contents, unless a late copy worker put it there, and before there is one no asset has been touched.
SnapshotInv ==
    db.content = "old" =>
        /\ snapshot.state # "current"
        /\ snapshot.state = "prepared" =>
              \A a \in Ready \ spoiled : snapshot.saved[a] \notin {"new", "torn"}
        /\ snapshot.state # "prepared" =>
              \A a \in Ready : assets[a] \in allowed[a] /\ assets[a] \notin {"new", "torn"}

SyncInv == TypeOK /\ HolderAlone /\ StageInv /\ SnapshotInv

\* The initial contents are contents.  Every lemma below whose name ends in Step
\* says that one action preserves SyncInv.
LEMMA InitialContents ==
    /\ Initial \in [Assets -> Contents]
    /\ \A a \in Ready : Initial[a] \notin {"new", "torn"}
BY DEF Initial, Contents, Assets, Ready

LEMMA InitSync == Init => SyncInv
<1> SUFFICES ASSUME Init PROVE SyncInv
  OBVIOUS
<1>1. TypeOK
  <2>1. allowed \in [Assets -> SUBSET Contents]
    BY InitialContents DEF Init
  <2>2. /\ writes \in 0..MaxWrites /\ faults \in 0..MaxFaults /\ restarts \in 0..MaxRestarts
        /\ gate \in 0..MaxAttempts
    BY StorageSyncAssumption DEF Init
  <2>3. copies \in [Attempts -> [Ready -> Contents \union {"none", "next"}]] /\ spoiled \subseteq Ready
    BY DEF Init, NoCopies
  <2> QED BY InitialContents, <2>1, <2>2, <2>3 DEF Init, TypeOK, NoSnapshot
<1>2. HolderAlone
  BY DEF Init, HolderAlone, Inside, Attempts
<1>3. StageInv
  BY DEF Init, StageInv, Working
<1>4. SnapshotInv
  BY InitialContents DEF Init, SnapshotInv, NoSnapshot, Assets
<1> QED BY <1>1, <1>2, <1>3, <1>4 DEF SyncInv

\* What the types say of the variables most steps change.
LEMMA Types ==
  ASSUME TypeOK
  PROVE  /\ gate \in 0..MaxAttempts /\ assets \in [Assets -> Contents]
         /\ snapshot.saved \in [Assets -> Contents]
         /\ fin \in [Attempts -> {"idle"} \union Inside \union Ended]
         /\ applying \in [Attempts -> SUBSET Ready] /\ undoing \in [Attempts -> SUBSET Ready]
         /\ allowed \in [Assets -> SUBSET Contents]
         /\ excused \subseteq Assets /\ spoiled \subseteq Ready
         /\ requests \in [Users -> {"none", "entered", "orphan"}]
BY DEF TypeOK

LEMMA FaultCounted == ASSUME TypeOK, Fault PROVE faults' \in 0..MaxFaults
BY StorageSyncAssumption DEF TypeOK, Fault

LEMMA MutateType == ASSUME TypeOK, NEW u \in Users, Mutate(u) PROVE TypeOK'
<1>1. requests' \in [Users -> {"none", "entered", "orphan"}]
  BY DEF Mutate, TypeOK
<1>2. CASE db' = [db EXCEPT !.revision = @ + 1] /\ UNCHANGED <<assets, session, ghosts>>
  BY <1>1, <1>2 DEF Mutate, TypeOK, counters, ghosts
<1>3. ASSUME NEW a \in Assets, NEW content \in {"user", "absent"},
             assets' = [assets EXCEPT ![a] = content],
             allowed' = [allowed EXCEPT ![a] = IF requests[u] = "entered" THEN {content}
                                               ELSE @ \union {content}],
             excused' \subseteq excused \union {a},
             UNCHANGED <<db, session, spoiled, unsure>>
      PROVE  TypeOK'
  <2>1. assets' \in [Assets -> Contents]
    BY <1>3 DEF TypeOK, Contents
  <2>2. allowed' \in [Assets -> SUBSET Contents]
    BY <1>3 DEF TypeOK, Contents
  <2> QED BY <1>1, <1>3, <2>1, <2>2 DEF Mutate, TypeOK, counters
<1>4. CASE Forget /\ UNCHANGED <<db, assets, ghosts>>
  BY <1>1, <1>4 DEF Mutate, Forget, TypeOK, counters, ghosts
<1>5. CASE UNCHANGED <<db, assets, session, ghosts>>
  BY <1>1, <1>5 DEF Mutate, TypeOK, counters, ghosts
<1> QED
  <2>1. CASE \E a \in Assets, content \in {"user", "absent"} :
            /\ assets' = [assets EXCEPT ![a] = content]
            /\ allowed' = [allowed EXCEPT ![a] = IF requests[u] = "entered" THEN {content}
                                                 ELSE @ \union {content}]
            /\ excused' = IF (requests[u] = "orphan" /\ gate # 0) \/ StaleSnapshot
                          THEN excused \union {a} ELSE excused
            /\ UNCHANGED <<db, session, spoiled, unsure>>
    BY <1>3, <2>1
  <2> QED BY <1>2, <1>4, <1>5, <2>1 DEF Mutate

LEMMA EnterStep ==
    ASSUME SyncInv, NEW u \in Users, Enter(u) PROVE SyncInv'
<1>1. TypeOK'
  BY StorageSyncAssumption DEF Enter, ghosts, SyncInv, TypeOK
<1>2. HolderAlone'
  BY StorageSyncAssumption DEF Enter, ghosts, SyncInv, TypeOK, HolderAlone
<1>3. StageInv'
  BY DEF Enter, SyncInv, HolderAlone, StageInv
<1>4. SnapshotInv'
  BY DEF Enter, ghosts, SyncInv, StageInv, SnapshotInv
<1> QED BY <1>1, <1>2, <1>3, <1>4 DEF SyncInv

LEMMA DisconnectStep ==
    ASSUME SyncInv, NEW u \in Users, Disconnect(u) PROVE SyncInv'
<1>1. TypeOK'
  BY DEF Disconnect, counters, ghosts, SyncInv, TypeOK
<1>2. HolderAlone'
  BY DEF Disconnect, counters, ghosts, SyncInv, TypeOK, HolderAlone, Drained
<1>3. StageInv'
  BY DEF Disconnect, SyncInv, HolderAlone, StageInv
<1>4. SnapshotInv'
  BY DEF Disconnect, ghosts, SyncInv, StageInv, SnapshotInv
<1> QED BY <1>1, <1>2, <1>3, <1>4 DEF SyncInv

LEMMA AnswerStep ==
    ASSUME SyncInv, NEW u \in Users, Answer(u) PROVE SyncInv'
<1>1. TypeOK'
  BY MutateType DEF Answer, SyncInv
<1>2. HolderAlone'
  BY DEF Answer, Mutate, Forget, SyncInv, HolderAlone, Drained
<1>3. StageInv'
  BY DEF Answer, Mutate, Forget, SyncInv, TypeOK, HolderAlone, StageInv
<1>4. SnapshotInv'
  BY DEF Answer, Assets, ghosts, Mutate, Forget, SyncInv, TypeOK, StageInv, SnapshotInv
<1> QED BY <1>1, <1>2, <1>3, <1>4 DEF SyncInv

LEMMA LandStep ==
    ASSUME SyncInv, NEW u \in Users, Land(u) PROVE SyncInv'
<1>1. TypeOK'
  BY MutateType DEF Land, SyncInv
<1>2. HolderAlone'
  BY DEF Land, Mutate, Forget, SyncInv, HolderAlone, Drained
<1>3. StageInv'
  BY DEF Land, Mutate, Forget, SyncInv, TypeOK, HolderAlone, StageInv
<1>4. SnapshotInv'
  BY DEF Land, Assets, ghosts, Mutate, Forget, SyncInv, TypeOK, StageInv, SnapshotInv
<1> QED BY <1>1, <1>2, <1>3, <1>4 DEF SyncInv

LEMMA ArriveStep ==
    ASSUME SyncInv, NEW n \in Attempts, Arrive(n) PROVE SyncInv'
<1>1. TypeOK'
  BY DEF Arrive, Attempts, Goto, counters, ghosts, SyncInv, TypeOK, Inside, Ended
<1>2. HolderAlone'
  <2>1. /\ fin \in [Attempts -> {"idle"} \union Inside \union Ended] /\ HolderAlone
        /\ fin[n] \notin Inside /\ n # 0 /\ n # gate /\ 0 \notin Attempts
    BY StorageSyncAssumption DEF Arrive, Attempts, SyncInv, TypeOK, HolderAlone, Inside
  <2>2. /\ fin' = [fin EXCEPT ![n] = fin'[n]]
        /\ \/ gate' = gate /\ fin'[n] \notin Inside
           \/ gate = 0 /\ gate' = n /\ fin'[n] = "waiting"
        /\ requests' = requests
    BY <2>1 DEF Arrive, Goto, Acquired, Inside
  <2>3. "waiting" \in Inside
    BY DEF Inside
  <2> HIDE DEF Inside
  <2>4. /\ fin'[n] = "waiting" \/ fin'[n] \notin Inside
        /\ \A m \in Attempts : m # n => fin'[m] = fin[m]
    BY <2>1, <2>2
  <2>5. \A m \in Attempts : fin'[m] \in Inside <=> gate' = m
    BY <2>1, <2>2, <2>3, <2>4 DEF HolderAlone
  <2>6. ASSUME gate' # 0, fin'[gate'] # "waiting" PROVE Drained'
    <3>1. gate' = gate
      BY <2>2, <2>6
    <3>2. gate \in Attempts
      BY StorageSyncAssumption, <2>6, <3>1 DEF SyncInv, TypeOK, Attempts
    <3>3. gate # n /\ fin'[gate] = fin[gate]
      BY <2>1, <2>4, <3>2
    <3> QED BY <2>1, <2>2, <2>6, <3>1, <3>3 DEF HolderAlone, Drained
  <2> QED BY <2>5, <2>6 DEF HolderAlone
<1>3. /\ fin'[n] \in {"unknown", "completed", "busy", "waiting"}
      /\ \A m \in Attempts : m # n => fin'[m] = fin[m]
  BY DEF Arrive, Goto, SyncInv, TypeOK
<1>4. UNCHANGED <<db, assets, snapshot, applying, undoing, allowed, spoiled>>
  BY DEF Arrive, ghosts
<1>5. StageInv'
  <2>1. ASSUME NEW m \in Attempts, fin[m] = "idle" \/ m # n
        PROVE  /\ fin'[m] = "copying" => fin[m] = "copying"
               /\ fin'[m] \in Working => fin[m] \in Working
               /\ fin'[m] \in {"promoting", "finishing"} => fin[m] = fin'[m]
    BY <1>3, <2>1 DEF Working
  <2>2. fin[n] = "idle"
    BY DEF Arrive
  <2> HIDE DEF Working
  <2> QED BY <1>4, <2>1, <2>2 DEF SyncInv, StageInv
<1>6. SnapshotInv'
  BY <1>4 DEF SyncInv, SnapshotInv
<1> QED BY <1>1, <1>2, <1>5, <1>6 DEF SyncInv

LEMMA PreflightStep ==
    ASSUME SyncInv, NEW n \in Attempts, Preflight(n) PROVE SyncInv'
<1>1. TypeOK'
  <2>1. /\ gate' \in 0..MaxAttempts
        /\ fin' \in [Attempts -> {"idle"} \union Inside \union Ended]
    BY StorageSyncAssumption, Types DEF Preflight, Goto, Release, SyncInv, Inside, Ended
  <2> QED BY <2>1 DEF Preflight, counters, ghosts, SyncInv, TypeOK
<1>2. HolderAlone'
  BY StorageSyncAssumption DEF Preflight, Attempts, Assets, Goto, Release, counters, ghosts, SyncInv, TypeOK, HolderAlone, Drained, Inside, Ended
<1>3. StageInv'
  BY StorageSyncAssumption, Types DEF Preflight, Attempts, Goto, Release, SyncInv, HolderAlone, StageInv, Working, Inside
<1>4. SnapshotInv'
  BY StorageSyncAssumption DEF Preflight, Goto, Release, ghosts, SyncInv, TypeOK, StageInv, SnapshotInv, Working
<1> QED BY <1>1, <1>2, <1>3, <1>4 DEF SyncInv

LEMMA PrepareStep ==
    ASSUME SyncInv, NEW n \in Attempts, Prepare(n) PROVE SyncInv'
<1>1. TypeOK'
  <2>1. /\ fin' \in [Attempts -> {"idle"} \union Inside \union Ended]
        /\ applying' \in [Attempts -> SUBSET Ready] /\ spoiled' \subseteq Ready
    BY Types DEF Prepare, StartApplying, Goto, SyncInv, Inside
  <2>2. snapshot' \in [state : {"none", "preparing", "prepared", "current"},
                       saved : [Assets -> Contents]]
    BY InitialContents DEF Prepare, SyncInv, TypeOK
  <2> QED BY <2>1, <2>2 DEF Prepare, SyncInv, TypeOK, counters
<1>2. HolderAlone'
  BY StorageSyncAssumption DEF Prepare, Goto, counters, ghosts, StartApplying, SyncInv, TypeOK, HolderAlone, Drained, Inside
<1>3. StageInv'
  BY StorageSyncAssumption DEF Prepare, Goto, StartApplying, Reusable, SyncInv, TypeOK, HolderAlone, StageInv, Working, Inside
<1>4. SnapshotInv'
  BY StorageSyncAssumption DEF Prepare, Goto, ghosts, StartApplying, Reusable, SyncInv, TypeOK, StageInv, SnapshotInv, Working
<1> QED BY <1>1, <1>2, <1>3, <1>4 DEF SyncInv

LEMMA CopiedStep ==
    ASSUME SyncInv, NEW n \in Attempts, Copied(n) PROVE SyncInv'
<1>1. TypeOK'
  BY DEF Copied, Goto, counters, ghosts, StartApplying, SyncInv, TypeOK, Inside
<1>2. HolderAlone'
  BY DEF Copied, Goto, counters, ghosts, StartApplying, SyncInv, TypeOK, HolderAlone, Drained, Inside
<1>3. StageInv'
  BY DEF Copied, Goto, StartApplying, SyncInv, TypeOK, HolderAlone, StageInv, Inside
<1>4. SnapshotInv'
  BY DEF Copied, Goto, StartApplying, SyncInv, TypeOK, HolderAlone, StageInv, SnapshotInv
<1> QED BY <1>1, <1>2, <1>3, <1>4 DEF SyncInv

LEMMA CopyFailsStep ==
    ASSUME SyncInv, NEW n \in Attempts, CopyFails(n) PROVE SyncInv'
<1>1. TypeOK'
  <2>1. faults' \in 0..MaxFaults
    BY FaultCounted DEF CopyFails, SyncInv
  <2> QED BY InitialContents, <2>1, StorageSyncAssumption DEF CopyFails, NoSnapshot, Release, Goto, SyncInv, TypeOK, Ended, ghosts
<1>2. HolderAlone'
  BY DEF CopyFails, Attempts, Goto, Release, NoSnapshot, SyncInv, TypeOK, HolderAlone, Inside
<1>3. StageInv'
  BY DEF CopyFails, Attempts, Goto, Release, NoSnapshot, SyncInv, TypeOK, HolderAlone, StageInv, Working, Inside
<1>4. SnapshotInv'
  BY DEF CopyFails, Goto, Release, ghosts, NoSnapshot, SyncInv, TypeOK, HolderAlone, StageInv, SnapshotInv, Working
<1> QED BY <1>1, <1>2, <1>3, <1>4 DEF SyncInv

LEMMA OpensLateStep ==
    ASSUME SyncInv, NEW n \in Attempts, NEW a \in Ready, OpensLate(n, a) PROVE SyncInv'
<1>1. TypeOK'
  <2>1. copies' \in [Attempts -> [Ready -> Contents \union {"none", "next"}]]
    BY DEF OpensLate, SyncInv, TypeOK, Assets
  <2> QED BY <2>1 DEF OpensLate, counters, ghosts, SyncInv, TypeOK
<1>2. HolderAlone'
  BY DEF OpensLate, SyncInv, HolderAlone, Drained
<1>3. StageInv' /\ SnapshotInv'
  BY DEF OpensLate, ghosts, SyncInv, StageInv, SnapshotInv
<1> QED BY <1>1, <1>2, <1>3 DEF SyncInv

LEMMA CopiesLateStep ==
    ASSUME SyncInv, NEW n \in Attempts, NEW a \in Ready, CopiesLate(n, a) PROVE SyncInv'
<1>1. /\ copies' \in [Attempts -> [Ready -> Contents \union {"none", "next"}]]
      /\ spoiled' \subseteq Ready /\ spoiled \subseteq spoiled'
      /\ copies[n][a] \in Contents /\ a \in Assets
  <2>1. copies' \in [Attempts -> [Ready -> Contents \union {"none", "next"}]]
    BY DEF CopiesLate, SyncInv, TypeOK
  <2>2. spoiled' \subseteq Ready /\ spoiled \subseteq spoiled'
    BY Types DEF CopiesLate, SyncInv
  <2> QED BY <2>1, <2>2 DEF CopiesLate, Assets
<1>2. /\ snapshot'.state = snapshot.state
      /\ \A b \in Ready \ spoiled' : snapshot'.saved[b] = snapshot.saved[b]
      /\ snapshot' \in [state : {"none", "preparing", "prepared", "current"},
                         saved : [Assets -> Contents]]
  <2>1. snapshot \in [state : {"none", "preparing", "prepared", "current"},
                     saved : [Assets -> Contents]]
    BY DEF SyncInv, TypeOK
  <2>2. CASE snapshot' = snapshot
    BY <2>1, <2>2
  <2>3. CASE snapshot' # snapshot
    <3>1. snapshot' = [snapshot EXCEPT !.saved[a] = copies[n][a]] /\ a \in spoiled'
      BY <2>3 DEF CopiesLate
    <3> QED BY <1>1, <2>1, <3>1
  <2> QED BY <2>2, <2>3
<1>3. TypeOK'
  BY <1>1, <1>2 DEF CopiesLate, counters, SyncInv, TypeOK
<1>4. HolderAlone'
  BY DEF CopiesLate, SyncInv, HolderAlone, Drained
<1>5. StageInv' /\ SnapshotInv'
  BY <1>1, <1>2 DEF CopiesLate, SyncInv, StageInv, SnapshotInv
<1> QED BY <1>3, <1>4, <1>5 DEF SyncInv

LEMMA StopsLateStep ==
    ASSUME SyncInv, NEW n \in Attempts, StopsLate(n) PROVE SyncInv'
<1>1. TypeOK'
  BY DEF StopsLate, NoCopies, counters, ghosts, SyncInv, TypeOK
<1>2. HolderAlone'
  BY DEF StopsLate, SyncInv, HolderAlone, Drained
<1>3. StageInv' /\ SnapshotInv'
  BY DEF StopsLate, ghosts, SyncInv, StageInv, SnapshotInv
<1> QED BY <1>1, <1>2, <1>3 DEF SyncInv

LEMMA AllAppliedStep ==
    ASSUME SyncInv, NEW n \in Attempts, AllApplied(n) PROVE SyncInv'
<1>1. TypeOK'
  BY DEF AllApplied, Goto, counters, ghosts, SyncInv, TypeOK, Inside
<1>2. HolderAlone'
  BY DEF AllApplied, Goto, counters, ghosts, SyncInv, TypeOK, HolderAlone, Drained, Inside
<1>3. StageInv'
  BY DEF AllApplied, Goto, SyncInv, HolderAlone, StageInv, Working, Inside
<1>4. SnapshotInv'
  BY DEF AllApplied, Goto, SyncInv, StageInv, SnapshotInv, ghosts, Working
<1> QED BY <1>1, <1>2, <1>3, <1>4 DEF SyncInv

LEMMA UndoneStep ==
    ASSUME SyncInv, NEW n \in Attempts, Undone(n) PROVE SyncInv'
<1>1. TypeOK'
  BY StorageSyncAssumption DEF Undone, Goto, Release, counters, ghosts, SyncInv, TypeOK, Ended
<1>2. HolderAlone'
  BY StorageSyncAssumption DEF Undone, Attempts, Goto, Release, counters, ghosts, SyncInv, TypeOK, HolderAlone, Inside, Ended
<1>3. StageInv'
  BY DEF Undone, Attempts, Goto, Release, SyncInv, TypeOK, HolderAlone, StageInv, Working, Inside
<1>4. SnapshotInv'
  BY DEF Undone, Goto, Release, SyncInv, StageInv, SnapshotInv, ghosts, Working
<1> QED BY <1>1, <1>2, <1>3, <1>4 DEF SyncInv

LEMMA CommitFailsStep ==
    ASSUME SyncInv, NEW n \in Attempts, CommitFails(n) PROVE SyncInv'
<1>1. TypeOK'
  BY StorageSyncAssumption DEF CommitFails, Goto, Fault, ghosts, BeginUndo, SyncInv, TypeOK, Inside
<1>2. HolderAlone'
  BY StorageSyncAssumption DEF CommitFails, Goto, Fault, ghosts, BeginUndo, SyncInv, TypeOK, HolderAlone, Drained, Inside
<1>3. StageInv'
  BY DEF CommitFails, Goto, BeginUndo, SyncInv, HolderAlone, StageInv, Working, Inside
<1>4. SnapshotInv'
  BY DEF CommitFails, Goto, BeginUndo, SyncInv, StageInv, SnapshotInv, ghosts, Working
<1> QED BY <1>1, <1>2, <1>3, <1>4 DEF SyncInv

LEMMA CommitStep ==
    ASSUME SyncInv, NEW n \in Attempts, Commit(n) PROVE SyncInv'
<1>1. TypeOK'
  BY DEF Commit, Contents, Goto, counters, SyncInv, TypeOK, Inside
<1>2. HolderAlone'
  BY DEF Commit, Contents, Goto, counters, SyncInv, TypeOK, HolderAlone, Drained, Inside
<1>3. StageInv'
  BY DEF Commit, Goto, SyncInv, HolderAlone, StageInv, Inside
<1>4. SnapshotInv'
  BY DEF Commit, Goto, SyncInv, StageInv, SnapshotInv
<1> QED BY <1>1, <1>2, <1>3, <1>4 DEF SyncInv

LEMMA CommitUnansweredStep ==
    ASSUME SyncInv, NEW n \in Attempts, CommitUnanswered(n) PROVE SyncInv'
<1>1. TypeOK'
  BY StorageSyncAssumption DEF CommitUnanswered, Goto, Fault, BeginUndo, SyncInv, TypeOK, Inside
<1>2. HolderAlone'
  BY StorageSyncAssumption DEF CommitUnanswered, Goto, Fault, BeginUndo, SyncInv, TypeOK, HolderAlone, Drained, Inside
<1>3. StageInv'
  BY DEF CommitUnanswered, Goto, BeginUndo, SyncInv, HolderAlone, StageInv, Inside
<1>4. SnapshotInv'
  BY DEF CommitUnanswered, Goto, BeginUndo, SyncInv, StageInv, SnapshotInv
<1> QED BY <1>1, <1>2, <1>3, <1>4 DEF SyncInv

LEMMA PromoteStep ==
    ASSUME SyncInv, NEW n \in Attempts, Promote(n) PROVE SyncInv'
<1>1. TypeOK'
  <2>1. faults' \in 0..MaxFaults
    BY FaultCounted DEF Promote, SyncInv, TypeOK
  <2>2. snapshot' \in [state : {"none", "preparing", "prepared", "current"},
                      saved : [Assets -> Contents]]
    BY DEF Promote, SyncInv, TypeOK
  <2> QED BY <2>1, <2>2 DEF Promote, Goto, SyncInv, TypeOK, Inside, ghosts
<1>2. HolderAlone'
  BY DEF Promote, Goto, SyncInv, TypeOK, HolderAlone, Drained, Inside
<1>3. StageInv'
  BY DEF Promote, Goto, SyncInv, HolderAlone, StageInv, Inside
<1>4. SnapshotInv'
  BY DEF Promote, Goto, SyncInv, HolderAlone, StageInv, SnapshotInv
<1> QED BY <1>1, <1>2, <1>3, <1>4 DEF SyncInv

LEMMA FinishStep ==
    ASSUME SyncInv, NEW n \in Attempts, Finish(n) PROVE SyncInv'
<1>1. TypeOK'
  <2>1. faults' \in 0..MaxFaults
    BY FaultCounted DEF Finish, SyncInv, TypeOK
  <2>2. session' \in [live : BOOLEAN, status : {"sql-ready", "finalized"},
                     saved : BOOLEAN, staged : BOOLEAN]
    BY DEF Finish, SyncInv, TypeOK
  <2> QED BY <2>1, <2>2, StorageSyncAssumption DEF Finish, Release, Goto, SyncInv, TypeOK, Ended, ghosts
<1>2. HolderAlone'
  BY DEF Finish, Attempts, Goto, Release, SyncInv, TypeOK, HolderAlone, Inside
<1>3. StageInv'
  BY DEF Finish, Attempts, Goto, Release, SyncInv, TypeOK, HolderAlone, StageInv, Inside
<1>4. SnapshotInv'
  BY DEF Finish, Goto, Release, SyncInv, StageInv, SnapshotInv
<1> QED BY <1>1, <1>2, <1>3, <1>4 DEF SyncInv

LEMMA AppliedStep ==
    ASSUME SyncInv, NEW n \in Attempts, NEW a \in Ready, Applied(n, a) PROVE SyncInv'
<1>1. TypeOK'
  BY DEF Applied, Contents, counters, ghosts, Write, SyncInv, TypeOK
<1>2. HolderAlone'
  BY DEF Applied, Contents, counters, ghosts, Write, SyncInv, TypeOK, HolderAlone, Drained
<1>3. StageInv'
  BY DEF Applied, Write, SyncInv, HolderAlone, StageInv
<1>4. SnapshotInv'
  BY DEF Applied, Write, SyncInv, StageInv, SnapshotInv, ghosts
<1> QED BY <1>1, <1>2, <1>3, <1>4 DEF SyncInv

LEMMA ApplyFailsStep ==
    ASSUME SyncInv, NEW n \in Attempts, NEW a \in Ready, ApplyFails(n, a) PROVE SyncInv'
<1>1. TypeOK'
  <2>1. faults' \in 0..MaxFaults
    BY FaultCounted DEF ApplyFails, SyncInv, TypeOK
  <2>2. assets' \in [Assets -> Contents]
    BY Types DEF ApplyFails, AbortWrite, Write, SyncInv, Contents
  <2>3. /\ applying' \in [Attempts -> SUBSET Ready] /\ undoing' \in [Attempts -> SUBSET Ready]
        /\ fin' \in [Attempts -> {"idle"} \union Inside \union Ended]
    BY Types DEF ApplyFails, BeginUndo, Goto, SyncInv, Inside
  <2>4. excused' \subseteq Assets /\ gate' \in 0..MaxAttempts
    BY DEF ApplyFails, SyncInv, TypeOK, Assets
  <2> QED BY <2>1, <2>2, <2>3, <2>4 DEF ApplyFails, SyncInv, TypeOK
<1>2. HolderAlone'
  BY StorageSyncAssumption DEF ApplyFails, Assets, Goto, AbortWrite, Write, BeginUndo, SyncInv, TypeOK, HolderAlone, Drained, Inside
<1>3. StageInv'
  BY StorageSyncAssumption DEF ApplyFails, Goto, AbortWrite, Write, BeginUndo, SyncInv, TypeOK, HolderAlone, StageInv, Inside
<1>4. SnapshotInv'
  BY StorageSyncAssumption DEF ApplyFails, Goto, AbortWrite, Write, BeginUndo, SyncInv, TypeOK, StageInv, SnapshotInv
<1> QED BY <1>1, <1>2, <1>3, <1>4 DEF SyncInv

LEMMA RestoredStep ==
    ASSUME SyncInv, NEW n \in Attempts, NEW a \in Ready, Restored(n, a) PROVE SyncInv'
<1>1. TypeOK'
  <2>1. /\ assets' \in [Assets -> Contents]
        /\ undoing' \in [Attempts -> SUBSET Ready] /\ excused' \subseteq Assets
    BY DEF Restored, Write, SyncInv, TypeOK, Assets
  <2> QED BY <2>1 DEF Restored, counters, SyncInv, TypeOK
<1>2. HolderAlone'
  BY DEF Restored, counters, ghosts, Write, SyncInv, TypeOK, HolderAlone, Drained
<1>3. StageInv'
  BY DEF Restored, Write, SyncInv, HolderAlone, StageInv
<1>4. SnapshotInv'
  BY DEF Restored, Write, SyncInv, StageInv, SnapshotInv
<1> QED BY <1>1, <1>2, <1>3, <1>4 DEF SyncInv

LEMMA RestoreFailsStep ==
    ASSUME SyncInv, NEW n \in Attempts, NEW a \in Ready, RestoreFails(n, a) PROVE SyncInv'
<1>1. TypeOK'
  <2>1. faults' \in 0..MaxFaults
    BY FaultCounted DEF RestoreFails, SyncInv
  <2>2. assets' \in [Assets -> Contents]
    BY Types DEF RestoreFails, AbortWrite, Write, SyncInv, Contents
  <2>3. /\ applying' \in [Attempts -> SUBSET Ready] /\ undoing' \in [Attempts -> SUBSET Ready]
        /\ fin' \in [Attempts -> {"idle"} \union Inside \union Ended]
    BY Types DEF RestoreFails, BeginUndo, Release, Goto, SyncInv, Ended
  <2>4. excused' \subseteq Assets /\ gate' \in 0..MaxAttempts
    BY StorageSyncAssumption DEF RestoreFails, Release, SyncInv, TypeOK, Assets
  <2> QED BY <2>1, <2>2, <2>3, <2>4 DEF RestoreFails, SyncInv, TypeOK
<1>2. HolderAlone'
  BY StorageSyncAssumption DEF RestoreFails, Attempts, Assets, Goto, Fault, Release, AbortWrite, Write, SyncInv, TypeOK, HolderAlone, Drained, Inside
<1>3. StageInv'
  BY StorageSyncAssumption DEF RestoreFails, Attempts, Goto, Fault, Release, AbortWrite, Write, SyncInv, TypeOK, HolderAlone, StageInv, Inside
<1>4. SnapshotInv'
  BY StorageSyncAssumption DEF RestoreFails, Goto, Release, AbortWrite, Write, SyncInv, TypeOK, StageInv, SnapshotInv
<1> QED BY <1>1, <1>2, <1>3, <1>4 DEF SyncInv

LEMMA ExpireStep ==
    ASSUME SyncInv, Expire PROVE SyncInv'
<1>1. TypeOK'
  BY DEF Expire, counters, ghosts, Forget, SyncInv, TypeOK
<1>2. HolderAlone'
  BY DEF Expire, counters, ghosts, Forget, SyncInv, TypeOK, HolderAlone, Drained
<1>3. StageInv'
  BY DEF Expire, Forget, SyncInv, HolderAlone, StageInv
<1>4. SnapshotInv'
  BY DEF Expire, ghosts, Forget, SyncInv, StageInv, SnapshotInv
<1> QED BY <1>1, <1>2, <1>3, <1>4 DEF SyncInv

LEMMA RestartStep ==
    ASSUME SyncInv, Restart PROVE SyncInv'
<1>1. TypeOK'
  <2>1. assets' \in [Assets -> Contents]
    BY DEF Restart, SyncInv, TypeOK, Contents
  <2>2. /\ applying' \in [Attempts -> SUBSET Ready] /\ undoing' \in [Attempts -> SUBSET Ready]
        /\ fin' \in [Attempts -> {"idle"} \union Inside \union Ended]
        /\ requests' \in [Users -> {"none", "entered", "orphan"}]
    BY DEF Restart, SyncInv, TypeOK, Ended
  <2>3. excused' \subseteq Assets
    BY DEF Restart, SyncInv, TypeOK, Assets
  <2>4. session' \in [live : BOOLEAN, status : {"sql-ready", "finalized"},
                     saved : BOOLEAN, staged : BOOLEAN]
    BY DEF Restart, SyncInv, TypeOK
  <2>5. restarts' \in 0..MaxRestarts /\ gate' \in 0..MaxAttempts
    BY StorageSyncAssumption DEF Restart, SyncInv, TypeOK
  <2>6. copies' \in [Attempts -> [Ready -> Contents \union {"none", "next"}]]
    BY DEF Restart, NoCopies
  <2> QED BY <2>1, <2>2, <2>3, <2>4, <2>5, <2>6 DEF Restart, SyncInv, TypeOK
<1>2. HolderAlone'
  BY StorageSyncAssumption DEF Restart, Attempts, SyncInv, TypeOK, HolderAlone, Inside
<1>3. StageInv'
  BY DEF Restart, Attempts, SyncInv, HolderAlone, StageInv, Working, Inside
<1>4. SnapshotInv'
  <2>1. db' = db /\ snapshot' = snapshot /\ allowed' = allowed
    BY DEF Restart
  <2>2. ASSUME db.content = "old", snapshot.state # "prepared" PROVE assets' = assets
    <3>1. \A n \in Attempts : applying[n] = {} /\ undoing[n] = {}
      BY <2>2 DEF SyncInv, StageInv
    <3>2. UNION {applying[n] \union undoing[n] : n \in Attempts} = {}
      BY <3>1
    <3>3. assets' = [a \in Assets |-> assets[a]]
      BY <3>2 DEF Restart
    <3> QED BY <3>3 DEF SyncInv, TypeOK
  <2> QED BY <2>1, <2>2 DEF Restart, SyncInv, SnapshotInv
<1> QED BY <1>1, <1>2, <1>3, <1>4 DEF SyncInv

LEMMA StutterStep == SyncInv /\ UNCHANGED vars => SyncInv'
BY DEF SyncInv, TypeOK, HolderAlone, StageInv, SnapshotInv, vars, counters, ghosts, Drained

LEMMA StepSync == SyncInv /\ [Next]_vars => SyncInv'
<1> SUFFICES ASSUME SyncInv, [Next]_vars PROVE SyncInv'
  OBVIOUS
<1>1. CASE UNCHANGED vars
  BY <1>1, StutterStep
<1>2. ASSUME NEW u \in Users, Enter(u) \/ Disconnect(u) \/ Answer(u) \/ Land(u) PROVE SyncInv'
  BY <1>2, EnterStep, DisconnectStep, AnswerStep, LandStep
<1>3. ASSUME NEW n \in Attempts, Arrive(n) PROVE SyncInv'
  BY <1>3, ArriveStep
<1>4. ASSUME NEW n \in Attempts, Attempt(n) PROVE SyncInv'
  <2>1. ASSUME NEW a \in Ready,
               Applied(n, a) \/ ApplyFails(n, a) \/ Restored(n, a) \/ RestoreFails(n, a)
        PROVE  SyncInv'
    BY <2>1, AppliedStep, ApplyFailsStep, RestoredStep, RestoreFailsStep
  <2>2. CASE Preflight(n) \/ Prepare(n) \/ Copied(n) \/ CopyFails(n) \/ AllApplied(n) \/ Undone(n)
    BY <2>2, PreflightStep, PrepareStep, CopiedStep, CopyFailsStep, AllAppliedStep, UndoneStep
  <2>3. CASE CommitFails(n) \/ Commit(n) \/ CommitUnanswered(n) \/ Promote(n) \/ Finish(n)
    BY <2>3, CommitFailsStep, CommitStep, CommitUnansweredStep, PromoteStep, FinishStep
  <2>4. CASE StopsLate(n) \/ \E a \in Ready : OpensLate(n, a) \/ CopiesLate(n, a)
    BY <2>4, OpensLateStep, CopiesLateStep, StopsLateStep
  <2> QED BY <1>4, <2>1, <2>2, <2>3, <2>4 DEF Attempt
<1> QED BY <1>1, <1>2, <1>3, <1>4, ExpireStep, RestartStep DEF Next

\* The inductive invariant holds in every reachable state of a replacement.
THEOREM SyncInvariant == Spec => []SyncInv
BY InitSync, StepSync, PTL DEF Spec

\* Every variable keeps its type, whatever fails and however often the server
\* restarts.
THEOREM Typing == Spec => []TypeOK
BY SyncInvariant, PTL DEF SyncInv

\* The gate is closed for exactly the attempt that is running, and no counted
\* mutation runs beside its work (StorageSyncFinalizeGate).
THEOREM GateExcludes == Spec => []HolderAlone
BY SyncInvariant, PTL DEF SyncInv

LEMMA SnapshotRestores == SyncInv => Recoverable
BY DEF SyncInv, SnapshotInv, Recoverable

\* While the database is the old one, whatever a replacement has done to an
\* asset can be restored from the snapshot on disk (StorageSyncRecoveryStore).
THEOREM AlwaysRecoverable == Spec => []Recoverable
BY SyncInvariant, SnapshotRestores, PTL

-----------------------------------------------------------------------------
(* Old or new.                                                               *)

\* Attempts that have passed the preflight and not committed.
Replacing == {"preparing", "copying", "applying", "committing"}

\* A replaced database has another revision than the one the plan was made for,
\* and a replacement works on the old one unless its COMMIT was not answered.
OldInv ==
    /\ db.content = "new" => db.revision # 0
    /\ \A n \in Attempts :
         /\ fin[n] \in Replacing => db.content = "old"
         /\ fin[n] = "undoing" => db.content = "old" \/ (unsure /\ excused = Assets)

\* A server that has not been restarted and has no COMMIT without an answer knows
\* of a replacement that was made.
KnownInv ==
    restarts = 0 /\ ~unsure /\ db.content = "new" =>
        /\ \A n \in Attempts : fin[n] # "waiting"
        /\ gate = 0 => session.status = "finalized"

\* Nothing is promised of an asset whose worker has outlived its attempt.
StrayInv ==
    \A n \in Attempts :
        /\ fin[n] # "applying" => applying[n] \subseteq excused
        /\ fin[n] # "undoing" => undoing[n] \subseteq excused

\* What a replacement has written so far, and what it need not write, is new.
NewInv ==
    \A n \in Attempts :
        /\ fin[n] \in Replacing => \A a \in Skipped \ excused : assets[a] = "new"
        /\ fin[n] \in {"applying", "committing"} =>
              \A a \in Ready \ (applying[n] \union excused) : assets[a] = "new"
        /\ fin[n] = "committing" => applying[n] = {}

\* An undo restores what is allowed, where the snapshot is as it was taken.
SavedInv ==
    db.content = "old" /\ snapshot.state = "prepared" =>
        \A a \in Ready \ (excused \union spoiled) : snapshot.saved[a] \in allowed[a]

\* The attempt n has still to commit asset a, or to restore it.
Repairs(n, a) ==
    \/ fin[n] \in {"applying", "committing"} /\ a \in Ready
    \/ fin[n] = "undoing" /\ a \in undoing[n]

\* An asset that is not as it should be is in the care of an attempt.
RepairInv ==
    \A a \in Assets \ excused :
        assets[a] \notin allowed[a] => \E n \in Attempts : Repairs(n, a)

WholeInv == OldInv /\ KnownInv /\ StrayInv /\ NewInv /\ SavedInv /\ RepairInv

(* A lemma whose name ends in Whole says that one action preserves WholeInv. *)

LEMMA EnterWhole ==
    ASSUME SyncInv, WholeInv, NEW u \in Users, Enter(u) PROVE WholeInv'
<1>1. OldInv'
  BY DEF Enter, WholeInv, ghosts, OldInv
<1>2. KnownInv'
  BY DEF Enter, WholeInv, ghosts, KnownInv
<1>3. StrayInv'
  BY DEF Enter, WholeInv, ghosts, StrayInv
<1>4. NewInv'
  BY DEF Enter, WholeInv, ghosts, NewInv
<1>5. SavedInv'
  BY DEF Enter, WholeInv, ghosts, SavedInv
<1>6. RepairInv'
  BY DEF Enter, Repairs, WholeInv, ghosts, RepairInv
<1> QED BY <1>1, <1>2, <1>3, <1>4, <1>5, <1>6 DEF WholeInv

LEMMA DisconnectWhole ==
    ASSUME SyncInv, WholeInv, NEW u \in Users, Disconnect(u) PROVE WholeInv'
<1>1. OldInv'
  BY DEF Disconnect, WholeInv, ghosts, OldInv
<1>2. KnownInv'
  BY DEF Disconnect, WholeInv, counters, ghosts, KnownInv
<1>3. StrayInv'
  BY DEF Disconnect, WholeInv, ghosts, StrayInv
<1>4. NewInv'
  BY DEF Disconnect, WholeInv, ghosts, NewInv
<1>5. SavedInv'
  BY DEF Disconnect, WholeInv, ghosts, SavedInv
<1>6. RepairInv'
  BY DEF Disconnect, Repairs, WholeInv, ghosts, RepairInv
<1> QED BY <1>1, <1>2, <1>3, <1>4, <1>5, <1>6 DEF WholeInv

LEMMA AnswerWhole ==
    ASSUME SyncInv, WholeInv, NEW u \in Users, Answer(u) PROVE WholeInv'
<1>1. OldInv'
  <2>1. /\ db'.content = db.content
        /\ db'.revision = db.revision \/ db'.revision = db.revision + 1
    BY DEF Answer, Mutate, SyncInv, TypeOK
  <2>2. fin' = fin /\ unsure' = unsure /\ (excused = Assets => excused' = Assets)
    <3>1. fin' = fin /\ unsure' = unsure
      BY DEF Answer, Mutate, ghosts
    <3>2. excused' = excused \/ \E a \in Assets : excused' = excused \union {a}
      BY DEF Answer, Mutate, ghosts
    <3> QED BY <3>1, <3>2
  <2>3. db.revision \in Nat
    BY DEF SyncInv, TypeOK
  <2> QED BY <2>1, <2>2, <2>3 DEF WholeInv, OldInv
<1>2. KnownInv'
  BY StorageSyncAssumption DEF Answer, Mutate, Forget, Inside, OldInv, SyncInv, WholeInv,
     TypeOK, HolderAlone, counters, ghosts, Attempts, KnownInv
<1>3. StrayInv'
  BY DEF Answer, Mutate, WholeInv, ghosts, StrayInv
<1>4. NewInv'
  BY DEF Answer, Mutate, Replacing, Inside, Drained, SyncInv, HolderAlone, Attempts, NewInv
<1>5. SavedInv'
  BY DEF Answer, Mutate, Assets, StaleSnapshot, SyncInv, WholeInv, TypeOK, ghosts, SavedInv
<1>6. RepairInv'
  BY Types DEF Answer, Mutate, Repairs, StrayInv, Assets, StageInv, OldInv, NewInv, SyncInv,
     WholeInv, HolderAlone, ghosts, RepairInv
<1> QED BY <1>1, <1>2, <1>3, <1>4, <1>5, <1>6 DEF WholeInv

LEMMA LandWhole ==
    ASSUME SyncInv, WholeInv, NEW u \in Users, Land(u) PROVE WholeInv'
<1>1. OldInv'
  <2>1. /\ db'.content = db.content
        /\ db'.revision = db.revision \/ db'.revision = db.revision + 1
    BY DEF Land, Mutate, SyncInv, TypeOK
  <2>2. fin' = fin /\ unsure' = unsure /\ (excused = Assets => excused' = Assets)
    <3>1. fin' = fin /\ unsure' = unsure
      BY DEF Land, Mutate, ghosts
    <3>2. excused' = excused \/ \E a \in Assets : excused' = excused \union {a}
      BY DEF Land, Mutate, ghosts
    <3> QED BY <3>1, <3>2
  <2>3. db.revision \in Nat
    BY DEF SyncInv, TypeOK
  <2> QED BY <2>1, <2>2, <2>3 DEF WholeInv, OldInv
<1>2. KnownInv'
  BY StorageSyncAssumption DEF Land, Mutate, Forget, Inside, OldInv, SyncInv, WholeInv,
     TypeOK, HolderAlone, counters, ghosts, Attempts, KnownInv
<1>3. StrayInv'
  BY DEF Land, Mutate, WholeInv, ghosts, StrayInv
<1>4. NewInv'
  BY DEF Land, Mutate, Replacing, Inside, Assets, SyncInv, WholeInv, TypeOK, HolderAlone,
     ghosts, Attempts, NewInv
<1>5. SavedInv'
  BY DEF Land, Mutate, Assets, SyncInv, WholeInv, TypeOK, ghosts, SavedInv
<1>6. RepairInv'
  BY DEF Land, Mutate, Repairs, StageInv, SyncInv, WholeInv, TypeOK, counters, ghosts,
     RepairInv
<1> QED BY <1>1, <1>2, <1>3, <1>4, <1>5, <1>6 DEF WholeInv

LEMMA ExpireWhole ==
    ASSUME SyncInv, WholeInv, Expire PROVE WholeInv'
<1>1. OldInv'
  BY DEF Expire, WholeInv, ghosts, OldInv
<1>2. KnownInv'
  BY DEF Expire, Forget, WholeInv, counters, ghosts, KnownInv
<1>3. StrayInv'
  BY DEF Expire, WholeInv, ghosts, StrayInv
<1>4. NewInv'
  BY DEF Expire, WholeInv, ghosts, NewInv
<1>5. SavedInv'
  BY DEF Expire, WholeInv, ghosts, SavedInv
<1>6. RepairInv'
  BY DEF Expire, Repairs, WholeInv, ghosts, RepairInv
<1> QED BY <1>1, <1>2, <1>3, <1>4, <1>5, <1>6 DEF WholeInv

LEMMA ArriveWhole ==
    ASSUME SyncInv, WholeInv, NEW n \in Attempts, Arrive(n) PROVE WholeInv'
<1>1. OldInv'
  BY DEF Arrive, Goto, Replacing, SyncInv, WholeInv, TypeOK, ghosts, OldInv
<1>2. KnownInv'
  BY DEF Arrive, Acquired, Goto, SyncInv, WholeInv, TypeOK, counters, ghosts, KnownInv
<1>3. StrayInv'
  BY DEF Arrive, Goto, SyncInv, WholeInv, TypeOK, ghosts, StrayInv
<1>4. NewInv'
  BY DEF Arrive, Goto, Replacing, StrayInv, SyncInv, WholeInv, TypeOK, counters, ghosts,
     NewInv
<1>5. SavedInv'
  BY DEF Arrive, WholeInv, ghosts, SavedInv
<1>6. RepairInv'
  BY DEF Arrive, Acquired, Goto, Repairs, Inside, SyncInv, WholeInv, TypeOK, HolderAlone,
     ghosts, RepairInv
<1> QED BY <1>1, <1>2, <1>3, <1>4, <1>5, <1>6 DEF WholeInv

LEMMA PreflightWhole ==
    ASSUME SyncInv, WholeInv, NEW n \in Attempts, Preflight(n) PROVE WholeInv'
<1>1. OldInv'
  BY DEF Preflight, Release, Goto, Replacing, PreflightPasses, Summary, SyncInv, WholeInv,
     TypeOK, ghosts, OldInv
<1>2. KnownInv'
  BY DEF Preflight, WholeInv, counters, ghosts, KnownInv
<1>3. StrayInv'
  BY DEF Preflight, Inside, SyncInv, WholeInv, HolderAlone, ghosts, StrayInv
<1>4. NewInv'
  BY DEF Preflight, Release, Goto, Replacing, PreflightPasses, SyncInv, WholeInv, TypeOK,
     counters, ghosts, NewInv
<1>5. SavedInv'
  BY DEF Preflight, WholeInv, ghosts, SavedInv
<1>6. RepairInv'
  BY DEF Preflight, Repairs, Inside, SavedInv, OldInv, SyncInv, WholeInv, HolderAlone,
     ghosts, RepairInv
<1> QED BY <1>1, <1>2, <1>3, <1>4, <1>5, <1>6 DEF WholeInv

LEMMA PrepareWhole ==
    ASSUME SyncInv, WholeInv, NEW n \in Attempts, Prepare(n) PROVE WholeInv'
<1>1. OldInv'
  BY DEF Prepare, Replacing, WholeInv, OldInv
<1>2. KnownInv'
  BY StorageSyncAssumption DEF Prepare, StartApplying, Reusable, Goto, Inside, SyncInv,
     TypeOK, HolderAlone, Attempts, KnownInv
<1>3. StrayInv'
  <2>1. CASE Reusable
    BY <2>1, Types DEF Prepare, StartApplying, Goto, ghosts, SyncInv, WholeInv, StrayInv
  <2>2. CASE ~Reusable
    BY <2>2 DEF Prepare, Goto, ghosts, SyncInv, TypeOK, WholeInv, StrayInv
  <2> QED BY <2>1, <2>2
<1>4. NewInv'
  BY DEF Prepare, StartApplying, Goto, Replacing, Inside, SyncInv, WholeInv, TypeOK,
     HolderAlone, ghosts, NewInv
<1>5. SavedInv'
  BY DEF Prepare, WholeInv, ghosts, SavedInv
<1>6. RepairInv'
  BY DEF Prepare, Repairs, Inside, SyncInv, WholeInv, HolderAlone, ghosts, RepairInv
<1> QED BY <1>1, <1>2, <1>3, <1>4, <1>5, <1>6 DEF WholeInv

LEMMA CopiedWhole ==
    ASSUME SyncInv, WholeInv, NEW n \in Attempts, Copied(n) PROVE WholeInv'
<1>1. OldInv'
  BY DEF Copied, Replacing, WholeInv, OldInv
<1>2. KnownInv'
  BY DEF Copied, StartApplying, Goto, WholeInv, counters, ghosts, KnownInv
<1>3. StrayInv'
  BY DEF Copied, StartApplying, Goto, SyncInv, WholeInv, TypeOK, ghosts, StrayInv
<1>4. NewInv'
  BY DEF Copied, StartApplying, Goto, Replacing, SyncInv, WholeInv, TypeOK, ghosts, NewInv
<1>5. SavedInv'
  BY DEF Copied, StageInv, SnapshotInv, RepairInv, SyncInv, ghosts, SavedInv
<1>6. RepairInv'
  BY DEF Copied, StartApplying, Goto, Repairs, WholeInv, ghosts, RepairInv
<1> QED BY <1>1, <1>2, <1>3, <1>4, <1>5, <1>6 DEF WholeInv

LEMMA CopyFailsWhole ==
    ASSUME SyncInv, WholeInv, NEW n \in Attempts, CopyFails(n) PROVE WholeInv'
<1>1. OldInv'
  BY DEF CopyFails, Replacing, WholeInv, OldInv
<1>2. KnownInv'
  BY DEF CopyFails, WholeInv, OldInv, Replacing, KnownInv
<1>3. StrayInv'
  BY DEF CopyFails, Inside, SyncInv, WholeInv, HolderAlone, ghosts, StrayInv
<1>4. NewInv'
  BY DEF CopyFails, Release, Goto, Replacing, WholeInv, ghosts, NewInv
<1>5. SavedInv'
  BY DEF CopyFails, NoSnapshot, SavedInv
<1>6. RepairInv'
  BY DEF CopyFails, Repairs, Inside, SyncInv, WholeInv, HolderAlone, ghosts, RepairInv
<1> QED BY <1>1, <1>2, <1>3, <1>4, <1>5, <1>6 DEF WholeInv

LEMMA LateCopyWhole ==
    ASSUME SyncInv, WholeInv, NEW n \in Attempts,
           StopsLate(n) \/ \E a \in Ready : OpensLate(n, a) \/ CopiesLate(n, a)
    PROVE  WholeInv'
<1>1. /\ UNCHANGED <<gate, requests, db, assets, session, fin, applying, undoing, counters,
                     allowed, excused, unsure>>
      /\ spoiled \subseteq spoiled' /\ snapshot'.state = snapshot.state
      /\ \A b \in Ready \ spoiled' : snapshot'.saved[b] = snapshot.saved[b]
  <2>1. CASE StopsLate(n) \/ \E a \in Ready : OpensLate(n, a)
    BY <2>1 DEF StopsLate, OpensLate, ghosts
  <2>2. CASE \E a \in Ready : CopiesLate(n, a)
    BY <2>2 DEF CopiesLate, SyncInv, TypeOK, Assets
  <2> QED BY <2>1, <2>2
<1>2. OldInv' /\ KnownInv' /\ StrayInv' /\ NewInv'
  BY <1>1 DEF WholeInv, OldInv, KnownInv, StrayInv, NewInv, counters
<1>3. SavedInv'
  BY <1>1 DEF WholeInv, SavedInv
<1>4. RepairInv'
  BY <1>1 DEF WholeInv, RepairInv, Repairs
<1> QED BY <1>2, <1>3, <1>4 DEF WholeInv

LEMMA AllAppliedWhole ==
    ASSUME SyncInv, WholeInv, NEW n \in Attempts, AllApplied(n) PROVE WholeInv'
<1>1. OldInv'
  BY DEF AllApplied, Replacing, WholeInv, OldInv
<1>2. KnownInv'
  BY DEF AllApplied, Goto, WholeInv, counters, ghosts, KnownInv
<1>3. StrayInv'
  BY DEF AllApplied, Inside, SyncInv, WholeInv, HolderAlone, ghosts, StrayInv
<1>4. NewInv'
  BY DEF AllApplied, Goto, Replacing, WholeInv, ghosts, NewInv
<1>5. SavedInv'
  BY DEF AllApplied, WholeInv, ghosts, SavedInv
<1>6. RepairInv'
  BY DEF AllApplied, Goto, Repairs, WholeInv, ghosts, RepairInv
<1> QED BY <1>1, <1>2, <1>3, <1>4, <1>5, <1>6 DEF WholeInv

LEMMA UndoneWhole ==
    ASSUME SyncInv, WholeInv, NEW n \in Attempts, Undone(n) PROVE WholeInv'
<1>1. OldInv'
  BY DEF Undone, Release, Goto, Replacing, WholeInv, ghosts, OldInv
<1>2. KnownInv'
  BY DEF Undone, OldInv, WholeInv, ghosts, KnownInv
<1>3. StrayInv'
  BY DEF Undone, Inside, SyncInv, WholeInv, HolderAlone, ghosts, StrayInv
<1>4. NewInv'
  BY DEF Undone, Release, Goto, Replacing, WholeInv, ghosts, NewInv
<1>5. SavedInv'
  BY DEF Undone, WholeInv, ghosts, SavedInv
<1>6. RepairInv'
  BY DEF Undone, Release, Goto, Repairs, WholeInv, ghosts, RepairInv
<1> QED BY <1>1, <1>2, <1>3, <1>4, <1>5, <1>6 DEF WholeInv

LEMMA CommitFailsWhole ==
    ASSUME SyncInv, WholeInv, NEW n \in Attempts, CommitFails(n) PROVE WholeInv'
<1>1. OldInv'
  BY DEF CommitFails, Replacing, WholeInv, OldInv
<1>2. KnownInv'
  BY DEF CommitFails, BeginUndo, Goto, WholeInv, ghosts, KnownInv
<1>3. StrayInv'
  BY DEF CommitFails, BeginUndo, Goto, SyncInv, WholeInv, TypeOK, ghosts, StrayInv
<1>4. NewInv'
  BY DEF CommitFails, BeginUndo, Goto, Replacing, WholeInv, ghosts, NewInv
<1>5. SavedInv'
  BY DEF CommitFails, WholeInv, ghosts, SavedInv
<1>6. RepairInv'
  BY DEF CommitFails, BeginUndo, Goto, Repairs, SavedInv, SyncInv, WholeInv, TypeOK,
     ghosts, RepairInv
<1> QED BY <1>1, <1>2, <1>3, <1>4, <1>5, <1>6 DEF WholeInv

LEMMA CommitWhole ==
    ASSUME SyncInv, WholeInv, NEW n \in Attempts, Commit(n) PROVE WholeInv'
<1>1. OldInv'
  BY DEF Commit, Goto, Replacing, Inside, SyncInv, TypeOK, HolderAlone, OldInv
<1>2. KnownInv'
  BY DEF Commit, Goto, Inside, SyncInv, HolderAlone, Attempts, KnownInv
<1>3. StrayInv'
  BY DEF Commit, Inside, SyncInv, WholeInv, HolderAlone, StrayInv
<1>4. NewInv'
  BY DEF Commit, Goto, Replacing, WholeInv, NewInv
<1>5. SavedInv'
  BY DEF Commit, SavedInv
<1>6. RepairInv'
  <2>1. ASSUME NEW a \in Assets \ excused' PROVE assets[a] = "new"
    BY <2>1 DEF Commit, WholeInv, NewInv, Replacing, Assets
  <2> QED BY <2>1 DEF Commit, RepairInv
<1> QED BY <1>1, <1>2, <1>3, <1>4, <1>5, <1>6 DEF WholeInv

LEMMA CommitUnansweredWhole ==
    ASSUME SyncInv, WholeInv, NEW n \in Attempts, CommitUnanswered(n) PROVE WholeInv'
<1>1. OldInv'
  BY DEF CommitUnanswered, BeginUndo, Goto, Replacing, Inside, SyncInv, TypeOK,
     HolderAlone, OldInv
<1>2. KnownInv'
  BY DEF CommitUnanswered, KnownInv
<1>3. StrayInv'
  BY DEF CommitUnanswered, BeginUndo, Goto, SyncInv, WholeInv, TypeOK, StrayInv
<1>4. NewInv'
  BY DEF CommitUnanswered, BeginUndo, Goto, Replacing, SyncInv, WholeInv, TypeOK, NewInv
<1>5. SavedInv'
  BY DEF CommitUnanswered, SavedInv
<1>6. RepairInv'
  BY DEF CommitUnanswered, RepairInv
<1> QED BY <1>1, <1>2, <1>3, <1>4, <1>5, <1>6 DEF WholeInv

LEMMA PromoteWhole ==
    ASSUME SyncInv, WholeInv, NEW n \in Attempts, Promote(n) PROVE WholeInv'
<1>1. OldInv'
  BY DEF Promote, Goto, Replacing, WholeInv, ghosts, OldInv
<1>2. KnownInv'
  BY DEF Promote, Goto, WholeInv, ghosts, KnownInv
<1>3. StrayInv'
  BY DEF Promote, Goto, WholeInv, ghosts, StrayInv
<1>4. NewInv'
  BY DEF Promote, Goto, Replacing, WholeInv, ghosts, NewInv
<1>5. SavedInv'
  BY DEF Promote, SyncInv, WholeInv, TypeOK, ghosts, SavedInv
<1>6. RepairInv'
  BY DEF Promote, Goto, Repairs, NewInv, WholeInv, ghosts, RepairInv
<1> QED BY <1>1, <1>2, <1>3, <1>4, <1>5, <1>6 DEF WholeInv

LEMMA FinishWhole ==
    ASSUME SyncInv, WholeInv, NEW n \in Attempts, Finish(n) PROVE WholeInv'
<1>1. OldInv'
  BY DEF Finish, Release, Goto, Replacing, WholeInv, ghosts, OldInv
<1>2. KnownInv'
  BY StorageSyncAssumption DEF Finish, Release, Goto, Inside, OldInv, SyncInv, WholeInv,
     TypeOK, HolderAlone, counters, ghosts, Attempts, KnownInv
<1>3. StrayInv'
  BY DEF Finish, Inside, SyncInv, WholeInv, HolderAlone, ghosts, StrayInv
<1>4. NewInv'
  BY DEF Finish, Release, Goto, Replacing, WholeInv, ghosts, NewInv
<1>5. SavedInv'
  BY DEF Finish, WholeInv, ghosts, SavedInv
<1>6. RepairInv'
  BY DEF Finish, Release, Goto, Repairs, WholeInv, ghosts, RepairInv
<1> QED BY <1>1, <1>2, <1>3, <1>4, <1>5, <1>6 DEF WholeInv

LEMMA AppliedWhole ==
    ASSUME SyncInv, WholeInv, NEW n \in Attempts, NEW a \in Ready, Applied(n, a) PROVE WholeInv'
<1>1. OldInv'
  BY DEF Applied, WholeInv, ghosts, OldInv
<1>2. KnownInv'
  BY DEF Applied, WholeInv, counters, ghosts, KnownInv
<1>3. StrayInv'
  BY DEF Applied, WholeInv, ghosts, StrayInv
<1>4. NewInv'
  BY DEF Applied, Write, Assets, SyncInv, WholeInv, TypeOK, ghosts, NewInv
<1>5. SavedInv'
  BY DEF Applied, WholeInv, ghosts, SavedInv
<1>6. RepairInv'
  BY DEF Applied, Write, Repairs, StrayInv, NewInv, WholeInv, ghosts, RepairInv
<1> QED BY <1>1, <1>2, <1>3, <1>4, <1>5, <1>6 DEF WholeInv

LEMMA ApplyFailsWhole ==
    ASSUME SyncInv, WholeInv, NEW n \in Attempts, NEW a \in Ready, ApplyFails(n, a) PROVE WholeInv'
<1>1. OldInv'
  BY DEF ApplyFails, Replacing, WholeInv, OldInv
<1>2. KnownInv'
  BY DEF ApplyFails, BeginUndo, Goto, SyncInv, WholeInv, TypeOK, KnownInv
<1>3. StrayInv'
  <2>1. CASE fin[n] = "applying"
    BY <2>1 DEF ApplyFails, BeginUndo, Goto, SyncInv, TypeOK, WholeInv, StrayInv
  <2>2. CASE fin[n] # "applying"
    BY <2>2, Types DEF ApplyFails, SyncInv, WholeInv, StrayInv
  <2> QED BY <2>1, <2>2
<1>4. NewInv'
  <2>1. CASE fin[n] = "applying"
    BY <2>1 DEF ApplyFails, BeginUndo, Goto, SyncInv, TypeOK, NewInv, Replacing,
       HolderAlone, Inside
  <2>2. CASE fin[n] # "applying"
    <3>1. /\ a \in excused /\ fin[n] # "committing"
          /\ fin' = fin /\ excused' = excused /\ applying' = [applying EXCEPT ![n] = {}]
      BY <2>2 DEF ApplyFails, WholeInv, StrayInv, NewInv
    <3>2. \A b \in Assets \ excused : assets'[b] = assets[b]
      BY <3>1 DEF ApplyFails, AbortWrite, Write, SyncInv, TypeOK
    <3> QED BY <2>2, <3>1, <3>2 DEF WholeInv, NewInv, Assets
  <2> QED BY <2>1, <2>2
<1>5. SavedInv'
  BY DEF ApplyFails, WholeInv, SavedInv
<1>6. RepairInv'
  <2>1. CASE fin[n] = "applying"
    BY <2>1 DEF ApplyFails, AbortWrite, Write, BeginUndo, Goto, SyncInv, TypeOK, WholeInv,
       RepairInv, Repairs
  <2>2. CASE fin[n] # "applying"
    BY <2>2, Types DEF ApplyFails, AbortWrite, Write, SyncInv, WholeInv, RepairInv,
       StrayInv, Repairs
  <2> QED BY <2>1, <2>2
<1> QED BY <1>1, <1>2, <1>3, <1>4, <1>5, <1>6 DEF WholeInv

LEMMA RestoredWhole ==
    ASSUME SyncInv, WholeInv, NEW n \in Attempts, NEW a \in Ready, Restored(n, a) PROVE WholeInv'
<1>1. OldInv'
  BY DEF Restored, WholeInv, ghosts, SyncInv, TypeOK, Assets, OldInv
<1>2. KnownInv'
  BY DEF Restored, WholeInv, counters, ghosts, KnownInv
<1>3. StrayInv'
  BY DEF Restored, WholeInv, ghosts, StrayInv
<1>4. NewInv'
  BY DEF Restored, Write, Replacing, Inside, StrayInv, SyncInv, WholeInv, HolderAlone,
     ghosts, NewInv
<1>5. SavedInv'
  BY DEF Restored, WholeInv, ghosts, SavedInv
<1>6. RepairInv'
  BY DEF Restored, Write, Repairs, StrayInv, Inside, StageInv, SavedInv, OldInv, SyncInv,
     WholeInv, TypeOK, ghosts, RepairInv
<1> QED BY <1>1, <1>2, <1>3, <1>4, <1>5, <1>6 DEF WholeInv

LEMMA RestoreFailsWhole ==
    ASSUME SyncInv, WholeInv, NEW n \in Attempts, NEW a \in Ready, RestoreFails(n, a) PROVE WholeInv'
<1>1. OldInv'
  <2>1. CASE fin[n] = "undoing"
    BY <2>1 DEF RestoreFails, Release, Goto, SyncInv, TypeOK, WholeInv, OldInv, Replacing,
       HolderAlone, Inside
  <2>2. CASE fin[n] # "undoing"
    BY <2>2 DEF RestoreFails, WholeInv, OldInv
  <2> QED BY <2>1, <2>2
<1>2. KnownInv'
  BY DEF RestoreFails, OldInv, WholeInv, KnownInv
<1>3. StrayInv'
  <2>1. CASE fin[n] = "undoing"
    BY <2>1 DEF RestoreFails, Release, Goto, SyncInv, TypeOK, WholeInv, StrayInv
  <2>2. CASE fin[n] # "undoing"
    BY <2>2 DEF RestoreFails, SyncInv, TypeOK, WholeInv, StrayInv
  <2> QED BY <2>1, <2>2
<1>4. NewInv'
  BY DEF RestoreFails, AbortWrite, Write, Release, Goto, Replacing, Inside, Assets,
     StrayInv, SyncInv, WholeInv, TypeOK, HolderAlone, NewInv
<1>5. SavedInv'
  BY DEF RestoreFails, WholeInv, SavedInv
<1>6. RepairInv'
  <2>1. CASE fin[n] = "undoing"
    BY <2>1 DEF RestoreFails, AbortWrite, Write, Release, Goto, SyncInv, TypeOK, WholeInv,
       RepairInv, Repairs
  <2>2. CASE fin[n] # "undoing"
    BY <2>2, Types DEF RestoreFails, AbortWrite, Write, SyncInv, WholeInv, RepairInv,
       StrayInv, Repairs
  <2> QED BY <2>1, <2>2
<1> QED BY <1>1, <1>2, <1>3, <1>4, <1>5, <1>6 DEF WholeInv

LEMMA RestartWhole ==
    ASSUME SyncInv, WholeInv, Restart PROVE WholeInv'
<1>1. OldInv'
  BY DEF Restart, Replacing, Inside, WholeInv, OldInv
<1>2. KnownInv'
  BY DEF Restart, SyncInv, TypeOK, KnownInv
<1>3. StrayInv'
  BY DEF Restart, StrayInv
<1>4. NewInv'
  BY DEF Restart, Replacing, Inside, NewInv
<1>5. SavedInv'
  BY DEF Restart, WholeInv, SavedInv
<1>6. RepairInv'
  BY DEF Restart, Repairs, StrayInv, SyncInv, WholeInv, TypeOK, RepairInv
<1> QED BY <1>1, <1>2, <1>3, <1>4, <1>5, <1>6 DEF WholeInv

LEMMA InitWhole == Init => WholeInv
<1> SUFFICES ASSUME Init PROVE WholeInv
  OBVIOUS
<1>1. OldInv /\ KnownInv
  BY DEF Init, OldInv, KnownInv
<1>2. StrayInv /\ NewInv /\ SavedInv
  BY DEF Init, StrayInv, NewInv, Replacing, SavedInv, NoSnapshot
<1>3. RepairInv
  BY DEF Init, RepairInv
<1> QED BY <1>1, <1>2, <1>3 DEF WholeInv

LEMMA StutterWhole == WholeInv /\ UNCHANGED vars => WholeInv'
BY DEF WholeInv, OldInv, KnownInv, StrayInv, NewInv, SavedInv, RepairInv, Repairs, vars,
   counters, ghosts

LEMMA StepWhole == SyncInv /\ WholeInv /\ [Next]_vars => WholeInv'
<1> SUFFICES ASSUME SyncInv, WholeInv, [Next]_vars PROVE WholeInv'
  OBVIOUS
<1>1. CASE UNCHANGED vars
  BY <1>1, StutterWhole
<1>2. ASSUME NEW u \in Users, Enter(u) \/ Disconnect(u) \/ Answer(u) \/ Land(u) PROVE WholeInv'
  BY <1>2, EnterWhole, DisconnectWhole, AnswerWhole, LandWhole
<1>3. ASSUME NEW n \in Attempts, Arrive(n) PROVE WholeInv'
  BY <1>3, ArriveWhole
<1>4. ASSUME NEW n \in Attempts, Attempt(n) PROVE WholeInv'
  <2>1. ASSUME NEW a \in Ready,
               Applied(n, a) \/ ApplyFails(n, a) \/ Restored(n, a) \/ RestoreFails(n, a)
        PROVE  WholeInv'
    BY <2>1, AppliedWhole, ApplyFailsWhole, RestoredWhole, RestoreFailsWhole
  <2>2. CASE Preflight(n) \/ Prepare(n) \/ Copied(n) \/ CopyFails(n) \/ AllApplied(n) \/ Undone(n)
    BY <2>2, PreflightWhole, PrepareWhole, CopiedWhole, CopyFailsWhole, AllAppliedWhole,
       UndoneWhole
  <2>3. CASE CommitFails(n) \/ Commit(n) \/ CommitUnanswered(n) \/ Promote(n) \/ Finish(n)
    BY <2>3, CommitFailsWhole, CommitWhole, CommitUnansweredWhole, PromoteWhole, FinishWhole
  <2> QED BY <1>4, <2>1, <2>2, <2>3, LateCopyWhole DEF Attempt
<1> QED BY <1>1, <1>2, <1>3, <1>4, ExpireWhole, RestartWhole DEF Next

LEMMA WholeInvariant == Spec => []WholeInv
BY InitWhole, StepWhole, SyncInvariant, PTL DEF Spec

LEMMA WholeWhenSettled == SyncInv /\ WholeInv => AllOrNothing
BY DEF SyncInv, HolderAlone, WholeInv, RepairInv, Repairs, Inside, Settled, AllOrNothing,
   Attempts

\* When no replacement is under way every asset is the source's if the database
\* is, and what the target and its users made it otherwise, except for those the
\* code promises nothing of (finalizeStorageSyncReplacement).
THEOREM ReplacedWholly == Spec => []AllOrNothing
BY SyncInvariant, WholeInvariant, WholeWhenSettled, PTL

\* An attempt that fails was waiting, copying or undoing.
LEMMA FailureFindsOld ==
    ASSUME SyncInv, WholeInv, [Next]_vars, NEW n \in Attempts,
           fin[n] \in Inside, fin'[n] = "failed", restarts = 0, ~unsure
    PROVE  db.content = "old"
<1> SUFFICES ASSUME fin[n] \notin {"waiting", "copying", "undoing"} PROVE FALSE
  BY DEF WholeInv, OldInv, KnownInv, Replacing, SyncInv, TypeOK
<1>1. ASSUME NEW m \in Attempts, Attempt(m) PROVE FALSE
  <2>1. fin \in [Attempts -> {"idle"} \union Inside \union Ended]
    BY Types DEF SyncInv
  <2>2. CASE Preflight(m) \/ Prepare(m) \/ Copied(m) \/ CopyFails(m) \/ AllApplied(m) \/ Undone(m)
    BY <2>1, <2>2 DEF Preflight, Prepare, StartApplying, Copied, CopyFails, AllApplied, Undone,
       Release, Goto, Inside
  <2>3. CASE CommitFails(m) \/ Commit(m) \/ CommitUnanswered(m) \/ Promote(m) \/ Finish(m)
    BY <2>1, <2>3 DEF CommitFails, Commit, CommitUnanswered, Promote, Finish, BeginUndo, Release,
       Goto, Inside
  <2>4. ASSUME NEW a \in Ready,
               Applied(m, a) \/ ApplyFails(m, a) \/ Restored(m, a) \/ RestoreFails(m, a)
        PROVE  FALSE
    BY <2>1, <2>4 DEF Applied, ApplyFails, Restored, RestoreFails, BeginUndo, Release, Goto, Inside
  <2>5. CASE StopsLate(m) \/ \E a \in Ready : OpensLate(m, a) \/ CopiesLate(m, a)
    BY <2>5 DEF StopsLate, OpensLate, CopiesLate, Inside
  <2> QED BY <1>1, <2>2, <2>3, <2>4, <2>5 DEF Attempt
<1>2. ASSUME NEW m \in Attempts, Arrive(m) PROVE FALSE
  BY <1>2 DEF Arrive, Goto, SyncInv, TypeOK, Inside
<1>3. fin' # fin
  BY DEF Inside
<1> QED BY <1>1, <1>2, <1>3 DEF Next, Enter, Disconnect, Answer, Land, Mutate, Expire,
           Restart, vars

\* An attempt that passed the gate and is answered with an error finds the old
\* database, while one process runs and no COMMIT is without its answer
\* (finalizedResult in server.ts).
THEOREM FailsOverOldOnly == Spec => FailedMeansOld
<1>1. SyncInv /\ WholeInv /\ [Next]_vars =>
        [\A n \in Attempts :
           fin[n] \in Inside /\ fin'[n] = "failed" /\ restarts = 0 /\ ~unsure
           => db.content = "old"]_vars
  BY FailureFindsOld
<1> QED BY <1>1, SyncInvariant, WholeInvariant, PTL DEF Spec, FailedMeansOld
=============================================================================
