--------------------------- MODULE CharacterStore ---------------------------
(***************************************************************************)
(* The character store of a page (characterStore.svelte.ts).  Characters,  *)
(* chat metadata and the lists that order them change in memory; the store *)
(* keeps only the ids of what changed (the dirty sets) and reads the       *)
(* values when a flush serialises them.  Flushes run one after the other.  *)
(* A flush serialises characters, touches and deleted characters at once,  *)
(* then the chats one by one, waiting for the author-note store wherever a *)
(* chat selects a global note, then deleted chats and the lists; it clears *)
(* the dirty sets and commits, and restores the marks if the commit fails. *)
(*                                                                         *)
(* A change of characters announced by another client flushes, checks that *)
(* nothing is pending, reads the database and replaces the characters.     *)
(* After a gap in the events, or when another client replaced the data,    *)
(* the page reads everything again: nothing is flushed or checked first,   *)
(* and the store starts anew with what was read, without a mark.           *)
(*                                                                         *)
(* The content of a row is the number of the edit that produced it.        *)
(***************************************************************************)
EXTENDS Naturals, Sequences, FiniteSets, SequencesExt

CONSTANTS
    Characters,   \* character rows
    Chats,        \* chat rows, apart from their messages
    Owner,        \* the character a chat belongs to
    Noted,        \* chats that select a global author note
    Order,        \* the row that orders the characters
    Manifest,     \* the row that orders the chats of a character
    MaxEdits,     \* bound: changes by any client
    MaxFailures,  \* bound: commits and note lookups that fail
    MaxWaiting    \* bound: flushes waiting in the queue

Lists == {Order} \cup {Manifest[c] : c \in Characters}
Rows == Characters \cup Chats \cup Lists

ASSUME ChatsAssumption == Noted \subseteq Chats /\ Owner \in [Chats -> Characters]
ASSUME RowsAssumption ==
    /\ Characters \cap Chats = {} /\ Lists \cap (Characters \cup Chats) = {}
    /\ DOMAIN Manifest = Characters

VARIABLES
    local,       \* content of each row in the store, Absent when it is not there
    chats,       \* the chats of each character in the store, in order
    stamp,       \* lastInteraction of each character
    db,          \* the content of the same rows in the database
    dbStamp,
    dirty,       \* dirtyCharacters, dirtyChats and the dirty lists
    touches,     \* dirtyCharacterTouches, Absent where there is none
    deletes,     \* dirtyCharacterDeletes and dirtyChatDeletes
    armed,       \* a debounce timer is running
    waiting,     \* flushes in the metadataWrites queue, the running one included
    flush,       \* the flush that is running
    announced,   \* what still has to be read again: "nothing", "characters"
                 \* or "everything"
    refresh,     \* what such a refresh has read
    edits,       \* changes so far
    failures,    \* failures so far
    newest,      \* history: the last change of each row by this page
    saved,       \* history: the last of them that reached the database
    overlooked,  \* history: rows whose mark was cleared, or whose content was
                 \* replaced, without regard to their newest change or to
                 \* what a flush was doing with them
    gaveUp       \* history: a flush failed and no timer was started since

content == <<local, chats, stamp>>
database == <<db, dbStamp>>
marks == <<dirty, touches, deletes>>
remoteState == <<announced, refresh>>
ghosts == <<newest, saved, overlooked>>
vars == <<content, database, marks, armed, waiting, flush, remoteState, edits,
          failures, ghosts, gaveUp>>

Absent == 0
None == [phase |-> "none"]
NoTouches == [c \in Characters |-> Absent]

hasPendingWrites == dirty # {} \/ touches # NoTouches \/ deletes # {}

ChatsOf(c) == {x \in Chats : Owner[x] = c}

(* The lists of chats the characters may have when rows are there. *)
Arrangements(rows) ==
    {f \in [Characters -> SeqOf(Chats, Cardinality(Chats))] :
       \A c \in Characters :
         /\ IsInjective(f[c])
         /\ ToSet(f[c]) = {x \in ChatsOf(c) : rows[x] # Absent}}

Init ==
    /\ local \in {f \in [Rows -> {Absent, 1}] :
                    /\ \A r \in Lists : f[r] = 1
                    /\ \A x \in Chats : f[x] = 1 => f[Owner[x]] = 1}
    /\ chats \in Arrangements(local)
    /\ db = local
    /\ stamp = [c \in Characters |-> 1] /\ dbStamp = stamp
    /\ dirty = {} /\ touches = NoTouches /\ deletes = {}
    /\ armed = FALSE /\ waiting = 0 /\ flush = None
    /\ announced = "nothing" /\ refresh = None
    /\ edits = 1 /\ failures = 0
    /\ newest = local /\ saved = local /\ overlooked = {} /\ gaveUp = FALSE

(***************************************************************************)
(* Changes by the user and the scripts of this page.                       *)
(***************************************************************************)
NextEdit == edits <= MaxEdits /\ edits' = edits + 1
Trouble == failures < MaxFailures /\ failures' = failures + 1

Held == {r \in Rows : local[r] # Absent}

(* New content for the rows of S, the rows of gone disappear, the rows of  *)
(* marked become dirty; a flush is scheduled.                              *)
Change(S, gone, marked) ==
    /\ NextEdit
    /\ local' = [r \in Rows |-> IF r \in gone THEN Absent
                               ELSE IF r \in S THEN edits' ELSE local[r]]
    /\ newest' = [r \in Rows |-> IF r \in S \cup gone THEN edits' ELSE newest[r]]
    /\ dirty' = dirty \cup marked
    /\ touches' = [c \in Characters |-> IF c \in marked THEN Absent
                                       ELSE touches[c]]
    /\ overlooked' = overlooked \ (S \cup gone)
    /\ armed' = TRUE /\ gaveUp' = FALSE
    /\ UNCHANGED <<stamp, database, waiting, flush, remoteState, failures, saved>>

(* A change of a character's own fields or of a chat's metadata. *)
Edit(r) ==
    /\ r \in Held
    /\ Change({r}, {}, {r})
    /\ UNCHANGED <<chats, deletes>>

(* add: a new character has a new id. *)
AddCharacter(c) ==
    /\ newest[c] = Absent
    /\ Change({c, Order}, {}, {c, Order})
    /\ UNCHANGED <<chats, deletes>>

(* remove. *)
RemoveCharacter(c) ==
    /\ c \in Held
    /\ Change({Order}, {c} \cup (ChatsOf(c) \cap Held), {Order})
    /\ deletes' = deletes \cup {c}
    /\ UNCHANGED chats

(* The interface puts a new chat, under a new id, in front of the others.  *)
AddChat(x) ==
    LET c == Owner[x]
    IN  /\ newest[x] = Absent /\ c \in Held
        /\ Change({x, Manifest[c]}, {}, {x, Manifest[c]})
        /\ chats' = [chats EXCEPT ![c] = <<x>> \o @]
        /\ UNCHANGED deletes

RemoveChat(x) ==
    LET c == Owner[x]
    IN  /\ x \in Held
        /\ Change({Manifest[c]}, {x}, {Manifest[c]})
        /\ chats' = [chats EXCEPT ![c] = Remove(@, x)]
        /\ deletes' = deletes \cup {x}

(* touchCharacterInteraction. *)
Touch(c) ==
    /\ c \in Held
    /\ NextEdit
    /\ stamp' = [stamp EXCEPT ![c] = edits']
    /\ touches' = IF c \in dirty THEN touches ELSE [touches EXCEPT ![c] = edits']
    /\ armed' = TRUE /\ gaveUp' = FALSE
    /\ UNCHANGED <<local, chats, database, dirty, deletes, waiting, flush,
                   remoteState, failures, ghosts>>

(***************************************************************************)
(* Flushing.                                                               *)
(***************************************************************************)

(* A backup, a refresh or the page that hides asks for a flush. *)
Flush ==
    /\ waiting < MaxWaiting
    /\ waiting' = waiting + 1
    /\ UNCHANGED <<content, database, marks, armed, flush, remoteState, edits,
                   failures, ghosts, gaveUp>>

TimerFires ==
    /\ armed /\ waiting < MaxWaiting
    /\ armed' = FALSE
    /\ waiting' = waiting + 1
    /\ UNCHANGED <<content, database, marks, flush, remoteState, edits,
                   failures, ghosts, gaveUp>>

(* What a flush has serialised at once. *)
Started ==
    [phase |-> "lookup",
     seen |-> dirty \cap Characters, done |-> {},
     rows |-> [r \in Rows |-> IF r \in dirty \cap Characters THEN local[r]
                              ELSE Absent],
     stamps |-> stamp,
     touched |-> [c \in Characters |-> IF c \in dirty THEN Absent
                                       ELSE touches[c]],
     gone |-> (deletes \cap Characters) \ Held,
     chat |-> Order, position |-> 0,
     marked |-> {}, touchMarks |-> NoTouches]

(* f with the rows of S serialised. *)
Serialised(f, S) ==
    [f EXCEPT !.seen = @ \cup S, !.done = @ \cup S,
              !.rows = [r \in Rows |-> IF r \in S THEN local[r] ELSE @[r]]]

(* Every chat has been serialised: deleted chats and lists follow, the     *)
(* marks are cleared and the commit is sent.                               *)
SendCommit(f) ==
    LET g == Serialised(f, dirty \cap Lists)
        gone == g.gone \cup ((deletes \cap Chats) \ Held)
        outdated == {r \in dirty \cap Held : g.rows[r] # local[r]}
        unstamped == {c \in Characters : g.stamps[c] # stamp[c]}
    IN  /\ flush' = [g EXCEPT !.phase = "commit", !.gone = gone,
                              !.marked = dirty, !.touchMarks = touches]
        /\ dirty' = {} /\ touches' = NoTouches
        /\ deletes' = deletes \ gone
        /\ overlooked' = overlooked \cup outdated \cup unstamped

(* The chats that select no note, up to the next one that does. *)
SerialiseChats(f) ==
    LET left == (dirty \cap Chats) \ f.done
        noted == left \cap Noted \cap Held
    IN  IF noted = {} THEN SendCommit(Serialised(f, left))
        ELSE \E n \in noted, S \in SUBSET (left \ noted) :
               /\ flush' = [Serialised(f, S) EXCEPT
                              !.phase = "lookup", !.chat = n,
                              !.position = CHOOSE i \in DOMAIN chats[Owner[n]] :
                                             chats[Owner[n]][i] = n]
               /\ UNCHANGED <<marks, overlooked>>

BeginFlush ==
    /\ waiting > 0 /\ flush = None
    /\ armed' = FALSE
    /\ IF hasPendingWrites
       THEN /\ SerialiseChats(Started)
            /\ UNCHANGED waiting
       ELSE /\ waiting' = waiting - 1
            /\ UNCHANGED <<marks, flush, overlooked>>
    /\ UNCHANGED <<content, database, remoteState, edits, failures, newest,
                   saved, gaveUp>>

(* The flush with the chat that waited for its note, read at the position  *)
(* it had before.                                                          *)
Found(f) == f.position \in DOMAIN chats[Owner[f.chat]]

WithNoted(f) ==
    [f EXCEPT !.seen = @ \cup {f.chat}, !.done = @ \cup {f.chat},
              !.rows[f.chat] = local[chats[Owner[f.chat]][f.position]]]

(* The note has been looked up.  If there is no chat at the position any   *)
(* more the flush ends with an error.                                      *)
NoteFound ==
    /\ flush # None /\ flush.phase # "commit"
    /\ LET found == flush.phase = "lookup" /\ Found(flush)
       IN  IF found \/ flush.phase = "cut"
           THEN /\ SerialiseChats(IF found THEN WithNoted(flush) ELSE flush)
                /\ UNCHANGED <<waiting, gaveUp>>
           ELSE /\ flush' = None
                /\ waiting' = waiting - 1
                /\ gaveUp' = ~armed
                /\ UNCHANGED <<marks, overlooked>>
    /\ UNCHANGED <<content, database, armed, remoteState, edits, failures,
                   newest, saved>>

NoteLookupFails ==
    /\ flush # None /\ flush.phase # "commit"
    /\ Trouble
    /\ flush' = None
    /\ waiting' = waiting - 1
    /\ gaveUp' = ~armed
    /\ UNCHANGED <<content, database, marks, armed, remoteState, edits, ghosts>>

Written(f) == {r \in f.seen : f.rows[r] # Absent}

(* A chat is only stored under a character that is. *)
Acceptable(f) ==
    \A x \in Written(f) \cap Chats :
        /\ Owner[x] \notin f.gone
        /\ Owner[x] \in Written(f) \/ db[Owner[x]] # Absent

(* The chats of a deleted character are deleted with it. *)
WithChats(S) == S \cup {x \in Chats : Owner[x] \in S}

(* The commit writes rows and stamps and deletes; deleting a character     *)
(* deletes its chats.                                                      *)
Store ==
    LET gone == WithChats(flush.gone)
        written == Written(flush)
    IN  /\ Acceptable(flush)
        /\ db' = [r \in Rows |-> IF r \in gone THEN Absent
                                ELSE IF r \in written THEN flush.rows[r]
                                ELSE db[r]]
        /\ dbStamp' = [c \in Characters |->
                         IF c \in written THEN flush.stamps[c]
                         ELSE IF flush.touched[c] # Absent THEN flush.touched[c]
                         ELSE dbStamp[c]]
        /\ saved' = [r \in Rows |->
                       IF r \in gone /\ r \notin Held THEN newest[r]
                       ELSE IF r \in written THEN flush.rows[r]
                       ELSE saved[r]]

\* A seeded bug: the marks are cleared when the commit has been answered.
CommitSucceeds_ClearsLate ==
    /\ flush # None /\ flush.phase = "commit"
    /\ Store
    /\ dirty' = dirty \ flush.marked
    /\ flush' = None
    /\ waiting' = waiting - 1
    /\ UNCHANGED <<content, touches, deletes, armed, remoteState, edits, failures,
                   newest, overlooked, gaveUp>>

CommitSucceeds ==
    /\ flush # None /\ flush.phase = "commit"
    /\ Store
    /\ flush' = None
    /\ waiting' = waiting - 1
    /\ UNCHANGED <<content, marks, armed, remoteState, edits, failures, newest,
                   overlooked, gaveUp>>

\* A seeded bug: a failed flush restores its older stamp over a newer one.
Later_Restored(a, b) == IF b # Absent THEN b ELSE a

Later(a, b) == IF a > b THEN a ELSE b

(* The marks come back; no timer is started for them.  The commit may have *)
(* been applied all the same.                                              *)
CommitFails(applied) ==
    /\ flush # None /\ flush.phase = "commit"
    /\ IF Acceptable(flush) THEN Trouble ELSE UNCHANGED failures
    /\ IF applied THEN Store ELSE UNCHANGED <<database, saved>>
    /\ dirty' = dirty \cup flush.marked
    /\ touches' = [c \in Characters |->
                     IF c \in dirty' THEN Absent
                     ELSE Later(touches[c], flush.touchMarks[c])]
    /\ deletes' = deletes \cup (flush.gone \ Held)
    /\ flush' = None
    /\ waiting' = waiting - 1
    /\ gaveUp' = ~armed
    /\ UNCHANGED <<content, armed, remoteState, edits, newest, overlooked>>

(***************************************************************************)
(* Other clients.                                                          *)
(***************************************************************************)
(* Changes that wait to be applied are merged. *)
Announce(what) ==
    announced' = IF announced = "everything" THEN announced ELSE what

(* A change of a character; everything is to be read when its event was    *)
(* lost in a gap or makes no sense.                                        *)
RemoteChange(c, what) ==
    /\ NextEdit
    /\ db[c] # Absent
    /\ db' = [db EXCEPT ![c] = edits']
    /\ Announce(what)
    /\ UNCHANGED <<content, dbStamp, marks, armed, waiting, flush, refresh,
                   failures, ghosts, gaveUp>>

(* Only other data changed in the gap. *)
ResyncRequired ==
    /\ NextEdit
    /\ Announce("everything")
    /\ UNCHANGED <<content, database, marks, armed, waiting, flush, refresh,
                   failures, ghosts, gaveUp>>

(* refreshRemoteCharacters goes on only when its flush left nothing        *)
(* pending, and then reads the database.                                   *)
ReadCharacters ==
    /\ announced = "characters" /\ refresh = None
    /\ flush = None /\ ~hasPendingWrites
    /\ announced' = "nothing"
    /\ refresh' = [phase |-> "characters", rows |-> db, chats |-> chats,
                   stamps |-> dbStamp, since |-> edits, pending |-> {}]
    /\ UNCHANGED <<content, database, marks, armed, waiting, flush, edits,
                   failures, ghosts, gaveUp>>

(* A refresh: what was read replaces the characters; their chats stay, and *)
(* a character that was not in the store comes with the chats read.        *)
Back == {c \in Characters : c \notin Held /\ refresh.rows[c] # Absent}

RefreshedRows ==
    [r \in Rows |-> IF r \in Characters THEN refresh.rows[r]
                    ELSE IF r \in Lists THEN local[r]
                    ELSE IF Owner[r] \in Back THEN refresh.rows[r]
                    ELSE IF refresh.rows[Owner[r]] = Absent THEN Absent
                    ELSE local[r]]

RefreshedChats ==
    [c \in Characters |-> IF c \in Back THEN refresh.chats[c] ELSE chats[c]]

\* A seeded bug: nobody takes back the deletions.
KeptDeletes_All(rows) == deletes

(* The observers of the array and of the active character, which is taken  *)
(* to be the one replaced, take back the deletion of what is there again.  *)
KeptDeletes(rows) == {r \in deletes : rows[r] = Absent}

(* What was changed here after the database had been read. *)
ChangedAfter(since) == {r \in Rows : newest[r] > since}
TouchedAfter(since) == {c \in Characters : stamp[c] > since}

ReplaceCharacters ==
    /\ refresh # None /\ refresh.phase = "characters"
    /\ local' = RefreshedRows
    /\ chats' = RefreshedChats
    /\ stamp' = refresh.stamps
    /\ deletes' = KeptDeletes(local')
    /\ overlooked' = overlooked
         \cup {r \in ChangedAfter(refresh.since) :
                  local'[r] # local[r] \/ (r \in Chats /\ Owner[r] \in Back)}
         \cup {c \in TouchedAfter(refresh.since) : stamp'[c] # stamp[c]}
    /\ refresh' = None
    /\ UNCHANGED <<database, dirty, touches, armed, waiting, flush, announced,
                   edits, failures, newest, saved, gaveUp>>

(* Rows with a mark or in the hands of a flush. *)
InHand ==
    dirty \cup WithChats(deletes) \cup {c \in Characters : touches[c] # Absent}
    \cup IF flush = None THEN {}
         ELSE flush.seen \cup flush.marked \cup WithChats(flush.gone)
              \cup {c \in Characters : flush.touched[c] # Absent
                                       \/ flush.touchMarks[c] # Absent}

(* applyFullResync reads at any time, whatever is pending. *)
ReadEverything ==
    /\ announced = "everything" /\ refresh = None
    /\ announced' = "nothing"
    /\ \E lists \in Arrangements(db) :
         refresh' = [phase |-> "everything", rows |-> db, chats |-> lists,
                     stamps |-> dbStamp, since |-> edits,
                     pending |-> InHand]
    /\ UNCHANGED <<content, database, marks, armed, waiting, flush, edits,
                   failures, ghosts, gaveUp>>

(* A flush that waits for a note has the character it found the chat in,   *)
(* which is no longer the one in the store; its walk over the marks begins *)
(* anew with those set from now on.                                        *)
CutOff(f) ==
    IF f.phase # "lookup" THEN [f EXCEPT !.done = {}]
    ELSE IF Found(f) THEN [WithNoted(f) EXCEPT !.phase = "cut", !.done = {}]
    ELSE [f EXCEPT !.phase = "lost"]

(* init: the store starts anew.  Of the timers only that of the touches is *)
(* stopped, and a flush that is running goes on.                           *)
InstallStartupData ==
    /\ refresh # None /\ refresh.phase = "everything"
    /\ local' = refresh.rows /\ chats' = refresh.chats /\ stamp' = refresh.stamps
    /\ dirty' = {} /\ touches' = NoTouches /\ deletes' = {}
    /\ armed' \in {armed, FALSE}
    /\ flush' = IF flush = None THEN None ELSE CutOff(flush)
    /\ overlooked' = overlooked \cup refresh.pending
         \cup ChangedAfter(refresh.since) \cup TouchedAfter(refresh.since)
    /\ refresh' = None
    /\ gaveUp' = FALSE
    /\ UNCHANGED <<database, waiting, announced, edits, failures, newest, saved>>

Next ==
    \/ \E r \in Characters \cup Chats : Edit(r)
    \/ \E c \in Characters :
         AddCharacter(c) \/ RemoveCharacter(c) \/ Touch(c)
    \/ \E c \in Characters, what \in {"characters", "everything"} :
         RemoteChange(c, what)
    \/ \E x \in Chats : AddChat(x) \/ RemoveChat(x)
    \/ Flush \/ TimerFires \/ BeginFlush
    \/ NoteFound \/ NoteLookupFails \/ CommitSucceeds
    \/ \E applied \in BOOLEAN : CommitFails(applied)
    \/ ReadCharacters \/ ReplaceCharacters
    \/ ResyncRequired \/ ReadEverything \/ InstallStartupData

Spec == Init /\ [][Next]_vars

(* Timers fire, queued flushes run, and requests are answered.             *)
Fairness ==
    /\ WF_vars(TimerFires) /\ WF_vars(BeginFlush)
    /\ WF_vars(NoteFound \/ NoteLookupFails)
    /\ WF_vars(CommitSucceeds \/ \E applied \in BOOLEAN : CommitFails(applied))
    /\ WF_vars(ReadCharacters) /\ WF_vars(ReplaceCharacters)
    /\ WF_vars(ReadEverything) /\ WF_vars(InstallStartupData)

FairSpec == Spec /\ Fairness

(***************************************************************************)
(* Properties.                                                             *)
(***************************************************************************)
(* Rows left out: those, and the chats of a character that is one of them. *)
Regarded == {r \in Rows \ overlooked : r \in Chats => Owner[r] \notin overlooked}

Sending(r) ==
    /\ flush # None /\ flush.phase = "commit"
    /\ \/ r \in flush.seen /\ flush.rows[r] = newest[r]
       \/ r \in flush.gone
       \/ r \in Chats /\ Owner[r] \in flush.gone

(* A change of this page that is not in the database yet is marked or on   *)
(* its way, whatever flushes, failures and refreshes happened, except      *)
(* where a mark was cleared or the content replaced under a newer change,  *)
(* and where reading everything again discarded what was pending.          *)
UnsavedIsMarked ==
    \A r \in Regarded :
        saved[r] # newest[r] =>
            \/ r \in dirty \cup deletes
            \/ r \in Chats /\ Owner[r] \in deletes
            \/ Sending(r)

AtRest == ~hasPendingWrites /\ flush = None /\ announced = "nothing" /\ refresh = None

(* At rest the page shows what the database has, with the same exception.  *)
Converged ==
    AtRest => /\ \A r \in Regarded : local[r] = db[r]
              /\ \A c \in Characters \cap Regarded :
                   c \in Held => stamp[c] = dbStamp[c]

(* Every change of this page or of another one is taken care of in the     *)
(* end, unless a failed flush is left without a timer.                     *)
Settles == <>[](AtRest \/ gaveUp)
=============================================================================
