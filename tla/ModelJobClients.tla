--------------------------- MODULE ModelJobClients ---------------------------
(***************************************************************************)
(* The pages around one durable model job.  The page that started it reads *)
(* the answer from the job's journal through its local pipeline            *)
(* (durableModelJobs.ts), which reattaches when the stream is lost, claims *)
(* the job and stores the post-processed answer.  Every other page, and    *)
(* the same page once its pipeline has given the job up, follows the job   *)
(* with previews while it runs and stores its answer when it has ended     *)
(* (modelJobRecovery.ts).  Both store one message, whose id is the id of   *)
(* the generation.                                                         *)
(*                                                                         *)
(* The server keeps the job as in ModelJobs; here it is one record.  A     *)
(* response is the number of its chunks, a message is a text of a number   *)
(* of chunks, raw as the provider sent it or processed by the pipeline.    *)
(***************************************************************************)
EXTENDS Naturals

CONSTANTS
    Pages,                       \* open pages
    Author,                      \* the page on which the user generates
    Streaming,                   \* its answers are shown as they arrive
    MaxBytes,                    \* bound: length of a response
    MAX_NO_PROGRESS_REATTACHES,  \* reattaches without a new chunk (3)
    MaxTroubles                  \* bound: lost connections, failed commits,
                                 \* closed pages and aborts

ASSUME AuthorAssumption == Author \in Pages
ASSUME StreamingAssumption == Streaming \in BOOLEAN
ASSUME ReattachAssumption == MAX_NO_PROGRESS_REATTACHES \in Nat \ {0}

VARIABLES
    job,       \* the job's record on the server
    creator,   \* page whose session the server knows the job by, or Nobody
    row,       \* the generation's message in the database
    pipe,      \* local pipeline of the author
    claiming,  \* a claim sent by the pipeline is on its way
    deleting,  \* a DELETE sent by an abort is on its way
    detached,  \* pages with the job in detachedJobIds
    view,      \* the message as each page shows it
    preview,   \* pages with the generation in remotePreviewGenerationIds
    held,      \* message a page's store has not been able to commit yet
    run,       \* each page's run of runRecovery
    follow,    \* each page's reader in recoverActiveJob
    troubles,  \* failures so far
    lost       \* history: a page dropped an answer it had claimed or held, or
               \* claimed one that it only showed

server == <<job, creator, row, deleting>>
author == <<pipe, claiming, detached>>
screens == <<view, preview, held>>
recovery == <<run, follow>>
history == <<troubles, lost>>
vars == <<server, author, screens, recovery, history>>

Nobody == "nobody"
Terminal == {"done", "failed", "aborted"}

Absent == [kind |-> "none", len |-> 0]
Raw(n) == [kind |-> "raw", len |-> n]
Processed(n) == [kind |-> "processed", len |-> IF n = 0 THEN 0 ELSE n - 1]
Text == [kind : {"none", "raw", "processed"}, len : 0 .. MaxBytes]

NoPipe == [phase |-> "idle", delivered |-> 0, pos |-> 0, skip |-> 0,
           noProgress |-> 0, progressed |-> TRUE]
None == [status |-> "none", source |-> Nobody]   \* not listed
NoRun == [phase |-> "idle", first |-> "neither", job |-> None]
NoFollow == [phase |-> "idle", pos |-> 0]

Init ==
    /\ job = [status |-> "none", live |-> FALSE, bytes |-> 0, aborting |-> FALSE,
              claimed |-> FALSE]
    /\ creator = Nobody /\ row = Absent
    /\ pipe = NoPipe /\ claiming = FALSE /\ deleting = FALSE
    /\ detached = {} /\ preview = {}
    /\ view = [c \in Pages |-> Absent]
    /\ held = [c \in Pages |-> Absent]
    /\ run = [c \in Pages |-> NoRun]
    /\ follow = [c \in Pages |-> NoFollow]
    /\ troubles = 0 /\ lost = FALSE

Trouble == troubles < MaxTroubles /\ troubles' = troubles + 1
TroubleUnless(fine) == IF fine THEN UNCHANGED troubles ELSE Trouble

Known == job.status \notin {"none", "gone"}
Ended == Known /\ ~job.live

(* What publicRecord says of the page that created the job: only the entry *)
(* of activeJobs knows it, not the record.                                 *)
Source == IF job.live THEN creator ELSE Nobody

\* A seeded bug: a job is not managed until its id is known.
Managed_Owned(c) == c = Author /\ pipe.phase \in {"attach", "read", "lost", "leaked"}

(* isDurableModelJobLocallyManaged: creatingGenerationIds or ownedJobIds.  *)
Managed(c) == c = Author /\ pipe.phase \in {"creating", "attach", "read", "lost", "leaked"}

shouldRecoverDurableModelJob(c, source, givenUp) ==
    ~Managed(c) /\ (source # c \/ c \in givenUp)

(***************************************************************************)
(* The job on the server.                                                  *)
(***************************************************************************)
AppendChunk ==
    /\ job.live /\ job.status = "running" /\ ~job.aborting
    /\ job.bytes < MaxBytes
    /\ job' = [job EXCEPT !.bytes = @ + 1]
    /\ UNCHANGED <<creator, row, deleting, author, screens, recovery, history>>

(* The record gets its final status, and is written, before the entry of   *)
(* activeJobs goes.                                                        *)
SetStatus(status) ==
    /\ job.live /\ job.status = "running"
    /\ status = "aborted" => job.aborting
    /\ job' = [job EXCEPT !.status = status]
    /\ UNCHANGED <<creator, row, deleting, author, screens, recovery, history>>

EndJob ==
    /\ job.live /\ job.status \in Terminal
    /\ job' = [job EXCEPT !.live = FALSE]
    /\ UNCHANGED <<creator, row, deleting, author, screens, recovery, history>>

(* A DELETE aborts a job that is live and removes one that has ended.      *)
HandleDelete ==
    /\ deleting
    /\ deleting' = FALSE
    /\ job' = IF job.live THEN [job EXCEPT !.aborting = TRUE]
              ELSE [job EXCEPT !.status = "gone"]
    /\ UNCHANGED <<creator, row, author, screens, recovery, history>>

LoseDelete ==
    /\ deleting
    /\ deleting' = FALSE
    /\ UNCHANGED <<job, creator, row, author, screens, recovery, history>>

(***************************************************************************)
(* The store of a page: a commit that fails stays queued, and its caller   *)
(* goes on.                                                                *)
(***************************************************************************)
Commit(c, text, stored) ==
    IF stored THEN row' = text /\ held' = [held EXCEPT ![c] = Absent]
    ELSE held' = [held EXCEPT ![c] = text] /\ UNCHANGED row

CommitHeld(c) ==
    /\ held[c] # Absent
    /\ row' = held[c]
    /\ held' = [held EXCEPT ![c] = Absent]
    /\ UNCHANGED <<job, creator, deleting, author, view, preview, recovery, history>>

(***************************************************************************)
(* The local pipeline of the author.                                       *)
(***************************************************************************)
CreateJob ==
    /\ job.status = "none"
    /\ job' = [job EXCEPT !.status = "running", !.live = TRUE]
    /\ creator' = Author
    /\ pipe' = [NoPipe EXCEPT !.phase = "creating"]
    /\ UNCHANGED <<row, deleting, claiming, detached, screens, recovery, history>>

Created ==
    /\ pipe.phase = "creating"
    /\ pipe' = [pipe EXCEPT !.phase = "attach"]
    /\ UNCHANGED <<server, claiming, detached, screens, recovery, history>>

(* An ambiguous failure of the POST ends the pipeline and leaves the job.  *)
CreateUnanswered ==
    /\ pipe.phase = "creating" /\ Trouble
    /\ pipe' = NoPipe
    /\ UNCHANGED <<server, claiming, detached, screens, recovery, lost>>

releaseOwnership(isDetached) ==
    detached' = IF isDetached THEN detached \cup {Author} ELSE detached \ {Author}

(* A streamed answer is shown as it arrives. *)
Show(n) == view' = IF Streaming THEN [view EXCEPT ![Author] = Raw(n)] ELSE view

(* The server answers once the provider has, or the job is over.           *)
Attach ==
    /\ pipe.phase = "attach" /\ job.status # "gone"
    /\ pipe' = [pipe EXCEPT !.phase = "read"]
    /\ Show(0)
    /\ UNCHANGED <<server, claiming, detached, preview, held, recovery, history>>

(* Without a status of the provider the response cannot be built: what     *)
(* throws does not release the job.                                        *)
AttachThrows ==
    /\ pipe.phase = "attach" /\ Ended /\ job.status # "done" /\ job.bytes = 0
    /\ pipe' = [NoPipe EXCEPT !.phase = "leaked"]
    /\ UNCHANGED <<server, claiming, detached, screens, recovery, history>>

AttachFails ==
    /\ pipe.phase = "attach"
    /\ TroubleUnless(job.status = "gone")
    /\ pipe' = NoPipe
    /\ releaseOwnership(TRUE)
    /\ UNCHANGED <<server, claiming, screens, recovery, lost>>

(* A chunk of n: what a reattached stream repeats is skipped.              *)
Chunk(n) ==
    LET skipped == IF n <= pipe.skip THEN n ELSE pipe.skip
        new == n - skipped
    IN  [pipe EXCEPT !.pos = @ + n, !.skip = @ - skipped, !.delivered = @ + new,
                     !.progressed = @ \/ new > 0]

ReadChunk ==
    /\ pipe.phase = "read"
    /\ \E n \in 1 .. job.bytes - pipe.pos :
         /\ pipe' = Chunk(n)
         /\ Show(pipe'.delivered)
    /\ UNCHANGED <<server, claiming, detached, preview, held, recovery, history>>

AtEnd == pipe.phase = "read" /\ ~job.live /\ pipe.pos = job.bytes

(* At the end of the stream the job's status is asked for. *)
Finish ==
    /\ AtEnd /\ job.status \in Terminal
    /\ pipe' = IF job.status = "done" THEN [NoPipe EXCEPT !.phase = "process", !.delivered = pipe.delivered]
               ELSE NoPipe
    /\ releaseOwnership(FALSE)
    /\ claiming' = (job.status \in {"done", "failed"})
    /\ UNCHANGED <<server, screens, recovery, history>>

(* The stream is lost, or at its end the status cannot be had. *)
LoseStream ==
    /\ pipe.phase = "read"
    /\ TroubleUnless(AtEnd /\ job.status = "gone")
    /\ pipe' = [pipe EXCEPT !.phase = "lost", !.pos = 0, !.skip = 0]
    /\ UNCHANGED <<server, claiming, detached, screens, recovery, lost>>

Reattach ==
    /\ pipe.phase = "lost" /\ job.status # "gone"
    /\ LET stalled == IF pipe.progressed THEN 0 ELSE pipe.noProgress + 1
       IN  /\ stalled < MAX_NO_PROGRESS_REATTACHES
           /\ pipe' = [pipe EXCEPT !.phase = "read", !.pos = 0,
                                   !.skip = pipe.delivered, !.progressed = FALSE,
                                   !.noProgress = stalled]
    /\ UNCHANGED <<server, claiming, detached, screens, recovery, history>>

(* The job is gone, five attempts to connect have failed (what broke the   *)
(* stream lasts), or three streams have brought nothing new.               *)
ReattachFails ==
    /\ pipe.phase = "lost"
    /\ pipe' = NoPipe
    /\ releaseOwnership(TRUE)
    /\ UNCHANGED <<server, claiming, screens, recovery, history>>

(* The user aborts: the DELETE is sent while its listener is installed.    *)
Abort ==
    /\ pipe.phase \notin {"idle", "leaked"} /\ Trouble
    /\ deleting' = (deleting \/ pipe.phase \in {"attach", "read", "lost"})
    /\ lost' = (lost \/ pipe.phase = "process")
    /\ pipe' = NoPipe
    /\ IF pipe.phase \in {"attach", "read", "lost"}
       THEN releaseOwnership(FALSE) ELSE UNCHANGED detached
    /\ UNCHANGED <<job, creator, row, claiming, screens, recovery>>

(* Scripts and triggers shorten the answer (one they lengthen would not be *)
(* overwritten); it is put in the chat and committed.                      *)
Process ==
    /\ pipe.phase = "process"
    /\ \E stored \in BOOLEAN :
         /\ view' = [view EXCEPT ![Author] = Processed(pipe.delivered)]
         /\ Commit(Author, Processed(pipe.delivered), stored)
         /\ TroubleUnless(stored)
    /\ pipe' = NoPipe
    /\ UNCHANGED <<job, creator, deleting, claiming, detached, preview, recovery, lost>>

HandleClaim ==
    /\ claiming
    /\ claiming' = FALSE
    /\ job' = IF job.status = "gone" THEN job ELSE [job EXCEPT !.claimed = TRUE]
    /\ UNCHANGED <<creator, row, deleting, pipe, detached, screens, recovery, history>>

LoseClaim ==
    /\ claiming /\ Trouble
    /\ claiming' = FALSE
    /\ UNCHANGED <<server, pipe, detached, screens, recovery, lost>>

(* Any change another client makes to the chat refreshes it, unless it is  *)
(* being generated here.                                                   *)
Refresh(c) ==
    /\ c # Author \/ pipe.phase \in {"idle", "leaked"}
    /\ view' = [view EXCEPT ![c] = row]
    /\ UNCHANGED <<server, author, preview, held, recovery, history>>

(***************************************************************************)
(* Recovery.                                                               *)
(***************************************************************************)

(* The page comes into view, back online, or hears an event of the job.  A *)
(* run already in flight is shared, not repeated.                          *)
Trigger(c) ==
    /\ run[c].phase = "idle"
    /\ run' = [run EXCEPT ![c].phase = "list"]
    /\ UNCHANGED <<server, author, screens, follow, history>>

\* A seeded bug: only finished jobs are listed.
Unclaimed_Done == IF job.status = "done" /\ ~job.claimed
                  THEN [status |-> job.status, source |-> Source]
                  ELSE None

(* listJobs: what the job is listed as, and with the page that started it. *)
Unclaimed == IF job.status \in {"done", "failed"} /\ ~job.claimed
             THEN [status |-> job.status, source |-> Source] ELSE None
Active == IF job.status = "running" THEN [status |-> "running", source |-> creator]
          ELSE None

(* The two lists are asked for together and answered in either order; one  *)
(* that cannot be had is empty.                                            *)
ListFirst(c, answered) ==
    /\ run[c].phase = "list" /\ run[c].first = "neither"
    /\ TroubleUnless(answered)
    /\ \/ run' = [run EXCEPT ![c].first = "unclaimed",
                             ![c].job = IF answered THEN Unclaimed ELSE None]
       \/ run' = [run EXCEPT ![c].first = "active",
                             ![c].job = IF answered THEN Active ELSE None]
    /\ UNCHANGED <<server, author, screens, follow, lost>>

Listed(c) == run[c].phase = "list" /\ run[c].first # "neither"
ListedUnclaimed(c) == IF run[c].first = "unclaimed" THEN run[c].job ELSE Unclaimed
ListedActive(c) == IF run[c].first = "unclaimed" THEN Active ELSE run[c].job

RecoversTerminal(c) ==
    /\ ListedUnclaimed(c) # None
    /\ shouldRecoverDurableModelJob(c, ListedUnclaimed(c).source, detached)

(* The end of a run: a job that was listed as active is followed, by one   *)
(* reader of the page at a time.                                           *)
EndRun(c, active) ==
    /\ run' = [run EXCEPT ![c] = NoRun]
    /\ IF active # None /\ shouldRecoverDurableModelJob(c, active.source, detached')
          /\ follow[c].phase = "idle"
       THEN follow' = [follow EXCEPT ![c] = [phase |-> "read", pos |-> 0]]
       ELSE UNCHANGED follow

clearRecoveredPreview(c) ==
    /\ preview' = preview \ {c}
    /\ view' = IF c \in preview THEN [view EXCEPT ![c] = Absent] ELSE view

(* claimJob swallows a failed request; a job that is gone is not found.    *)
Claim(arrives) == job' = [job EXCEPT !.claimed = @ \/ (arrives /\ Known)]

\* A seeded bug: an existing message is kept, however short.
Slot_Keeps(c, n, stored) ==
    LET absent == view[c] = Absent
        text == IF absent THEN Raw(n) ELSE view[c]
    IN  /\ view' = [view EXCEPT ![c] = text]
        /\ preview' = IF absent THEN preview ELSE preview \ {c}
        /\ Commit(c, text, stored)
        /\ UNCHANGED lost

(* slotRecoveredText: an existing message is overwritten by a longer text  *)
(* and taken for stored otherwise, even if it is what the pipeline showed  *)
(* before it was aborted or gave the job up.  Then the job is claimed.     *)
Slot(c, n, stored) ==
    LET absent == view[c] = Absent
        changed == view[c].len < n
        text == IF absent \/ changed THEN Raw(n) ELSE view[c]
    IN  /\ view' = [view EXCEPT ![c] = text]
        /\ preview' = IF absent THEN preview ELSE preview \ {c}
        /\ IF absent \/ changed \/ c \in preview
           THEN Commit(c, text, stored) /\ UNCHANGED lost
           ELSE /\ lost' = (lost \/ (row = Absent /\ held[c] = Absent /\ pipe.phase # "process"))
                /\ UNCHANGED <<row, held>>

Recover(c, n, stored, arrives) ==
    /\ IF n = 0 THEN UNCHANGED <<row, view, preview, held, lost>> ELSE Slot(c, n, stored)
    /\ Claim(arrives)
    /\ TroubleUnless(stored /\ arrives)

(* recoverTerminalJob: a failed job is only claimed, a done one is read.   *)
ClaimFailed(c, arrives) ==
    /\ Listed(c) /\ RecoversTerminal(c) /\ ListedUnclaimed(c).status = "failed"
    /\ TroubleUnless(arrives)
    /\ clearRecoveredPreview(c)
    /\ Claim(arrives)
    /\ detached' = detached \ {c}
    /\ EndRun(c, ListedActive(c))
    /\ UNCHANGED <<creator, row, deleting, pipe, claiming, held, lost>>

StartTerminal(c) ==
    /\ Listed(c) /\ RecoversTerminal(c) /\ ListedUnclaimed(c).status = "done"
    /\ run' = [run EXCEPT ![c] = [phase |-> "read", first |-> "active",
                                  job |-> ListedActive(c)]]
    /\ UNCHANGED <<server, author, view, preview, held, follow, history>>

SkipTerminal(c) ==
    /\ Listed(c) /\ ~RecoversTerminal(c)
    /\ UNCHANGED <<server, author, view, preview, held, history>>
    /\ EndRun(c, ListedActive(c))

ReadTerminal(c, stored, arrives) ==
    /\ run[c].phase = "read" /\ Ended
    /\ Recover(c, job.bytes, stored, arrives)
    /\ detached' = detached \ {c}
    /\ EndRun(c, run[c].job)
    /\ UNCHANGED <<creator, deleting, pipe, claiming>>

\* A seeded bug: a job is claimed even if its journal could not be read.
ReadTerminalFails_Claims(c) ==
    /\ run[c].phase = "read"
    /\ TroubleUnless(job.status = "gone")
    /\ Claim(TRUE)
    /\ UNCHANGED <<creator, row, deleting, author, view, preview, held, lost>>
    /\ EndRun(c, run[c].job)

ReadTerminalFails(c) ==
    /\ run[c].phase = "read"
    /\ TroubleUnless(job.status = "gone")
    /\ UNCHANGED <<server, author, view, preview, held, lost>>
    /\ EndRun(c, run[c].job)

(* previewRecoveredText, at most every 50 ms. *)
Preview(c, n) ==
    \/ UNCHANGED <<view, preview>>
    \/ /\ view' = IF view[c].len <= n THEN [view EXCEPT ![c] = Raw(n)] ELSE view
       /\ preview' = IF view[c] = Absent THEN preview \cup {c} ELSE preview

FollowChunk(c) ==
    /\ follow[c].phase = "read"
    /\ \E n \in follow[c].pos + 1 .. job.bytes :
         /\ follow' = [follow EXCEPT ![c].pos = n]
         /\ Preview(c, n)
    /\ UNCHANGED <<server, author, held, run, history>>

(* The stream or the question for the job's status fails: nothing but the  *)
(* reader is given up.                                                     *)
FollowFails(c) ==
    /\ follow[c].phase = "read"
    /\ TroubleUnless(job.status = "gone")
    /\ follow' = [follow EXCEPT ![c] = NoFollow]
    /\ UNCHANGED <<server, author, screens, run, lost>>

FollowEnds(c) ==
    /\ follow[c].phase = "read" /\ Ended /\ follow[c].pos = job.bytes
    /\ follow' = [follow EXCEPT ![c] = NoFollow]
    /\ detached' = detached \ {c}
    /\ UNCHANGED <<creator, deleting, pipe, claiming, run>>

FollowDone(c, stored, arrives) ==
    /\ job.status = "done" /\ FollowEnds(c)
    /\ Recover(c, follow[c].pos, stored, arrives)

FollowFailed(c, arrives) ==
    /\ job.status = "failed" /\ FollowEnds(c)
    /\ TroubleUnless(arrives)
    /\ clearRecoveredPreview(c)
    /\ Claim(arrives)
    /\ UNCHANGED <<row, held, lost>>

FollowAborted(c) ==
    /\ job.status = "aborted" /\ FollowEnds(c)
    /\ clearRecoveredPreview(c)
    /\ UNCHANGED <<job, row, held, history>>

(* A page is closed and opened again with a new session. *)
Reload(c) ==
    /\ Trouble
    /\ lost' = (lost \/ held[c] # Absent \/ (c = Author /\ pipe.phase = "process"))
    /\ pipe' = IF c = Author THEN NoPipe ELSE pipe
    /\ creator' = IF c = creator THEN Nobody ELSE creator
    /\ view' = [view EXCEPT ![c] = row]
    /\ held' = [held EXCEPT ![c] = Absent]
    /\ run' = [run EXCEPT ![c] = [NoRun EXCEPT !.phase = "list"]]
    /\ follow' = [follow EXCEPT ![c] = NoFollow]
    /\ detached' = detached \ {c}
    /\ preview' = preview \ {c}
    /\ UNCHANGED <<job, row, deleting, claiming>>

Server == AppendChunk \/ EndJob \/ HandleDelete \/ LoseDelete \/ HandleClaim
          \/ LoseClaim \/ \E status \in Terminal : SetStatus(status)

Pipeline == CreateJob \/ Created \/ CreateUnanswered \/ Attach \/ AttachThrows \/ AttachFails \/ ReadChunk
            \/ LoseStream \/ Finish \/ Reattach \/ ReattachFails \/ Abort \/ Process

(* What a page does for the run of recovery it is in. *)
RunStep(c) ==
    \/ \E answered \in BOOLEAN : ListFirst(c, answered)
    \/ StartTerminal(c) \/ SkipTerminal(c) \/ ReadTerminalFails(c)
    \/ \E stored, arrives \in BOOLEAN :
         ReadTerminal(c, stored, arrives) \/ ClaimFailed(c, arrives)

FollowStep(c) ==
    \/ FollowChunk(c) \/ FollowFails(c) \/ FollowAborted(c)
    \/ \E stored, arrives \in BOOLEAN :
         FollowDone(c, stored, arrives) \/ FollowFailed(c, arrives)

Next ==
    \/ Server \/ Pipeline
    \/ \E c \in Pages : \/ CommitHeld(c) \/ Refresh(c) \/ Trigger(c) \/ RunStep(c)
                        \/ FollowStep(c) \/ Reload(c)

Spec == Init /\ [][Next]_vars

(***************************************************************************)
(* A job that has its final status leaves activeJobs, and some page beside *)
(* the author's is in use: it comes into view again and again and has its  *)
(* requests answered or failed.                                            *)
(***************************************************************************)
Fairness ==
    /\ WF_vars(EndJob)
    /\ \A c \in Pages \ {Author} : WF_vars(Trigger(c)) /\ WF_vars(RunStep(c))

FairSpec == Spec /\ Fairness

(***************************************************************************)
(* Properties.                                                             *)
(***************************************************************************)
(* A claimed answer is in the database, or held by an open page that will  *)
(* store it.  Exempt is an answer that a page was closed with, or whose    *)
(* processing was aborted: the pipeline claims before it stores.           *)
ClaimedIsKept ==
    (job.claimed /\ job.status = "done" /\ job.bytes > 0 /\ ~lost) =>
        row # Absent \/ pipe.phase = "process" \/ \E c \in Pages : held[c] # Absent

(* What is stored without having gone through the pipeline is the whole    *)
(* response, never a preview of a part, and what the pipeline processes is *)
(* the whole response, with no chunk missing or repeated by a reattach.    *)
StoredIsWhole ==
    /\ \A t \in {row} \cup {held[c] : c \in Pages} :
         t.kind = "raw" => t.len = job.bytes
    /\ pipe.phase = "process" => pipe.delivered = job.bytes

(* While the pipeline of a page manages the job, the same page does not    *)
(* recover it.                                                             *)
OneReader ==
    \A c \in Pages : Managed(c) => /\ run[c].phase # "read"
                                   /\ follow[c].phase = "idle"
                                   /\ c \notin preview

(* An answer does not wait for ever to be taken: the job is claimed in the *)
(* end, or the user has had it deleted.                                    *)
EventuallyClaimed ==
    (job.status \in {"done", "failed"}) ~> (job.claimed \/ job.status = "gone")
=============================================================================
