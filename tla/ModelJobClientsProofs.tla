------------------------- MODULE ModelJobClientsProofs -------------------------
(***************************************************************************)
(* Proofs about ModelJobClients, for any set of pages, a response of any    *)
(* length, and any number of lost connections, failed requests, closed      *)
(* pages and aborted pipelines.                                             *)
(***************************************************************************)
EXTENDS ModelJobClients, TLAPS

-----------------------------------------------------------------------------
(* The types.                                                               *)

Statuses == {"none", "running", "gone"} \cup Terminal
Texts == [kind : {"none", "raw", "processed"}, len : Nat]
Listing == [status : {"none", "running", "done", "failed"}, source : Pages \cup {Nobody}]
Job == [status : Statuses, live : BOOLEAN, bytes : Nat, aborting : BOOLEAN, claimed : BOOLEAN]
Pipe == [phase : {"idle", "creating", "attach", "read", "lost", "leaked", "process"},
         delivered : Nat, pos : Nat, skip : Nat, noProgress : Nat, progressed : BOOLEAN]
Run == [phase : {"idle", "list", "read"}, first : {"neither", "unclaimed", "active"},
        job : Listing]
Reader == [phase : {"idle", "read"}, pos : Nat]

TypeInv ==
    /\ job \in Job /\ creator \in Pages \cup {Nobody} /\ row \in Texts
    /\ pipe \in Pipe /\ claiming \in BOOLEAN /\ deleting \in BOOLEAN /\ lost \in BOOLEAN
    /\ detached \subseteq Pages /\ preview \subseteq Pages
    /\ held \in [Pages -> Texts] /\ view \in [Pages -> Texts]
    /\ run \in [Pages -> Run] /\ follow \in [Pages -> Reader]

-----------------------------------------------------------------------------
(* The inductive invariant.                                                 *)

\* The server keeps a process of its own for a job that has not ended, and only
\* an ended job is claimed.
JobInv ==
    /\ job.live => job.status \in Terminal \cup {"running"}
    /\ job.status = "running" => job.live
    /\ job.claimed \/ claiming => job.status \in {"done", "failed", "gone"}

\* What a pipeline has handed on is what it has read plus what a reattached
\* stream is to repeat: it neither misses a chunk nor gets one twice.
PipeInv ==
    /\ pipe.delivered <= job.bytes
    /\ pipe.phase \in {"creating", "attach"} =>
         pipe.delivered = 0 /\ pipe.pos = 0 /\ pipe.skip = 0
    /\ pipe.phase = "read" => pipe.pos <= job.bytes /\ pipe.delivered = pipe.pos + pipe.skip
    /\ pipe.phase = "process" => pipe.delivered = job.bytes /\ ~job.live

\* A response that was recovered raw is that of a job that has ended, in full.
Whole(t) == t.kind = "raw" => t.len = job.bytes /\ ~job.live /\ job.status # "none"

\* What is stored, or held to be stored, is whole; a preview or a follower is
\* never ahead of the server.
TextInv ==
    /\ Whole(row)
    /\ \A c \in Pages : /\ Whole(held[c])
                        /\ view[c].kind = "raw" => view[c].len <= job.bytes
                        /\ follow[c].pos <= job.bytes

\* A recovery run trusts a list that was true when it was read: a job listed as
\* ended has at most been deleted since.
ListInv ==
    \A c \in Pages :
        /\ run[c].phase = "idle" => run[c] = NoRun
        /\ run[c].first = "unclaimed" /\ run[c].job # None
             => run[c].job.status \in {"done", "failed"} /\ job.status \in {run[c].job.status, "gone"}
        /\ run[c].phase = "read" => job.status \in {"done", "gone"}
        /\ job.status = "none" =>
             /\ run[c].job = None /\ run[c].phase # "read" /\ follow[c].phase = "idle"
             /\ c \notin preview

\* The answer has a taker: it is stored, processed or held by a page.
Kept == row # Absent \/ pipe.phase = "process" \/ \E c \in Pages : held[c] # Absent

\* The claim that is still on its way to the server counts as one: the page
\* that sent it must already hold the answer.
KeptInv ==
    /\ job.claimed \/ claiming
    /\ job.status = "done" /\ job.bytes > 0 /\ ~lost
    => Kept

Inv == TypeInv /\ JobInv /\ PipeInv /\ TextInv /\ ListInv /\ OneReader /\ KeptInv

-----------------------------------------------------------------------------
(* The numbers, the texts and the listings.                                 *)

LEMMA Facts ==
  ASSUME TypeInv
  PROVE  /\ job.bytes \in Nat /\ pipe.delivered \in Nat /\ pipe.pos \in Nat /\ pipe.skip \in Nat
         /\ pipe.noProgress \in Nat
         /\ \A c \in Pages : /\ follow[c].pos \in Nat /\ view[c].len \in Nat /\ held[c].len \in Nat
BY DEF TypeInv, Job, Pipe, Reader, Texts

LEMMA TextFacts ==
  /\ \A n \in Nat : /\ Raw(n) \in Texts /\ Raw(n).kind = "raw" /\ Raw(n).len = n /\ Raw(n) # Absent
                    /\ Processed(n) \in Texts /\ Processed(n).kind = "processed"
                    /\ Processed(n) # Absent
  /\ Absent \in Texts /\ Absent.kind # "raw" /\ Absent.len = 0
BY DEF Raw, Processed, Absent, Texts

LEMMA ListingFacts ==
  ASSUME TypeInv PROVE Unclaimed \in Listing /\ Active \in Listing /\ None \in Listing
<1>1. None \in Listing
   BY DEF None, Listing
<1>2. Source \in Pages \cup {Nobody} /\ creator \in Pages \cup {Nobody}
   BY DEF Source, TypeInv
<1>3. Unclaimed \in Listing
   BY <1>1, <1>2 DEF Unclaimed, Listing
<1>4. Active \in Listing
   BY <1>1, <1>2 DEF Active, Listing
<1> QED BY <1>1, <1>3, <1>4

-----------------------------------------------------------------------------
(* The steps of the server.                                                 *)

LEMMA AppendChunkStep ==
  ASSUME Inv, AppendChunk PROVE Inv'
<1>1. TypeInv'
   BY DEF AppendChunk, author, screens, recovery, history, TypeInv, Job, Inv
<1>2. JobInv'
   BY DEF AppendChunk, author, JobInv, Inv
<1>3. PipeInv'
   BY Facts DEF AppendChunk, author, PipeInv, Inv
<1>4. TextInv'
   BY Facts DEF AppendChunk, screens, recovery, TextInv, Whole, Inv
<1>5. ListInv'
   BY DEF AppendChunk, recovery, ListInv, Inv
<1>6. OneReader'
   BY DEF AppendChunk, author, screens, recovery, OneReader, Managed, Inv
<1>7. KeptInv'
   BY DEF AppendChunk, KeptInv
<1> QED BY <1>1, <1>2, <1>3, <1>4, <1>5, <1>6, <1>7 DEF Inv

LEMMA SetStatusStep ==
  ASSUME Inv, NEW status \in Terminal, SetStatus(status) PROVE Inv'
<1>1. TypeInv'
   BY DEF SetStatus, author, screens, recovery, history, TypeInv, Job, Statuses, Inv
<1>2. JobInv'
   BY DEF SetStatus, author, JobInv, Inv
<1>3. PipeInv'
   BY DEF SetStatus, author, PipeInv, Inv
<1>4. TextInv'
   BY DEF SetStatus, screens, recovery, TextInv, Whole, Inv
<1>5. ListInv'
   BY DEF SetStatus, recovery, ListInv, Terminal, Inv
<1>6. OneReader'
   BY DEF SetStatus, author, screens, recovery, OneReader, Managed, Inv
<1>7. KeptInv'
   BY DEF SetStatus, author, JobInv, KeptInv, Inv
<1> QED BY <1>1, <1>2, <1>3, <1>4, <1>5, <1>6, <1>7 DEF Inv

LEMMA EndJobStep ==
  ASSUME Inv, EndJob PROVE Inv'
<1>1. TypeInv'
   BY DEF EndJob, author, screens, recovery, history, TypeInv, Job, Inv
<1>2. JobInv'
   BY DEF EndJob, author, JobInv, Terminal, Inv
<1>3. PipeInv'
   BY DEF EndJob, author, PipeInv, Inv
<1>4. TextInv'
   BY DEF EndJob, screens, recovery, TextInv, Whole, Inv
<1>5. ListInv'
   BY DEF EndJob, recovery, ListInv, Terminal, Inv
<1>6. OneReader'
   BY DEF EndJob, author, screens, recovery, OneReader, Managed, Inv
<1>7. KeptInv'
   BY DEF EndJob, author, screens, history, KeptInv, Kept, Inv
<1> QED BY <1>1, <1>2, <1>3, <1>4, <1>5, <1>6, <1>7 DEF Inv

LEMMA HandleDeleteStep ==
  ASSUME Inv, HandleDelete PROVE Inv'
<1>1. TypeInv'
   BY DEF HandleDelete, author, screens, recovery, history, TypeInv, Job, Statuses, Inv
<1>2. JobInv'
   BY DEF HandleDelete, author, JobInv, Inv
<1>3. PipeInv'
   BY DEF HandleDelete, author, PipeInv, Inv
<1>4. TextInv'
   BY DEF HandleDelete, screens, recovery, TextInv, Whole, Inv
<1>5. ListInv'
   BY DEF HandleDelete, screens, recovery, ListInv, Inv
<1>6. OneReader'
   BY DEF HandleDelete, author, screens, recovery, OneReader, Managed, Inv
<1>7. KeptInv'
   BY DEF HandleDelete, author, screens, history, KeptInv, Kept, Inv
<1> QED BY <1>1, <1>2, <1>3, <1>4, <1>5, <1>6, <1>7 DEF Inv

LEMMA LoseDeleteStep ==
  ASSUME Inv, LoseDelete PROVE Inv'
<1>1. TypeInv'
   BY DEF LoseDelete, author, screens, recovery, history, TypeInv, Inv
<1>2. JobInv'
   BY DEF LoseDelete, author, JobInv, Inv
<1>3. PipeInv'
   BY DEF LoseDelete, author, PipeInv, Inv
<1>4. TextInv'
   BY DEF LoseDelete, screens, recovery, TextInv, Whole, Inv
<1>5. ListInv'
   BY DEF LoseDelete, screens, recovery, ListInv, Inv
<1>6. OneReader'
   BY DEF LoseDelete, author, screens, recovery, OneReader, Managed, Inv
<1>7. KeptInv'
   BY DEF LoseDelete, author, screens, history, KeptInv, Kept, Inv
<1> QED BY <1>1, <1>2, <1>3, <1>4, <1>5, <1>6, <1>7 DEF Inv

LEMMA CommitHeldStep ==
  ASSUME Inv, NEW c \in Pages, CommitHeld(c) PROVE Inv'
<1>a. /\ row' = held[c] /\ held[c] # Absent /\ held[c] \in Texts
      /\ held' \in [Pages -> Texts] /\ \A d \in Pages : held'[d] \in {held[d], Absent}
   BY TextFacts DEF TypeInv, CommitHeld, Inv
<1>1. TypeInv'
   BY <1>a DEF CommitHeld, author, recovery, history, TypeInv, Inv
<1>2. JobInv'
   BY DEF CommitHeld, author, JobInv, Inv
<1>3. PipeInv'
   BY DEF CommitHeld, author, PipeInv, Inv
<1>4. TextInv'
   BY <1>a, TextFacts DEF CommitHeld, recovery, TextInv, Whole, Inv
<1>5. ListInv'
   BY DEF CommitHeld, recovery, ListInv, Inv
<1>6. OneReader'
   BY DEF CommitHeld, author, recovery, OneReader, Managed, Inv
<1>7. KeptInv'
   BY <1>a DEF KeptInv, Kept
<1> QED BY <1>1, <1>2, <1>3, <1>4, <1>5, <1>6, <1>7 DEF Inv

-----------------------------------------------------------------------------
(* The pipeline of the page that asked.                                     *)

LEMMA CreateJobStep ==
  ASSUME Inv, CreateJob PROVE Inv'
<1>1. TypeInv'
   BY AuthorAssumption DEF CreateJob, screens, recovery, history, NoPipe, TypeInv, Job,
     Statuses, Pipe, Inv
<1>2. JobInv'
   BY DEF CreateJob, JobInv, Inv
<1>3. PipeInv'
   BY DEF CreateJob, NoPipe, PipeInv, TypeInv, Job, Inv
<1>4. TextInv'
   BY DEF CreateJob, screens, recovery, TextInv, Whole, Inv
<1>5. ListInv'
   BY DEF CreateJob, recovery, ListInv, Inv
<1>6. OneReader'
   BY DEF CreateJob, screens, recovery, ListInv, OneReader, Inv
<1>7. KeptInv'
   BY DEF CreateJob, KeptInv
<1> QED BY <1>1, <1>2, <1>3, <1>4, <1>5, <1>6, <1>7 DEF Inv

LEMMA CreatedStep ==
  ASSUME Inv, Created PROVE Inv'
<1>1. TypeInv'
   BY DEF Created, server, screens, recovery, history, TypeInv, Pipe, Inv
<1>2. JobInv'
   BY DEF Created, server, JobInv, Inv
<1>3. PipeInv'
   BY DEF Created, server, PipeInv, Inv
<1>4. TextInv'
   BY DEF Created, server, screens, recovery, TextInv, Whole, Inv
<1>5. ListInv'
   BY DEF Created, server, screens, recovery, ListInv, Inv
<1>6. OneReader'
   BY DEF Created, screens, recovery, OneReader, Managed, Inv
<1>7. KeptInv'
   BY DEF Created, server, screens, history, KeptInv, Kept, Inv
<1> QED BY <1>1, <1>2, <1>3, <1>4, <1>5, <1>6, <1>7 DEF Inv

LEMMA CreateUnansweredStep ==
  ASSUME Inv, CreateUnanswered PROVE Inv'
<1>1. TypeInv'
   BY DEF CreateUnanswered, server, screens, recovery, NoPipe, TypeInv, Pipe, Inv
<1>2. JobInv'
   BY DEF CreateUnanswered, server, JobInv, Inv
<1>3. PipeInv'
   BY DEF CreateUnanswered, server, NoPipe, PipeInv, Inv
<1>4. TextInv'
   BY DEF CreateUnanswered, server, screens, recovery, TextInv, Whole, Inv
<1>5. ListInv'
   BY DEF CreateUnanswered, server, screens, recovery, ListInv, Inv
<1>6. OneReader'
   BY DEF CreateUnanswered, NoPipe, OneReader, Managed
<1>7. KeptInv'
   BY DEF CreateUnanswered, server, screens, KeptInv, Kept, Inv
<1> QED BY <1>1, <1>2, <1>3, <1>4, <1>5, <1>6, <1>7 DEF Inv

LEMMA AttachStep ==
  ASSUME Inv, Attach PROVE Inv'
<1>1. TypeInv'
   BY DEF Attach, server, recovery, history, Show, Raw, TypeInv, Pipe, Texts, Inv
<1>2. JobInv'
   BY DEF Attach, server, JobInv, Inv
<1>3. PipeInv'
   BY DEF Attach, server, PipeInv, Inv
<1>4. TextInv'
   BY Facts DEF Attach, server, recovery, Show, Raw, TextInv, Whole, Inv
<1>5. ListInv'
   BY DEF Attach, server, recovery, ListInv, Inv
<1>6. OneReader'
   BY DEF Attach, recovery, OneReader, Managed, Inv
<1>7. KeptInv'
   BY DEF Attach, server, history, KeptInv, Kept, Inv
<1> QED BY <1>1, <1>2, <1>3, <1>4, <1>5, <1>6, <1>7 DEF Inv

LEMMA AttachThrowsStep ==
  ASSUME Inv, AttachThrows PROVE Inv'
<1>1. TypeInv'
   BY DEF AttachThrows, server, screens, recovery, history, NoPipe, TypeInv, Pipe, Inv
<1>2. JobInv'
   BY DEF AttachThrows, server, JobInv, Inv
<1>3. PipeInv'
   BY DEF AttachThrows, server, NoPipe, PipeInv
<1>4. TextInv'
   BY DEF AttachThrows, server, screens, recovery, TextInv, Whole, Inv
<1>5. ListInv'
   BY DEF AttachThrows, server, screens, recovery, ListInv, Inv
<1>6. OneReader'
   BY DEF AttachThrows, screens, recovery, OneReader, Managed, Inv
<1>7. KeptInv'
   BY DEF AttachThrows, server, KeptInv
<1> QED BY <1>1, <1>2, <1>3, <1>4, <1>5, <1>6, <1>7 DEF Inv

LEMMA AttachFailsStep ==
  ASSUME Inv, AttachFails PROVE Inv'
<1>1. TypeInv'
   BY AuthorAssumption DEF AttachFails, server, screens, recovery, NoPipe, releaseOwnership,
     TypeInv, Pipe, Inv
<1>2. JobInv'
   BY DEF AttachFails, server, JobInv, Inv
<1>3. PipeInv'
   BY DEF AttachFails, server, NoPipe, PipeInv, Inv
<1>4. TextInv'
   BY DEF AttachFails, server, screens, recovery, TextInv, Whole, Inv
<1>5. ListInv'
   BY DEF AttachFails, server, screens, recovery, ListInv, Inv
<1>6. OneReader'
   BY DEF AttachFails, NoPipe, OneReader, Managed
<1>7. KeptInv'
   BY DEF AttachFails, server, screens, KeptInv, Kept, Inv
<1> QED BY <1>1, <1>2, <1>3, <1>4, <1>5, <1>6, <1>7 DEF Inv

LEMMA ReadChunkStep ==
  ASSUME Inv, ReadChunk PROVE Inv'
<1> PICK n \in 1 .. job.bytes - pipe.pos : pipe' = Chunk(n) /\ Show(pipe'.delivered)
   BY DEF ReadChunk
<1> DEFINE s == IF n <= pipe.skip THEN n ELSE pipe.skip
<1>a. /\ pipe \in Pipe /\ n \in Nat /\ pipe.phase = "read" /\ n + pipe.pos <= job.bytes
      /\ pipe.delivered = pipe.pos + pipe.skip /\ pipe.delivered <= job.bytes
      /\ job.bytes \in Nat /\ pipe.pos \in Nat /\ pipe.skip \in Nat /\ pipe.delivered \in Nat
   BY Facts DEF TypeInv, PipeInv, ReadChunk, Inv
<1>b. /\ s \in Nat /\ n - s \in Nat /\ pipe.skip - s \in Nat /\ pipe.pos + n \in Nat
      /\ pipe.delivered + (n - s) \in Nat
      /\ (pipe.progressed \/ n - s > 0) \in BOOLEAN
      /\ pipe.delivered + (n - s) = (pipe.pos + n) + (pipe.skip - s)
      /\ pipe.delivered + (n - s) <= job.bytes
   BY <1>a
<1>c. pipe' = [pipe EXCEPT !.pos = pipe.pos + n, !.skip = pipe.skip - s,
                           !.delivered = pipe.delivered + (n - s),
                           !.progressed = pipe.progressed \/ n - s > 0]
   BY <1>a DEF Chunk
<1> HIDE DEF s
<1>d. /\ pipe' \in Pipe /\ pipe'.phase = "read" /\ pipe'.pos = pipe.pos + n
      /\ pipe'.skip = pipe.skip - s /\ pipe'.delivered = pipe.delivered + (n - s)
   BY <1>a, <1>b, <1>c DEF Pipe
<1>e. /\ view' \in [Pages -> Texts]
      /\ \A c \in Pages : view'[c] = view[c] \/ view'[c] = Raw(pipe'.delivered)
   BY <1>b, <1>d, TextFacts DEF Show, TypeInv, Inv
<1>1. TypeInv'
   BY <1>d, <1>e DEF ReadChunk, server, recovery, history, TypeInv, Inv
<1>2. JobInv'
   BY DEF ReadChunk, server, JobInv, Inv
<1>3. PipeInv'
   BY <1>a, <1>b, <1>d DEF ReadChunk, server, PipeInv
<1>4. TextInv'
   BY <1>b, <1>d, <1>e, TextFacts DEF ReadChunk, server, recovery, TextInv, Whole, Inv
<1>5. ListInv'
   BY DEF ReadChunk, server, recovery, ListInv, Inv
<1>6. OneReader'
   BY <1>a, <1>d DEF ReadChunk, recovery, OneReader, Managed, Inv
<1>7. KeptInv'
   BY <1>a, <1>d DEF ReadChunk, server, history, KeptInv, Kept, Inv
<1> QED BY <1>1, <1>2, <1>3, <1>4, <1>5, <1>6, <1>7 DEF Inv

LEMMA FinishStep ==
  ASSUME Inv, Finish PROVE Inv'
<1>a. /\ pipe \in Pipe /\ pipe.phase = "read" /\ ~job.live /\ pipe.pos = job.bytes
      /\ job.bytes \in Nat /\ job.status \in Terminal /\ pipe.delivered = job.bytes
  <2>1. pipe.delivered = pipe.pos + pipe.skip /\ pipe.delivered <= job.bytes
     BY DEF PipeInv, Finish, AtEnd, Inv
   <2> QED BY <2>1, Facts DEF TypeInv, Finish, AtEnd, Inv
<1>b. \/ /\ job.status = "done" /\ pipe' \in Pipe
         /\ pipe'.phase = "process" /\ pipe'.delivered = job.bytes
      \/ /\ job.status # "done" /\ pipe' = NoPipe /\ pipe' \in Pipe
         /\ pipe'.phase = "idle" /\ pipe'.delivered = 0
   BY <1>a DEF Finish, NoPipe, Pipe
<1>c. claiming' = (job.status \in {"done", "failed"}) /\ UNCHANGED <<job, row, view, preview, held, run, follow, lost>>
   BY DEF Finish, server, screens, recovery, history
<1>1. TypeInv'
  <2>1. detached' \subseteq Pages
     BY DEF TypeInv, Finish, releaseOwnership, Inv
   <2> QED BY <1>b, <1>c, <2>1 DEF Finish, server, TypeInv, Inv
<1>2. JobInv'
   BY <1>c DEF JobInv, Inv
<1>3. PipeInv'
   BY <1>a, <1>b, <1>c DEF PipeInv
<1>4. TextInv'
   BY <1>c DEF TextInv, Whole, Inv
<1>5. ListInv'
   BY <1>c DEF ListInv, Inv
<1>6. OneReader'
   BY <1>a, <1>b, <1>c DEF OneReader, Managed
<1>7. KeptInv'
   BY <1>b, <1>c DEF KeptInv, Kept
<1> QED BY <1>1, <1>2, <1>3, <1>4, <1>5, <1>6, <1>7 DEF Inv

LEMMA LoseStreamStep ==
  ASSUME Inv, LoseStream PROVE Inv'
<1>1. TypeInv'
   BY DEF LoseStream, server, screens, recovery, TypeInv, Pipe, Inv
<1>2. JobInv'
   BY DEF LoseStream, server, JobInv, Inv
<1>3. PipeInv'
   BY DEF LoseStream, server, PipeInv, Inv
<1>4. TextInv'
   BY DEF LoseStream, server, screens, recovery, TextInv, Whole, Inv
<1>5. ListInv'
   BY DEF LoseStream, server, screens, recovery, ListInv, Inv
<1>6. OneReader'
   BY DEF LoseStream, screens, recovery, OneReader, Managed, Inv
<1>7. KeptInv'
   BY DEF LoseStream, server, screens, KeptInv, Kept, Inv
<1> QED BY <1>1, <1>2, <1>3, <1>4, <1>5, <1>6, <1>7 DEF Inv

LEMMA ReattachStep ==
  ASSUME Inv, Reattach PROVE Inv'
<1> PICK stalled \in Nat :
       pipe' = [pipe EXCEPT !.phase = "read", !.pos = 0, !.skip = pipe.delivered,
                            !.progressed = FALSE, !.noProgress = stalled]
  <2>1. 0 \in Nat /\ pipe.noProgress + 1 \in Nat /\ pipe \in Pipe
     BY Facts DEF TypeInv, Inv
   <2> QED BY <2>1 DEF Reattach
<1>a. /\ pipe' \in Pipe /\ pipe'.phase = "read" /\ pipe'.pos = 0 /\ pipe'.skip = pipe.delivered
      /\ pipe'.delivered = pipe.delivered /\ pipe.phase = "lost"
  <2>1. pipe \in Pipe /\ pipe.phase = "lost" /\ pipe.delivered \in Nat /\ 0 \in Nat
     BY Facts DEF TypeInv, Reattach, Inv
  <2>2. pipe' \in Pipe
     BY <2>1 DEF Pipe
   <2> QED BY <2>1, <2>2
<1>1. TypeInv'
   BY <1>a DEF Reattach, server, screens, recovery, history, TypeInv, Inv
<1>2. JobInv'
   BY DEF Reattach, server, JobInv, Inv
<1>3. PipeInv'
   BY <1>a, Facts DEF Reattach, server, PipeInv, Inv
<1>4. TextInv'
   BY DEF Reattach, server, screens, recovery, TextInv, Whole, Inv
<1>5. ListInv'
   BY DEF Reattach, server, screens, recovery, ListInv, Inv
<1>6. OneReader'
   BY <1>a DEF Reattach, screens, recovery, OneReader, Managed, Inv
<1>7. KeptInv'
   BY <1>a DEF Reattach, server, screens, history, KeptInv, Kept, Inv
<1> QED BY <1>1, <1>2, <1>3, <1>4, <1>5, <1>6, <1>7 DEF Inv

LEMMA ReattachFailsStep ==
  ASSUME Inv, ReattachFails PROVE Inv'
<1>1. TypeInv'
   BY AuthorAssumption DEF ReattachFails, server, screens, recovery, history, NoPipe,
     releaseOwnership, TypeInv, Pipe, Inv
<1>2. JobInv'
   BY DEF ReattachFails, server, JobInv, Inv
<1>3. PipeInv'
   BY Facts DEF ReattachFails, server, NoPipe, PipeInv, Inv
<1>4. TextInv'
   BY DEF ReattachFails, server, screens, recovery, TextInv, Whole, Inv
<1>5. ListInv'
   BY DEF ReattachFails, server, screens, recovery, ListInv, Inv
<1>6. OneReader'
   BY DEF ReattachFails, NoPipe, OneReader, Managed
<1>7. KeptInv'
   BY DEF ReattachFails, server, screens, history, KeptInv, Kept, Inv
<1> QED BY <1>1, <1>2, <1>3, <1>4, <1>5, <1>6, <1>7 DEF Inv

LEMMA AbortStep ==
  ASSUME Inv, Abort PROVE Inv'
<1>1. TypeInv'
   BY DEF Abort, screens, recovery, NoPipe, releaseOwnership, TypeInv, Pipe, Inv
<1>2. JobInv'
   BY DEF Abort, JobInv, Inv
<1>3. PipeInv'
   BY Facts DEF Abort, NoPipe, PipeInv, Inv
<1>4. TextInv'
   BY DEF Abort, screens, recovery, TextInv, Whole, Inv
<1>5. ListInv'
   BY DEF Abort, screens, recovery, ListInv, Inv
<1>6. OneReader'
   BY DEF Abort, NoPipe, OneReader, Managed
<1>7. KeptInv'
   BY DEF Abort, screens, KeptInv, Kept, Inv
<1> QED BY <1>1, <1>2, <1>3, <1>4, <1>5, <1>6, <1>7 DEF Inv

LEMMA ProcessStep ==
  ASSUME Inv, Process PROVE Inv'
<1> DEFINE text == Processed(pipe.delivered)
<1> PICK stored \in BOOLEAN : view' = [view EXCEPT ![Author] = text] /\ Commit(Author, text, stored)
   BY DEF Process
<1>a. text \in Texts /\ text.kind = "processed" /\ text # Absent /\ Absent \in Texts /\ Absent.kind # "raw"
   BY Facts, TextFacts DEF Inv
<1> HIDE DEF text
<1>b. /\ view' \in [Pages -> Texts] /\ held' \in [Pages -> Texts] /\ row' \in Texts
      /\ row' \in {row, text} /\ \A c \in Pages : /\ held'[c] \in {held[c], text, Absent}
                                                  /\ view'[c] \in {view[c], text}
      /\ row' # Absent \/ held'[Author] # Absent
   BY <1>a, AuthorAssumption DEF TypeInv, Commit, Inv
<1>1. TypeInv'
   BY <1>b DEF Process, recovery, TypeInv, NoPipe, Pipe, Inv
<1>2. JobInv'
   BY DEF Process, JobInv, Inv
<1>3. PipeInv'
   BY DEF Process, NoPipe, PipeInv, TypeInv, Pipe, Inv
<1>4. TextInv'
   BY <1>a, <1>b DEF Process, recovery, TextInv, Whole, Inv
<1>5. ListInv'
   BY DEF Process, recovery, ListInv, Inv
<1>6. OneReader'
   BY DEF Process, NoPipe, OneReader, Managed
<1>7. KeptInv'
   BY <1>b DEF KeptInv, Kept
<1> QED BY <1>1, <1>2, <1>3, <1>4, <1>5, <1>6, <1>7 DEF Inv

LEMMA HandleClaimStep ==
  ASSUME Inv, HandleClaim PROVE Inv'
<1>1. TypeInv'
   BY DEF HandleClaim, screens, recovery, history, TypeInv, Job, Inv
<1>2. JobInv'
   BY DEF HandleClaim, JobInv, Inv
<1>3. PipeInv'
   BY DEF HandleClaim, PipeInv, Inv
<1>4. TextInv'
   BY DEF HandleClaim, screens, recovery, TextInv, Whole, Inv
<1>5. ListInv'
   BY DEF HandleClaim, screens, recovery, ListInv, Inv
<1>6. OneReader'
   BY DEF HandleClaim, screens, recovery, OneReader, Managed, Inv
<1>7. KeptInv'
   BY DEF HandleClaim, screens, history, KeptInv, Kept, Inv
<1> QED BY <1>1, <1>2, <1>3, <1>4, <1>5, <1>6, <1>7 DEF Inv

LEMMA LoseClaimStep ==
  ASSUME Inv, LoseClaim PROVE Inv'
<1>1. TypeInv'
   BY DEF LoseClaim, server, screens, recovery, TypeInv, Inv
<1>2. JobInv'
   BY DEF LoseClaim, server, JobInv, Inv
<1>3. PipeInv'
   BY DEF LoseClaim, server, PipeInv, Inv
<1>4. TextInv'
   BY DEF LoseClaim, server, screens, recovery, TextInv, Whole, Inv
<1>5. ListInv'
   BY DEF LoseClaim, server, screens, recovery, ListInv, Inv
<1>6. OneReader'
   BY DEF LoseClaim, screens, recovery, OneReader, Managed, Inv
<1>7. KeptInv'
   BY DEF LoseClaim, server, screens, KeptInv, Kept, Inv
<1> QED BY <1>1, <1>2, <1>3, <1>4, <1>5, <1>6, <1>7 DEF Inv

LEMMA RefreshStep ==
  ASSUME Inv, NEW c \in Pages, Refresh(c) PROVE Inv'
<1>1. TypeInv'
   BY DEF Refresh, server, author, recovery, history, TypeInv, Inv
<1>2. JobInv'
   BY DEF Refresh, server, author, JobInv, Inv
<1>3. PipeInv'
   BY DEF Refresh, server, author, PipeInv, Inv
<1>4. TextInv'
   BY DEF Refresh, server, recovery, TextInv, Whole, TypeInv, Texts, Inv
<1>5. ListInv'
   BY DEF Refresh, server, recovery, ListInv, Inv
<1>6. OneReader'
   BY DEF Refresh, author, recovery, OneReader, Managed, Inv
<1>7. KeptInv'
   BY DEF Refresh, server, author, history, KeptInv, Kept, Inv
<1> QED BY <1>1, <1>2, <1>3, <1>4, <1>5, <1>6, <1>7 DEF Inv

LEMMA TriggerStep ==
  ASSUME Inv, NEW c \in Pages, Trigger(c) PROVE Inv'
<1>1. TypeInv'
   BY DEF Trigger, server, author, screens, history, TypeInv, Run, Inv
<1>2. JobInv'
   BY DEF Trigger, server, author, JobInv, Inv
<1>3. PipeInv'
   BY DEF Trigger, server, author, PipeInv, Inv
<1>4. TextInv'
   BY DEF Trigger, server, screens, TextInv, Whole, Inv
<1>5. ListInv'
   BY DEF Trigger, server, screens, ListInv, Inv
<1>6. OneReader'
   BY DEF Trigger, author, screens, OneReader, Managed, Inv
<1>7. KeptInv'
   BY DEF Trigger, server, author, screens, history, KeptInv, Kept, Inv
<1> QED BY <1>1, <1>2, <1>3, <1>4, <1>5, <1>6, <1>7 DEF Inv

-----------------------------------------------------------------------------
(* Recovery by any page: what a list offers, and how a run ends.            *)

LEMMA ListFirstStep ==
  ASSUME Inv, NEW c \in Pages, NEW answered \in BOOLEAN, ListFirst(c, answered) PROVE Inv'
<1> PICK first \in {"unclaimed", "active"}, listed \in Listing :
       /\ run' = [run EXCEPT ![c].first = first, ![c].job = listed]
       /\ listed = None \/ (first = "unclaimed" /\ listed = Unclaimed)
                        \/ (first = "active" /\ listed = Active)
   BY ListingFacts DEF ListFirst, Inv
<1>a. /\ run' \in [Pages -> Run] /\ run[c].phase = "list"
      /\ \A d \in Pages : d # c => run'[d] = run[d]
      /\ run'[c].first = first /\ run'[c].job = listed /\ run'[c].phase = run[c].phase
   BY DEF TypeInv, Run, ListFirst, Inv
<1>b. UNCHANGED <<job, pipe, view, preview, held, row, follow, claiming, lost>>
   BY DEF ListFirst, server, author, screens
<1>1. TypeInv'
   BY <1>a, <1>b DEF ListFirst, server, author, TypeInv, Inv
<1>2. JobInv'
   BY DEF ListFirst, server, author, JobInv, Inv
<1>3. PipeInv'
   BY DEF ListFirst, server, author, PipeInv, Inv
<1>4. TextInv'
   BY DEF ListFirst, server, screens, TextInv, Whole, Inv
<1>5. ListInv'
  <2>1. listed # None => job.status # "none"
     BY DEF Unclaimed, Active
  <2>2. first = "unclaimed" /\ listed # None
          => listed.status \in {"done", "failed"} /\ job.status = listed.status
     BY DEF Unclaimed
   <2> QED BY <1>a, <1>b, <2>1, <2>2 DEF ListInv, Inv
<1>6. OneReader'
   BY <1>a, <1>b DEF OneReader, Managed, Inv
<1>7. KeptInv'
   BY DEF ListFirst, server, author, screens, KeptInv, Kept, Inv
<1> QED BY <1>1, <1>2, <1>3, <1>4, <1>5, <1>6, <1>7 DEF Inv

\* A claim, which may arrive or be lost.
LEMMA ClaimFacts ==
  ASSUME TypeInv, NEW arrives \in BOOLEAN, Claim(arrives)
  PROVE  /\ job' \in Job /\ job'.status = job.status /\ job'.live = job.live /\ job'.bytes = job.bytes
         /\ job'.claimed => job.claimed \/ Known
<1>1. job \in Job /\ Known \in BOOLEAN
   BY DEF TypeInv, Known
<1> QED BY <1>1 DEF Claim, Job

LEMMA ClearFacts ==
  ASSUME TypeInv, NEW c \in Pages, clearRecoveredPreview(c)
  PROVE  /\ preview' \subseteq preview /\ view' \in [Pages -> Texts]
         /\ \A d \in Pages : view'[d] \in {view[d], Absent}
BY TextFacts DEF TypeInv, clearRecoveredPreview

\* The end of a run may start a reader, for a job that the page does not manage.
LEMMA EndRunFacts ==
  ASSUME TypeInv, NEW c \in Pages, NEW STATE active, EndRun(c, active)
  PROVE  /\ run' \in [Pages -> Run] /\ follow' \in [Pages -> Reader]
         /\ run'[c] = NoRun /\ \A d \in Pages : d # c => run'[d] = run[d]
         /\ \A d \in Pages : \/ follow'[d] = follow[d]
                             \/ /\ d = c /\ follow'[d].pos = 0
                                /\ active # None /\ ~Managed(c)
<1>1. NoRun \in Run /\ [phase |-> "read", pos |-> 0] \in Reader
   BY DEF NoRun, None, Run, Listing, Reader
<1>2. run \in [Pages -> Run] /\ follow \in [Pages -> Reader]
   BY DEF TypeInv
<1>3. run' = [run EXCEPT ![c] = NoRun]
   BY DEF EndRun
<1>4. \/ follow' = follow
      \/ /\ follow' = [follow EXCEPT ![c] = [phase |-> "read", pos |-> 0]]
         /\ active # None /\ ~Managed(c)
   BY DEF EndRun, shouldRecoverDurableModelJob
<1> QED BY <1>1, <1>2, <1>3, <1>4

\* What the end of a run keeps, whatever the run did to the job.
LEMMA RunEnded ==
  ASSUME Inv, NEW c \in Pages, NEW STATE active, EndRun(c, active),
         active # None => job.status # "none",
         job'.status = job.status, pipe' = pipe, preview' \subseteq preview
  PROVE  ListInv' /\ OneReader'
<1>1. /\ run'[c] = NoRun /\ \A d \in Pages : d # c => run'[d] = run[d]
      /\ \A d \in Pages : \/ follow'[d] = follow[d]
                          \/ d = c /\ active # None /\ ~Managed(c)
   BY EndRunFacts DEF Inv
<1>2. NoRun.phase = "idle" /\ NoRun.first = "neither" /\ NoRun.job = None
   BY DEF NoRun
<1>3. ListInv'
   BY <1>1, <1>2 DEF ListInv, Inv
<1>4. OneReader'
   BY <1>1, <1>2 DEF OneReader, Managed, Inv
<1> QED BY <1>3, <1>4

LEMMA ListedFacts ==
  ASSUME Inv, NEW c \in Pages
  PROVE  /\ ListedUnclaimed(c) # None =>
              job.status \in {ListedUnclaimed(c).status, "gone"} /\ job.status # "none"
         /\ ListedActive(c) # None => job.status # "none"
         /\ ListedActive(c) \in Listing
<1>1. /\ Unclaimed # None => job.status = Unclaimed.status /\ job.status # "none"
      /\ Active # None => job.status # "none"
   BY DEF Unclaimed, Active
<1>2. run[c].job \in Listing /\ Active \in Listing
   BY ListingFacts DEF TypeInv, Run, Inv
<1>3. run[c].job # None => job.status # "none"
   BY DEF ListInv, Inv
<1>4. run[c].first = "unclaimed" /\ run[c].job # None => job.status \in {run[c].job.status, "gone"}
   BY DEF ListInv, Inv
<1> QED BY <1>1, <1>2, <1>3, <1>4 DEF ListedUnclaimed, ListedActive

LEMMA CommitFacts ==
  ASSUME TypeInv, NEW c \in Pages, NEW text \in Texts, text # Absent, NEW stored \in BOOLEAN,
         Commit(c, text, stored)
  PROVE  /\ row' \in Texts /\ held' \in [Pages -> Texts]
         /\ row' \in {row, text} /\ \A d \in Pages : held'[d] \in {held[d], text, Absent}
         /\ row' # Absent \/ \E d \in Pages : held'[d] # Absent
<1>1. Absent \in Texts
   BY TextFacts
<1>2. CASE stored
   BY <1>1, <1>2 DEF Commit, TypeInv
<1>3. CASE ~stored
  <2>1. held' = [held EXCEPT ![c] = text] /\ row' = row
     BY <1>3 DEF Commit
  <2>2. held'[c] = text
     BY <2>1 DEF TypeInv
   <2> QED BY <2>1, <2>2 DEF TypeInv
<1> QED BY <1>2, <1>3

\* Storing the whole response in the slot of the generation.
LEMMA SlotFacts ==
  ASSUME Inv, NEW c \in Pages, NEW STATE n, n = job.bytes, n # 0, NEW stored \in BOOLEAN,
         Slot(c, n, stored)
  PROVE  /\ row' \in Texts /\ held' \in [Pages -> Texts] /\ view' \in [Pages -> Texts]
         /\ preview' \subseteq preview /\ lost' \in BOOLEAN /\ (lost => lost')
         /\ row' = row \/ (row'.kind = "raw" => row'.len = job.bytes)
         /\ \A d \in Pages : /\ \/ held'[d] = held[d]
                                \/ held'[d].kind = "raw" => held'[d].len = job.bytes
                             /\ view'[d].kind = "raw" => view'[d].len <= job.bytes
         /\ \/ lost' \/ row' # Absent \/ pipe.phase = "process"
            \/ \E d \in Pages : held'[d] # Absent
<1> DEFINE absent == view[c] = Absent
           changed == view[c].len < n
           text == IF absent \/ changed THEN Raw(n) ELSE view[c]
<1>1. /\ n \in Nat /\ view[c] \in Texts /\ view[c].len \in Nat
      /\ view[c].kind = "raw" => view[c].len <= n
      /\ \A d \in Pages : view[d].kind = "raw" => view[d].len <= job.bytes
   BY Facts DEF TypeInv, TextInv, Inv
<1>2. text \in Texts /\ text # Absent /\ (text.kind = "raw" => text.len = job.bytes)
   BY <1>1, TextFacts
<1>3. /\ view' = [view EXCEPT ![c] = text]
      /\ preview' = IF absent THEN preview ELSE preview \ {c}
      /\ \/ Commit(c, text, stored) /\ UNCHANGED lost
         \/ /\ lost' = (lost \/ (row = Absent /\ held[c] = Absent /\ pipe.phase # "process"))
            /\ UNCHANGED <<row, held>>
   BY DEF Slot
<1> HIDE DEF text, absent
<1>4. /\ view' \in [Pages -> Texts] /\ preview' \subseteq preview
      /\ \A d \in Pages : view'[d] \in {view[d], text}
   BY <1>2, <1>3 DEF TypeInv, Inv
<1>5. \A d \in Pages : view'[d].kind = "raw" => view'[d].len <= job.bytes
   BY <1>1, <1>2, <1>4
<1>6. CASE Commit(c, text, stored) /\ UNCHANGED lost
  <2>1. /\ row' \in Texts /\ held' \in [Pages -> Texts]
        /\ row' \in {row, text} /\ \A d \in Pages : held'[d] \in {held[d], text, Absent}
        /\ row' # Absent \/ \E d \in Pages : held'[d] # Absent
     BY <1>2, <1>6, CommitFacts DEF Inv
  <2>2. lost' = lost /\ lost \in BOOLEAN
     BY <1>6 DEF TypeInv, Inv
   <2> QED BY <1>2, <1>4, <1>5, <2>1, <2>2, TextFacts
<1>7. CASE /\ lost' = (lost \/ (row = Absent /\ held[c] = Absent /\ pipe.phase # "process"))
           /\ UNCHANGED <<row, held>>
  <2>1. row \in Texts /\ held \in [Pages -> Texts] /\ lost' \in BOOLEAN
     BY <1>7 DEF TypeInv, Inv
  <2>2. \/ lost' \/ row # Absent \/ pipe.phase = "process" \/ held[c] # Absent
     BY <1>7
   <2> QED BY <1>4, <1>5, <1>7, <2>1, <2>2
<1> QED BY <1>3, <1>6, <1>7

\* What the recovery of an answer keeps.
LEMMA Recovered ==
  ASSUME Inv, NEW c \in Pages, NEW STATE n, n = job.bytes, ~job.live, job.status = "done",
         NEW stored \in BOOLEAN, NEW arrives \in BOOLEAN, Recover(c, n, stored, arrives),
         UNCHANGED <<pipe, claiming>>, follow' \in [Pages -> Reader],
         \A d \in Pages : follow'[d] = follow[d] \/ follow'[d].pos = 0
  PROVE  /\ job' \in Job /\ job'.status = job.status /\ row' \in Texts /\ lost' \in BOOLEAN
         /\ held' \in [Pages -> Texts] /\ view' \in [Pages -> Texts] /\ preview' \subseteq preview
         /\ JobInv' /\ PipeInv' /\ TextInv' /\ KeptInv'
<1>1. /\ job' \in Job /\ job'.status = job.status /\ job'.live = job.live /\ job'.bytes = job.bytes
   BY ClaimFacts DEF Recover, Inv
<1>2. job.bytes \in Nat /\ \A d \in Pages : follow[d].pos \in Nat
   BY Facts DEF Inv
<1>3. JobInv' /\ PipeInv'
   BY <1>1 DEF JobInv, PipeInv, Inv
<1>4. CASE n = 0
  <2>1. UNCHANGED <<row, view, preview, held, lost>>
     BY <1>4 DEF Recover
  <2>2. TextInv'
     BY <1>1, <1>2, <2>1 DEF TextInv, Whole, Inv
  <2>3. KeptInv'
     BY <1>1, <1>4 DEF KeptInv
   <2> QED BY <1>1, <1>3, <2>1, <2>2, <2>3 DEF TypeInv, Inv
<1>5. CASE n # 0
  <2>1. Slot(c, n, stored)
     BY <1>5 DEF Recover
  <2>2. /\ row' \in Texts /\ held' \in [Pages -> Texts] /\ view' \in [Pages -> Texts]
        /\ preview' \subseteq preview /\ lost' \in BOOLEAN /\ (lost => lost')
        /\ row' = row \/ (row'.kind = "raw" => row'.len = job.bytes)
        /\ \A d \in Pages : /\ \/ held'[d] = held[d]
                               \/ held'[d].kind = "raw" => held'[d].len = job.bytes
                            /\ view'[d].kind = "raw" => view'[d].len <= job.bytes
        /\ \/ lost' \/ row' # Absent \/ pipe.phase = "process"
           \/ \E d \in Pages : held'[d] # Absent
     BY <1>5, <2>1, SlotFacts
  <2>3. TextInv'
    <3>1. Whole(row)' /\ \A d \in Pages : Whole(held[d])'
       BY <1>1, <2>2 DEF TextInv, Whole, Inv
    <3>2. \A d \in Pages : follow'[d].pos <= job.bytes
       BY <1>2 DEF TextInv, Inv
     <3> QED BY <1>1, <2>2, <3>1, <3>2 DEF TextInv
  <2>4. KeptInv'
     BY <2>2 DEF KeptInv, Kept
   <2> QED BY <1>1, <1>3, <2>2, <2>3, <2>4
<1> QED BY <1>4, <1>5

LEMMA ClaimFailedStep ==
  ASSUME Inv, NEW c \in Pages, NEW arrives \in BOOLEAN, ClaimFailed(c, arrives) PROVE Inv'
<1> DEFINE active == ListedActive(c)
<1>1. /\ clearRecoveredPreview(c) /\ Claim(arrives) /\ detached' = detached \ {c} /\ EndRun(c, active)
      /\ UNCHANGED <<creator, row, deleting, pipe, claiming, held, lost>>
      /\ ListedUnclaimed(c) # None /\ ListedUnclaimed(c).status = "failed"
   BY DEF ClaimFailed, RecoversTerminal
<1>2. job.status \in {"failed", "gone"} /\ (active # None => job.status # "none")
   BY <1>1, ListedFacts
<1> HIDE DEF active
<1>3. /\ job' \in Job /\ job'.status = job.status /\ job'.live = job.live /\ job'.bytes = job.bytes
   BY <1>1, ClaimFacts DEF Inv
<1>4. /\ preview' \subseteq preview /\ view' \in [Pages -> Texts]
      /\ \A d \in Pages : view'[d] \in {view[d], Absent}
   BY <1>1, ClearFacts DEF Inv
<1>5. /\ run' \in [Pages -> Run] /\ follow' \in [Pages -> Reader]
      /\ \A d \in Pages : follow'[d] = follow[d] \/ follow'[d].pos = 0
   BY <1>1, EndRunFacts DEF Inv
<1>6. TypeInv'
   BY <1>1, <1>3, <1>4, <1>5 DEF TypeInv, Inv
<1>7. JobInv' /\ PipeInv' /\ KeptInv'
   BY <1>1, <1>2, <1>3 DEF JobInv, PipeInv, KeptInv, Inv
<1>8. TextInv'
   BY <1>1, <1>3, <1>4, <1>5, Facts, TextFacts DEF TextInv, Whole, Inv
<1>9. ListInv' /\ OneReader'
   BY <1>1, <1>2, <1>3, <1>4, RunEnded
<1> QED BY <1>6, <1>7, <1>8, <1>9 DEF Inv

LEMMA StartTerminalStep ==
  ASSUME Inv, NEW c \in Pages, StartTerminal(c) PROVE Inv'
<1> DEFINE next == [phase |-> "read", first |-> "active", job |-> ListedActive(c)]
<1>1. /\ run' = [run EXCEPT ![c] = next]
      /\ UNCHANGED <<job, creator, row, deleting, pipe, claiming, detached, view, preview, held,
                     follow, lost>>
      /\ ListedUnclaimed(c) # None /\ ListedUnclaimed(c).status = "done" /\ ~Managed(c)
   BY DEF StartTerminal, RecoversTerminal, shouldRecoverDurableModelJob, server, author,
     history
<1>2. /\ job.status \in {"done", "gone"} /\ ListedActive(c) \in Listing
   BY <1>1, ListedFacts
<1>3. next \in Run /\ next.phase = "read" /\ next.first = "active"
   BY <1>2 DEF Run
<1> HIDE DEF next
<1>4. run' \in [Pages -> Run] /\ run'[c] = next /\ \A d \in Pages : d # c => run'[d] = run[d]
   BY <1>1, <1>3 DEF TypeInv, Inv
<1>5. TypeInv'
   BY <1>1, <1>4 DEF TypeInv, Inv
<1>6. JobInv' /\ PipeInv' /\ TextInv' /\ KeptInv'
   BY <1>1 DEF JobInv, PipeInv, TextInv, Whole, KeptInv, Kept, Inv
<1>7. ListInv'
   BY <1>1, <1>2, <1>3, <1>4 DEF ListInv, Inv
<1>8. OneReader'
   BY <1>1, <1>4 DEF OneReader, Managed, Inv
<1> QED BY <1>5, <1>6, <1>7, <1>8 DEF Inv

\* A run that ends without having recovered anything.
LEMMA RunGivenUp ==
  ASSUME Inv, NEW c \in Pages, NEW STATE active, EndRun(c, active), active # None => job.status # "none",
         UNCHANGED <<server, author, view, preview, held, lost>>
  PROVE  Inv'
<1>1. UNCHANGED <<job, creator, row, deleting, pipe, claiming, detached, view, preview, held, lost>>
   BY DEF server, author
<1>2. /\ run' \in [Pages -> Run] /\ follow' \in [Pages -> Reader]
      /\ \A d \in Pages : follow'[d] = follow[d] \/ follow'[d].pos = 0
   BY EndRunFacts DEF Inv
<1>3. TypeInv'
   BY <1>1, <1>2 DEF TypeInv, Inv
<1>4. JobInv' /\ PipeInv' /\ KeptInv'
   BY <1>1 DEF JobInv, PipeInv, KeptInv, Kept, Inv
<1>5. TextInv'
   BY <1>1, <1>2, Facts DEF TextInv, Whole, Inv
<1>6. ListInv' /\ OneReader'
   BY <1>1, RunEnded
<1> QED BY <1>3, <1>4, <1>5, <1>6 DEF Inv

LEMMA SkipTerminalStep ==
  ASSUME Inv, NEW c \in Pages, SkipTerminal(c) PROVE Inv'
BY ListedFacts, RunGivenUp DEF SkipTerminal, history

LEMMA ReadTerminalFailsStep ==
  ASSUME Inv, NEW c \in Pages, ReadTerminalFails(c) PROVE Inv'
<1>1. run[c].job # None => job.status # "none"
   BY DEF ListInv, Inv
<1> QED BY <1>1, RunGivenUp DEF ReadTerminalFails

LEMMA ReadTerminalStep ==
  ASSUME Inv, NEW c \in Pages, NEW stored \in BOOLEAN, NEW arrives \in BOOLEAN,
         ReadTerminal(c, stored, arrives)
  PROVE  Inv'
<1>1. /\ Recover(c, job.bytes, stored, arrives) /\ detached' = detached \ {c}
      /\ EndRun(c, run[c].job) /\ UNCHANGED <<creator, deleting, pipe, claiming>>
      /\ ~job.live /\ job.status = "done"
   BY DEF ReadTerminal, Ended, Known, ListInv, Inv
<1>2. /\ run' \in [Pages -> Run] /\ follow' \in [Pages -> Reader]
      /\ \A d \in Pages : follow'[d] = follow[d] \/ follow'[d].pos = 0
   BY <1>1, EndRunFacts DEF Inv
<1>3. /\ job' \in Job /\ job'.status = job.status /\ row' \in Texts /\ lost' \in BOOLEAN
      /\ held' \in [Pages -> Texts] /\ view' \in [Pages -> Texts] /\ preview' \subseteq preview
      /\ JobInv' /\ PipeInv' /\ TextInv' /\ KeptInv'
   BY <1>1, <1>2, Recovered
<1>4. TypeInv'
   BY <1>1, <1>2, <1>3 DEF TypeInv, Inv
<1>5. ListInv' /\ OneReader'
   BY <1>1, <1>3, RunEnded
<1> QED BY <1>3, <1>4, <1>5 DEF Inv

-----------------------------------------------------------------------------
(* The reader of a page.                                                      *)

\* What a reader keeps that reads on or stops.
LEMMA ReaderKeeps ==
  ASSUME Inv, NEW c \in Pages, \A d \in Pages : d # c => follow'[d] = follow[d],
         follow'[c].phase = "idle" \/ follow[c].phase = "read",
         job'.status = job.status, UNCHANGED <<pipe, run>>,
         preview' \subseteq preview \cup {c}, c \in preview' \ preview => follow[c].phase = "read"
  PROVE  ListInv' /\ OneReader'
<1>1. ListInv'
   BY DEF ListInv, Inv
<1>2. OneReader'
   BY DEF OneReader, Managed, Inv
<1> QED BY <1>1, <1>2

LEMMA FollowChunkStep ==
  ASSUME Inv, NEW c \in Pages, FollowChunk(c) PROVE Inv'
<1>1. /\ follow[c].phase = "read"
      /\ UNCHANGED <<job, creator, row, deleting, pipe, claiming, detached, held, run, lost>>
   BY DEF FollowChunk, server, author, history
<1>2. PICK n \in follow[c].pos + 1 .. job.bytes : follow' = [follow EXCEPT ![c].pos = n] /\ Preview(c, n)
   BY DEF FollowChunk
<1>3. n \in Nat /\ n <= job.bytes /\ job.bytes \in Nat
   BY Facts DEF Inv
<1>4. /\ follow' \in [Pages -> Reader] /\ \A d \in Pages : d # c => follow'[d] = follow[d]
      /\ follow'[c].pos = n /\ follow'[c].phase = "read"
   BY <1>1, <1>2, <1>3 DEF TypeInv, Reader, Inv
<1>5. /\ view' \in [Pages -> Texts] /\ preview' \subseteq preview \cup {c} /\ preview' \subseteq Pages
      /\ \A d \in Pages : view'[d] \in {view[d], Raw(n)}
   BY <1>2, <1>3, TextFacts DEF TypeInv, Preview, Inv
<1>6. TypeInv'
   BY <1>1, <1>4, <1>5 DEF TypeInv, Inv
<1>7. JobInv' /\ PipeInv' /\ KeptInv'
   BY <1>1 DEF JobInv, PipeInv, KeptInv, Kept, Inv
<1>8. TextInv'
   BY <1>1, <1>3, <1>4, <1>5, TextFacts DEF TextInv, Whole, Inv
<1>9. ListInv' /\ OneReader'
   BY <1>1, <1>4, <1>5, ReaderKeeps
<1> QED BY <1>6, <1>7, <1>8, <1>9 DEF Inv

LEMMA NoFollowFacts ==
  ASSUME TypeInv, NEW c \in Pages, follow' = [follow EXCEPT ![c] = NoFollow]
  PROVE  /\ follow' \in [Pages -> Reader] /\ \A d \in Pages : d # c => follow'[d] = follow[d]
         /\ follow'[c].pos = 0 /\ follow'[c].phase = "idle"
<1>1. NoFollow \in Reader /\ NoFollow.pos = 0 /\ NoFollow.phase = "idle"
   BY DEF NoFollow, Reader
<1> QED BY <1>1 DEF TypeInv

LEMMA FollowFailsStep ==
  ASSUME Inv, NEW c \in Pages, FollowFails(c) PROVE Inv'
<1>1. /\ UNCHANGED <<job, creator, row, deleting, pipe, claiming, detached, view, preview, held,
                     run, lost>>
   BY DEF FollowFails, server, author, screens
<1>2. /\ follow' \in [Pages -> Reader] /\ \A d \in Pages : d # c => follow'[d] = follow[d]
      /\ follow'[c].pos = 0 /\ follow'[c].phase = "idle"
   BY NoFollowFacts DEF FollowFails, Inv
<1>3. TypeInv'
   BY <1>1, <1>2 DEF TypeInv, Inv
<1>4. JobInv' /\ PipeInv' /\ KeptInv'
   BY <1>1 DEF JobInv, PipeInv, KeptInv, Kept, Inv
<1>5. TextInv'
   BY <1>1, <1>2, Facts DEF TextInv, Whole, Inv
<1>6. ListInv' /\ OneReader'
   BY <1>1, <1>2, ReaderKeeps
<1> QED BY <1>3, <1>4, <1>5, <1>6 DEF Inv

LEMMA FollowEndsFacts ==
  ASSUME Inv, NEW c \in Pages, FollowEnds(c)
  PROVE  /\ follow' \in [Pages -> Reader] /\ \A d \in Pages : d # c => follow'[d] = follow[d]
         /\ follow'[c].pos = 0 /\ follow'[c].phase = "idle" /\ follow[c].pos = job.bytes
         /\ ~job.live /\ detached' \subseteq Pages /\ UNCHANGED <<creator, deleting, pipe, claiming, run>>
BY NoFollowFacts DEF FollowEnds, Ended, TypeInv, Inv

LEMMA FollowDoneStep ==
  ASSUME Inv, NEW c \in Pages, NEW stored \in BOOLEAN, NEW arrives \in BOOLEAN,
         FollowDone(c, stored, arrives)
  PROVE  Inv'
<1>1. FollowEnds(c) /\ Recover(c, follow[c].pos, stored, arrives) /\ job.status = "done"
   BY DEF FollowDone
<1>2. /\ follow' \in [Pages -> Reader] /\ \A d \in Pages : d # c => follow'[d] = follow[d]
      /\ follow'[c].pos = 0 /\ follow'[c].phase = "idle" /\ follow[c].pos = job.bytes
      /\ ~job.live /\ detached' \subseteq Pages /\ UNCHANGED <<creator, deleting, pipe, claiming, run>>
   BY <1>1, FollowEndsFacts
<1>3. /\ job' \in Job /\ job'.status = job.status /\ row' \in Texts /\ lost' \in BOOLEAN
      /\ held' \in [Pages -> Texts] /\ view' \in [Pages -> Texts] /\ preview' \subseteq preview
      /\ JobInv' /\ PipeInv' /\ TextInv' /\ KeptInv'
   BY <1>1, <1>2, Recovered
<1>4. TypeInv'
   BY <1>2, <1>3 DEF TypeInv, Inv
<1>5. ListInv' /\ OneReader'
   BY <1>2, <1>3, ReaderKeeps
<1> QED BY <1>3, <1>4, <1>5 DEF Inv

LEMMA FollowFailedStep ==
  ASSUME Inv, NEW c \in Pages, NEW arrives \in BOOLEAN, FollowFailed(c, arrives) PROVE Inv'
<1>1. /\ FollowEnds(c) /\ job.status = "failed" /\ clearRecoveredPreview(c) /\ Claim(arrives)
      /\ UNCHANGED <<row, held, lost>>
   BY DEF FollowFailed
<1>2. /\ follow' \in [Pages -> Reader] /\ \A d \in Pages : d # c => follow'[d] = follow[d]
      /\ follow'[c].pos = 0 /\ follow'[c].phase = "idle"
      /\ detached' \subseteq Pages /\ UNCHANGED <<creator, deleting, pipe, claiming, run>>
   BY <1>1, FollowEndsFacts
<1>3. /\ job' \in Job /\ job'.status = job.status /\ job'.live = job.live /\ job'.bytes = job.bytes
   BY <1>1, ClaimFacts DEF Inv
<1>4. /\ preview' \subseteq preview /\ view' \in [Pages -> Texts]
      /\ \A d \in Pages : view'[d] \in {view[d], Absent}
   BY <1>1, ClearFacts DEF Inv
<1>5. TypeInv'
   BY <1>1, <1>2, <1>3, <1>4 DEF TypeInv, Inv
<1>6. JobInv' /\ PipeInv' /\ KeptInv'
   BY <1>1, <1>2, <1>3 DEF JobInv, PipeInv, KeptInv, Inv
<1>7. TextInv'
   BY <1>1, <1>2, <1>3, <1>4, Facts, TextFacts DEF TextInv, Whole, Inv
<1>8. ListInv' /\ OneReader'
   BY <1>2, <1>3, <1>4, ReaderKeeps
<1> QED BY <1>5, <1>6, <1>7, <1>8 DEF Inv

LEMMA FollowAbortedStep ==
  ASSUME Inv, NEW c \in Pages, FollowAborted(c) PROVE Inv'
<1>1. /\ FollowEnds(c) /\ clearRecoveredPreview(c) /\ UNCHANGED <<job, row, held, lost>>
   BY DEF FollowAborted, history
<1>2. /\ follow' \in [Pages -> Reader] /\ \A d \in Pages : d # c => follow'[d] = follow[d]
      /\ follow'[c].pos = 0 /\ follow'[c].phase = "idle"
      /\ detached' \subseteq Pages /\ UNCHANGED <<creator, deleting, pipe, claiming, run>>
   BY <1>1, FollowEndsFacts
<1>3. /\ preview' \subseteq preview /\ view' \in [Pages -> Texts]
      /\ \A d \in Pages : view'[d] \in {view[d], Absent}
   BY <1>1, ClearFacts DEF Inv
<1>4. TypeInv'
   BY <1>1, <1>2, <1>3 DEF TypeInv, Inv
<1>5. JobInv' /\ PipeInv' /\ KeptInv'
   BY <1>1, <1>2 DEF JobInv, PipeInv, KeptInv, Kept, Inv
<1>6. TextInv'
   BY <1>1, <1>2, <1>3, Facts, TextFacts DEF TextInv, Whole, Inv
<1>7. ListInv' /\ OneReader'
   BY <1>1, <1>2, <1>3, ReaderKeeps
<1> QED BY <1>4, <1>5, <1>6, <1>7 DEF Inv

-----------------------------------------------------------------------------
(* A page is closed or reloaded.                                            *)

LEMMA ReloadStep ==
  ASSUME Inv, NEW c \in Pages, Reload(c) PROVE Inv'
<1> DEFINE listing == [NoRun EXCEPT !.phase = "list"]
<1>1. /\ lost' = (lost \/ held[c] # Absent \/ (c = Author /\ pipe.phase = "process"))
      /\ pipe' = (IF c = Author THEN NoPipe ELSE pipe)
      /\ creator' = (IF c = creator THEN Nobody ELSE creator)
      /\ view' = [view EXCEPT ![c] = row] /\ held' = [held EXCEPT ![c] = Absent]
      /\ run' = [run EXCEPT ![c] = listing] /\ follow' = [follow EXCEPT ![c] = NoFollow]
      /\ detached' = detached \ {c} /\ preview' = preview \ {c}
      /\ UNCHANGED <<job, row, deleting, claiming>>
   BY DEF Reload
<1>2. /\ listing \in Run /\ listing.phase = "list" /\ listing.first = "neither" /\ listing.job = None
   BY DEF NoRun, None, Run, Listing
<1> HIDE DEF listing
<1>3. /\ run' \in [Pages -> Run] /\ run'[c] = listing /\ \A d \in Pages : d # c => run'[d] = run[d]
   BY <1>1, <1>2 DEF TypeInv, Inv
<1>4. /\ follow' \in [Pages -> Reader] /\ \A d \in Pages : d # c => follow'[d] = follow[d]
      /\ follow'[c].pos = 0 /\ follow'[c].phase = "idle"
   BY <1>1, NoFollowFacts DEF Inv
<1>5. /\ view' \in [Pages -> Texts] /\ held' \in [Pages -> Texts] /\ view'[c] = row
      /\ held'[c] = Absent /\ \A d \in Pages : d # c => view'[d] = view[d] /\ held'[d] = held[d]
   BY <1>1, TextFacts DEF TypeInv, Inv
<1>6. /\ pipe' \in Pipe /\ NoPipe.phase = "idle" /\ NoPipe.delivered = 0 /\ lost' \in BOOLEAN
   BY <1>1 DEF TypeInv, NoPipe, Pipe, Inv
<1>7. TypeInv'
   BY <1>1, <1>3, <1>4, <1>5, <1>6 DEF TypeInv, Inv
<1>8. JobInv' /\ PipeInv'
   BY <1>1, <1>6, Facts DEF JobInv, PipeInv, Inv
<1>9. TextInv'
   BY <1>1, <1>4, <1>5, Facts, TextFacts DEF TextInv, Whole, Inv
<1>10. ListInv'
   BY <1>1, <1>2, <1>3, <1>4 DEF ListInv, Inv
<1>11. OneReader'
   BY <1>1, <1>2, <1>3, <1>4, <1>6 DEF OneReader, Managed, Inv
<1>12. KeptInv'
   BY <1>1, <1>5 DEF KeptInv, Kept, Inv
<1> QED BY <1>7, <1>8, <1>9, <1>10, <1>11, <1>12 DEF Inv

-----------------------------------------------------------------------------
(* The initial state, and every step.                                         *)

LEMMA InitInv == ASSUME Init PROVE Inv
<1>1. /\ job = [status |-> "none", live |-> FALSE, bytes |-> 0, aborting |-> FALSE, claimed |-> FALSE]
      /\ creator = Nobody /\ row = Absent /\ pipe = NoPipe /\ claiming = FALSE /\ deleting = FALSE
      /\ detached = {} /\ preview = {} /\ lost = FALSE
      /\ view = [c \in Pages |-> Absent] /\ held = [c \in Pages |-> Absent]
      /\ run = [c \in Pages |-> NoRun] /\ follow = [c \in Pages |-> NoFollow]
   BY DEF Init
<1>2. NoRun \in Run /\ NoRun.phase = "idle" /\ NoRun.first = "neither" /\ NoRun.job = None
   BY DEF NoRun, None, Run, Listing
<1>3. NoFollow \in Reader /\ NoFollow.pos = 0 /\ NoFollow.phase = "idle"
   BY DEF NoFollow, Reader
<1>4. NoPipe \in Pipe /\ NoPipe.phase = "idle" /\ NoPipe.delivered = 0
   BY DEF NoPipe, Pipe
<1>5. job \in Job /\ job.status = "none" /\ ~job.live /\ job.bytes = 0 /\ ~job.claimed
   BY <1>1 DEF Job, Statuses
<1>6. TypeInv
   BY <1>1, <1>2, <1>3, <1>4, <1>5, TextFacts DEF TypeInv
<1>7. JobInv /\ PipeInv /\ KeptInv
   BY <1>1, <1>4, <1>5 DEF JobInv, PipeInv, KeptInv
<1>8. TextInv
   BY <1>1, <1>3, <1>5, TextFacts DEF TextInv, Whole
<1>9. ListInv /\ OneReader
   BY <1>1, <1>2, <1>3, <1>4 DEF ListInv, OneReader
<1> QED BY <1>6, <1>7, <1>8, <1>9 DEF Inv

LEMMA InvStep == ASSUME Inv, [Next]_vars PROVE Inv'
<1>1. CASE UNCHANGED vars
   BY <1>1 DEF vars, server, author, screens, recovery, history, TypeInv, JobInv, PipeInv,
     TextInv, Whole, ListInv, OneReader, Managed, KeptInv, Kept, Inv
<1>2. CASE Server
   BY <1>2, AppendChunkStep, EndJobStep, HandleDeleteStep, LoseDeleteStep, HandleClaimStep,
     LoseClaimStep, SetStatusStep DEF Server
<1>3. CASE Pipeline
   BY <1>3, CreateJobStep, CreatedStep, CreateUnansweredStep, AttachStep, AttachThrowsStep,
     AttachFailsStep, ReadChunkStep, LoseStreamStep, FinishStep, ReattachStep,
     ReattachFailsStep, AbortStep, ProcessStep DEF Pipeline
<1>4. ASSUME NEW c \in Pages, CommitHeld(c) \/ Refresh(c) \/ Trigger(c) \/ Reload(c) PROVE Inv'
   BY <1>4, CommitHeldStep, RefreshStep, TriggerStep, ReloadStep
<1>5. ASSUME NEW c \in Pages, RunStep(c) PROVE Inv'
   BY <1>5, ListFirstStep, StartTerminalStep, SkipTerminalStep, ReadTerminalFailsStep,
     ReadTerminalStep, ClaimFailedStep DEF RunStep
<1>6. ASSUME NEW c \in Pages, FollowStep(c) PROVE Inv'
   BY <1>6, FollowChunkStep, FollowFailsStep, FollowAbortedStep, FollowDoneStep,
     FollowFailedStep DEF FollowStep
<1> QED BY <1>1, <1>2, <1>3, <1>4, <1>5, <1>6 DEF Next

\* The inductive invariant of the pages.
THEOREM ClientsInvariant == Spec => []Inv
<1>1. Init => Inv
   BY InitInv
<1>2. Inv /\ [Next]_vars => Inv'
   BY InvStep
<1> QED BY <1>1, <1>2, PTL DEF Spec

-----------------------------------------------------------------------------
(* What the pages promise.                                                  *)

(* A claimed answer is in the database, in the pipeline or held by a page      *)
(* that will store it: neither the claim of a pipeline nor that of a recovery  *)
(* is sent before someone has the text, except by a page that was closed.      *)
THEOREM ClaimedStays == Spec => []ClaimedIsKept
<1>1. Inv => ClaimedIsKept
   BY DEF KeptInv, Kept, ClaimedIsKept, Inv
<1> QED BY <1>1, ClientsInvariant, PTL

(* Only whole responses are stored raw, and the pipeline processes exactly the *)
(* response, whatever was lost and read again in between.                      *)
THEOREM WholeAnswers == Spec => []StoredIsWhole
<1>1. Inv => StoredIsWhole
   BY DEF TextInv, Whole, PipeInv, StoredIsWhole, Inv
<1> QED BY <1>1, ClientsInvariant, PTL

(* A page never recovers the job that its own pipeline manages.                *)
THEOREM NoSecondReader == Spec => []OneReader
<1>1. Inv => OneReader
   BY DEF Inv
<1> QED BY <1>1, ClientsInvariant, PTL
=============================================================================
