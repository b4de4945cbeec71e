-------------------------- MODULE MinerUPipeline ---------------------------
(***************************************************************************)
(* The mineru_parse handler (src-tauri/src/rag/tasks) on top of the rows   *)
(* of TaskRepository: a source is parsed locally or by the remote MinerU   *)
(* service, chunked, embedded, indexed and activated.  After each stage a  *)
(* checkpoint is written, fenced by the claim's attempt number, and a later*)
(* claim resumes from it.                                                  *)
(*                                                                         *)
(* A handler whose claim was lost may still be running: there is one       *)
(* instance per attempt.  The scheduler itself is reduced to what it does  *)
(* to the row (TaskScheduler has its own interleavings).  One document     *)
(* version is followed; the texts of its chunks differ.                    *)
(***************************************************************************)
EXTENDS TaskRepository, FiniteSets

CONSTANTS
  MuTask,         \* the task, the only element of Tasks
  MuChunks,       \* chunks of the parsed document
  MuMaxAttempts,  \* SchedulerConfig.max_attempts
  MuMaxFaults,    \* failures of the provider or the database, and crashes
  MuMaxCommands   \* cancellations, retries and edits of the provider profile

ASSUME MuTaskAssumption == MuTask \in Tasks

VARIABLES
  saved,    \* checkpoint_json: stage and remote batch; batch 0 is none
  handler,  \* attempt -> the handler instance
  batches,  \* remote batches by the attempt that created them
  version,  \* the rows of the document version
  mode,     \* "remote" or "local": the payload's provider profile
  profile,  \* the provider profile still has the payload's revision
  muUsed    \* faults and commands so far

muVars == <<rowVars, saved, handler, batches, version, mode, profile, muUsed>>
mineruVars == <<saved, handler, batches, version, mode, profile, muUsed>>

T == MuTask
Instances == 1..MaxClaims

MinerUStage == <<"source_stored", "submitting", "batch_created", "submitted", "polling",
                 "artifact_downloaded", "parsed", "chunked", "embedded", "indexed",
                 "activated">>
rank(stage) == IF stage = "none" THEN 0
               ELSE CHOOSE i \in DOMAIN MinerUStage : MinerUStage[i] = stage

NoHandler == [at |-> "none", stage |-> "none", batch |-> 0, seen |-> "none",
              outcome |-> "none"]

MuInit ==
  /\ state = [t \in Tasks |-> "queued"]
  /\ attempt = [t \in Tasks |-> 0]
  /\ cancel_requested = [t \in Tasks |-> FALSE]
  /\ next_run_at = [t \in Tasks |-> "none"]
  /\ saved = [stage |-> "none", batch |-> 0]
  /\ handler = [a \in Instances |-> NoHandler]
  /\ batches = [a \in Instances |-> "none"]
  /\ version = [sealed |-> FALSE, chunks |-> {}, linked |-> {}, indexed |-> FALSE,
                active |-> FALSE]
  /\ mode \in {"remote", "local"}
  /\ profile = TRUE
  /\ muUsed = [faults |-> 0, commands |-> 0]

MuFault == muUsed.faults < MuMaxFaults /\ muUsed' = [muUsed EXCEPT !.faults = @ + 1]
MuCommand == muUsed.commands < MuMaxCommands
             /\ muUsed' = [muUsed EXCEPT !.commands = @ + 1]

At(a, step) == handler[a].at = step
Working(a, stage) == At(a, "work") /\ handler[a].stage = stage
Go(a, step) == handler' = [handler EXCEPT ![a].at = step]
End(a, outcome) == handler' = [handler EXCEPT ![a] = [NoHandler EXCEPT !.at = "ended",
                                                      !.outcome = outcome]]

\* persist: the checkpoint is written, or the claim is lost and the handler
\* fails with a permanent error.
persist(a, stage, batch, schedule, step) ==
  \/ /\ checkpoint(T, a, schedule)
     /\ saved' = [stage |-> stage, batch |-> batch]
     /\ handler' = [handler EXCEPT ![a] = [NoHandler EXCEPT !.at = step, !.stage = stage,
                                                            !.batch = batch]]
  \/ /\ ~CheckpointOk(T, a)
     /\ End(a, "permanent")
     /\ UNCHANGED <<rowVars, saved>>

(***************************************************************************)
(* Claim and the head of the loop                                          *)
(***************************************************************************)

\* MinerUCheckpoint::validate: the remote id is there from batch_created on, and
\* a local parse has none.
validate(c) ==
  (c.batch # 0) <=> (mode = "remote" /\ rank(c.stage) >= rank("batch_created"))

\* claim_next and the spawned handler, which decodes the row's checkpoint.
Claim ==
  /\ claim_next(T)
  /\ handler' = [handler EXCEPT ![attempt[T] + 1] =
       IF validate(saved)
       THEN [NoHandler EXCEPT !.at = IF saved.stage = "none" THEN "first" ELSE "top",
                              !.stage = saved.stage, !.batch = saved.batch]
       ELSE [NoHandler EXCEPT !.at = "ended", !.outcome = "permanent"]]
  /\ UNCHANGED <<saved, batches, version, mode, profile, muUsed>>

FirstCheckpoint(a) ==
  /\ At(a, "first")
  /\ persist(a, "source_stored", 0, "none", "top")
  /\ UNCHANGED <<batches, version, mode, profile, muUsed>>

\* The flag is read without looking at the attempt; shutdown_requested ends the
\* handler too.
LoopHead(a) ==
  /\ At(a, "top")
  /\ \/ cancel_requested[T] /\ Go(a, "cancelling")
     \/ ~cancel_requested[T] /\ Go(a, "work")
     \/ ~cancel_requested[T] /\ state[T] = "interrupted" /\ End(a, "interrupted")
  /\ UNCHANGED <<rowVars, saved, batches, version, mode, profile, muUsed>>

\* cancel_remote: the MinerU adapter refuses every remote cancellation, and the
\* refusal is ignored.
CancelRemote(a) ==
  /\ At(a, "cancelling")
  /\ End(a, "cancelled")
  /\ UNCHANGED <<rowVars, saved, batches, version, mode, profile, muUsed>>

(***************************************************************************)
(* Submission                                                              *)
(***************************************************************************)

LocalParse(a) ==
  /\ Working(a, "source_stored") /\ mode = "local"
  /\ persist(a, "parsed", 0, "none", "top")
  /\ UNCHANGED <<batches, version, mode, profile, muUsed>>

\* Mutant: the service is called before the intention is recorded.
CreateUnrecorded(a) ==
  /\ Working(a, "source_stored") /\ mode = "remote" /\ profile
  /\ batches' = [batches EXCEPT ![a] = "created"]
  /\ handler' = [handler EXCEPT ![a].at = "created", ![a].stage = "submitting"]
  /\ UNCHANGED <<rowVars, saved, version, mode, profile, muUsed>>

\* The intention is recorded before the service is called.
MarkSubmitting(a) ==
  /\ Working(a, "source_stored") /\ mode = "remote"
  /\ \/ profile /\ persist(a, "submitting", 0, "none", "creating")
     \/ ~profile /\ End(a, "permanent") /\ UNCHANGED <<rowVars, saved>>
  /\ UNCHANGED <<batches, version, mode, profile, muUsed>>

create_batch(a) ==
  /\ At(a, "creating")
  /\ \/ /\ batches' = [batches EXCEPT ![a] = "created"]
        /\ Go(a, "created")
        /\ UNCHANGED muUsed
     \/ /\ MuFault  \* the answer is lost: the batch may exist or not
        /\ batches' \in {batches, [batches EXCEPT ![a] = "created"]}
        /\ End(a, "permanent")
  /\ UNCHANGED <<rowVars, saved, version, mode, profile>>

MarkBatchCreated(a) ==
  /\ At(a, "created")
  /\ persist(a, "batch_created", a, "none", "uploading")
  /\ UNCHANGED <<batches, version, mode, profile, muUsed>>

upload(a) ==
  /\ At(a, "uploading")
  /\ \/ /\ batches' = [batches EXCEPT ![a] = IF @ = "created" THEN "uploaded" ELSE @]
        /\ Go(a, "uploaded")
        /\ UNCHANGED muUsed
     \/ MuFault /\ End(a, "permanent") /\ UNCHANGED batches
  /\ UNCHANGED <<rowVars, saved, version, mode, profile>>

MarkSubmitted(a) ==
  /\ At(a, "uploaded")
  /\ persist(a, "submitted", handler[a].batch, "none", "top")
  /\ UNCHANGED <<batches, version, mode, profile, muUsed>>

\* A claim that resumes in the middle of the submission gives up for good.
UnknownSubmission(a) ==
  /\ At(a, "work") /\ handler[a].stage \in {"submitting", "batch_created"}
  /\ End(a, "permanent")
  /\ UNCHANGED <<rowVars, saved, batches, version, mode, profile, muUsed>>

MarkPolling(a) ==
  /\ Working(a, "submitted")
  /\ persist(a, "polling", handler[a].batch, "none", "top")
  /\ UNCHANGED <<batches, version, mode, profile, muUsed>>

(***************************************************************************)
(* Polling                                                                 *)
(***************************************************************************)

poll(a) ==
  /\ Working(a, "polling")
  /\ \/ ~profile /\ End(a, "permanent") /\ UNCHANGED muUsed
     \/ MuFault /\ profile /\ End(a, "retryable")
     \/ /\ profile
        /\ handler' = [handler EXCEPT ![a].at = "polled",
                                      ![a].seen = batches[handler[a].batch]]
        /\ UNCHANGED muUsed
  /\ UNCHANGED <<rowVars, saved, batches, version, mode, profile>>

\* The flag is read again before the status is acted on.
PollResult(a) ==
  LET seen == handler[a].seen
      b == handler[a].batch
  IN
  /\ At(a, "polled")
  /\ \/ /\ cancel_requested[T] /\ Go(a, "cancelling")
        /\ UNCHANGED <<rowVars, saved>>
     \/ /\ ~cancel_requested[T] /\ seen = "uploaded"
        /\ persist(a, "polling", b, "later", "waiting")
     \/ /\ ~cancel_requested[T] /\ seen = "done"
        /\ persist(a, "artifact_downloaded", b, "none", "top")
     \/ /\ ~cancel_requested[T] /\ seen \in {"failed", "cancelled"}
        /\ End(a, IF seen = "failed" THEN "permanent" ELSE "cancelled")
        /\ UNCHANGED <<rowVars, saved>>
  /\ UNCHANGED <<batches, version, mode, profile, muUsed>>

ReturnWaiting(a) ==
  /\ At(a, "waiting") /\ End(a, "waiting_external")
  /\ UNCHANGED <<rowVars, saved, batches, version, mode, profile, muUsed>>

\* The artifact is content-addressed: parsing it again gives the same object.
ParseArtifact(a) ==
  /\ Working(a, "artifact_downloaded")
  /\ persist(a, "parsed", handler[a].batch, "none", "top")
  /\ UNCHANGED <<batches, version, mode, profile, muUsed>>

(***************************************************************************)
(* Chunking, embedding and indexing                                        *)
(***************************************************************************)

\* The parsed document is read and cut: the same input gives the same chunks.
chunk(a) ==
  /\ Working(a, "parsed") /\ Go(a, "cut")
  /\ UNCHANGED <<rowVars, saved, batches, version, mode, profile, muUsed>>

seal_document_manifest(a) ==
  /\ At(a, "cut")
  /\ version' = [version EXCEPT !.sealed = TRUE]
  /\ Go(a, "sealed")
  /\ UNCHANGED <<rowVars, saved, batches, mode, profile, muUsed>>

\* persist_parsed_content reads the stored counts first.
stored_counts(a) ==
  /\ At(a, "sealed")
  /\ Go(a, IF version.chunks = MuChunks THEN "chunked" ELSE "inserting")
  /\ UNCHANGED <<rowVars, saved, batches, version, mode, profile, muUsed>>

\* All rows in one transaction; rows of a faster instance are a conflict.
persist_parsed_content(a) ==
  /\ At(a, "inserting")
  /\ \/ /\ version.chunks = {}
        /\ version' = [version EXCEPT !.chunks = MuChunks]
        /\ Go(a, "chunked")
     \/ /\ version.chunks # {}
        /\ End(a, "permanent")
        /\ UNCHANGED version
  /\ UNCHANGED <<rowVars, saved, batches, mode, profile, muUsed>>

MarkChunked(a) ==
  /\ At(a, "chunked")
  /\ persist(a, "chunked", handler[a].batch, "none", "top")
  /\ UNCHANGED <<batches, version, mode, profile, muUsed>>

\* Mutant: the stage is recorded before the chunks are linked.
EmbedAhead(a) ==
  /\ Working(a, "chunked")
  /\ persist(a, "embedded", handler[a].batch, "none", "top")
  /\ UNCHANGED <<batches, version, mode, profile, muUsed>>

\* persist_embedding_batch: the link goes to the vector of the chunk's text.
link_chunks(c) == version' = [version EXCEPT !.linked = @ \cup {c}]

\* embed_version links the missing chunks batch by batch; a batch in the model
\* is one chunk.  A vector is keyed by its text, so a second link is the same.
embed_version(a) ==
  /\ Working(a, "chunked")
  /\ \/ /\ version.linked # version.chunks
        /\ \/ /\ cancel_requested[T] /\ End(a, "permanent")
              /\ UNCHANGED <<version, muUsed>>
           \/ /\ MuFault /\ End(a, "retryable") /\ UNCHANGED version
           \/ /\ ~cancel_requested[T]
              /\ \E c \in version.chunks \ version.linked : link_chunks(c)
              /\ UNCHANGED <<handler, muUsed>>
     \/ /\ version.linked = version.chunks
        /\ Go(a, "embedded")
        /\ UNCHANGED <<version, muUsed>>
  /\ UNCHANGED <<rowVars, saved, batches, mode, profile>>

MarkEmbedded(a) ==
  /\ At(a, "embedded")
  /\ persist(a, "embedded", handler[a].batch, "none", "top")
  /\ UNCHANGED <<batches, version, mode, profile, muUsed>>

\* FTS rows and the watermark, in one transaction.
finalize_flat_index(a) ==
  /\ Working(a, "embedded")
  /\ \/ /\ version.linked = version.chunks
        /\ version' = [version EXCEPT !.indexed = TRUE]
        /\ Go(a, "indexed")
     \/ /\ version.linked # version.chunks
        /\ End(a, "permanent")
        /\ UNCHANGED version
  /\ UNCHANGED <<rowVars, saved, batches, mode, profile, muUsed>>

MarkIndexed(a) ==
  /\ At(a, "indexed")
  /\ persist(a, "indexed", handler[a].batch, "none", "top")
  /\ UNCHANGED <<batches, version, mode, profile, muUsed>>

(***************************************************************************)
(* Activation                                                              *)
(***************************************************************************)

CheckBeforeActivation(a) ==
  /\ Working(a, "indexed")
  /\ IF cancel_requested[T] THEN End(a, "cancelled") ELSE Go(a, "activating")
  /\ UNCHANGED <<rowVars, saved, batches, version, mode, profile, muUsed>>

Complete(v) == /\ v.sealed /\ v.chunks = MuChunks /\ v.linked = v.chunks /\ v.indexed

\* activate completes the task and publishes the version in one transaction.
activate_document_version_for_task(a) ==
  /\ At(a, "activating")
  /\ \/ /\ activate(T, a) /\ Complete(version)
        /\ version' = [version EXCEPT !.active = TRUE]
        /\ saved' = [saved EXCEPT !.stage = "activated"]
        /\ handler' = [handler EXCEPT ![a].at = "finalizing"]
     \/ /\ ~(ActivateOk(T, a) /\ Complete(version))
        /\ End(a, "permanent")
        /\ UNCHANGED <<rowVars, saved, version>>
  /\ UNCHANGED <<batches, mode, profile, muUsed>>

\* The row is completed, so the checkpoint is refused; completed_with_checkpoint
\* recognises the handler's own completion.
persist_final(a) ==
  /\ At(a, "finalizing")
  /\ IF state[T] = "completed" /\ attempt[T] = a /\ saved.stage = "activated"
     THEN handler' = [handler EXCEPT ![a].at = "top", ![a].stage = "activated"]
     ELSE End(a, "permanent")
  /\ UNCHANGED <<rowVars, saved, batches, version, mode, profile, muUsed>>

ReturnCompleted(a) ==
  /\ Working(a, "activated") /\ End(a, "completed")
  /\ UNCHANGED <<rowVars, saved, batches, version, mode, profile, muUsed>>

(***************************************************************************)
(* The scheduler, the service and the user                                 *)
(***************************************************************************)

\* finish: an accepted cancellation comes first, a lost row is left alone.
FinishClaim(a) ==
  LET outcome == handler[a].outcome IN
  /\ At(a, "ended")
  /\ handler' = [handler EXCEPT ![a] = [NoHandler EXCEPT !.at = "gone"]]
  /\ IF state[T] = "running" /\ attempt[T] = a
     THEN IF cancel_requested[T] THEN transition(T, a, "running", "cancelled")
          ELSE IF outcome = "retryable" /\ a < MuMaxAttempts THEN schedule_retry(T, a)
          ELSE transition(T, a, "running",
                          IF outcome \in {"retryable", "permanent"} THEN "failed"
                          ELSE outcome)
     ELSE UNCHANGED rowVars
  /\ UNCHANGED <<saved, batches, version, mode, profile, muUsed>>

\* cancel_active fences the claim of a cancelled task.
FenceCancelled ==
  /\ state[T] = "running" /\ cancel_requested[T]
  /\ transition(T, attempt[T], "running", "cancelled")
  /\ UNCHANGED mineruVars

\* Shutdown interrupts the row while its handler lives on.
Interrupt ==
  /\ MuFault
  /\ transition(T, attempt[T], "running", "interrupted")
  /\ UNCHANGED <<saved, handler, batches, version, mode, profile>>

Requeue ==
  /\ transition(T, attempt[T], "interrupted",
                IF cancel_requested[T] THEN "cancelled" ELSE "queued")
  /\ UNCHANGED mineruVars

\* The process ends; recovery finds a running row and interrupts it.
MuCrash ==
  /\ MuFault
  /\ handler' = [a \in Instances |-> IF handler[a].at = "none" THEN NoHandler
                                     ELSE [NoHandler EXCEPT !.at = "gone"]]
  /\ IF state[T] = "running" THEN transition(T, attempt[T], "running", "interrupted")
     ELSE UNCHANGED rowVars
  /\ UNCHANGED <<saved, batches, version, mode, profile>>

\* The remote service works on an uploaded batch.
RemoteWorks(b) ==
  /\ batches[b] = "uploaded"
  /\ \E result \in {"done", "failed", "cancelled"} :
        batches' = [batches EXCEPT ![b] = result]
  /\ UNCHANGED <<rowVars, saved, handler, version, mode, profile, muUsed>>

UserCancels ==
  /\ MuCommand
  /\ \/ request_running_cancellation(T, attempt[T])
     \/ state[T] \in {"queued", "waiting_external"}
        /\ transition(T, attempt[T], state[T], "cancelled")
  /\ UNCHANGED <<saved, handler, batches, version, mode, profile>>

UserRetries ==
  /\ MuCommand /\ retry_manually(T, attempt[T], state[T])
  /\ UNCHANGED <<saved, handler, batches, version, mode, profile>>

EditProfile ==
  /\ MuCommand /\ profile /\ profile' = FALSE
  /\ UNCHANGED <<rowVars, saved, handler, batches, version, mode>>

PollDue == ScheduleReached(T) /\ UNCHANGED mineruVars

HandlerStep(a) ==
  \/ FirstCheckpoint(a) \/ LoopHead(a) \/ CancelRemote(a)
  \/ LocalParse(a) \/ MarkSubmitting(a) \/ create_batch(a) \/ MarkBatchCreated(a)
  \/ upload(a) \/ MarkSubmitted(a) \/ UnknownSubmission(a) \/ MarkPolling(a)
  \/ poll(a) \/ PollResult(a) \/ ReturnWaiting(a) \/ ParseArtifact(a)
  \/ chunk(a) \/ seal_document_manifest(a) \/ stored_counts(a) \/ persist_parsed_content(a)
  \/ MarkChunked(a) \/ embed_version(a) \/ MarkEmbedded(a) \/ finalize_flat_index(a)
  \/ MarkIndexed(a) \/ CheckBeforeActivation(a) \/ activate_document_version_for_task(a)
  \/ persist_final(a) \/ ReturnCompleted(a) \/ FinishClaim(a)

MuNext ==
  \/ Claim \/ PollDue
  \/ \E a \in Instances : HandlerStep(a) \/ RemoteWorks(a)
  \/ FenceCancelled \/ Interrupt \/ Requeue \/ MuCrash
  \/ UserCancels \/ UserRetries \/ EditProfile

MuSpec == MuInit /\ [][MuNext]_muVars

(***************************************************************************)
(* Properties                                                              *)
(***************************************************************************)

Outcome == CASE state[T] = "completed" -> "completed"
             [] state[T] \in {"failed", "cancelled", "interrupted", "paused"} -> "stopped"
             [] OTHER -> "open"

Promise == INSTANCE DocumentPromise WITH
  submissions <- Cardinality({a \in Instances : batches[a] # "none"}),
  published <- version.active,
  outcome <- Outcome

\* Through crashes, lost answers, cancellations, manual retries and handlers that
\* outlive their claim, the pipeline keeps the promise of DocumentPromise: one
\* submission at most, and publication together with completion.
KeepsPromise == Promise!PromiseSpec

\* The checkpoint a later claim resumes from never runs ahead of what is really
\* there: the recorded batch exists, chunks are stored whole, every chunk is
\* linked before "embedded", the index is complete before "indexed", and only the
\* activated version is active.
CheckpointNeverAhead ==
  LET reached(stage) == rank(saved.stage) >= rank(stage) IN
  /\ validate(saved)
  /\ mode = "remote" /\ reached("batch_created") => batches[saved.batch] # "none"
  /\ mode = "remote" /\ reached("artifact_downloaded") => batches[saved.batch] = "done"
  /\ version.chunks \in {{}, MuChunks} /\ (version.chunks # {} => version.sealed)
  /\ reached("chunked") => version.chunks = MuChunks
  /\ reached("embedded") => version.linked = MuChunks
  /\ reached("indexed") => version.indexed
  /\ version.active <=> reached("activated")
=============================================================================
