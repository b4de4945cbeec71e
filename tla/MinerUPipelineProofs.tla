----------------------- MODULE MinerUPipelineProofs ------------------------
(***************************************************************************)
(* CheckpointNeverAhead and the refinement KeepsPromise for any number of  *)
(* attempts, chunks, faults and commands.                                  *)
(*                                                                         *)
(* A checkpoint is written by a handler from its own copy, so the          *)
(* induction is about the copies: what a handler believes at each place of *)
(* the loop is backed by the rows and the remote service (Backed, Place),  *)
(* and the handler whose attempt the row has agrees with the row (InSync). *)
(* Handlers of lost attempts may believe what they like about the row, but *)
(* the facts they rely on never go away again.                             *)
(***************************************************************************)
EXTENDS MinerUPipeline, FiniteSetTheorems, TLAPS

Stages == {"none", "source_stored", "submitting", "batch_created", "submitted", "polling",
           "artifact_downloaded", "parsed", "chunked", "embedded", "indexed", "activated"}

\* The stages from one on, in the order of MinerUStage.
FromIndexed == {"indexed", "activated"}
FromEmbedded == {"embedded"} \cup FromIndexed
FromChunked == {"chunked"} \cup FromEmbedded
FromDownloaded == {"artifact_downloaded", "parsed"} \cup FromChunked
FromBatch == {"batch_created", "submitted", "polling"} \cup FromDownloaded
RemoteStages == {"submitting", "batch_created", "submitted", "polling", "artifact_downloaded"}

Places == {"none", "ended", "gone", "first", "top", "work", "cancelling", "creating", "created",
           "uploading", "uploaded", "polled", "waiting", "cut", "sealed", "inserting", "chunked",
           "embedded", "indexed", "activating", "finalizing"}
BatchStates == {"none", "created", "uploaded", "done", "failed", "cancelled"}
Outcomes == {"none", "permanent", "retryable", "cancelled", "interrupted", "waiting_external",
             "completed"}

HandlerType == [at : Places, stage : Stages, batch : Attempts, seen : BatchStates,
                outcome : Outcomes]

VersionType == [sealed : BOOLEAN, chunks : SUBSET MuChunks, linked : SUBSET MuChunks,
                indexed : BOOLEAN, active : BOOLEAN]

MuTypeOK ==
  /\ RowTypeOK
  /\ saved \in [stage : Stages, batch : Attempts]
  /\ handler \in [Instances -> HandlerType]
  /\ batches \in [Instances -> BatchStates]
  /\ version \in VersionType
  /\ mode \in {"remote", "local"}
  /\ profile \in BOOLEAN

Live(h) == h.at \notin {"none", "ended", "gone"}

\* A stage and a batch, in the row or in a handler, stand for what is there: m is the
\* mode, bs the batches of the service, v the rows of the version.
Backed(c, m, bs, v) ==
  /\ c.batch # 0 <=> m = "remote" /\ c.stage \in FromBatch
  /\ c.stage \in RemoteStages => m = "remote"
  /\ c.batch # 0 => bs[c.batch] # "none"
  /\ m = "remote" /\ c.stage \in FromDownloaded => bs[c.batch] = "done"
  /\ c.stage \in FromChunked => v.chunks = MuChunks
  /\ c.stage \in FromEmbedded => v.linked = MuChunks
  /\ c.stage \in FromIndexed => v.indexed

\* Where a live handler stands, and what it has seen to get there; stored is the stage
\* of the row.
Place(a, h, bs, v, stored) ==
  /\ h.at = "first" <=> h.stage = "none"
  /\ h.at \in {"creating", "created"} => h.stage = "submitting"
  /\ h.at = "creating" => bs[a] = "none"
  /\ h.at = "created" => bs[a] # "none"
  /\ h.at \in {"uploading", "uploaded"} => h.stage = "batch_created"
  /\ h.at \in {"polled", "waiting"} => h.stage = "polling"
  /\ h.at = "polled" /\ h.seen = "done" => bs[h.batch] = "done"
  /\ h.at \in {"cut", "sealed", "inserting", "chunked"} => h.stage = "parsed"
  /\ h.at \in {"sealed", "inserting", "chunked"} => v.sealed
  /\ h.at = "chunked" => v.chunks = MuChunks
  /\ h.at = "embedded" => h.stage = "chunked" /\ v.linked = MuChunks
  /\ h.at = "indexed" => h.stage = "embedded" /\ v.indexed
  /\ h.at \in {"activating", "finalizing"} => h.stage = "indexed"
  /\ h.at = "finalizing" \/ h.stage = "activated" => stored = "activated"

HandlerOk(a, h, m, bs, v, stored) ==
  /\ Live(h) => Backed(h, m, bs, v) /\ Place(a, h, bs, v, stored)
  /\ h.outcome = "completed" => stored = "activated"

\* The handler of the row's attempt knows the row's checkpoint.
InSync(a, h, current, c) ==
  a = current /\ Live(h) =>
    /\ c.batch = h.batch
    /\ c.stage = IF h.at = "finalizing" THEN "activated" ELSE h.stage

HandlersOk == \A a \in Instances :
  /\ HandlerOk(a, handler[a], mode, batches, version, saved.stage)
  /\ InSync(a, handler[a], attempt[T], saved)

VersionOk(v, c) ==
  /\ v.chunks \in {{}, MuChunks} /\ (v.chunks # {} => v.sealed)
  /\ v.linked \subseteq v.chunks
  /\ v.active <=> c.stage = "activated"

CompletedOk == state[T] = "completed" <=> saved.stage = "activated"

\* The attempt that calls, or has called, the remote service.
Creator(a) == handler[a].at = "creating" \/ batches[a] # "none"

OneCreator ==
  /\ \A a, b \in Instances : Creator(a) /\ Creator(b) => a = b
  /\ \A a \in Instances : Creator(a) => saved.stage \notin {"none", "source_stored"}

MuInv ==
  /\ MuTypeOK
  /\ Backed(saved, mode, batches, version)
  /\ HandlersOk
  /\ VersionOk(version, saved)
  /\ CompletedOk
  /\ OneCreator

-----------------------------------------------------------------------------
(* What the facts rest on only grows.                                      *)

Grows(bs, bs2, v, v2) ==
  /\ \A b \in Instances : /\ bs[b] # "none" => bs2[b] # "none"
                          /\ bs[b] = "done" => bs2[b] = "done"
  /\ v.sealed => v2.sealed
  /\ v.chunks = MuChunks => v2.chunks = MuChunks
  /\ v.linked = MuChunks => v2.linked = MuChunks
  /\ v.indexed => v2.indexed

\* A batch number of a checkpoint is an attempt.
LEMMA BatchNumber == ASSUME NEW b \in Attempts, b # 0 PROVE b \in Instances
  BY MaxClaimsAssumption DEF Attempts, Instances

\* What backs a checkpoint stays.
LEMMA StaysBacked ==
  ASSUME NEW c, c.batch \in Attempts, NEW m, NEW bs, NEW bs2, NEW v, NEW v2,
         Backed(c, m, bs, v), Grows(bs, bs2, v, v2)
  PROVE  Backed(c, m, bs2, v2)
<1>1. c.batch # 0 => c.batch \in Instances BY BatchNumber
<1>2. m = "remote" /\ c.stage \in FromDownloaded => c.batch # 0
  BY DEF Backed, FromBatch
<1> QED BY <1>1, <1>2 DEF Backed, Grows

\* So does what a handler has seen, unless its own batch is created under it.
LEMMA StaysOk ==
  ASSUME NEW a \in Instances, NEW h, h.batch \in Attempts, NEW m,
         NEW bs, NEW bs2, NEW v, NEW v2, NEW s, NEW s2,
         HandlerOk(a, h, m, bs, v, s), Grows(bs, bs2, v, v2), bs2[a] = bs[a],
         s = "activated" => s2 = "activated"
  PROVE  HandlerOk(a, h, m, bs2, v2, s2)
<1>1. h.batch # 0 => h.batch \in Instances BY BatchNumber
<1>2. Live(h) => Backed(h, m, bs2, v2) BY StaysBacked DEF HandlerOk
<1>3. ASSUME Live(h) PROVE Place(a, h, bs2, v2, s2)
  <2>1. Backed(h, m, bs, v) /\ Place(a, h, bs, v, s) BY <1>3 DEF HandlerOk
  <2>2. h.at = "polled" => h.batch # 0 BY <2>1 DEF Backed, Place, FromBatch, RemoteStages
  <2> QED BY <1>1, <2>1, <2>2 DEF Place, Grows
<1> QED BY <1>2, <1>3 DEF HandlerOk

\* Nothing grows when nothing changes.
LEMMA GrowsStill == ASSUME NEW bs, NEW v PROVE Grows(bs, bs, v, v)
  BY DEF Grows
-----------------------------------------------------------------------------
(* The three shapes of a step.                                             *)

\* One handler moves on; the row may change, but not its attempt and its checkpoint.
LEMMA HandlerMoves ==
  ASSUME MuInv, NEW a \in Instances, NEW h \in HandlerType,
         handler' = [handler EXCEPT ![a] = h],
         RowTypeOK', attempt'[T] = attempt[T],
         state'[T] = "completed" <=> state[T] = "completed",
         saved' = saved, mode' = mode, profile' \in BOOLEAN,
         batches' \in [Instances -> BatchStates], version' \in VersionType,
         Grows(batches, batches', version, version'), VersionOk(version', saved),
         \A b \in Instances \ {a} : batches'[b] = batches[b],
         batches'[a] # "none" => Creator(a),
         h.at = "creating" => handler[a].at = "creating",
         HandlerOk(a, h, mode, batches', version', saved.stage),
         InSync(a, h, attempt[T], saved)
  PROVE  MuInv'
<1>1. handler \in [Instances -> HandlerType] BY DEF MuInv, MuTypeOK
<1>2. handler'[a] = h /\ \A b \in Instances \ {a} : handler'[b] = handler[b]
  BY <1>1
<1>3. MuTypeOK' BY <1>1 DEF MuInv, MuTypeOK
<1>4. Backed(saved, mode, batches, version)' 
  <2>1. saved.batch \in Attempts BY DEF MuInv, MuTypeOK
  <2>2. Backed(saved, mode, batches', version') BY <2>1, StaysBacked DEF MuInv
  <2> QED BY <2>2
<1>5. HandlersOk'
  <2> SUFFICES ASSUME NEW b \in Instances
               PROVE  /\ HandlerOk(b, handler'[b], mode, batches', version', saved.stage)
                      /\ InSync(b, handler'[b], attempt[T], saved)
    BY DEF HandlersOk
  <2>1. CASE b = a BY <1>2, <2>1
  <2>2. CASE b # a
    <3>1. handler'[b] = handler[b] /\ batches'[b] = batches[b] BY <1>2, <2>2
    <3>2. handler[b].batch \in Attempts BY <1>1 DEF HandlerType
    <3>3. /\ HandlerOk(b, handler[b], mode, batches, version, saved.stage)
          /\ InSync(b, handler[b], attempt[T], saved)
      BY DEF MuInv, HandlersOk
    <3>4. HandlerOk(b, handler[b], mode, batches', version', saved.stage)
      BY <3>1, <3>2, <3>3, StaysOk
    <3> QED BY <3>1, <3>3, <3>4
  <2> QED BY <2>1, <2>2
<1>6. \A b \in Instances : Creator(b)' => Creator(b)
  BY <1>2 DEF Creator
<1>7. OneCreator' BY <1>6 DEF MuInv, OneCreator
<1>8. VersionOk(version, saved)' /\ CompletedOk'
  BY DEF MuInv, CompletedOk
<1> QED BY <1>3, <1>4, <1>5, <1>7, <1>8 DEF MuInv

\* Only the row changes.
LEMMA RowMoves ==
  ASSUME MuInv, RowTypeOK', attempt'[T] = attempt[T],
         state'[T] = "completed" <=> state[T] = "completed",
         UNCHANGED <<saved, handler, batches, version, mode>>, profile' \in BOOLEAN
  PROVE  MuInv'
<1>1. MuTypeOK' BY DEF MuInv, MuTypeOK
<1>2. HandlersOk' BY DEF MuInv, HandlersOk
<1>3. OneCreator' BY DEF MuInv, OneCreator, Creator
<1>4. CompletedOk' BY DEF MuInv, CompletedOk
<1> QED BY <1>1, <1>2, <1>3, <1>4 DEF MuInv

\* A record with what persist leaves in the handler.
After(step, stage, batch) ==
  [NoHandler EXCEPT !.at = step, !.stage = stage, !.batch = batch]

\* Its fields.
LEMMA AfterFields ==
  ASSUME NEW step \in Places, NEW stage \in Stages, NEW batch \in Attempts
  PROVE  /\ After(step, stage, batch) \in HandlerType
         /\ After(step, stage, batch).at = step /\ After(step, stage, batch).stage = stage
         /\ After(step, stage, batch).batch = batch
         /\ After(step, stage, batch).outcome = "none"
  BY DEF After, NoHandler, HandlerType, BatchStates, Outcomes

\* The record of a handler that has ended.
Ended(outcome) == [NoHandler EXCEPT !.at = "ended", !.outcome = outcome]

\* Its fields.
LEMMA EndedFields ==
  ASSUME NEW outcome \in Outcomes
  PROVE  /\ Ended(outcome) \in HandlerType /\ ~Live(Ended(outcome))
         /\ Ended(outcome).outcome = outcome /\ Ended(outcome).at = "ended"
<1>1. 0 \in Attempts BY MaxClaimsAssumption DEF Attempts
<1> QED BY <1>1 DEF Ended, NoHandler, HandlerType, Places, Stages, BatchStates, Live

\* A handler ends, and nothing else happens but what its row may go through.
LEMMA HandlerEnds ==
  ASSUME MuInv, NEW a \in Instances, NEW outcome \in Outcomes, End(a, outcome),
         outcome = "completed" => saved.stage = "activated",
         UNCHANGED <<rowVars, saved, batches, version, mode, profile>>
  PROVE  MuInv'
<1>1. handler' = [handler EXCEPT ![a] = Ended(outcome)] BY DEF End, Ended
<1>2. UNCHANGED <<state, attempt, cancel_requested, next_run_at>> BY DEF rowVars
<1>3. RowTypeOK' BY <1>2 DEF MuInv, MuTypeOK, RowTypeOK
<1>4. HandlerOk(a, Ended(outcome), mode, batches', version', saved.stage)
  BY EndedFields DEF HandlerOk
<1>5. InSync(a, Ended(outcome), attempt[T], saved) BY EndedFields DEF InSync
<1>6. Grows(batches, batches', version, version') BY GrowsStill
<1>7. /\ profile' \in BOOLEAN /\ batches' \in [Instances -> BatchStates]
      /\ version' \in VersionType /\ VersionOk(version', saved)
  BY DEF MuInv, MuTypeOK
<1>8. batches'[a] # "none" => Creator(a) BY DEF Creator
<1> QED
  BY <1>1, <1>2, <1>3, <1>4, <1>5, <1>6, <1>7, <1>8, EndedFields, HandlerMoves

\* A checkpoint is written, or the handler ends because its claim is lost.
LEMMA PersistKeeps ==
  ASSUME MuInv, NEW a \in Instances, NEW stage \in Stages \ {"none", "activated"},
         NEW batch \in Attempts, NEW schedule \in Schedule, NEW step \in Places,
         persist(a, stage, batch, schedule, step),
         UNCHANGED <<batches, version, mode, profile>>,
         Live(handler[a]), handler[a].at # "finalizing",
         stage = "source_stored" => handler[a].stage = "none",
         step = "creating" => handler[a].stage = "source_stored",
         step \notin {"finalizing", "first"},
         Backed([stage |-> stage, batch |-> batch], mode, batches, version),
         step # "creating" \/ batches[a] = "none" =>
           Place(a, After(step, stage, batch), batches, version, stage)
  PROVE  MuInv'
<1>1. CASE ~CheckpointOk(T, a) /\ End(a, "permanent") /\ UNCHANGED <<rowVars, saved>>
  <2>1. "permanent" \in Outcomes BY DEF Outcomes
  <2> QED BY <1>1, <2>1, HandlerEnds
<1>2. CASE /\ checkpoint(T, a, schedule)
           /\ saved' = [stage |-> stage, batch |-> batch]
           /\ handler' = [handler EXCEPT ![a] = After(step, stage, batch)]
  <2>0. /\ handler \in [Instances -> HandlerType] /\ T \in Tasks
        /\ handler[a] \in HandlerType
    BY MuTaskAssumption DEF MuInv, MuTypeOK, T
  <2>1. /\ attempt[T] = a /\ state[T] \in {"running", "waiting_external"}
        /\ UNCHANGED <<state, attempt, cancel_requested>>
        /\ next_run_at' = [next_run_at EXCEPT ![T] = schedule]
    BY <1>2 DEF checkpoint, CheckpointOk
  <2>2. saved.stage # "activated" BY <2>1 DEF MuInv, CompletedOk
  <2>3. saved.stage = handler[a].stage
    BY <2>1 DEF MuInv, HandlersOk, InSync
  <2>4. /\ handler'[a] = After(step, stage, batch)
        /\ \A b \in Instances \ {a} : handler'[b] = handler[b]
    BY <1>2, <2>0
  <2>5. MuTypeOK'
    <3>1. RowTypeOK' BY <2>1 DEF MuInv, MuTypeOK, RowTypeOK
    <3>2. saved' \in [stage : Stages, batch : Attempts] BY <1>2
    <3>3. handler' \in [Instances -> HandlerType] BY <1>2, <2>0, AfterFields
    <3> QED BY <3>1, <3>2, <3>3 DEF MuInv, MuTypeOK
  <2>6. Backed(saved, mode, batches, version)' BY <1>2
  <2>7. step = "creating" => \A b \in Instances : ~Creator(b)
    BY <2>3 DEF MuInv, OneCreator
  <2>8. Backed(After(step, stage, batch), mode, batches, version)
    BY AfterFields DEF Backed
  <2>9. Place(a, After(step, stage, batch), batches, version, stage)
    BY <2>7 DEF Creator
  <2>10. HandlersOk'
    <3> SUFFICES ASSUME NEW b \in Instances
                 PROVE  /\ HandlerOk(b, handler'[b], mode, batches, version, stage)
                        /\ InSync(b, handler'[b], attempt[T], saved')
      BY <1>2, <2>1 DEF HandlersOk
    <3>1. CASE b = a
      <4>1. HandlerOk(a, After(step, stage, batch), mode, batches, version, stage)
        BY <2>8, <2>9, AfterFields DEF HandlerOk
      <4>2. InSync(a, After(step, stage, batch), attempt[T], saved')
        BY <1>2, AfterFields DEF InSync
      <4> QED BY <2>4, <3>1, <4>1, <4>2
    <3>2. CASE b # a
      <4>1. handler[b].batch \in Attempts BY <2>0 DEF HandlerType
      <4>2. HandlerOk(b, handler[b], mode, batches, version, saved.stage)
        BY DEF MuInv, HandlersOk
      <4>3. HandlerOk(b, handler[b], mode, batches, version, stage)
        BY <2>2, <4>1, <4>2, GrowsStill, StaysOk
      <4>4. InSync(b, handler'[b], attempt[T], saved') BY <2>1, <3>2 DEF InSync
      <4> QED BY <2>4, <3>2, <4>3, <4>4
    <3> QED BY <3>1, <3>2
  <2>11. VersionOk(version, saved)' BY <1>2, <2>2 DEF MuInv, VersionOk
  <2>12. CompletedOk' BY <1>2, <2>1 DEF CompletedOk
  <2>13. OneCreator'
    <3>1. \A b \in Instances \ {a} : Creator(b)' => Creator(b) BY <2>4 DEF Creator
    <3>2. CASE step = "creating"
      <4>1. stage \notin {"none", "source_stored"}
        BY <2>9, <3>2, AfterFields DEF Place
      <4>2. saved'.stage = stage BY <1>2
      <4>3. \A b \in Instances : Creator(b)' => b = a BY <2>7, <3>1, <3>2
      <4> QED BY <4>1, <4>2, <4>3 DEF OneCreator
    <3>3. CASE step # "creating"
      <4>1. Creator(a)' => Creator(a) BY <2>4, <3>3, AfterFields DEF Creator
      <4>2. (\E b \in Instances : Creator(b)) => stage \notin {"none", "source_stored"}
        BY <2>3 DEF MuInv, OneCreator
      <4> QED BY <1>2, <3>1, <4>1, <4>2 DEF MuInv, OneCreator
    <3> QED BY <3>2, <3>3
  <2> QED BY <2>5, <2>6, <2>10, <2>11, <2>12, <2>13 DEF MuInv
<1> QED BY <1>1, <1>2 DEF persist, After

-----------------------------------------------------------------------------
(* The order of the stages.                                                *)

\* The numbers rank gives to the stages.
LEMMA RankValues ==
  /\ rank("none") = 0 /\ rank("source_stored") = 1 /\ rank("submitting") = 2
  /\ rank("batch_created") = 3 /\ rank("submitted") = 4 /\ rank("polling") = 5
  /\ rank("artifact_downloaded") = 6 /\ rank("parsed") = 7 /\ rank("chunked") = 8
  /\ rank("embedded") = 9 /\ rank("indexed") = 10 /\ rank("activated") = 11
<1>1. DOMAIN MinerUStage = 1..11 BY DEF MinerUStage
<1>2. ASSUME NEW s, s # "none", NEW n \in 1..11,
             \A i \in 1..11 : MinerUStage[i] = s <=> i = n
      PROVE  rank(s) = n
  BY <1>1, <1>2 DEF rank
<1>3. \A i \in 1..11 : MinerUStage[i] = "source_stored" <=> i = 1 BY DEF MinerUStage
<1>4. \A i \in 1..11 : MinerUStage[i] = "submitting" <=> i = 2 BY DEF MinerUStage
<1>5. \A i \in 1..11 : MinerUStage[i] = "batch_created" <=> i = 3 BY DEF MinerUStage
<1>6. \A i \in 1..11 : MinerUStage[i] = "submitted" <=> i = 4 BY DEF MinerUStage
<1>7. \A i \in 1..11 : MinerUStage[i] = "polling" <=> i = 5 BY DEF MinerUStage
<1>8. \A i \in 1..11 : MinerUStage[i] = "artifact_downloaded" <=> i = 6 BY DEF MinerUStage
<1>9. \A i \in 1..11 : MinerUStage[i] = "parsed" <=> i = 7 BY DEF MinerUStage
<1>10. \A i \in 1..11 : MinerUStage[i] = "chunked" <=> i = 8 BY DEF MinerUStage
<1>11. \A i \in 1..11 : MinerUStage[i] = "embedded" <=> i = 9 BY DEF MinerUStage
<1>12. \A i \in 1..11 : MinerUStage[i] = "indexed" <=> i = 10 BY DEF MinerUStage
<1>13. \A i \in 1..11 : MinerUStage[i] = "activated" <=> i = 11 BY DEF MinerUStage
<1>14. rank("none") = 0 BY DEF rank
<1>15. /\ rank("source_stored") = 1 /\ rank("submitting") = 2
       /\ rank("batch_created") = 3 /\ rank("submitted") = 4
  BY <1>2, <1>3, <1>4, <1>5, <1>6
<1>16. /\ rank("polling") = 5 /\ rank("artifact_downloaded") = 6
       /\ rank("parsed") = 7 /\ rank("chunked") = 8
  BY <1>2, <1>7, <1>8, <1>9, <1>10
<1>17. /\ rank("embedded") = 9 /\ rank("indexed") = 10 /\ rank("activated") = 11
  BY <1>2, <1>11, <1>12, <1>13
<1> QED BY <1>14, <1>15, <1>16, <1>17

\* The stages from one on, as sets.
LEMMA RankOrder ==
  ASSUME NEW s \in Stages
  PROVE  /\ rank(s) >= rank("batch_created") <=> s \in FromBatch
         /\ rank(s) >= rank("artifact_downloaded") <=> s \in FromDownloaded
         /\ rank(s) >= rank("chunked") <=> s \in FromChunked
         /\ rank(s) >= rank("embedded") <=> s \in FromEmbedded
         /\ rank(s) >= rank("indexed") <=> s \in FromIndexed
         /\ rank(s) >= rank("activated") <=> s = "activated"
  BY RankValues
     DEF Stages, FromBatch, FromDownloaded, FromChunked, FromEmbedded, FromIndexed

\* A checkpoint that is backed passes the handler's validation.
LEMMA BackedIsValid ==
  ASSUME MuInv PROVE validate(saved)
<1>1. saved.stage \in Stages BY DEF MuInv, MuTypeOK
<1> QED BY <1>1, RankOrder DEF MuInv, Backed, validate

\* The invariant implies the property.
LEMMA InvImpliesCheckpoint ==
  ASSUME MuInv PROVE CheckpointNeverAhead
<1>1. saved.stage \in Stages BY DEF MuInv, MuTypeOK
<1>2. saved.batch # 0 <=> mode = "remote" /\ saved.stage \in FromBatch
  BY DEF MuInv, Backed
<1> QED BY <1>1, <1>2, RankOrder, BackedIsValid DEF MuInv, Backed, VersionOk, CheckpointNeverAhead

-----------------------------------------------------------------------------
(* The handler's steps.                                                    *)

\* What the invariant says of one handler.
LEMMA HandlerFacts ==
  ASSUME MuInv, NEW a \in Instances
  PROVE  /\ handler \in [Instances -> HandlerType] /\ handler[a] \in HandlerType
         /\ handler[a].stage \in Stages /\ handler[a].batch \in Attempts
         /\ handler[a].outcome \in Outcomes
         /\ Live(handler[a]) =>
              /\ Backed(handler[a], mode, batches, version)
              /\ Place(a, handler[a], batches, version, saved.stage)
         /\ handler[a].outcome = "completed" => saved.stage = "activated"
         /\ InSync(a, handler[a], attempt[T], saved)
  BY DEF MuInv, MuTypeOK, HandlersOk, HandlerOk, HandlerType

\* A handler goes to its next place with the checkpoint it has.
LEMMA Onward ==
  ASSUME MuInv, NEW a \in Instances, NEW h \in HandlerType,
         handler' = [handler EXCEPT ![a] = h],
         h.stage = handler[a].stage, h.batch = handler[a].batch,
         h.outcome = handler[a].outcome,
         Live(handler[a]), handler[a].at \notin {"first", "finalizing"},
         h.at \notin {"creating", "finalizing"},
         UNCHANGED <<rowVars, saved, mode, profile>>,
         batches' \in [Instances -> BatchStates], version' \in VersionType,
         Grows(batches, batches', version, version'), VersionOk(version', saved),
         \A b \in Instances \ {a} : batches'[b] = batches[b],
         batches'[a] # "none" => Creator(a),
         Place(a, h, batches', version', saved.stage)
  PROVE  MuInv'
<1>1. UNCHANGED <<state, attempt, cancel_requested, next_run_at>> BY DEF rowVars
<1>2. RowTypeOK' BY <1>1 DEF MuInv, MuTypeOK, RowTypeOK
<1>3. Backed(handler[a], mode, batches', version') BY HandlerFacts, StaysBacked
<1>4. Backed(h, mode, batches', version') BY <1>3 DEF Backed
<1>5. HandlerOk(a, h, mode, batches', version', saved.stage)
  BY <1>4, HandlerFacts DEF HandlerOk
<1>6. InSync(a, h, attempt[T], saved) BY HandlerFacts DEF InSync
<1>7. profile' \in BOOLEAN BY DEF MuInv, MuTypeOK
<1> QED BY <1>1, <1>2, <1>5, <1>6, <1>7, HandlerMoves

\* The same when the handler only changes its place.
LEMMA GoKeeps ==
  ASSUME MuInv, NEW a \in Instances, NEW step \in Places, Go(a, step),
         Live(handler[a]), handler[a].at \notin {"first", "finalizing"},
         step \notin {"none", "ended", "gone", "first", "creating", "finalizing"},
         UNCHANGED <<rowVars, saved, mode, profile>>,
         batches' \in [Instances -> BatchStates], version' \in VersionType,
         Grows(batches, batches', version, version'), VersionOk(version', saved),
         \A b \in Instances \ {a} : batches'[b] = batches[b],
         batches'[a] # "none" => Creator(a),
         \A h : h.at = step /\ h.stage = handler[a].stage =>
                  Place(a, h, batches', version', saved.stage)
  PROVE  MuInv'
<1> DEFINE h == [handler[a] EXCEPT !.at = step]
<1>1. handler[a] \in HandlerType BY HandlerFacts
<1>2. /\ h \in HandlerType /\ h.at = step /\ h.stage = handler[a].stage
      /\ h.batch = handler[a].batch /\ h.outcome = handler[a].outcome
  BY <1>1 DEF HandlerType
<1>3. handler' = [handler EXCEPT ![a] = h] BY DEF Go
<1>4. Place(a, h, batches', version', saved.stage) BY <1>2
<1> HIDE DEF h
<1> QED BY <1>2, <1>3, <1>4, Onward

\* The same when nothing but the handler changes.
LEMMA GoStill ==
  ASSUME MuInv, NEW a \in Instances, NEW step \in Places, Go(a, step),
         Live(handler[a]), handler[a].at \notin {"first", "finalizing"},
         step \notin {"none", "ended", "gone", "first", "creating", "finalizing", "polled"},
         UNCHANGED <<rowVars, saved, mode, profile, batches, version>>,
         \A h : h.at = step /\ h.stage = handler[a].stage =>
                  Place(a, h, batches, version, saved.stage)
  PROVE  MuInv'
<1>1. /\ batches' \in [Instances -> BatchStates] /\ version' \in VersionType
      /\ VersionOk(version', saved)
  BY DEF MuInv, MuTypeOK
<1>2. Grows(batches, batches', version, version') BY GrowsStill
<1>3. batches'[a] # "none" => Creator(a) BY DEF Creator
<1> QED BY <1>1, <1>2, <1>3, GoKeeps

\* The steps that write a checkpoint.
Persists(a) ==
  \/ FirstCheckpoint(a) \/ LocalParse(a) \/ MarkBatchCreated(a) \/ MarkSubmitted(a)
  \/ MarkPolling(a) \/ ParseArtifact(a) \/ MarkChunked(a) \/ MarkEmbedded(a) \/ MarkIndexed(a)

\* They keep the invariant: what the checkpoint says is backed by the handler's place.
LEMMA PersistsKeep ==
  ASSUME MuInv, NEW a \in Instances, Persists(a)
  PROVE  MuInv'
<1> DEFINE h == handler[a]
<1>0. /\ h \in HandlerType /\ h.stage \in Stages /\ h.batch \in Attempts
      /\ Live(h) => /\ Backed(h, mode, batches, version)
                     /\ Place(a, h, batches, version, saved.stage)
  BY HandlerFacts
<1>1. /\ 0 \in Attempts /\ a \in Attempts /\ a # 0
      /\ "none" \in Schedule /\ "later" \in Schedule
  BY MaxClaimsAssumption DEF Attempts, Instances, Schedule
<1>2. ASSUME NEW step \in Places \ {"none", "ended", "gone", "finalizing", "first", "creating"},
             NEW stage \in Stages \ {"none", "source_stored", "activated"},
             NEW batch \in Attempts, NEW schedule \in Schedule,
             persist(a, stage, batch, schedule, step),
             UNCHANGED <<batches, version, mode, profile>>,
             Live(h), h.at # "finalizing",
             Backed([stage |-> stage, batch |-> batch], mode, batches, version),
             \A g : g.at = step /\ g.stage = stage => Place(a, g, batches, version, stage)
      PROVE  MuInv'
  BY <1>2, AfterFields, PersistKeeps
<1>3. CASE FirstCheckpoint(a)
  <2>1. /\ h.at = "first" /\ Live(h) /\ persist(a, "source_stored", 0, "none", "top")
        /\ UNCHANGED <<batches, version, mode, profile>>
    BY <1>3 DEF FirstCheckpoint, At, Live
  <2>2. h.stage = "none" BY <1>0, <2>1 DEF Place
  <2>3. Backed([stage |-> "source_stored", batch |-> 0], mode, batches, version)
    BY DEF Backed, RemoteStages, FromBatch, FromDownloaded, FromChunked, FromEmbedded, FromIndexed
  <2>4. "source_stored" \in Stages /\ "top" \in Places BY DEF Stages, Places
  <2>5. Place(a, After("top", "source_stored", 0), batches, version, "source_stored")
    BY <1>1, <2>4, AfterFields DEF Place
  <2> QED BY <1>1, <2>1, <2>2, <2>3, <2>4, <2>5, PersistKeeps
<1> USE DEF Stages, Places, RemoteStages, FromBatch, FromDownloaded, FromChunked, FromEmbedded,
        FromIndexed
<1>4. CASE LocalParse(a)
  <2>1. /\ h.at = "work" /\ Live(h) /\ persist(a, "parsed", 0, "none", "top") /\ mode = "local"
        /\ UNCHANGED <<batches, version, mode, profile>>
    BY <1>4 DEF LocalParse, Working, At, Live
  <2>2. Backed([stage |-> "parsed", batch |-> 0], mode, batches, version)
    BY <2>1 DEF Backed
  <2> QED BY <1>1, <1>2, <2>1, <2>2 DEF Place
<1>5. CASE MarkBatchCreated(a)
  <2>1. /\ h.at = "created" /\ Live(h) /\ persist(a, "batch_created", a, "none", "uploading")
        /\ UNCHANGED <<batches, version, mode, profile>>
    BY <1>5 DEF MarkBatchCreated, At, Live
  <2>2. h.stage = "submitting" /\ batches[a] # "none" BY <1>0, <2>1 DEF Place
  <2>3. mode = "remote" BY <1>0, <2>1, <2>2 DEF Backed
  <2>4. Backed([stage |-> "batch_created", batch |-> a], mode, batches, version)
    BY <1>1, <2>2, <2>3 DEF Backed
  <2> QED BY <1>1, <1>2, <2>1, <2>4 DEF Place
<1>6. CASE MarkSubmitted(a)
  <2>1. /\ h.at = "uploaded" /\ Live(h) /\ persist(a, "submitted", h.batch, "none", "top")
        /\ UNCHANGED <<batches, version, mode, profile>>
    BY <1>6 DEF MarkSubmitted, At, Live
  <2>2. h.stage = "batch_created" BY <1>0, <2>1 DEF Place
  <2>3. Backed([stage |-> "submitted", batch |-> h.batch], mode, batches, version)
    BY <1>0, <2>1, <2>2 DEF Backed
  <2> QED BY <1>0, <1>1, <1>2, <2>1, <2>3 DEF Place
<1>7. CASE MarkPolling(a)
  <2>1. /\ h.at = "work" /\ Live(h) /\ persist(a, "polling", h.batch, "none", "top")
        /\ h.stage = "submitted" /\ UNCHANGED <<batches, version, mode, profile>>
    BY <1>7 DEF MarkPolling, Working, At, Live
  <2>2. Backed([stage |-> "polling", batch |-> h.batch], mode, batches, version)
    BY <1>0, <2>1 DEF Backed
  <2> QED BY <1>0, <1>1, <1>2, <2>1, <2>2 DEF Place
<1>8. CASE ParseArtifact(a)
  <2>1. /\ h.at = "work" /\ Live(h) /\ persist(a, "parsed", h.batch, "none", "top")
        /\ h.stage = "artifact_downloaded" /\ UNCHANGED <<batches, version, mode, profile>>
    BY <1>8 DEF ParseArtifact, Working, At, Live
  <2>2. Backed([stage |-> "parsed", batch |-> h.batch], mode, batches, version)
    BY <1>0, <2>1 DEF Backed
  <2> QED BY <1>0, <1>1, <1>2, <2>1, <2>2 DEF Place
<1>9. CASE MarkChunked(a)
  <2>1. /\ h.at = "chunked" /\ Live(h) /\ persist(a, "chunked", h.batch, "none", "top")
        /\ UNCHANGED <<batches, version, mode, profile>>
    BY <1>9 DEF MarkChunked, At, Live
  <2>2. h.stage = "parsed" /\ version.chunks = MuChunks BY <1>0, <2>1 DEF Place
  <2>3. Backed([stage |-> "chunked", batch |-> h.batch], mode, batches, version)
    BY <1>0, <2>1, <2>2 DEF Backed
  <2> QED BY <1>0, <1>1, <1>2, <2>1, <2>3 DEF Place
<1>10. CASE MarkEmbedded(a)
  <2>1. /\ h.at = "embedded" /\ Live(h) /\ persist(a, "embedded", h.batch, "none", "top")
        /\ UNCHANGED <<batches, version, mode, profile>>
    BY <1>10 DEF MarkEmbedded, At, Live
  <2>2. h.stage = "chunked" /\ version.linked = MuChunks BY <1>0, <2>1 DEF Place
  <2>3. Backed([stage |-> "embedded", batch |-> h.batch], mode, batches, version)
    BY <1>0, <2>1, <2>2 DEF Backed
  <2> QED BY <1>0, <1>1, <1>2, <2>1, <2>3 DEF Place
<1>11. CASE MarkIndexed(a)
  <2>1. /\ h.at = "indexed" /\ Live(h) /\ persist(a, "indexed", h.batch, "none", "top")
        /\ UNCHANGED <<batches, version, mode, profile>>
    BY <1>11 DEF MarkIndexed, At, Live
  <2>2. h.stage = "embedded" /\ version.indexed BY <1>0, <2>1 DEF Place
  <2>3. Backed([stage |-> "indexed", batch |-> h.batch], mode, batches, version)
    BY <1>0, <2>1, <2>2 DEF Backed
  <2> QED BY <1>0, <1>1, <1>2, <2>1, <2>3 DEF Place
<1> QED BY <1>3, <1>4, <1>5, <1>6, <1>7, <1>8, <1>9, <1>10, <1>11 DEF Persists

\* The steps of the submission that call the service or prepare the call.
LEMMA SubmissionKeeps ==
  ASSUME MuInv, NEW a \in Instances, MarkSubmitting(a) \/ create_batch(a) \/ upload(a)
  PROVE  MuInv'
<1> DEFINE h == handler[a]
<1>0. /\ h \in HandlerType /\ h.stage \in Stages /\ h.batch \in Attempts
      /\ Live(h) => /\ Backed(h, mode, batches, version)
                     /\ Place(a, h, batches, version, saved.stage)
      /\ batches \in [Instances -> BatchStates] /\ version \in VersionType
      /\ VersionOk(version, saved) /\ profile \in BOOLEAN
  BY HandlerFacts DEF MuInv, MuTypeOK
<1>1. 0 \in Attempts /\ "none" \in Schedule /\ "permanent" \in Outcomes
  BY MaxClaimsAssumption DEF Attempts, Schedule, Outcomes
<1>2. CASE MarkSubmitting(a)
  <2>1. /\ h.at = "work" /\ Live(h) /\ h.stage = "source_stored" /\ mode = "remote"
        /\ UNCHANGED <<batches, version, mode, profile>>
    BY <1>2 DEF MarkSubmitting, Working, At, Live
  <2>2. CASE persist(a, "submitting", 0, "none", "creating")
    <3>1. Backed([stage |-> "submitting", batch |-> 0], mode, batches, version)
      BY <2>1 DEF Backed, RemoteStages, FromBatch, FromDownloaded, FromChunked, FromEmbedded,
                  FromIndexed
    <3>2. "submitting" \in Stages /\ "creating" \in Places BY DEF Stages, Places
    <3>3. batches[a] = "none" =>
            Place(a, After("creating", "submitting", 0), batches, version, "submitting")
      BY <1>1, <3>2, AfterFields DEF Place
    <3> QED BY <1>1, <2>1, <2>2, <3>1, <3>2, <3>3, PersistKeeps
  <2>3. CASE End(a, "permanent") /\ UNCHANGED <<rowVars, saved>>
    BY <1>1, <2>1, <2>3, HandlerEnds
  <2> QED BY <1>2, <2>2, <2>3 DEF MarkSubmitting
<1>3. CASE create_batch(a)
  <2> DEFINE bs == [batches EXCEPT ![a] = "created"]
  <2>1. /\ h.at = "creating" /\ Live(h) /\ UNCHANGED <<rowVars, saved, version, mode, profile>>
    BY <1>3 DEF create_batch, At, Live
  <2>2. batches[a] = "none" /\ h.stage = "submitting" BY <1>0, <2>1 DEF Place
  <2>3. /\ bs \in [Instances -> BatchStates] /\ bs[a] = "created"
        /\ \A b \in Instances \ {a} : bs[b] = batches[b]
    BY <1>0 DEF BatchStates
  <2>4. Grows(batches, bs, version, version') BY <2>1, <2>2, <2>3 DEF Grows
  <2>5. Creator(a) BY <2>1 DEF Creator
  <2> HIDE DEF bs
  <2>6. CASE batches' = bs /\ Go(a, "created")
    <3>1. \A g : g.at = "created" /\ g.stage = "submitting" =>
                    Place(a, g, bs, version, saved.stage)
      BY <2>3 DEF Place
    <3>2. "created" \in Places BY DEF Places
    <3> QED BY <1>0, <2>1, <2>2, <2>3, <2>4, <2>5, <2>6, <3>1, <3>2, GoKeeps
  <2>7. CASE batches' = bs /\ End(a, "permanent")
    <3>1. handler' = [handler EXCEPT ![a] = Ended("permanent")] BY <2>7 DEF End, Ended
    <3>2. HandlerOk(a, Ended("permanent"), mode, batches', version', saved.stage)
      BY <1>1, EndedFields DEF HandlerOk
    <3>3. InSync(a, Ended("permanent"), attempt[T], saved) BY <1>1, EndedFields DEF InSync
    <3>4. RowTypeOK' /\ state' = state /\ attempt' = attempt
      BY <2>1 DEF rowVars, RowTypeOK, MuInv, MuTypeOK
    <3>5. Ended("permanent") \in HandlerType /\ Ended("permanent").at # "creating"
      BY <1>1, EndedFields
    <3> QED BY <1>0, <2>1, <2>3, <2>4, <2>5, <2>7, <3>1, <3>2, <3>3, <3>4, <3>5, HandlerMoves
  <2>8. CASE batches' = batches /\ End(a, "permanent")
    BY <1>1, <2>1, <2>8, HandlerEnds
  <2> QED BY <1>3, <2>6, <2>7, <2>8 DEF create_batch, bs
<1>4. CASE upload(a)
  <2> DEFINE bs == [batches EXCEPT ![a] = IF @ = "created" THEN "uploaded" ELSE @]
  <2>1. /\ h.at = "uploading" /\ Live(h) /\ UNCHANGED <<rowVars, saved, version, mode, profile>>
    BY <1>4 DEF upload, At, Live
  <2>2. h.stage = "batch_created" BY <1>0, <2>1 DEF Place
  <2>3. /\ bs \in [Instances -> BatchStates]
        /\ bs[a] # "none" => batches[a] # "none"
        /\ \A b \in Instances \ {a} : bs[b] = batches[b]
    BY <1>0 DEF BatchStates
  <2>4. Grows(batches, bs, version, version') BY <1>0, <2>1 DEF Grows
  <2>5. bs[a] # "none" => Creator(a) BY <2>3 DEF Creator
  <2> HIDE DEF bs
  <2>6. CASE batches' = bs /\ Go(a, "uploaded")
    <3>1. \A g : g.at = "uploaded" /\ g.stage = "batch_created" =>
                    Place(a, g, bs, version, saved.stage)
      BY DEF Place
    <3>2. "uploaded" \in Places BY DEF Places
    <3> QED BY <1>0, <2>1, <2>2, <2>3, <2>4, <2>5, <2>6, <3>1, <3>2, GoKeeps
  <2>7. CASE batches' = batches /\ End(a, "permanent")
    BY <1>1, <2>1, <2>7, HandlerEnds
  <2> QED BY <1>4, <2>6, <2>7 DEF upload, bs
<1> QED BY <1>2, <1>3, <1>4

\* Polling: what the handler has seen of its batch stays true.
LEMMA PollingKeeps ==
  ASSUME MuInv, NEW a \in Instances, poll(a) \/ PollResult(a)
  PROVE  MuInv'
<1> DEFINE h == handler[a]
<1>0. /\ h \in HandlerType /\ h.stage \in Stages /\ h.batch \in Attempts
      /\ Live(h) => /\ Backed(h, mode, batches, version)
                     /\ Place(a, h, batches, version, saved.stage)
      /\ batches \in [Instances -> BatchStates] /\ version \in VersionType
      /\ VersionOk(version, saved) /\ profile \in BOOLEAN
  BY HandlerFacts DEF MuInv, MuTypeOK
<1>1. /\ "permanent" \in Outcomes /\ "retryable" \in Outcomes /\ "cancelled" \in Outcomes
      /\ "none" \in Schedule /\ "later" \in Schedule
  BY DEF Outcomes, Schedule
<1>2. CASE poll(a)
  <2>1. /\ h.at = "work" /\ Live(h) /\ h.stage = "polling"
        /\ UNCHANGED <<rowVars, saved, batches, version, mode, profile>>
    BY <1>2 DEF poll, Working, At, Live
  <2>2. CASE handler' = [handler EXCEPT ![a].at = "polled", ![a].seen = batches[h.batch]]
    <3> DEFINE g == [h EXCEPT !.at = "polled", !.seen = batches[h.batch]]
    <3>1. h.batch # 0 BY <1>0, <2>1 DEF Backed, RemoteStages, FromBatch
    <3>2. batches[h.batch] \in BatchStates BY <1>0, <3>1, BatchNumber
    <3>3. /\ g \in HandlerType /\ g.at = "polled" /\ g.seen = batches[g.batch]
          /\ g.stage = h.stage /\ g.batch = h.batch /\ g.outcome = h.outcome
      BY <1>0, <3>2 DEF HandlerType, Places
    <3>4. handler' = [handler EXCEPT ![a] = g] BY <2>2, HandlerFacts
    <3> HIDE DEF g
    <3>5. Place(a, g, batches, version, saved.stage) BY <2>1, <3>3 DEF Place
    <3>6. Grows(batches, batches', version, version') BY <2>1, GrowsStill
    <3>7. batches'[a] # "none" => Creator(a) BY <2>1 DEF Creator
    <3> QED BY <1>0, <2>1, <3>3, <3>4, <3>5, <3>6, <3>7, Onward
  <2>3. CASE End(a, "permanent") BY <1>1, <2>1, <2>3, HandlerEnds
  <2>4. CASE End(a, "retryable") BY <1>1, <2>1, <2>4, HandlerEnds
  <2> QED BY <1>2, <2>2, <2>3, <2>4 DEF poll
<1>3. CASE PollResult(a)
  <2>1. h.at = "polled" /\ Live(h) /\ UNCHANGED <<batches, version, mode, profile>>
    BY <1>3 DEF PollResult, At, Live
  <2>2. h.stage = "polling" BY <1>0, <2>1 DEF Place
  <2>3. CASE Go(a, "cancelling") /\ UNCHANGED <<rowVars, saved>>
    <3>1. \A g : g.at = "cancelling" /\ g.stage = "polling" =>
                    Place(a, g, batches, version, saved.stage)
      BY DEF Place
    <3>2. "cancelling" \in Places BY DEF Places
    <3> QED BY <2>1, <2>2, <2>3, <3>1, <3>2, GoStill
  <2>4. CASE persist(a, "polling", h.batch, "later", "waiting")
    <3>1. "polling" \in Stages /\ "waiting" \in Places BY DEF Stages, Places
    <3>2. Backed([stage |-> "polling", batch |-> h.batch], mode, batches, version)
      BY <1>0, <2>1, <2>2 DEF Backed
    <3>3. Place(a, After("waiting", "polling", h.batch), batches, version, "polling")
      BY <1>0, <3>1, AfterFields DEF Place
    <3> QED BY <1>0, <1>1, <2>1, <2>4, <3>1, <3>2, <3>3, PersistKeeps
  <2>5. CASE h.seen = "done" /\ persist(a, "artifact_downloaded", h.batch, "none", "top")
    <3>1. "artifact_downloaded" \in Stages /\ "top" \in Places BY DEF Stages, Places
    <3>2. batches[h.batch] = "done" BY <1>0, <2>1, <2>5 DEF Place
    <3>3. Backed([stage |-> "artifact_downloaded", batch |-> h.batch], mode, batches, version)
      BY <1>0, <2>1, <2>2, <3>2
      DEF Backed, RemoteStages, FromBatch, FromDownloaded, FromChunked, FromEmbedded, FromIndexed
    <3>4. Place(a, After("top", "artifact_downloaded", h.batch), batches, version,
                "artifact_downloaded")
      BY <1>0, <3>1, AfterFields DEF Place
    <3> QED BY <1>0, <1>1, <2>1, <2>5, <3>1, <3>3, <3>4, PersistKeeps
  <2>6. CASE UNCHANGED <<rowVars, saved>> /\ \E o \in {"permanent", "cancelled"} : End(a, o)
    BY <1>1, <2>1, <2>6, HandlerEnds
  <2> QED BY <1>3, <2>3, <2>4, <2>5, <2>6 DEF PollResult
<1> QED BY <1>2, <1>3

\* The steps that only read, and end or go on.
LEMMA ReadingKeeps ==
  ASSUME MuInv, NEW a \in Instances,
         \/ LoopHead(a) \/ CancelRemote(a) \/ UnknownSubmission(a) \/ ReturnWaiting(a)
         \/ chunk(a) \/ stored_counts(a) \/ CheckBeforeActivation(a) \/ ReturnCompleted(a)
  PROVE  MuInv'
<1> DEFINE h == handler[a]
<1>0. /\ h \in HandlerType
      /\ Live(h) => /\ Backed(h, mode, batches, version)
                     /\ Place(a, h, batches, version, saved.stage)
  BY HandlerFacts
<1>1. UNCHANGED <<rowVars, saved, batches, version, mode, profile>>
  BY DEF LoopHead, CancelRemote, UnknownSubmission, ReturnWaiting, chunk, stored_counts,
         CheckBeforeActivation, ReturnCompleted
<1>2. ASSUME NEW o \in {"permanent", "cancelled", "interrupted", "waiting_external"}, End(a, o)
      PROVE  MuInv'
  <2>1. o \in Outcomes BY DEF Outcomes
  <2> QED BY <1>1, <1>2, <2>1, HandlerEnds
<1>3. CASE LoopHead(a)
  <2>1. h.at = "top" /\ Live(h) BY <1>3 DEF LoopHead, At, Live
  <2>2. h.stage # "none" /\ (h.stage = "activated" => saved.stage = "activated")
    BY <1>0, <2>1 DEF Place
  <2>3. ASSUME NEW step \in {"cancelling", "work"}, Go(a, step) PROVE MuInv'
    <3>1. \A g : g.at = step /\ g.stage = h.stage => Place(a, g, batches, version, saved.stage)
      BY <2>2 DEF Place
    <3>2. step \in Places BY DEF Places
    <3> QED BY <1>1, <2>1, <2>3, <3>1, <3>2, GoStill
  <2> QED BY <1>2, <1>3, <2>3 DEF LoopHead
<1>4. CASE CancelRemote(a) BY <1>2, <1>4 DEF CancelRemote
<1>5. CASE UnknownSubmission(a) BY <1>2, <1>5 DEF UnknownSubmission
<1>6. CASE ReturnWaiting(a) BY <1>2, <1>6 DEF ReturnWaiting
<1>7. CASE chunk(a)
  <2>1. h.at = "work" /\ Live(h) /\ h.stage = "parsed" BY <1>7 DEF chunk, Working, At, Live
  <2>2. \A g : g.at = "cut" /\ g.stage = "parsed" => Place(a, g, batches, version, saved.stage)
    BY DEF Place
  <2>3. "cut" \in Places BY DEF Places
  <2> QED BY <1>1, <1>7, <2>1, <2>2, <2>3, GoStill DEF chunk
<1>8. CASE stored_counts(a)
  <2>1. h.at = "sealed" /\ Live(h) BY <1>8 DEF stored_counts, At, Live
  <2>2. h.stage = "parsed" /\ version.sealed BY <1>0, <2>1 DEF Place
  <2>3. ASSUME NEW step \in {"chunked", "inserting"}, Go(a, step),
               step = "chunked" => version.chunks = MuChunks
        PROVE  MuInv'
    <3>1. \A g : g.at = step /\ g.stage = "parsed" => Place(a, g, batches, version, saved.stage)
      BY <2>2, <2>3 DEF Place
    <3>2. step \in Places BY DEF Places
    <3> QED BY <1>1, <2>1, <2>2, <2>3, <3>1, <3>2, GoStill
  <2> QED BY <1>8, <2>3 DEF stored_counts
<1>9. CASE CheckBeforeActivation(a)
  <2>1. h.at = "work" /\ Live(h) /\ h.stage = "indexed"
    BY <1>9 DEF CheckBeforeActivation, Working, At, Live
  <2>2. \A g : g.at = "activating" /\ g.stage = "indexed" =>
                 Place(a, g, batches, version, saved.stage)
    BY DEF Place
  <2>3. "activating" \in Places BY DEF Places
  <2>4. CASE Go(a, "activating") BY <1>1, <2>1, <2>2, <2>3, <2>4, GoStill
  <2> QED BY <1>2, <1>9, <2>4 DEF CheckBeforeActivation
<1>10. CASE ReturnCompleted(a)
  <2>1. h.at = "work" /\ Live(h) /\ h.stage = "activated" /\ End(a, "completed")
    BY <1>10 DEF ReturnCompleted, Working, At, Live
  <2>2. saved.stage = "activated" BY <1>0, <2>1 DEF Place
  <2>3. "completed" \in Outcomes BY DEF Outcomes
  <2> QED BY <1>1, <2>1, <2>2, <2>3, HandlerEnds
<1> QED BY <1>3, <1>4, <1>5, <1>6, <1>7, <1>8, <1>9, <1>10

\* The steps that store chunks, links and index rows of the version.
LEMMA StoringKeeps ==
  ASSUME MuInv, NEW a \in Instances,
         \/ seal_document_manifest(a) \/ persist_parsed_content(a) \/ embed_version(a)
         \/ finalize_flat_index(a)
  PROVE  MuInv'
<1> DEFINE h == handler[a]
<1>0. /\ h \in HandlerType /\ version \in VersionType /\ VersionOk(version, saved)
      /\ Live(h) => /\ Backed(h, mode, batches, version)
                     /\ Place(a, h, batches, version, saved.stage)
      /\ batches \in [Instances -> BatchStates]
  BY HandlerFacts DEF MuInv, MuTypeOK
<1>1. UNCHANGED <<rowVars, saved, batches, mode, profile>>
  BY DEF seal_document_manifest, persist_parsed_content, embed_version, finalize_flat_index
<1>2. ASSUME NEW o \in {"permanent", "retryable"}, End(a, o), version' = version
      PROVE  MuInv'
  <2>1. o \in Outcomes BY DEF Outcomes
  <2> QED BY <1>1, <1>2, <2>1, HandlerEnds
<1>3. batches'[a] # "none" => Creator(a) BY <1>1 DEF Creator
<1>4. ASSUME NEW v \in VersionType, version' = v, Live(h),
             h.at \notin {"first", "finalizing"}, VersionOk(v, saved),
             Grows(batches, batches, version, v),
             NEW step \in Places, Go(a, step),
             step \notin {"none", "ended", "gone", "first", "creating", "finalizing"},
             \A g : g.at = step /\ g.stage = h.stage => Place(a, g, batches, v, saved.stage)
      PROVE  MuInv'
  BY <1>0, <1>1, <1>3, <1>4, GoKeeps
<1>5. CASE seal_document_manifest(a)
  <2> DEFINE v == [version EXCEPT !.sealed = TRUE]
  <2>1. h.at = "cut" /\ Live(h) /\ version' = v /\ Go(a, "sealed")
    BY <1>5 DEF seal_document_manifest, At, Live
  <2>2. h.stage = "parsed" BY <1>0, <2>1 DEF Place
  <2>3. /\ v \in VersionType /\ v.sealed /\ v.chunks = version.chunks
        /\ v.linked = version.linked /\ v.indexed = version.indexed /\ v.active = version.active
    BY <1>0 DEF VersionType
  <2> HIDE DEF v
  <2>4. VersionOk(v, saved) /\ Grows(batches, batches, version, v)
    BY <1>0, <2>3 DEF VersionOk, Grows
  <2>5. \A g : g.at = "sealed" /\ g.stage = "parsed" => Place(a, g, batches, v, saved.stage)
    BY <2>3 DEF Place
  <2>6. "sealed" \in Places BY DEF Places
  <2> QED BY <1>4, <2>1, <2>2, <2>3, <2>4, <2>5, <2>6
<1>6. CASE persist_parsed_content(a)
  <2> DEFINE v == [version EXCEPT !.chunks = MuChunks]
  <2>1. h.at = "inserting" /\ Live(h) BY <1>6 DEF persist_parsed_content, At, Live
  <2>2. h.stage = "parsed" /\ version.sealed BY <1>0, <2>1 DEF Place
  <2>3. CASE version.chunks = {} /\ version' = v /\ Go(a, "chunked")
    <3>1. /\ v \in VersionType /\ v.chunks = MuChunks /\ v.sealed = version.sealed
          /\ v.linked = version.linked /\ v.indexed = version.indexed /\ v.active = version.active
      BY <1>0 DEF VersionType
    <3> HIDE DEF v
    <3>2. VersionOk(v, saved) /\ Grows(batches, batches, version, v)
      BY <1>0, <2>2, <2>3, <3>1 DEF VersionOk, Grows
    <3>3. \A g : g.at = "chunked" /\ g.stage = "parsed" => Place(a, g, batches, v, saved.stage)
      BY <2>2, <3>1 DEF Place
    <3>4. "chunked" \in Places BY DEF Places
    <3> QED BY <1>4, <2>1, <2>2, <2>3, <3>1, <3>2, <3>3, <3>4
  <2> QED BY <1>2, <1>6, <2>3 DEF persist_parsed_content
<1>7. CASE embed_version(a)
  <2>1. h.at = "work" /\ Live(h) /\ h.stage = "chunked"
    BY <1>7 DEF embed_version, Working, At, Live
  <2>2. version.chunks = MuChunks BY <1>0, <2>1 DEF Backed, FromChunked
  <2>3. ASSUME NEW c \in version.chunks \ version.linked, link_chunks(c), handler' = handler
        PROVE  MuInv'
    <3> DEFINE v == [version EXCEPT !.linked = @ \cup {c}]
    <3>1. /\ v \in VersionType /\ v.chunks = version.chunks /\ v.sealed = version.sealed
          /\ v.linked = version.linked \cup {c} /\ v.indexed = version.indexed
          /\ v.active = version.active
      BY <1>0, <2>2, <2>3 DEF VersionType
    <3>2. version' = v BY <2>3 DEF link_chunks
    <3> HIDE DEF v
    <3>3. VersionOk(v, saved) /\ Grows(batches, batches, version, v)
      BY <1>0, <2>2, <2>3, <3>1 DEF VersionOk, Grows
    <3>4. handler' = [handler EXCEPT ![a] = h] BY <2>3, HandlerFacts
    <3>5. HandlerOk(a, h, mode, batches, v, saved.stage)
      BY <3>3, HandlerFacts, StaysOk DEF HandlerOk
    <3>6. /\ RowTypeOK' /\ state' = state /\ attempt' = attempt
          /\ profile' \in BOOLEAN /\ saved' = saved /\ mode' = mode
      BY <1>1 DEF rowVars, RowTypeOK, MuInv, MuTypeOK
    <3>7. InSync(a, h, attempt[T], saved) BY HandlerFacts
    <3> QED
      BY <1>0, <1>1, <1>3, <2>3, <3>1, <3>2, <3>3, <3>4, <3>5, <3>6, <3>7, HandlerMoves
  <2>4. CASE version.linked = version.chunks /\ Go(a, "embedded") /\ version' = version
    <3>1. \A g : g.at = "embedded" /\ g.stage = "chunked" =>
                   Place(a, g, batches, version, saved.stage)
      BY <2>2, <2>4 DEF Place
    <3>2. "embedded" \in Places BY DEF Places
    <3> QED BY <1>0, <1>4, <2>1, <2>4, <3>1, <3>2, GrowsStill
  <2> QED BY <1>2, <1>7, <2>3, <2>4 DEF embed_version
<1>8. CASE finalize_flat_index(a)
  <2> DEFINE v == [version EXCEPT !.indexed = TRUE]
  <2>1. h.at = "work" /\ Live(h) /\ h.stage = "embedded"
    BY <1>8 DEF finalize_flat_index, Working, At, Live
  <2>2. CASE version' = v /\ Go(a, "indexed")
    <3>1. /\ v \in VersionType /\ v.chunks = version.chunks /\ v.sealed = version.sealed
          /\ v.linked = version.linked /\ v.indexed /\ v.active = version.active
      BY <1>0 DEF VersionType
    <3> HIDE DEF v
    <3>2. VersionOk(v, saved) /\ Grows(batches, batches, version, v)
      BY <1>0, <3>1 DEF VersionOk, Grows
    <3>3. \A g : g.at = "indexed" /\ g.stage = "embedded" => Place(a, g, batches, v, saved.stage)
      BY <3>1 DEF Place
    <3>4. "indexed" \in Places BY DEF Places
    <3> QED BY <1>4, <2>1, <2>2, <3>1, <3>2, <3>3, <3>4
  <2> QED BY <1>2, <1>8, <2>2 DEF finalize_flat_index
<1> QED BY <1>5, <1>6, <1>7, <1>8

\* Activation: the row, the checkpoint and the version change together.
LEMMA ActivationKeeps ==
  ASSUME MuInv, NEW a \in Instances, activate_document_version_for_task(a)
  PROVE  MuInv'
<1> DEFINE h == handler[a]
           g == [h EXCEPT !.at = "finalizing"]
           v == [version EXCEPT !.active = TRUE]
<1>0. /\ h.at = "activating" /\ Live(h) /\ UNCHANGED <<batches, mode, profile>>
  BY DEF activate_document_version_for_task, At, Live
<1>1. /\ h \in HandlerType /\ version \in VersionType /\ VersionOk(version, saved)
      /\ Backed(h, mode, batches, version) /\ Place(a, h, batches, version, saved.stage)
      /\ InSync(a, h, attempt[T], saved) /\ handler \in [Instances -> HandlerType]
      /\ saved \in [stage : Stages, batch : Attempts] /\ T \in Tasks
  BY <1>0, HandlerFacts, MuTaskAssumption DEF MuInv, MuTypeOK, T
<1>2. h.stage = "indexed" BY <1>0, <1>1 DEF Place
<1>3. CASE End(a, "permanent") /\ UNCHANGED <<rowVars, saved, version>>
  <2>1. "permanent" \in Outcomes BY DEF Outcomes
  <2> QED BY <1>0, <1>3, <2>1, HandlerEnds
<1>4. CASE /\ activate(T, a) /\ version' = v
           /\ saved' = [saved EXCEPT !.stage = "activated"]
           /\ handler' = [handler EXCEPT ![a].at = "finalizing"]
  <2>1. /\ attempt[T] = a /\ attempt' = attempt /\ state'[T] = "completed" /\ RowTypeOK'
    BY <1>1, <1>4 DEF activate, ActivateOk, MuInv, MuTypeOK, RowTypeOK, TaskState, Schedule
  <2>2. saved.stage = "indexed" /\ saved.batch = h.batch BY <1>0, <1>1, <1>2, <2>1 DEF InSync
  <2>3. /\ saved' \in [stage : Stages, batch : Attempts]
        /\ saved'.stage = "activated" /\ saved'.batch = saved.batch
    BY <1>1, <1>4 DEF Stages
  <2>4. /\ g \in HandlerType /\ g.at = "finalizing" /\ g.stage = "indexed" /\ g.batch = h.batch
        /\ g.outcome = h.outcome
    BY <1>1, <1>2 DEF HandlerType, Places
  <2>5. /\ handler' \in [Instances -> HandlerType] /\ handler'[a] = g
        /\ \A b \in Instances \ {a} : handler'[b] = handler[b]
    BY <1>1, <1>4, <2>4
  <2>6. /\ version' \in VersionType /\ version'.active /\ version'.sealed = version.sealed
        /\ version'.chunks = version.chunks /\ version'.linked = version.linked
        /\ version'.indexed = version.indexed
    BY <1>1, <1>4 DEF VersionType
  <2> HIDE DEF g, v
  <2>7. MuTypeOK' BY <1>0, <2>1, <2>3, <2>5, <2>6 DEF MuInv, MuTypeOK
  <2>8. Grows(batches, batches, version, version') BY <2>6 DEF Grows
  <2>9. Backed(h, mode, batches, version') BY <1>1, <2>8, StaysBacked DEF HandlerType
  <2>10. Backed(saved, mode, batches, version)'
    BY <1>0, <1>2, <2>2, <2>3, <2>9
    DEF Backed, RemoteStages, FromBatch, FromDownloaded, FromChunked, FromEmbedded, FromIndexed
  <2>11. HandlersOk'
    <3> SUFFICES ASSUME NEW b \in Instances
                 PROVE  /\ HandlerOk(b, handler'[b], mode, batches, version', "activated")
                        /\ InSync(b, handler'[b], a, saved')
      BY <1>0, <2>1, <2>3 DEF HandlersOk
    <3>1. CASE b = a
      <4>1. Backed(g, mode, batches, version') BY <1>2, <2>4, <2>9 DEF Backed
      <4>2. Place(a, g, batches, version', "activated") BY <2>4 DEF Place
      <4>3. HandlerOk(a, g, mode, batches, version', "activated") BY <4>1, <4>2 DEF HandlerOk
      <4>4. InSync(a, g, a, saved') BY <2>2, <2>3, <2>4 DEF InSync
      <4> QED BY <2>5, <3>1, <4>3, <4>4
    <3>2. CASE b # a
      <4>1. /\ HandlerOk(b, handler[b], mode, batches, version, saved.stage)
            /\ handler[b].batch \in Attempts
        BY HandlerFacts DEF MuInv, HandlersOk
      <4>2. HandlerOk(b, handler[b], mode, batches, version', "activated")
        BY <2>8, <4>1, StaysOk
      <4> QED BY <2>5, <3>2, <4>2 DEF InSync
    <3> QED BY <3>1, <3>2
  <2>12. VersionOk(version, saved)' BY <1>1, <2>3, <2>6 DEF VersionOk
  <2>13. CompletedOk' BY <2>1, <2>3 DEF CompletedOk
  <2>14. \A b \in Instances : Creator(b)' => Creator(b) BY <1>0, <2>4, <2>5 DEF Creator
  <2>15. OneCreator' BY <2>3, <2>14 DEF MuInv, OneCreator
  <2> QED BY <2>7, <2>10, <2>11, <2>12, <2>13, <2>15 DEF MuInv
<1> QED BY <1>3, <1>4 DEF activate_document_version_for_task

\* The handler recognises its own completion.
LEMMA FinalKeeps ==
  ASSUME MuInv, NEW a \in Instances, persist_final(a)
  PROVE  MuInv'
<1> DEFINE h == handler[a]
           g == [h EXCEPT !.at = "top", !.stage = "activated"]
<1>0. /\ h.at = "finalizing" /\ Live(h)
      /\ UNCHANGED <<rowVars, saved, batches, version, mode, profile>>
  BY DEF persist_final, At, Live
<1>1. /\ h \in HandlerType /\ Backed(h, mode, batches, version)
      /\ Place(a, h, batches, version, saved.stage) /\ InSync(a, h, attempt[T], saved)
      /\ handler \in [Instances -> HandlerType]
      /\ batches \in [Instances -> BatchStates] /\ version \in VersionType
      /\ VersionOk(version, saved) /\ profile \in BOOLEAN
  BY <1>0, HandlerFacts DEF MuInv, MuTypeOK
<1>2. h.stage = "indexed" /\ saved.stage = "activated" BY <1>0, <1>1 DEF Place
<1>3. CASE End(a, "permanent")
  <2>1. "permanent" \in Outcomes BY DEF Outcomes
  <2> QED BY <1>0, <1>3, <2>1, HandlerEnds
<1>4. CASE handler' = [handler EXCEPT ![a].at = "top", ![a].stage = "activated"]
  <2>1. /\ g \in HandlerType /\ g.at = "top" /\ g.stage = "activated" /\ g.batch = h.batch
        /\ handler' = [handler EXCEPT ![a] = g]
    BY <1>1, <1>4 DEF HandlerType, Places, Stages
  <2> HIDE DEF g
  <2>2. Backed(g, mode, batches, version)
    BY <1>1, <1>2, <2>1
    DEF Backed, RemoteStages, FromBatch, FromDownloaded, FromChunked, FromEmbedded, FromIndexed
  <2>3. Place(a, g, batches, version, saved.stage) BY <1>2, <2>1 DEF Place
  <2>4. HandlerOk(a, g, mode, batches, version, saved.stage)
    BY <1>2, <2>2, <2>3 DEF HandlerOk
  <2>5. InSync(a, g, attempt[T], saved) BY <1>0, <1>1, <1>2, <2>1 DEF InSync
  <2>6. RowTypeOK' /\ state' = state /\ attempt' = attempt
    BY <1>0 DEF rowVars, RowTypeOK, MuInv, MuTypeOK
  <2>7. Grows(batches, batches', version, version') BY <1>0, GrowsStill
  <2>8. batches'[a] # "none" => Creator(a) BY <1>0 DEF Creator
  <2> QED BY <1>0, <1>1, <2>1, <2>4, <2>5, <2>6, <2>7, <2>8, HandlerMoves
<1> QED BY <1>3, <1>4 DEF persist_final

\* A transition of the row keeps its type, its attempt and, unless it is about that
\* state, whether it is completed.
LEMMA TransitionFacts ==
  ASSUME MuInv, NEW b, NEW from, NEW to, transition(T, b, from, to)
  PROVE  /\ RowTypeOK' /\ attempt' = attempt
         /\ state[T] = from /\ state'[T] = to /\ from # "completed"
<1>1. T \in Tasks /\ RowTypeOK BY MuTaskAssumption DEF T, MuInv, MuTypeOK
<1>2. state[T] = from /\ can_transition_to(from, to) BY DEF transition, TransitionOk
<1>3. to \in TaskState /\ from # "completed" BY <1>2 DEF can_transition_to, TaskState
<1> QED BY <1>1, <1>2, <1>3 DEF transition, RowTypeOK, Schedule

\* finish closes the claim; only activation completes the task.
LEMMA FinishKeeps ==
  ASSUME MuInv, NEW a \in Instances, FinishClaim(a)
  PROVE  MuInv'
<1> DEFINE g == [NoHandler EXCEPT !.at = "gone"]
<1>0. /\ handler' = [handler EXCEPT ![a] = g]
      /\ UNCHANGED <<saved, batches, version, mode, profile>>
  BY DEF FinishClaim
<1>1. /\ g \in HandlerType /\ g.at = "gone" /\ g.outcome = "none"
  <2>1. 0 \in Attempts BY MaxClaimsAssumption DEF Attempts
  <2> QED BY <2>1 DEF NoHandler, HandlerType, Places, Stages, BatchStates, Outcomes
<1> HIDE DEF g
<1>2. /\ HandlerOk(a, g, mode, batches', version', saved.stage)
      /\ InSync(a, g, attempt[T], saved)
  BY <1>1 DEF HandlerOk, InSync, Live
<1>3. /\ batches' \in [Instances -> BatchStates] /\ version' \in VersionType
      /\ VersionOk(version', saved) /\ profile' \in BOOLEAN
      /\ RowTypeOK /\ T \in Tasks
  BY <1>0, MuTaskAssumption DEF MuInv, MuTypeOK, T
<1>4. Grows(batches, batches', version, version') BY <1>0, GrowsStill
<1>5. batches'[a] # "none" => Creator(a) BY <1>0 DEF Creator
<1>6. /\ RowTypeOK' /\ attempt' = attempt
      /\ state'[T] = "completed" <=> state[T] = "completed"
  <2>1. CASE UNCHANGED rowVars BY <1>3, <2>1 DEF rowVars, RowTypeOK
  <2>2. CASE schedule_retry(T, a)
    BY <1>3, <2>2 DEF schedule_retry, ScheduleRetryOk, RowTypeOK, TaskState, Schedule
  <2>3. ASSUME NEW to, to # "completed", transition(T, a, "running", to)
        PROVE  /\ RowTypeOK' /\ attempt' = attempt
               /\ state'[T] = "completed" <=> state[T] = "completed"
    BY <2>3, TransitionFacts
  <2>4. handler[a].outcome = "completed" => state[T] = "completed"
    BY HandlerFacts DEF MuInv, CompletedOk
  <2> QED BY <2>1, <2>2, <2>3, <2>4 DEF FinishClaim
<1> QED BY <1>0, <1>1, <1>2, <1>3, <1>4, <1>5, <1>6, HandlerMoves

\* Every step of a handler keeps the invariant.
LEMMA HandlerStepKeeps ==
  ASSUME MuInv, NEW a \in Instances, HandlerStep(a)
  PROVE  MuInv'
  BY PersistsKeep, SubmissionKeeps, PollingKeeps, ReadingKeeps, StoringKeeps, ActivationKeeps,
     FinalKeeps, FinishKeeps
  DEF HandlerStep, Persists

-----------------------------------------------------------------------------
(* The scheduler, the service and the user.                                *)

\* A claim starts a handler from the row's checkpoint, which is valid.
LEMMA ClaimKeeps ==
  ASSUME MuInv, Claim PROVE MuInv'
<1> DEFINE a == attempt[T] + 1
           h == After(IF saved.stage = "none" THEN "first" ELSE "top", saved.stage, saved.batch)
<1>0. /\ T \in Tasks /\ RowTypeOK /\ saved \in [stage : Stages, batch : Attempts]
      /\ handler \in [Instances -> HandlerType]
      /\ UNCHANGED <<saved, batches, version, mode, profile>>
  BY MuTaskAssumption DEF T, MuInv, MuTypeOK, Claim
<1>1. /\ state[T] \in {"queued", "waiting_external"} /\ attempt[T] < MaxClaims
      /\ state' = [state EXCEPT ![T] = "running"] /\ attempt' = [attempt EXCEPT ![T] = @ + 1]
      /\ UNCHANGED <<cancel_requested, next_run_at>>
  <2>1. Claimable(T) BY DEF Claim, claim_next, Candidates
  <2> QED BY <2>1 DEF Claim, claim_next, Claimable
<1>2. /\ a \in Instances /\ a \in Attempts /\ attempt'[T] = a /\ state'[T] = "running"
  BY <1>0, <1>1, MaxClaimsAssumption DEF RowTypeOK, Attempts, Instances
<1>3. RowTypeOK' BY <1>0, <1>1, <1>2 DEF RowTypeOK, TaskState
<1>4. saved.stage # "activated" BY <1>1 DEF MuInv, CompletedOk
<1>5. /\ h \in HandlerType /\ h.at = IF saved.stage = "none" THEN "first" ELSE "top"
      /\ h.stage = saved.stage /\ h.batch = saved.batch /\ h.outcome = "none"
  BY <1>0, AfterFields DEF Places
<1>6. handler' = [handler EXCEPT ![a] = h] BY BackedIsValid DEF Claim, After
<1> HIDE DEF h
<1>7. handler'[a] = h /\ \A b \in Instances \ {a} : handler'[b] = handler[b]
  BY <1>0, <1>2, <1>6
<1>8. handler' \in [Instances -> HandlerType] BY <1>0, <1>5, <1>6
<1>9. MuTypeOK' BY <1>0, <1>3, <1>8 DEF MuInv, MuTypeOK
<1>10. HandlersOk'
  <2> SUFFICES ASSUME NEW b \in Instances
               PROVE  /\ HandlerOk(b, handler'[b], mode, batches, version, saved.stage)
                      /\ InSync(b, handler'[b], a, saved)
    BY <1>0, <1>2 DEF HandlersOk
  <2>1. CASE b = a
    <3>1. Backed(h, mode, batches, version) BY <1>5 DEF MuInv, Backed
    <3>2. Place(a, h, batches, version, saved.stage) BY <1>4, <1>5 DEF Place
    <3>3. InSync(a, h, a, saved) BY <1>5 DEF InSync
    <3> QED BY <1>5, <1>7, <2>1, <3>1, <3>2, <3>3 DEF HandlerOk
  <2>2. CASE b # a
    BY <1>7, <2>2 DEF MuInv, HandlersOk, InSync
  <2> QED BY <2>1, <2>2
<1>11. \A b \in Instances : Creator(b)' => Creator(b) BY <1>0, <1>5, <1>7 DEF Creator
<1>12. OneCreator' BY <1>0, <1>11 DEF MuInv, OneCreator
<1>13. CompletedOk' BY <1>0, <1>2, <1>4 DEF CompletedOk
<1>14. Backed(saved, mode, batches, version)' /\ VersionOk(version, saved)'
  BY <1>0 DEF MuInv
<1> QED BY <1>9, <1>10, <1>12, <1>13, <1>14 DEF MuInv

\* After a crash no handler is left.
LEMMA CrashKeeps ==
  ASSUME MuInv, MuCrash PROVE MuInv'
<1>0. UNCHANGED <<saved, batches, version, mode, profile>> BY DEF MuCrash
<1>1. /\ RowTypeOK' /\ attempt' = attempt
      /\ state'[T] = "completed" <=> state[T] = "completed"
  <2>1. CASE UNCHANGED rowVars BY <2>1 DEF rowVars, RowTypeOK, MuInv, MuTypeOK
  <2>2. CASE transition(T, attempt[T], "running", "interrupted") BY <2>2, TransitionFacts
  <2> QED BY <2>1, <2>2 DEF MuCrash
<1>2. ASSUME NEW a \in Instances
      PROVE  /\ handler'[a] \in HandlerType /\ ~Live(handler'[a])
             /\ handler'[a].outcome = "none" /\ handler'[a].at # "creating"
  <2>1. 0 \in Attempts BY MaxClaimsAssumption DEF Attempts
  <2>2. handler'[a] \in {NoHandler, [NoHandler EXCEPT !.at = "gone"]} BY DEF MuCrash
  <2> QED
    BY <2>1, <2>2 DEF NoHandler, HandlerType, Places, Stages, BatchStates, Outcomes, Live
<1>3. handler' \in [Instances -> HandlerType] BY <1>2 DEF MuCrash
<1>4. MuTypeOK' BY <1>0, <1>1, <1>3 DEF MuInv, MuTypeOK
<1>5. HandlersOk' BY <1>2 DEF HandlersOk, HandlerOk, InSync
<1>6. \A b \in Instances : Creator(b)' => Creator(b) BY <1>0, <1>2 DEF Creator
<1>7. OneCreator' BY <1>0, <1>6 DEF MuInv, OneCreator
<1>8. CompletedOk' BY <1>0, <1>1 DEF MuInv, CompletedOk
<1>9. Backed(saved, mode, batches, version)' /\ VersionOk(version, saved)'
  BY <1>0 DEF MuInv
<1> QED BY <1>4, <1>5, <1>7, <1>8, <1>9 DEF MuInv

\* The service decides about a batch that was uploaded.
LEMMA RemoteKeeps ==
  ASSUME MuInv, NEW b \in Instances, RemoteWorks(b) PROVE MuInv'
<1> DEFINE h == handler[b]
<1>0. UNCHANGED <<rowVars, saved, handler, version, mode, profile>> BY DEF RemoteWorks
<1>1. /\ batches \in [Instances -> BatchStates] /\ batches[b] = "uploaded"
      /\ h \in HandlerType /\ handler \in [Instances -> HandlerType]
  BY HandlerFacts DEF RemoteWorks, MuInv, MuTypeOK
<1>2. PICK result \in {"done", "failed", "cancelled"} :
             batches' = [batches EXCEPT ![b] = result]
  BY DEF RemoteWorks
<1>3. /\ batches' \in [Instances -> BatchStates] /\ batches'[b] = result
      /\ \A c \in Instances \ {b} : batches'[c] = batches[c]
  BY <1>1, <1>2 DEF BatchStates
<1>4. Grows(batches, batches', version, version') BY <1>0, <1>1, <1>3 DEF Grows
<1>5. HandlerOk(b, h, mode, batches', version', saved.stage)
  <2>1. ASSUME Live(h) PROVE Backed(h, mode, batches', version)
    BY <1>0, <1>4, <2>1, HandlerFacts, StaysBacked
  <2>2. ASSUME Live(h) PROVE Place(b, h, batches', version, saved.stage)
    <3>1. Place(b, h, batches, version, saved.stage) /\ Backed(h, mode, batches, version)
      BY <2>2, HandlerFacts
    <3>2. h.at = "polled" => h.batch \in Instances
      BY <3>1, HandlerFacts, BatchNumber DEF Backed, Place, FromBatch, RemoteStages
    <3> QED BY <1>1, <1>3, <1>4, <3>1, <3>2 DEF Place, Grows
  <2> QED BY <1>0, <2>1, <2>2, HandlerFacts DEF HandlerOk
<1>6. Creator(b) /\ InSync(b, h, attempt[T], saved) BY <1>1, HandlerFacts DEF Creator
<1>7. handler' = [handler EXCEPT ![b] = h] BY <1>0, <1>1
<1>8. /\ RowTypeOK' /\ state' = state /\ attempt' = attempt /\ profile' \in BOOLEAN
      /\ version' \in VersionType /\ VersionOk(version', saved)
  BY <1>0 DEF rowVars, RowTypeOK, MuInv, MuTypeOK
<1> QED BY <1>0, <1>1, <1>3, <1>4, <1>5, <1>6, <1>7, <1>8, HandlerMoves

\* The steps that change the row, or the profile, alone.
LEMMA RowStepKeeps ==
  ASSUME MuInv,
         \/ PollDue \/ FenceCancelled \/ Interrupt \/ Requeue \/ UserCancels \/ UserRetries
         \/ EditProfile
  PROVE  MuInv'
<1>0. T \in Tasks /\ RowTypeOK /\ profile \in BOOLEAN
  BY MuTaskAssumption DEF T, MuInv, MuTypeOK
<1>1. UNCHANGED <<saved, handler, batches, version, mode>> /\ profile' \in BOOLEAN
  BY <1>0 DEF PollDue, FenceCancelled, Interrupt, Requeue, UserCancels, UserRetries, EditProfile,
              mineruVars
<1>2. ASSUME NEW b, NEW from, NEW to, transition(T, b, from, to), to # "completed"
      PROVE  MuInv'
  BY <1>1, <1>2, TransitionFacts, RowMoves
<1>3. CASE PollDue
  <2>1. /\ RowTypeOK' /\ attempt' = attempt /\ state' = state
    BY <1>0, <1>3 DEF PollDue, ScheduleReached, RowTypeOK, Schedule
  <2> QED BY <1>1, <2>1, RowMoves
<1>4. CASE FenceCancelled BY <1>2, <1>4 DEF FenceCancelled
<1>5. CASE Interrupt BY <1>2, <1>5 DEF Interrupt
<1>6. CASE Requeue BY <1>2, <1>6 DEF Requeue
<1>7. CASE UserCancels
  <2>1. CASE request_running_cancellation(T, attempt[T])
    <3>1. RowTypeOK' /\ attempt' = attempt /\ state' = state
      BY <1>0, <2>1 DEF request_running_cancellation, RowTypeOK
    <3> QED BY <1>1, <3>1, RowMoves
  <2> QED BY <1>2, <1>7, <2>1 DEF UserCancels
<1>8. CASE UserRetries
  <2>1. /\ RowTypeOK' /\ attempt' = attempt /\ state[T] # "completed" /\ state'[T] # "completed"
    BY <1>0, <1>8
    DEF UserRetries, retry_manually, RetryManuallyOk, Retryable, RowTypeOK, TaskState, Schedule
  <2> QED BY <1>1, <2>1, RowMoves
<1>9. CASE EditProfile
  <2>1. /\ RowTypeOK' /\ attempt' = attempt /\ state' = state
    BY <1>0, <1>9 DEF EditProfile, rowVars, RowTypeOK
  <2> QED BY <1>1, <2>1, RowMoves
<1> QED BY <1>3, <1>4, <1>5, <1>6, <1>7, <1>8, <1>9

-----------------------------------------------------------------------------
(* The theorems.                                                           *)

\* The initial row, without handlers and batches, satisfies the invariant.
LEMMA InitHolds == MuInit => MuInv
<1> SUFFICES ASSUME MuInit PROVE MuInv OBVIOUS
<1>0. 0 \in Attempts /\ T \in Tasks
  BY MaxClaimsAssumption, MuTaskAssumption DEF Attempts, T
<1>1. NoHandler \in HandlerType /\ NoHandler.at = "none" /\ NoHandler.outcome = "none"
  BY <1>0 DEF NoHandler, HandlerType, Places, Stages, BatchStates, Outcomes
<1>2. RowTypeOK BY <1>0 DEF MuInit, RowTypeOK, TaskState, Schedule
<1>3. version \in VersionType BY DEF MuInit, VersionType
<1>4. MuTypeOK BY <1>0, <1>1, <1>2, <1>3 DEF MuInit, MuTypeOK, Stages, BatchStates
<1>5. Backed(saved, mode, batches, version)
  BY DEF MuInit, Backed, RemoteStages, FromBatch, FromDownloaded, FromChunked, FromEmbedded,
         FromIndexed
<1>6. HandlersOk BY <1>1 DEF MuInit, HandlersOk, HandlerOk, InSync, Live
<1>7. VersionOk(version, saved) /\ CompletedOk BY <1>0 DEF MuInit, VersionOk, CompletedOk
<1>8. OneCreator BY <1>1 DEF MuInit, OneCreator, Creator
<1> QED BY <1>4, <1>5, <1>6, <1>7, <1>8 DEF MuInv

\* Every step keeps the invariant.
LEMMA StepHolds == MuInv /\ [MuNext]_muVars => MuInv'
<1> SUFFICES ASSUME MuInv, [MuNext]_muVars PROVE MuInv' OBVIOUS
<1>1. CASE UNCHANGED muVars
  <2>1. UNCHANGED <<state, attempt, cancel_requested, next_run_at, saved, handler, batches,
                    version, mode, profile>>
    BY <1>1 DEF muVars, rowVars
  <2>2. RowTypeOK' /\ profile' \in BOOLEAN BY <2>1 DEF RowTypeOK, MuInv, MuTypeOK
  <2> QED BY <2>1, <2>2, RowMoves
<1>2. CASE MuNext
  BY <1>2, ClaimKeeps, CrashKeeps, HandlerStepKeeps, RemoteKeeps, RowStepKeeps DEF MuNext
<1> QED BY <1>1, <1>2

\* The inductive invariant of the pipeline holds in every reachable state: what a
\* checkpoint or a handler believes is backed by the rows and the remote service.
THEOREM PipelineInvariant == MuSpec => []MuInv
  BY InitHolds, StepHolds, PTL DEF MuSpec

\* The checkpoint a later claim resumes from never runs ahead of what is stored, for any
\* number of claims, chunks, faults and commands.
THEOREM CheckpointIsBacked == MuSpec => []CheckpointNeverAhead
<1>1. MuInv => CheckpointNeverAhead BY InvImpliesCheckpoint
<1> QED BY <1>1, PipelineInvariant, PTL

-----------------------------------------------------------------------------
(* The refinement of DocumentPromise.                                      *)

\* The attempts whose batch the service has created.
Submitters == {a \in Instances : batches[a] # "none"}

\* What a step does to the number of batches and to the row.
Quiet == Submitters' = Submitters /\ (state'[T] = "completed" <=> state[T] = "completed")
Submits == UNCHANGED rowVars /\ Submitters = {} /\ \E a \in Instances : Submitters' = {a}
Publishes == Submitters' = Submitters /\ state[T] = "running" /\ state'[T] = "completed"

\* A handler's step is quiet, or it is the call of the service, or the activation.
LEMMA HandlerStepIs ==
  ASSUME MuInv, NEW a \in Instances, HandlerStep(a)
  PROVE  Quiet \/ Submits \/ Publishes
<1> USE DEF rowVars
<1>0. T \in Tasks /\ RowTypeOK /\ batches \in [Instances -> BatchStates]
  BY MuTaskAssumption DEF T, MuInv, MuTypeOK
<1>1. ASSUME batches' = batches, state' = state PROVE Quiet
  BY <1>1 DEF Quiet, Submitters
<1>2. ASSUME NEW stage, NEW batch, NEW schedule, NEW step,
             persist(a, stage, batch, schedule, step)
      PROVE  state' = state
  BY <1>2 DEF persist, checkpoint
<1>3. CASE Persists(a)
  <2>1. batches' = batches
    BY <1>3 DEF Persists, FirstCheckpoint, LocalParse, MarkBatchCreated, MarkSubmitted,
                MarkPolling, ParseArtifact, MarkChunked, MarkEmbedded, MarkIndexed
  <2>2. state' = state
    BY <1>2, <1>3 DEF Persists, FirstCheckpoint, LocalParse, MarkBatchCreated, MarkSubmitted,
                MarkPolling, ParseArtifact, MarkChunked, MarkEmbedded, MarkIndexed
  <2> QED BY <1>1, <2>1, <2>2
<1>4. CASE MarkSubmitting(a) \/ PollResult(a)
  <2>1. state' = state BY <1>2, <1>4 DEF MarkSubmitting, PollResult
  <2> QED BY <1>1, <1>4, <2>1 DEF MarkSubmitting, PollResult
<1>5. CASE create_batch(a)
  <2>1. UNCHANGED rowVars /\ handler[a].at = "creating" /\ Live(handler[a])
    BY <1>5 DEF create_batch, At, Live
  <2>2. batches[a] = "none" BY <2>1, HandlerFacts DEF Place
  <2>3. \A b \in Instances : batches[b] # "none" => b = a
    BY <2>1 DEF MuInv, OneCreator, Creator
  <2>4. Submitters = {} BY <2>2, <2>3 DEF Submitters
  <2>5. CASE batches' = [batches EXCEPT ![a] = "created"]
    <3>1. Submitters' = {a} BY <1>0, <2>2, <2>3, <2>5 DEF Submitters
    <3> QED BY <2>1, <2>4, <3>1 DEF Submits
  <2>6. CASE batches' = batches BY <1>1, <2>1, <2>6
  <2> QED BY <1>5, <2>5, <2>6 DEF create_batch
<1>6. CASE upload(a)
  <2>1. state' = state BY <1>6 DEF upload
  <2>2. CASE batches' = [batches EXCEPT ![a] = IF @ = "created" THEN "uploaded" ELSE @]
    <3>1. \A b \in Instances : batches'[b] # "none" <=> batches[b] # "none" BY <1>0, <2>2
    <3> QED BY <2>1, <3>1 DEF Quiet, Submitters
  <2> QED BY <1>1, <1>6, <2>1, <2>2 DEF upload
<1>7. CASE \/ LoopHead(a) \/ CancelRemote(a) \/ UnknownSubmission(a) \/ ReturnWaiting(a)
           \/ chunk(a) \/ stored_counts(a) \/ CheckBeforeActivation(a) \/ ReturnCompleted(a)
           \/ poll(a) \/ seal_document_manifest(a) \/ persist_parsed_content(a)
           \/ embed_version(a) \/ finalize_flat_index(a) \/ persist_final(a)
  <2>1. batches' = batches /\ state' = state
    BY <1>7 DEF LoopHead, CancelRemote, UnknownSubmission, ReturnWaiting, chunk, stored_counts,
                CheckBeforeActivation, ReturnCompleted, poll, seal_document_manifest,
                persist_parsed_content, embed_version, finalize_flat_index, persist_final
  <2> QED BY <1>1, <2>1
<1>8. CASE activate_document_version_for_task(a)
  <2>1. batches' = batches BY <1>8 DEF activate_document_version_for_task
  <2>2. CASE activate(T, a)
    <3>1. state[T] = "running" /\ state'[T] = "completed"
      BY <1>0, <2>2 DEF activate, ActivateOk, RowTypeOK
    <3> QED BY <2>1, <3>1 DEF Publishes, Submitters
  <2> QED BY <1>1, <1>8, <2>1, <2>2 DEF activate_document_version_for_task
<1>9. CASE FinishClaim(a)
  <2>1. batches' = batches BY <1>9 DEF FinishClaim
  <2>2. CASE UNCHANGED rowVars BY <1>1, <2>1, <2>2
  <2>3. CASE schedule_retry(T, a)
    BY <1>0, <2>1, <2>3 DEF schedule_retry, ScheduleRetryOk, RowTypeOK, Quiet, Submitters
  <2>4. ASSUME NEW to, to # "completed", transition(T, a, "running", to) PROVE Quiet
    BY <2>1, <2>4, TransitionFacts DEF Quiet, Submitters
  <2>5. handler[a].outcome = "completed" => state[T] = "completed"
    BY HandlerFacts DEF MuInv, CompletedOk
  <2> QED BY <1>9, <2>2, <2>3, <2>4, <2>5 DEF FinishClaim
<1> QED BY <1>3, <1>4, <1>5, <1>6, <1>7, <1>8, <1>9 DEF HandlerStep, Persists

\* So is every step.
LEMMA StepIs ==
  ASSUME MuInv, [MuNext]_muVars
  PROVE  Quiet \/ Submits \/ Publishes
<1>0. T \in Tasks /\ RowTypeOK /\ batches \in [Instances -> BatchStates]
  BY MuTaskAssumption DEF T, MuInv, MuTypeOK
<1>1. CASE UNCHANGED muVars BY <1>1 DEF muVars, rowVars, Quiet, Submitters
<1>2. CASE \E a \in Instances : HandlerStep(a) BY <1>2, HandlerStepIs
<1>3. ASSUME NEW a \in Instances, RemoteWorks(a) PROVE Quiet
  <2>1. \A b \in Instances : batches'[b] # "none" <=> batches[b] # "none"
    BY <1>0, <1>3 DEF RemoteWorks
  <2> QED BY <1>3, <2>1 DEF RemoteWorks, rowVars, Quiet, Submitters
<1>4. ASSUME NEW b, NEW from, NEW to, transition(T, b, from, to), to # "completed",
             batches' = batches
      PROVE  Quiet
  BY <1>4, TransitionFacts DEF Quiet, Submitters
<1>5. CASE Claim
  <2>1. state[T] # "completed" /\ state'[T] = "running" /\ batches' = batches
    BY <1>0, <1>5 DEF Claim, claim_next, Candidates, Claimable, RowTypeOK
  <2> QED BY <2>1 DEF Quiet, Submitters
<1>6. CASE PollDue
  BY <1>6 DEF PollDue, ScheduleReached, mineruVars, Quiet, Submitters
<1>7. CASE FenceCancelled \/ Interrupt \/ Requeue
  BY <1>4, <1>7 DEF FenceCancelled, Interrupt, Requeue, mineruVars
<1>8. CASE MuCrash
  BY <1>4, <1>8 DEF MuCrash, rowVars, Quiet, Submitters
<1>9. CASE UserCancels
  BY <1>4, <1>9 DEF UserCancels, request_running_cancellation, Quiet, Submitters
<1>10. CASE UserRetries
  BY <1>0, <1>10
  DEF UserRetries, retry_manually, RetryManuallyOk, Retryable, RowTypeOK, Quiet, Submitters
<1>11. CASE EditProfile
  BY <1>11 DEF EditProfile, rowVars, Quiet, Submitters
<1> QED
  BY <1>1, <1>2, <1>3, <1>5, <1>6, <1>7, <1>8, <1>9, <1>10, <1>11 DEF MuNext

\* The version is published exactly when the task is completed.
LEMMA PublishedIsCompleted ==
  ASSUME MuInv
  PROVE  /\ version.active = (state[T] = "completed")
         /\ Outcome \in {"completed", "stopped", "open"}
         /\ Outcome = "completed" <=> state[T] = "completed"
<1>1. version.active \in BOOLEAN BY DEF MuInv, MuTypeOK, VersionType
<1>2. version.active <=> state[T] = "completed" BY DEF MuInv, VersionOk, CompletedOk
<1> QED BY <1>1, <1>2 DEF Outcome

\* A step of the pipeline is a step of the promise, or none.
LEMMA StepKeepsPromise ==
  ASSUME MuInv, MuInv', [MuNext]_muVars
  PROVE  [Promise!PromiseNext]_Promise!promiseVars
<1>1. /\ version.active = (state[T] = "completed")
      /\ Outcome \in {"completed", "stopped", "open"}
      /\ Outcome = "completed" <=> state[T] = "completed"
  BY PublishedIsCompleted
<1>2. /\ version'.active = (state'[T] = "completed")
      /\ Outcome' \in {"completed", "stopped", "open"}
      /\ Outcome' = "completed" <=> state'[T] = "completed"
  <2>1. version'.active \in BOOLEAN BY DEF MuInv, MuTypeOK, VersionType
  <2>2. version'.active <=> state'[T] = "completed" BY DEF MuInv, VersionOk, CompletedOk
  <2> QED BY <2>1, <2>2 DEF Outcome
<1>3. CASE Quiet
  <2>1. Cardinality(Submitters)' = Cardinality(Submitters) BY <1>3 DEF Quiet
  <2>2. version'.active = version.active BY <1>1, <1>2, <1>3 DEF Quiet
  <2>3. Outcome' = "completed" <=> Outcome = "completed" BY <1>1, <1>2, <1>3 DEF Quiet
  <2> QED
    BY <1>1, <1>2, <2>1, <2>2, <2>3
    DEF Submitters, Promise!PromiseNext, Promise!StopTask, Promise!Reopen, Promise!promiseVars
<1>4. CASE Submits
  <2>1. Cardinality(Submitters) = 0 BY <1>4, FS_EmptySet DEF Submits
  <2>2. Cardinality(Submitters)' = 1 BY <1>4, FS_Singleton DEF Submits
  <2>3. state' = state BY <1>4 DEF Submits, rowVars
  <2>4. Outcome' = Outcome /\ version'.active = version.active BY <1>1, <1>2, <2>3 DEF Outcome
  <2> QED BY <2>1, <2>2, <2>4 DEF Submitters, Promise!PromiseNext, Promise!Submit
<1>5. CASE Publishes
  <2>1. Cardinality(Submitters)' = Cardinality(Submitters) BY <1>5 DEF Publishes
  <2>2. Outcome = "open" /\ ~version.active BY <1>1, <1>5 DEF Publishes, Outcome
  <2>3. Outcome' = "completed" /\ version'.active = TRUE BY <1>2, <1>5 DEF Publishes
  <2> QED BY <2>1, <2>2, <2>3 DEF Submitters, Promise!PromiseNext, Promise!Publish
<1> QED BY <1>3, <1>4, <1>5, StepIs

\* The pipeline implements DocumentPromise: one submission at most, publication only
\* together with completion, and completion for good.
THEOREM PipelineKeepsPromise == MuSpec => KeepsPromise
<1>1. MuInit => Promise!PromiseInit
  <2> SUFFICES ASSUME MuInit PROVE Promise!PromiseInit OBVIOUS
  <2>1. T \in Tasks BY MuTaskAssumption DEF T
  <2>2. {a \in Instances : batches[a] # "none"} = {} BY DEF MuInit
  <2>3. Cardinality({a \in Instances : batches[a] # "none"}) = 0 BY <2>2, FS_EmptySet
  <2> QED BY <2>1, <2>3 DEF MuInit, Outcome, Promise!PromiseInit
<1>2. MuInv /\ MuInv' /\ [MuNext]_muVars => [Promise!PromiseNext]_Promise!promiseVars
  BY StepKeepsPromise
<1> QED BY <1>1, <1>2, PipelineInvariant, PTL DEF MuSpec, KeepsPromise, Promise!PromiseSpec
=============================================================================
