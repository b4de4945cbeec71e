----------------------------- MODULE LocalIndex -----------------------------
(***************************************************************************)
(* The vector index files of one embedding model.                          *)
(*                                                                         *)
(* A rebuild task takes a snapshot of the vectors SQLite holds, removes    *)
(* the .tmp- directories it finds, builds a generation in a .tmp-          *)
(* directory of its own, renames it and lets CURRENT name it.  A reader    *)
(* takes a snapshot of its own and opens the generation CURRENT names only *)
(* if its manifest has the reader's watermark; otherwise it loads the      *)
(* vectors from SQLite.  Nothing serialises rebuilds: the scheduler has    *)
(* two workers, and start_index_rebuild always queues a new task.          *)
(*                                                                         *)
(* remove_dir_all opens the directory, unlinks its entries through the     *)
(* handle and removes the directory by its path, each a step.              *)
(***************************************************************************)
EXTENDS Naturals, FiniteSets

CONSTANTS IxVectors,     \* documents whose vectors SQLite may hold
          Builders,      \* rebuild tasks that may run
          MaxGenerations,
          IxMaxFaults    \* I/O errors and process exits

VARIABLES vectorRows,    \* per document: "new", "stored" or "deleted"
          generation,    \* the directories under the index root
          CURRENT,       \* the generation the file CURRENT names, 0 for none
          builder,       \* the rebuilds at work
          reader,        \* one query or health inspection
          served,        \* CURRENT was built from what SQLite still holds
          overlapped,    \* two rebuilds have been at work at a time
          ixFaults

ixVars == <<vectorRows, generation, CURRENT, builder, reader, served, overlapped, ixFaults>>

Generations == 1..MaxGenerations
IxFiles == {"graph", "metadata"}

\* The rows load_index_snapshot reads, which the watermark digests.
load_index_snapshot == {d \in IxVectors : vectorRows[d] = "stored"}

NoDirectory == [place |-> "none", files |-> {}, snapshot |-> {}]
NoBuild == [at |-> "idle", snapshot |-> {}, victims |-> {}, opened |-> 0, gen |-> 0]
NoRead == [at |-> "idle", snapshot |-> {}, gen |-> 0, records |-> {}, served |-> FALSE]

IxInit ==
    /\ vectorRows = [d \in IxVectors |-> "new"]
    /\ generation = [g \in Generations |-> NoDirectory]
    /\ CURRENT = 0
    /\ builder = [b \in Builders |-> NoBuild]
    /\ reader = NoRead
    /\ served = FALSE
    /\ overlapped = FALSE
    /\ ixFaults = 0

----------------------------------------------------------------------------
(* SQLite: an ingestion stores the vectors of a document, a deletion       *)
(* removes them; a version is never embedded twice.                        *)

StoreVectors(d) ==
    /\ vectorRows[d] = "new"
    /\ vectorRows' = [vectorRows EXCEPT ![d] = "stored"]
    /\ served' = FALSE
    /\ reader' = [reader EXCEPT !.served = FALSE]
    /\ UNCHANGED <<generation, CURRENT, builder, overlapped, ixFaults>>

DeleteVectors(d) ==
    /\ vectorRows[d] = "stored"
    /\ vectorRows' = [vectorRows EXCEPT ![d] = "deleted"]
    /\ served' = FALSE
    /\ reader' = [reader EXCEPT !.served = FALSE]
    /\ UNCHANGED <<generation, CURRENT, builder, overlapped, ixFaults>>

----------------------------------------------------------------------------
(* A rebuild.                                                              *)

Build(b, record) == builder' = [builder EXCEPT ![b] = record]

OwnDirectory(b) == generation[builder[b].gen].place = "tmp"

\* PendingDirectory::drop removes the directory by its .tmp- path, if armed.
BuildFails(b) ==
    /\ Build(b, NoBuild)
    /\ generation' = IF builder[b].gen # 0 /\ OwnDirectory(b)
                     THEN [generation EXCEPT ![builder[b].gen].place = "gone"]
                     ELSE generation
    /\ UNCHANGED <<vectorRows, CURRENT, reader, served, overlapped, ixFaults>>

StartRebuild(b) ==
    /\ builder[b] = NoBuild
    /\ \E g \in Generations : generation[g].place = "none"
    /\ Build(b, [NoBuild EXCEPT !.at = "list", !.snapshot = load_index_snapshot])
    /\ overlapped' = (overlapped \/ \E c \in Builders \ {b} : builder[c] # NoBuild)
    /\ UNCHANGED <<vectorRows, generation, CURRENT, reader, served, ixFaults>>

\* read_dir of prepare_root.
ListTemporaries(b) ==
    /\ builder[b].at = "list"
    /\ Build(b, [builder[b] EXCEPT !.at = "clean",
                    !.victims = {g \in Generations : generation[g].place = "tmp"}])
    /\ UNCHANGED <<vectorRows, generation, CURRENT, reader, served, overlapped, ixFaults>>

\* remove_dir_all opens the directory; a path that is gone fails the build.
OpenVictim(b) ==
    /\ builder[b].at = "clean" /\ builder[b].opened = 0
    /\ \E g \in builder[b].victims :
          IF generation[g].place = "tmp"
          THEN /\ Build(b, [builder[b] EXCEPT !.opened = g])
               /\ UNCHANGED <<vectorRows, generation, CURRENT, reader, served, overlapped, ixFaults>>
          ELSE BuildFails(b)

\* The entries are unlinked through the handle, whatever the directory is
\* called by now.
EmptyVictim(b) ==
    LET g == builder[b].opened
    IN  /\ builder[b].at = "clean" /\ g # 0
        /\ generation[g].files # {}
        /\ \E f \in generation[g].files :
              generation' = [generation EXCEPT ![g].files = @ \ {f}]
        /\ UNCHANGED <<vectorRows, CURRENT, builder, reader, served, overlapped, ixFaults>>

\* The directory itself is removed by its path, and only if it is empty.
RemoveVictim(b) ==
    LET g == builder[b].opened
    IN  /\ builder[b].at = "clean" /\ g # 0
        /\ IF generation[g].place = "tmp" /\ generation[g].files = {}
           THEN /\ generation' = [generation EXCEPT ![g].place = "gone"]
                /\ Build(b, [builder[b] EXCEPT !.opened = 0, !.victims = @ \ {g}])
                /\ UNCHANGED <<vectorRows, CURRENT, reader, served, overlapped, ixFaults>>
           ELSE /\ generation[g].place # "tmp" \/ generation[g].files # {}
                /\ BuildFails(b)

CreateTemporary(b) ==
    /\ builder[b].at = "clean" /\ builder[b].opened = 0 /\ builder[b].victims = {}
    /\ \E g \in Generations :
          /\ generation[g].place = "none"
          /\ \A h \in Generations : h < g => generation[h].place # "none"
          /\ generation' = [generation EXCEPT
                               ![g] = [NoDirectory EXCEPT !.place = "tmp",
                                                          !.snapshot = builder[b].snapshot]]
          /\ Build(b, [builder[b] EXCEPT !.at = "dump", !.gen = g])
    /\ UNCHANGED <<vectorRows, CURRENT, reader, served, overlapped, ixFaults>>

\* Hnsw::file_dump, into a directory another rebuild may have removed.
DumpGraph(b) ==
    /\ builder[b].at = "dump"
    /\ IF OwnDirectory(b)
       THEN /\ generation' = [generation EXCEPT ![builder[b].gen].files = @ \cup {"graph"}]
            /\ Build(b, [builder[b] EXCEPT !.at = "metadata"])
            /\ UNCHANGED <<vectorRows, CURRENT, reader, served, overlapped, ixFaults>>
       ELSE BuildFails(b)

\* The manifest has the digest of the graph, so the graph is read again.
write_metadata(b) ==
    /\ builder[b].at = "metadata"
    /\ IF OwnDirectory(b) /\ "graph" \in generation[builder[b].gen].files
       THEN /\ generation' = [generation EXCEPT ![builder[b].gen].files = @ \cup {"metadata"}]
            /\ Build(b, [builder[b] EXCEPT !.at = "validate"])
            /\ UNCHANGED <<vectorRows, CURRENT, reader, served, overlapped, ixFaults>>
       ELSE BuildFails(b)

\* Mutant: the watermark of the manifest is not compared.
IgnoreWatermark(g, expected) == generation[g].files = IxFiles

\* Identity, watermark and digests of a generation's files.
validate_generation(g, expected) ==
    generation[g].files = IxFiles /\ generation[g].snapshot = expected

\* validate_generation and validate_hnsw_file.
ValidateBuild(b) ==
    /\ builder[b].at = "validate"
    /\ IF OwnDirectory(b) /\ validate_generation(builder[b].gen, builder[b].snapshot)
       THEN /\ Build(b, [builder[b] EXCEPT !.at = "rename"])
            /\ UNCHANGED <<vectorRows, generation, CURRENT, reader, served, overlapped, ixFaults>>
       ELSE BuildFails(b)

\* Mutant: the rename is forgotten, CURRENT names a directory that is not there.
RenameForgotten(b) ==
    /\ builder[b].at = "rename"
    /\ Build(b, [builder[b] EXCEPT !.at = "activate"])
    /\ UNCHANGED <<vectorRows, generation, CURRENT, reader, served, overlapped, ixFaults>>

RenameGeneration(b) ==
    /\ builder[b].at = "rename"
    /\ IF OwnDirectory(b)
       THEN /\ generation' = [generation EXCEPT ![builder[b].gen].place = "final"]
            /\ Build(b, [builder[b] EXCEPT !.at = "activate"])
            /\ UNCHANGED <<vectorRows, CURRENT, reader, served, overlapped, ixFaults>>
       ELSE BuildFails(b)

\* activate: CURRENT is replaced by a rename of a synced file.
ActivateGeneration(b) ==
    /\ builder[b].at = "activate"
    /\ CURRENT' = builder[b].gen
    /\ served' = (builder[b].snapshot = load_index_snapshot)
    /\ Build(b, NoBuild)
    /\ reader' = [reader EXCEPT !.served = @ /\ served']
    /\ UNCHANGED <<vectorRows, generation, overlapped, ixFaults>>

\* An I/O error at any step of a rebuild but its last: once CURRENT names the new
\* generation, an error leaves the state that an exit there leaves (IxExit).
IxIoError(b) ==
    /\ ixFaults < IxMaxFaults
    /\ builder[b].at \notin {"idle", "activate"}
    /\ Build(b, NoBuild)
    /\ generation' = IF builder[b].gen # 0 /\ OwnDirectory(b)
                     THEN [generation EXCEPT ![builder[b].gen].place = "gone"]
                     ELSE generation
    /\ ixFaults' = ixFaults + 1
    /\ UNCHANGED <<vectorRows, CURRENT, reader, served, overlapped>>

\* The process exits: directories stay as they are, tasks start over.
IxExit ==
    /\ ixFaults < IxMaxFaults
    /\ \E b \in Builders : builder[b] # NoBuild
    /\ builder' = [b \in Builders |-> NoBuild]
    /\ reader' = NoRead
    /\ ixFaults' = ixFaults + 1
    /\ UNCHANGED <<vectorRows, generation, CURRENT, served, overlapped>>

----------------------------------------------------------------------------
(* A reader: open_with_flat_fallback of a query, or inspect_snapshot.      *)

Read(record) ==
    /\ reader' = record
    /\ UNCHANGED <<vectorRows, generation, CURRENT, builder, served, overlapped, ixFaults>>

BeginRead ==
    /\ reader.at = "idle"
    /\ Read([NoRead EXCEPT !.at = "current", !.snapshot = load_index_snapshot,
                           !.served = served])

read_current ==
    /\ reader.at = "current"
    /\ Read([reader EXCEPT !.gen = CURRENT,
                           !.at = IF CURRENT = 0 THEN "fallback" ELSE "validate"])

ValidateCurrent ==
    /\ reader.at = "validate"
    /\ LET valid == /\ generation[reader.gen].place = "final"
                    /\ validate_generation(reader.gen, reader.snapshot)
       IN  Read([reader EXCEPT !.at = IF valid THEN "load" ELSE "fallback"])

\* spawn_worker loads the graph, which may be gone since the validation.
spawn_worker ==
    /\ reader.at = "load"
    /\ Read(IF "graph" \in generation[reader.gen].files
            THEN [reader EXCEPT !.at = "hnsw", !.records = generation[reader.gen].snapshot]
            ELSE [reader EXCEPT !.at = "fallback"])

\* FlatVectorIndex::load compares only the number of vectors.
FlatLoad ==
    /\ reader.at = "fallback"
    /\ Read(IF Cardinality(load_index_snapshot) = Cardinality(reader.snapshot)
            THEN [reader EXCEPT !.at = "flat", !.records = load_index_snapshot]
            ELSE [reader EXCEPT !.at = "unavailable"])

EndRead ==
    /\ reader.at \in {"hnsw", "flat", "unavailable"}
    /\ Read(NoRead)

----------------------------------------------------------------------------

BuildStep(b) ==
    \/ StartRebuild(b) \/ ListTemporaries(b)
    \/ OpenVictim(b) \/ EmptyVictim(b) \/ RemoveVictim(b)
    \/ CreateTemporary(b) \/ DumpGraph(b) \/ write_metadata(b) \/ ValidateBuild(b)
    \/ RenameGeneration(b) \/ ActivateGeneration(b) \/ IxIoError(b)

IxNext ==
    \/ \E d \in IxVectors : StoreVectors(d) \/ DeleteVectors(d)
    \/ \E b \in Builders : BuildStep(b)
    \/ BeginRead \/ read_current \/ ValidateCurrent \/ spawn_worker \/ FlatLoad \/ EndRead
    \/ IxExit

IxSpec == IxInit /\ [][IxNext]_ixVars

----------------------------------------------------------------------------

\* A search never runs over a graph built from other vectors than the ones
\* its own snapshot saw (open_hnsw), however many rebuilds finish, fail or
\* remove directories while it opens the graph.
OpenedGraphMatches ==
    reader.at = "hnsw" => reader.records = reader.snapshot

\* Once a rebuild of the vectors SQLite holds has finished, every reader
\* that starts afterwards is served from its graph, as long as no vector
\* changes and no two rebuilds have worked at a time: neither a crashed
\* build nor the cleaning of its remains takes CURRENT's files away.
RebuildServes ==
    reader.served /\ ~overlapped => reader.at \notin {"fallback", "flat", "unavailable"}
=============================================================================
